----------------------------- MODULE IndexBridge -----------------------------
(***************************************************************************)
(* The sync bridge of several devices (AppSync, src/sync/app.rs) around    *)
(* the index document of one space: pushing, peeking at, joining, leaving  *)
(* and destroying the space, the inbound pass that follows what others     *)
(* wrote, the outbound passes of Reconcile, which are gated by revisions   *)
(* of the database and by index_dirty, and the life of an image between    *)
(* its upload and its entry in the index.                                  *)
(*                                                                         *)
(* A pump of the bridge handles the events that have arrived and then      *)
(* reconciles; the user acts between pumps.  The engine and the server are *)
(* what the bridge sees of them (DocReplica and PushPipeline have their    *)
(* inside): an update is pushed and acknowledged at once, and the DocIdle  *)
(* that this emits may reach the bridge any time later.                    *)
(***************************************************************************)
EXTENDS IndexDoc, SequencesExt

CONSTANTS
    Devices,
    Starts,         \* the situations to start from, see IsStart
    Names,          \* names and titles that users give
    Placeholder,    \* the name of a joined space before its index is read
    Clients,        \* Yrs clients: numbers, one for every replica that is made
    MaxAttempts     \* MAX_BLOB_UPLOAD_ATTEMPTS

Kinds == {"push", "fetch", "peek", "forget", "destroy", "rename space",
          "add note", "rename note", "delete note", "file note",
          "add folder", "rename folder", "move folder", "delete folder",
          "paste", "rename image", "delete image"}

Titles == Names \cup {Placeholder, None}
Folder == [name : Names, parent : FolderIds \cup {None}, push : BOOLEAN]
Note == [title : Names, folder : FolderIds \cup {None}, push : BOOLEAN, mapped : BOOLEAN]
Image == [name : Names, push : BOOLEAN, bytes : BOOLEAN]
IsTable(t, ids, rows) == DOMAIN t \subseteq ids /\ \A i \in DOMAIN t : t[i] \in rows
IsDb(x) ==
    /\ DOMAIN x = {"space", "name", "folders", "notes", "images"}
    /\ x.space \in {"absent", "local", "mapped"} /\ x.name \in Titles
    /\ IsTable(x.folders, FolderIds, Folder)
    /\ IsTable(x.notes, NoteIds, Note) /\ IsTable(x.images, ImageIds, Image)
\* What can be under a key.
Values(k) ==
    CASE k[1] = "name" -> Titles
      [] k[1] \in {"parent", "assign"} -> FolderIds \cup {None}
      [] OTHER -> Names \cup {None}
IsUpdate(u) ==
    /\ DOMAIN u \subseteq Keys
    /\ \A k \in DOMAIN u : u[k] \in [path : Seq(Nat), value : Values(k)]
IsServer(s) ==
    /\ DOMAIN s = {"exists", "refuses", "log", "stored"}
    /\ s.exists \in BOOLEAN /\ s.refuses \in BOOLEAN /\ s.stored \subseteq ImageIds
    /\ s.log \in Seq({s.log[i] : i \in DOMAIN s.log})
    /\ \A i \in DOMAIN s.log : IsUpdate(s.log[i].update) /\ s.log[i].lost \in BOOLEAN
\* What the updates of a log make of an empty document.
DocOf(log) ==
    LET doc[i \in 0..Len(log)] ==
            IF i = 0 THEN EmptyDoc ELSE Apply(doc[i - 1], log[i].update)
    IN  doc[Len(log)]
\* The images that the updates of a log remove.
Removals(log) ==
    {i \in ImageIds : \E j \in DOMAIN log :
        ImageKey(i) \in DOMAIN log[j].update /\ log[j].update[ImageKey(i)].value = None}
\* Two items under one key are two items, or one and its tombstone.
Agree(r, s) == r.path = s.path => r.value = s.value \/ None \in {r.value, s.value}
\* A situation is one that the bridges could have come to: an absent space has
\* no contents, a local one has a name of its own and no documents, what is
\* listed or does not wait is stored, what is in the log was written by clients
\* of an earlier time, each item once, a space that is refused does not exist,
\* one that does not exist has no log, the one space there is, is pushed once
\* and by a device that made it, and a device that is caught up has the content
\* of what is listed and of its images that do not wait.
IsSettled(s) ==
    /\ \A d \in Devices :
        LET x == s.db[d]
        IN  /\ x.space = "absent" => x.folders = Nothing /\ x.notes = Nothing /\ x.images = Nothing
            /\ x.space = "local" => x.name \in Names /\ \A n \in DOMAIN x.notes : ~x.notes[n].mapped
            /\ x.space = "mapped" => "push" \notin s.kinds
            /\ d \in s.ready => x.name # Placeholder
            /\ \A i \in DOMAIN x.images : x.images[i].push \/ i \in s.server.stored
    /\ \A j \in DOMAIN s.server.log :
        LET u == s.server.log[j].update
        IN  /\ NameKey \in DOMAIN u => u[NameKey].value # Placeholder
            /\ \A i \in ImageIds : ImageKey(i) \in DOMAIN u /\ u[ImageKey(i)].value # None
                                        => i \in s.server.stored
            /\ s.server.log[j].from \notin Clients
            /\ \A k \in DOMAIN u :
                /\ u[k].path # << >> /\ \A i \in DOMAIN u[k].path : u[k].path[i] \notin Clients
                /\ \A m \in DOMAIN s.server.log :
                      k \in DOMAIN s.server.log[m].update => Agree(u[k], s.server.log[m].update[k])
    /\ s.server.exists => ~s.server.refuses /\ "push" \notin s.kinds
    /\ ~s.server.exists => s.server.log = << >> /\ s.ready = {}
    /\ \A d \in s.ready :
        /\ \A i \in Listed(DocOf(s.server.log), "image", ImageIds) :
              i \in DOMAIN s.db[d].images /\ s.db[d].images[i].bytes
        /\ \A i \in DOMAIN s.db[d].images : s.db[d].images[i].push \/ s.db[d].images[i].bytes
\* The operations the users may do, the databases, what the server has, the
\* devices that are connected and caught up, the bounds (operations of the
\* users, connections lost, programs ended and started again), whether the task
\* that opens the index in the engine may run late, after the pump that asked
\* for it has written to the index, and the images above MAX_BLOB_BYTES.
IsStart(s) ==
    /\ s.kinds \subseteq Kinds /\ IsServer(s.server)
    /\ DOMAIN s.db = Devices /\ \A d \in Devices : IsDb(s.db[d])
    /\ s.ready \subseteq {d \in Devices : s.db[d].space = "mapped"}
    /\ s.ops \in Nat /\ s.drops \in Nat /\ s.restarts \in Nat /\ s.late \in BOOLEAN
    /\ s.big \subseteq ImageIds /\ IsSettled(s)

ASSUME StartsAssumption == \A s \in Starts : IsStart(s)
ASSUME ClientsAssumption == Clients \subseteq Nat \ {0}
ASSUME NamesAssumption == None \notin Names /\ Placeholder \notin Names \cup {None}
ASSUME AttemptsAssumption == MaxAttempts \in Nat \ {0}
ASSUME ImagesAssumption == IsFiniteSet(ImageIds)

VARIABLES
    db,        \* the database of every device
    bridge,    \* its AppSync
    engine,    \* what the bridge sees of its engine
    server,
    start,     \* the operations of the situation, and what is left of its bounds
    clients,   \* the Yrs clients there have been
    (* history *)
    used,      \* folders, notes and images that have existed
    deleted,   \* folders, notes and images that a user has deleted
    intents    \* what the users have made of the items of the index: for every
               \* key the devices and the last value

history == <<used, deleted, intents>>
vars == <<db, bridge, engine, server, start, clients, history>>

\* What AppSync keeps of the space, and what it keeps beside.
NoRuntime ==
    [has |-> FALSE, replica |-> EmptyDoc, live |-> FALSE, author |-> FALSE,
     titles |-> Nothing, removedFolders |-> {}, removedImages |-> {},
     joining |-> "no", peeked |-> FALSE, known |-> None]
NewBridge == Over(NoRuntime,
    [pushing |-> FALSE, peeking |-> FALSE, refused |-> FALSE, creating |-> Nothing,
     dirty |-> FALSE, moved |-> {}, due |-> FALSE,
     uploading |-> {}, failed |-> {}, tries |-> [b \in ImageIds |-> 0]])
NewEngine(client) ==
    [up |-> FALSE, knows |-> FALSE, open |-> FALSE, opening |-> FALSE, client |-> client,
     seen |-> 0, target |-> 0, out |-> Nothing, lost |-> FALSE, idle |-> FALSE,
     refusal |-> FALSE, destroyed |-> FALSE,
     wire |-> [b \in ImageIds |-> 0], waiting |-> {}, results |-> << >>, fetching |-> {}]

TypeOK ==
    /\ \A d \in Devices :
        /\ IsDb(db[d])
        /\ DOMAIN bridge[d] = DOMAIN NewBridge /\ DOMAIN engine[d] = DOMAIN NewEngine(0)
        /\ DOMAIN bridge[d].replica = Keys /\ IsUpdate(bridge[d].replica)
        /\ IsTable(bridge[d].titles, NoteIds, Names \cup {None})
        /\ bridge[d].removedFolders \subseteq FolderIds
        /\ bridge[d].removedImages \subseteq ImageIds
        /\ bridge[d].joining \in {"no", "asked", "hung"}
        /\ bridge[d].known \in Titles /\ bridge[d].moved \subseteq {"spaces", "folders", "images"}
        /\ IsTable(bridge[d].creating, NoteIds, {"asked", "made", "failed"})
        /\ bridge[d].uploading \cup bridge[d].failed \subseteq ImageIds
        /\ \A i \in ImageIds : bridge[d].tries[i] \in Nat /\ bridge[d].tries[i] < MaxAttempts
        /\ engine[d].client \in Clients /\ IsUpdate(engine[d].out)
        /\ engine[d].seen \in 0..Len(server.log) /\ engine[d].target \in 0..Len(server.log)
        /\ engine[d].wire \in [ImageIds -> Nat]
        /\ engine[d].waiting \cup engine[d].fetching \subseteq ImageIds
    /\ IsServer(server)
    /\ start.kinds \subseteq Kinds /\ {start.ops, start.drops, start.restarts} \subseteq Nat
    /\ clients \subseteq Clients
    /\ used \cup deleted \subseteq FolderIds \cup NoteIds \cup ImageIds
    /\ \A k \in DOMAIN intents : k \in Keys /\ intents[k].by \subseteq Devices

Changes(d, newDb, newBridge, newEngine) ==
    /\ db' = [db EXCEPT ![d] = newDb]
    /\ bridge' = [bridge EXCEPT ![d] = newBridge]
    /\ engine' = [engine EXCEPT ![d] = newEngine]
Moves(b, tables) == [b EXCEPT !.moved = @ \cup tables]

-----------------------------------------------------------------------------
(* The engine: an update for a document it has not opened is dropped, and  *)
(* whatever the client writes later cannot be integrated by the others.    *)

\* mutant: the answer to an update counts as read what others wrote before it.
PastOwn(e, seen, log) ==
    CHOOSE i \in seen..Len(log) :
        /\ i = seen \/ log[i].from = e.client
        /\ \A j \in (i + 1)..Len(log) : log[j].from # e.client
\* What changes nothing is read at once: updates that the client has itself
\* written, and those that cannot be integrated.
Past(e, seen, log) ==
    CHOOSE i \in seen..Len(log) :
        /\ \A j \in (seen + 1)..i : log[j].from = e.client \/ log[j].lost
        /\ i < Len(log) => log[i + 1].from # e.client /\ ~log[i + 1].lost

Queued(e, update) ==
    CASE update = Nothing -> e
      [] update # Nothing /\ e.open -> [e EXCEPT !.out = Apply(@, update)]
      [] OTHER -> [e EXCEPT !.lost = TRUE]
Opened(e) ==
    IF e.open THEN e
    ELSE [e EXCEPT !.open = TRUE, !.opening = FALSE, !.seen = Past(e, 0, server.log),
                   !.target = Len(server.log)]
AskOpen(e) == IF start.late /\ ~e.open THEN [e EXCEPT !.opening = TRUE] ELSE Opened(e)

Results(e, B, result) == [e EXCEPT !.results = @ \o SetToSeq({<<b, result>> : b \in B})]

\* put_blob for the images of B.  The engine keeps one waiter for an image: the
\* one of an earlier upload is dropped, which its task sees as an error.
Sent(e, B) == IF e.knows /\ e.up THEN B \ start.big ELSE {}
Put(e, B) ==
    LET now == Sent(e, B)
        big == IF e.knows THEN B \cap start.big ELSE {}
        told == Results(Results(e, big, "big"), (B \ (now \cup big)) \cup (now \cap e.waiting), "error")
    IN  [told EXCEPT !.waiting = @ \cup now,
                     !.wire = [b \in ImageIds |-> IF b \in now THEN @[b] + 1 ELSE @[b]]]

\* forget_space_state.
Forgotten(e) ==
    [Results(e, e.waiting, "error") EXCEPT
        !.knows = FALSE, !.open = FALSE, !.opening = FALSE, !.seen = 0, !.target = 0,
        !.out = Nothing, !.waiting = {}, !.fetching = {}]

-----------------------------------------------------------------------------
(* What a pump does at its end. *)

\* mutant: a device that has not read the name of the space writes the one it has.
NamesUnread(b) == TRUE
\* Only a device that has made the name or read it writes it.
MayName(b) == b.author
\* mutant: what was changed while the index was not live is not written.
MovedSince(b, table) == b.live /\ table \in b.moved
\* Whether a pass goes over a table.
Gate(b, table) == b.live /\ (table \in b.moved \/ b.dirty)
\* What a pass writes into the index: the titles always, the rest when its
\* revision has moved or the index is dirty, and the replica is live.
Wanted(x, b) ==
    LET gate(table) == x.space = "mapped" /\ Gate(b, table)
        part(on, want) == IF on THEN want ELSE Nothing
    IN  Over(Over(TitleWants(x, b.titles),
                  part(gate("spaces") /\ MayName(b), NameWants(x))),
             Over(part(gate("folders"), FolderWants(x, DOMAIN b.titles, b.removedFolders)),
                  part(gate("images"), ImageWants(x, b.removedImages))))
WrittenTitles(x, titles) ==
    [n \in DOMAIN titles |-> IF n \in DOMAIN x.notes THEN x.notes[n].title ELSE titles[n]]
Reship(x, b) ==
    IF x.space # "mapped" THEN {}
    ELSE {i \in DOMAIN x.images : x.images[i].push /\ x.images[i].bytes} \ (b.uploading \cup b.failed)


Registered(b, N) == [b EXCEPT !.titles = Over([n \in N |-> None], @)]
Mapped(x) == {n \in DOMAIN x.notes : x.notes[n].mapped}
\* push_note for the notes of the space that have no document.
Creating(x, b) ==
    [b EXCEPT !.creating = Over([n \in DOMAIN x.notes \ Mapped(x) |-> "asked"], @)]

\* What a pass makes of the bridge.
Passed(x, b, update) ==
    LET asked == IF x.space = "mapped" THEN Creating(x, b) ELSE b
    IN  [asked EXCEPT
            !.replica = Apply(@, update), !.moved = {}, !.dirty = FALSE,
            !.titles = WrittenTitles(x, @),
            !.removedFolders = IF Gate(b, "folders") THEN {} ELSE @,
            !.removedImages = IF Gate(b, "images") THEN {} ELSE @,
            !.uploading = @ \cup Reship(x, b)]
Written(x, b, e) == IF b.has THEN Update(b.replica, Wanted(x, b), e.client) ELSE Nothing
Works(x, b, e) == Passed(x, b, Written(x, b, e)) # b \/ Reship(x, b) # {}

\* Device d has handled an event; `due` says whether the pump that did has
\* something left to do, which comes before the user acts again.
Handled(d, x, b, e) == Changes(d, x, [b EXCEPT !.due = Works(x, b, e)], e)

Reconcile(d) ==
    LET x == db[d]
        b == bridge[d]
        update == Written(x, b, engine[d])
    IN  /\ Works(x, b, engine[d])
        /\ Changes(d, x, [Passed(x, b, update) EXCEPT !.due = FALSE],
                   Put(Queued(engine[d], update), Reship(x, b)))
        /\ UNCHANGED <<server, start, clients, history>>

-----------------------------------------------------------------------------
(* The inbound pass: sync_index_to_notes and adopt_remote_blobs. *)

Adopted(x, b) ==
    LET noted == NotesAdopted(NameAdopted(x, b.replica), b.titles, b.replica)
        filled == FoldersAdopted(noted, b.replica, b.removedFolders)
        pruned == IF b.live THEN FoldersDeleted(filled, StaleFolders(filled, b.replica)) ELSE filled
        docs == DOMAIN TitlesSeen(x, b.titles, b.replica)
        filed == NotesFiled(pruned, docs, b.replica)
    IN  IF b.live THEN ImagesAdopted(filed, b.replica, b.removedImages) ELSE filed
InboundDb(x, b) == IF b.has /\ x.space = "mapped" THEN Adopted(x, b) ELSE x

Whereabouts(x) == [n \in DOMAIN x.notes |-> x.notes[n].folder]
InboundBridge(x, b) ==
    LET y == Adopted(x, b)
        name == b.replica[NameKey].value
        tables == (IF y.name # x.name THEN {"spaces"} ELSE {})
                  \cup (IF y.folders # x.folders \/ \E n \in DOMAIN x.notes :
                                y.notes[n].folder # x.notes[n].folder THEN {"folders"} ELSE {})
                  \cup (IF y.images # x.images THEN {"images"} ELSE {})
        seen == [b EXCEPT !.author = @ \/ name # None]
    IN  CASE ~b.has -> b
          [] b.has /\ x.space # "mapped" -> [seen EXCEPT !.known = IF name = None THEN @ ELSE name]
          [] OTHER -> [Moves(seen, tables) EXCEPT
                          !.titles = TitlesSeen(x, @, b.replica)]
\* mutant: an image is asked for once, when it is adopted.
FetchedOnce(x, b, e) ==
    LET wanted == DOMAIN Adopted(x, b).images \ DOMAIN x.images
    IN  IF b.has /\ b.live /\ x.space = "mapped" /\ e.up /\ e.knows
        THEN [e EXCEPT !.fetching = @ \cup wanted] ELSE e
\* Images that are listed and whose content is missing are asked for.
InboundEngine(x, b, e) ==
    LET y == Adopted(x, b)
        wanted == {i \in DOMAIN y.images : ~y.images[i].bytes} \cap Listed(b.replica, "image", ImageIds)
    IN  IF b.has /\ b.live /\ x.space = "mapped" /\ e.up /\ e.knows
        THEN [e EXCEPT !.fetching = @ \cup wanted] ELSE e

\* Device d handles an event that leaves x, b and e, and runs the pass.
Inbound(d, x, b, e) ==
    Handled(d, InboundDb(x, b), InboundBridge(x, b), InboundEngine(x, b, e))

-----------------------------------------------------------------------------
(* Events of the engine. *)

Quietly == UNCHANGED <<start, clients, history>>

\* A new connection: the mapped space is fetched again.
Connect(d) ==
    /\ ~engine[d].up
    /\ Handled(d, db[d],
               [bridge[d] EXCEPT !.joining =
                        IF db[d].space = "mapped" /\ @ = "no" THEN "asked" ELSE @],
               [engine[d] EXCEPT !.up = TRUE, !.target = IF engine[d].open THEN Len(server.log) ELSE 0])
    /\ UNCHANGED server /\ Quietly

\* A connection is lost.  The answer to a join that was sent over it never comes.
Disconnect(d) ==
    LET e == engine[d]
        b == bridge[d]
        lost == [e EXCEPT !.up = FALSE, !.waiting = {}, !.fetching = {},
                          !.wire = [i \in ImageIds |-> 0]]
        offline == [b EXCEPT
            !.live = FALSE, !.peeking = @ /\ e.knows,
            !.joining = IF @ = "asked" /\ ~e.knows THEN "hung" ELSE @,
            !.creating = [n \in DOMAIN @ |-> IF @[n] = "asked" THEN "failed" ELSE @[n]]]
    IN  /\ e.up /\ start.drops > 0
        /\ start' = [start EXCEPT !.drops = @ - 1]
        /\ Handled(d, db[d], offline, Results(lost, e.waiting, "error"))
        /\ UNCHANGED <<server, clients, history>>

Deliver(d) ==
    LET e == engine[d]
        update == server.log[e.seen + 1].update
    IN  /\ e.up /\ e.open /\ server.exists /\ e.seen < Len(server.log)
        /\ Inbound(d, db[d], [bridge[d] EXCEPT !.replica = Apply(@, update)],
                   [e EXCEPT !.seen = Past(e, @ + 1, server.log)])
        /\ UNCHANGED server /\ Quietly

\* DocSynced of the index.
Synced(d) ==
    /\ engine[d].up /\ engine[d].open /\ server.exists /\ bridge[d].has
    /\ ~bridge[d].live /\ engine[d].seen >= engine[d].target
    /\ Inbound(d, db[d], [bridge[d] EXCEPT !.live = TRUE, !.dirty = TRUE], engine[d])
    /\ UNCHANGED server /\ Quietly

\* The engine pushes what is queued and gets it acknowledged.
Push(d) ==
    LET e == engine[d]
        log == Append(server.log, [from |-> e.client, update |-> e.out, lost |-> e.lost])
    IN  /\ e.up /\ e.open /\ e.out # Nothing /\ server.exists
        /\ server' = [server EXCEPT !.log = log]
        /\ engine' = [m \in Devices |->
              IF m = d THEN [engine[m] EXCEPT !.out = Nothing, !.idle = TRUE,
                                                  !.seen = Past(e, @, log)]
              ELSE [engine[m] EXCEPT !.seen = Past(engine[m], @, log)]]
        /\ UNCHANGED <<db, bridge>> /\ Quietly

\* DocIdle of the index: clear_acked_folder_flags.
Idle(d) ==
    LET doc == bridge[d].replica
        acked(f) == /\ doc[FolderKey(f)].value = db[d].folders[f].name
                    /\ doc[ParentKey(f)].value = db[d].folders[f].parent
        there(n) == n \in DOMAIN bridge[d].titles
                    /\ doc[AssignKey(n)].value = db[d].notes[n].folder
        folders == [f \in DOMAIN db[d].folders |->
                       [db[d].folders[f] EXCEPT !.push = @ /\ ~acked(f)]]
        notes == [n \in DOMAIN db[d].notes |-> [db[d].notes[n] EXCEPT !.push = @ /\ ~there(n)]]
    IN  /\ engine[d].idle
        /\ IF bridge[d].has /\ db[d].space = "mapped"
           THEN Handled(d, [db[d] EXCEPT !.folders = folders, !.notes = notes], bridge[d],
                        [engine[d] EXCEPT !.idle = FALSE])
           ELSE Handled(d, db[d], bridge[d], [engine[d] EXCEPT !.idle = FALSE])
        /\ UNCHANGED server /\ Quietly

OpenIndex(d) ==
    /\ engine[d].opening
    /\ engine' = [engine EXCEPT ![d] = IF @.knows THEN Opened(@) ELSE [@ EXCEPT !.opening = FALSE]]
    /\ UNCHANGED <<db, bridge, server>> /\ Quietly

-----------------------------------------------------------------------------
(* The space: results of push_space, fetch_space, peek_space and push_note, *)
(* and what the server says of the space.                                   *)

\* drop_space_runtime.
Dropped(b) == Over(b, NoRuntime)
Unmapped(x) ==
    [x EXCEPT !.space = "local",
              !.notes = [n \in DOMAIN @ |-> [@[n] EXCEPT !.mapped = FALSE]]]

\* mutant: a result is taken although the server has refused the space.
ResultTaken(b) == TRUE
Counts(b) == ~b.refused
SpacePushed(d) ==
    LET x == [db[d] EXCEPT !.space = "mapped"]
        b == [bridge[d] EXCEPT !.pushing = FALSE]
        update == Update(b.replica, NameWants(x), engine[d].client)
        bound == [b EXCEPT !.has = TRUE, !.author = TRUE, !.replica = Apply(@, update)]
    IN  /\ bridge[d].pushing
        /\ IF Counts(b)
           THEN Handled(d, x, Moves(Creating(x, bound), {"spaces"}), Queued(engine[d], update))
           ELSE Handled(d, db[d], b, engine[d])
        /\ UNCHANGED server /\ Quietly

\* The engine answers create_doc, then the bridge handles the answer.
MakeDoc(d, n) ==
    /\ bridge[d].creating[n] = "asked"
    /\ bridge' = [bridge EXCEPT ![d].creating[n] =
                    IF engine[d].knows /\ engine[d].up THEN "made" ELSE "failed"]
    /\ UNCHANGED <<db, engine, server>> /\ Quietly
DocCreated(d, n) ==
    LET b == [bridge[d] EXCEPT !.creating = Without(@, {n})]
        x == IF n \in DOMAIN db[d].notes THEN [db[d] EXCEPT !.notes[n].mapped = TRUE] ELSE db[d]
    IN  /\ bridge[d].creating[n] # "asked"
        /\ IF Counts(b) /\ bridge[d].creating[n] = "made"
           THEN Handled(d, x, Registered(b, {n}), engine[d])
           ELSE Handled(d, db[d], b, engine[d])
        /\ UNCHANGED server /\ Quietly

Mirror(d) ==
    IF db[d].space # "absent" THEN db[d]
    ELSE [db[d] EXCEPT !.space = "mapped",
                       !.name = IF bridge[d].known = None THEN Placeholder ELSE bridge[d].known]
Joinable(e) == e.knows \/ (e.up /\ server.exists)
SpaceJoined(d) ==
    LET b == [bridge[d] EXCEPT !.joining = "no", !.peeking = FALSE]
        x == Mirror(d)
        has == Moves([b EXCEPT !.has = TRUE], IF x # db[d] THEN {"spaces"} ELSE {})
        e == AskOpen([engine[d] EXCEPT !.knows = TRUE])
        y == InboundDb(x, has)
    IN  /\ bridge[d].joining = "asked"
        /\ IF Joinable(engine[d])
           THEN Handled(d, y, Registered(InboundBridge(x, has), Mapped(y)), InboundEngine(x, has, e))
           ELSE Handled(d, db[d], b, engine[d])
        /\ UNCHANGED server /\ Quietly

SpacePeeked(d) ==
    LET b == [bridge[d] EXCEPT !.peeking = FALSE]
    IN  /\ bridge[d].peeking
        /\ IF Joinable(engine[d])
           THEN Inbound(d, db[d], [b EXCEPT !.has = TRUE], AskOpen([engine[d] EXCEPT !.knows = TRUE]))
           ELSE Handled(d, db[d], b, engine[d])
        /\ UNCHANGED server /\ Quietly

\* The relay refuses the space for want of an account: the engine forgets it
\* and tells the bridge, which may hear of it before the result of the push.
Refuse(d) ==
    /\ server.refuses /\ engine[d].knows /\ engine[d].up
    /\ engine' = [engine EXCEPT ![d] = [Forgotten(@) EXCEPT !.refusal = TRUE]]
    /\ UNCHANGED <<db, bridge, server>> /\ Quietly
SpaceRejected(d) ==
    LET b == [bridge[d] EXCEPT !.refused = TRUE, !.has = FALSE, !.replica = EmptyDoc,
                    !.live = FALSE, !.author = FALSE, !.titles = Nothing,
                    !.known = None, !.peeked = FALSE]
        e == [engine[d] EXCEPT !.refusal = FALSE]
    IN  /\ engine[d].refusal
        /\ IF db[d].space = "mapped"
           THEN Handled(d, Unmapped(db[d]), Moves([b EXCEPT !.pushing = FALSE], {"spaces"}), e)
           ELSE Handled(d, db[d], b, e)
        /\ UNCHANGED server /\ Quietly

\* The owner has destroyed the space: unsync_space keeps the local copy.
SpaceDeleted(d) ==
    LET e == [engine[d] EXCEPT !.destroyed = FALSE]
    IN  /\ engine[d].destroyed
        /\ IF db[d].space = "mapped"
           THEN Handled(d, Unmapped(db[d]), Moves(Dropped(bridge[d]), {"spaces"}), e)
           ELSE Handled(d, db[d], Dropped(bridge[d]), e)
        /\ UNCHANGED server /\ Quietly

-----------------------------------------------------------------------------
(* Images. *)

\* The server stores an image and answers; the waiter, if there is one, gets it.
StoreImage(d, i) ==
    LET e == [engine[d] EXCEPT !.wire[i] = @ - 1, !.waiting = @ \ {i}]
    IN  /\ engine[d].up /\ engine[d].wire[i] > 0 /\ server.exists
        /\ server' = [server EXCEPT !.stored = @ \cup {i}]
        /\ engine' = [engine EXCEPT ![d] =
                        IF i \in engine[d].waiting THEN Results(e, {i}, "stored") ELSE e]
        /\ UNCHANGED <<db, bridge>> /\ Quietly

\* mutant: one attempt too many.
TriedAgain(result, tries) == result = "big" \/ tries + 1 > MaxAttempts
GivenUp(result, tries) == result = "big" \/ tries + 1 >= MaxAttempts
BlobUploaded(d) ==
    LET i == Head(engine[d].results)[1]
        result == Head(engine[d].results)[2]
        e == [engine[d] EXCEPT !.results = Tail(@)]
        b == [bridge[d] EXCEPT !.uploading = @ \ {i}]
        quarantined == [b EXCEPT !.failed = @ \cup {i}, !.tries[i] = 0]
        flagged == i \in DOMAIN db[d].images /\ db[d].images[i].push
    IN  /\ engine[d].results # << >>
        /\ CASE result = "stored" ->
                  Handled(d, IF flagged THEN [db[d] EXCEPT !.images[i].push = FALSE] ELSE db[d],
                          Moves([b EXCEPT !.failed = @ \ {i}, !.tries[i] = 0],
                                    IF flagged THEN {"images"} ELSE {}), e)
             [] result # "stored" /\ GivenUp(result, b.tries[i]) ->
                  Handled(d, db[d], quarantined, e)
             [] OTHER -> Handled(d, db[d], [b EXCEPT !.tries[i] = @ + 1], e)
        /\ UNCHANGED server /\ Quietly

BlobFetched(d, i) ==
    LET e == [engine[d] EXCEPT !.fetching = @ \ {i}]
    IN  /\ i \in engine[d].fetching
        /\ IF i \in server.stored /\ i \in DOMAIN db[d].images
           THEN Handled(d, [db[d] EXCEPT !.images[i].bytes = TRUE],
                        Moves(bridge[d], {"images"}), e)
           ELSE Handled(d, db[d], bridge[d], e)
        /\ UNCHANGED server /\ Quietly

-----------------------------------------------------------------------------
(* The users, between pumps. *)

Acts(d, kind) ==
    /\ kind \in start.kinds /\ start.ops > 0 /\ start' = [start EXCEPT !.ops = @ - 1]
    /\ ~bridge[d].due
    /\ UNCHANGED clients
\* The user of d makes `items` of the index say what they are mapped to, has
\* deleted `gone` and made `fresh`.
Intends(d, items, gone, fresh) ==
    LET by(k) == {d} \cup (IF k \in DOMAIN intents THEN intents[k].by ELSE {})
    IN  /\ intents' = Over(intents, [k \in DOMAIN items |-> [by |-> by(k), value |-> items[k]]])
        /\ deleted' = deleted \cup gone
        /\ used' = used \cup fresh
\* An operation on the database alone, of the tables with a revision.
Local(d, x, tables) ==
    Changes(d, x, Moves(bridge[d], tables), engine[d]) /\ UNCHANGED server

PushSpace(d) ==
    LET e == engine[d]
        made == [e EXCEPT !.knows = TRUE, !.open = TRUE, !.seen = 0, !.target = 0]
    IN  /\ Acts(d, "push")
        /\ db[d].space = "local" /\ ~bridge[d].pushing
        /\ ~server.exists /\ NameKey \notin DOMAIN intents
        /\ Changes(d, db[d], [bridge[d] EXCEPT !.pushing = e.up], IF e.up THEN made ELSE e)
        /\ server' = [server EXCEPT !.exists = e.up /\ ~server.refuses]
        /\ Intends(d, Only(NameKey, db[d].name), {}, {})

FetchSpace(d) ==
    /\ Acts(d, "fetch")
    /\ engine[d].up /\ server.exists /\ db[d].space = "absent" /\ bridge[d].joining = "no"
    /\ bridge' = [bridge EXCEPT ![d].joining = "asked"]
    /\ UNCHANGED <<db, engine, server, history>>

PeekSpace(d) ==
    /\ Acts(d, "peek")
    /\ engine[d].up /\ server.exists /\ db[d].space = "absent" /\ bridge[d].joining = "no"
    /\ bridge[d].known = None /\ ~bridge[d].peeked
    /\ bridge' = [bridge EXCEPT ![d].peeked = TRUE, ![d].peeking = TRUE]
    /\ UNCHANGED <<db, engine, server, history>>

\* The local mirror is deleted.
Empty == [space |-> "absent", name |-> None, folders |-> Nothing, notes |-> Nothing,
          images |-> Nothing]
ForgetSpace(d) ==
    /\ "forget" \in start.kinds /\ start.ops > 0 /\ start' = [start EXCEPT !.ops = @ - 1]
    /\ ~bridge[d].due /\ db[d].space = "mapped"
    /\ \E c \in Clients \ clients :
        /\ clients' = clients \cup {c}
        /\ Changes(d, Empty, Moves(Dropped(bridge[d]), {"spaces", "folders", "images"}),
                   [Forgotten(engine[d]) EXCEPT !.client = c])
    /\ UNCHANGED <<server, history>>

\* The owner destroys the space: every connected member is told.
DestroySpace(d) ==
    /\ Acts(d, "destroy")
    /\ engine[d].up /\ engine[d].knows /\ server.exists /\ db[d].space = "mapped"
    /\ server' = [server EXCEPT !.exists = FALSE, !.log = << >>, !.stored = {}]
    /\ engine' = [m \in Devices |->
          IF engine[m].up /\ engine[m].knows
          THEN [Forgotten(engine[m]) EXCEPT !.destroyed = TRUE]
          ELSE [engine[m] EXCEPT !.seen = 0, !.target = 0]]
    /\ UNCHANGED <<db, bridge, history>>

RenameSpace(d, name) ==
    /\ Acts(d, "rename space") /\ db[d].space # "absent" /\ db[d].name # name
    /\ Local(d, [db[d] EXCEPT !.name = name], {"spaces"})
    /\ Intends(d, Only(NameKey, name), {}, {})

AddNote(d, n, title) ==
    /\ Acts(d, "add note") /\ db[d].space # "absent" /\ n \notin used
    /\ Local(d, [db[d] EXCEPT !.notes = Over(@, Only(n,
                    [title |-> title, folder |-> None, push |-> FALSE, mapped |-> FALSE]))], {})
    /\ Intends(d, Only(NoteKey(n), title), {}, {n})
RenameNote(d, n, title) ==
    /\ Acts(d, "rename note") /\ n \in DOMAIN db[d].notes /\ db[d].notes[n].title # title
    /\ Local(d, [db[d] EXCEPT !.notes[n].title = title], {})
    /\ Intends(d, Only(NoteKey(n), title), {}, {})
DeleteNote(d, n) ==
    /\ Acts(d, "delete note") /\ n \in DOMAIN db[d].notes
    /\ Local(d, [db[d] EXCEPT !.notes = Without(@, {n})], {})
    /\ Intends(d, Nothing, {n}, {})
FileNote(d, n, f) ==
    /\ Acts(d, "file note") /\ n \in DOMAIN db[d].notes
    /\ f \in {None} \cup DOMAIN db[d].folders /\ db[d].notes[n].folder # f
    /\ Local(d, [db[d] EXCEPT !.notes[n].folder = f, !.notes[n].push = TRUE], {"folders"})
    /\ Intends(d, Only(AssignKey(n), f), {}, {})

AddFolder(d, f, name, parent) ==
    /\ Acts(d, "add folder") /\ db[d].space # "absent" /\ f \notin used
    /\ parent \in {None} \cup DOMAIN db[d].folders
    /\ Local(d, [db[d] EXCEPT !.folders =
                    Over(@, Only(f, [name |-> name, parent |-> parent, push |-> TRUE]))], {"folders"})
    /\ Intends(d, Over(Only(FolderKey(f), name), Only(ParentKey(f), parent)), {}, {f})
RenameFolder(d, f, name) ==
    /\ Acts(d, "rename folder") /\ f \in DOMAIN db[d].folders /\ db[d].folders[f].name # name
    /\ Local(d, [db[d] EXCEPT !.folders[f].name = name, !.folders[f].push = TRUE], {"folders"})
    /\ Intends(d, Only(FolderKey(f), name), {}, {})
MoveFolder(d, f, parent) ==
    /\ Acts(d, "move folder") /\ f \in DOMAIN db[d].folders /\ db[d].folders[f].parent # parent
    /\ parent \in {None} \cup (DOMAIN db[d].folders \ Subtree(db[d].folders, f))
    /\ Local(d, [db[d] EXCEPT !.folders[f].parent = parent, !.folders[f].push = TRUE], {"folders"})
    /\ Intends(d, Only(ParentKey(f), parent), {}, {})
\* mutant: the folders below one that is deleted are not removed from the index.
RemovesOne(x, f) == {f}
\* folder_deleted: what waits to be removed from the index.
Removes(x, f) == Subtree(x.folders, f)
DeleteFolder(d, f) ==
    LET x == db[d]
        b == bridge[d]
        gone == Subtree(x.folders, f)
        queued == IF x.space = "mapped"
                  THEN [b EXCEPT !.removedFolders = @ \cup Removes(x, f), !.dirty = TRUE] ELSE b
    IN  /\ Acts(d, "delete folder") /\ f \in DOMAIN x.folders
        /\ Changes(d, FoldersDeleted(x, {f}), Moves(queued, {"folders"}), engine[d])
        /\ Intends(d, [k \in {FolderKey(g) : g \in gone} \cup {AssignKey(n) : n \in
                            {m \in DOMAIN x.notes : x.notes[m].folder \in gone}} |-> None], gone, {})
        /\ UNCHANGED server

\* A new image, or one that is known but not fetched.  In a synced space it is
\* uploaded at once, beside the uploads of Reconcile.
PasteImage(d, i, name) ==
    LET x == db[d]
        filled == [x EXCEPT !.images[i].bytes = TRUE]
        added == [x EXCEPT !.images = Over(@, Only(i, [name |-> name, push |-> TRUE, bytes |-> TRUE]))]
        y == IF i \in used THEN filled ELSE added
        up == IF x.space = "mapped" /\ y.images[i].push THEN {i} ELSE {}
    IN  /\ Acts(d, "paste") /\ x.space # "absent"
        /\ IF i \in used THEN i \in DOMAIN x.images /\ ~x.images[i].bytes /\ name = x.images[i].name
           ELSE \A j \in DOMAIN x.images : x.images[j].name # name
        /\ Changes(d, y, Moves(bridge[d], {"images"}), Put(engine[d], up))
        /\ Intends(d, Only(ImageKey(i), name), {}, {i}) /\ UNCHANGED server
RenameImage(d, i, name) ==
    /\ Acts(d, "rename image") /\ i \in DOMAIN db[d].images
    /\ \A j \in DOMAIN db[d].images : db[d].images[j].name # name
    /\ Local(d, [db[d] EXCEPT !.images[i].name = name, !.images[i].push = TRUE], {"images"})
    /\ Intends(d, Only(ImageKey(i), name), {}, {})
\* blob_deleted: the server drops the content if it can be told, after what is
\* on its way.
DeleteImage(d, i) ==
    LET e == engine[d]
        b == bridge[d]
        mapped == db[d].space = "mapped"
        told == mapped /\ e.up
        answered == IF i \in e.waiting THEN Results(e, {i}, "stored") ELSE e
    IN  /\ Acts(d, "delete image") /\ i \in DOMAIN db[d].images
        /\ Changes(d, [db[d] EXCEPT !.images = Without(@, {i})],
                   Moves(IF mapped THEN [b EXCEPT !.removedImages = @ \cup {i}, !.dirty = TRUE] ELSE b,
                         {"images"}),
                   IF told THEN [answered EXCEPT !.wire[i] = 0, !.waiting = @ \ {i}] ELSE e)
        /\ server' = IF told THEN [server EXCEPT !.stored = @ \ {i}] ELSE server
        /\ Intends(d, Nothing, {i}, {})

\* The program is ended and started again: the database is what was saved.
Restart(d) ==
    /\ start.restarts > 0 /\ start' = [start EXCEPT !.restarts = @ - 1]
    /\ \E c \in Clients \ clients :
        /\ clients' = clients \cup {c}
        /\ Changes(d, db[d], [NewBridge EXCEPT !.moved = {"spaces", "folders", "images"}], NewEngine(c))
    /\ UNCHANGED <<server, history>>

-----------------------------------------------------------------------------

\* A device that is connected and has caught up.
CaughtUp(x, log) ==
    LET doc == DocOf(log)
    IN  [NewBridge EXCEPT
            !.has = TRUE, !.replica = doc, !.live = TRUE, !.author = doc[NameKey].value # None,
            !.titles = [n \in Mapped(x) |-> doc[NoteKey(n)].value]]
Online(e, log) ==
    [e EXCEPT !.up = TRUE, !.knows = TRUE, !.open = TRUE, !.seen = Len(log), !.target = Len(log)]

Init ==
    \E s \in Starts, client \in [Devices -> Clients] :
        /\ \A d, m \in Devices : client[d] = client[m] => d = m
        /\ start = [kinds |-> s.kinds, ops |-> s.ops, drops |-> s.drops,
                    restarts |-> s.restarts, late |-> s.late, big |-> s.big]
        /\ clients = {client[d] : d \in Devices}
        /\ db = s.db /\ server = s.server
        /\ bridge = [d \in Devices |->
              IF d \in s.ready THEN CaughtUp(s.db[d], s.server.log)
              ELSE [NewBridge EXCEPT !.moved = {"spaces", "folders", "images"}]]
        /\ engine = [d \in Devices |->
              IF d \in s.ready THEN Online(NewEngine(client[d]), s.server.log)
              ELSE NewEngine(client[d])]
        /\ used = (UNION {DOMAIN s.db[d].folders \cup DOMAIN s.db[d].notes
                            \cup DOMAIN s.db[d].images : d \in Devices})
                   \cup {k[2] : k \in (UNION {DOMAIN s.server.log[i].update :
                                                i \in DOMAIN s.server.log}) \ {NameKey}}
        /\ deleted = Removals(s.server.log) /\ intents = Nothing

EngineSteps(d) ==
    \/ Connect(d) \/ Disconnect(d) \/ Push(d) \/ OpenIndex(d) \/ Refuse(d)
    \/ \E n \in DOMAIN bridge[d].creating : MakeDoc(d, n)
    \/ \E i \in ImageIds : StoreImage(d, i)
BridgeSteps(d) ==
    \/ Deliver(d) \/ Synced(d) \/ Idle(d)
    \/ SpacePushed(d) \/ SpaceJoined(d) \/ SpacePeeked(d) \/ SpaceRejected(d) \/ SpaceDeleted(d)
    \/ \E n \in DOMAIN bridge[d].creating : DocCreated(d, n)
    \/ BlobUploaded(d) \/ \E i \in ImageIds : BlobFetched(d, i)
    \/ Reconcile(d)
UserSteps(d) ==
    \/ PushSpace(d) \/ FetchSpace(d) \/ PeekSpace(d) \/ ForgetSpace(d) \/ DestroySpace(d)
    \/ \E name \in Names : RenameSpace(d, name)
    \/ \E n \in NoteIds :
          \/ \E title \in Names : AddNote(d, n, title) \/ RenameNote(d, n, title)
          \/ DeleteNote(d, n)
          \/ \E f \in FolderIds \cup {None} : FileNote(d, n, f)
    \/ \E f \in FolderIds :
          \/ \E name \in Names, parent \in FolderIds \cup {None} : AddFolder(d, f, name, parent)
          \/ \E name \in Names : RenameFolder(d, f, name)
          \/ \E parent \in FolderIds \cup {None} : MoveFolder(d, f, parent)
          \/ DeleteFolder(d, f)
    \/ \E i \in ImageIds :
          \/ \E name \in Names : PasteImage(d, i, name) \/ RenameImage(d, i, name)
          \/ DeleteImage(d, i)

Next == \E d \in Devices : EngineSteps(d) \/ BridgeSteps(d) \/ UserSteps(d) \/ Restart(d)
Spec == Init /\ [][Next]_vars

-----------------------------------------------------------------------------
(* Properties. *)

\* What a database shows for a key of the index.
Shown(x, k) ==
    LET field(table, name) == IF k[2] \in DOMAIN table THEN table[k[2]][name] ELSE None
    IN  CASE k[1] = "name" -> x.name
          [] k[1] = "note" -> field(x.notes, "title")
          [] k[1] = "folder" -> field(x.folders, "name")
          [] k[1] = "parent" -> field(x.folders, "parent")
          [] k[1] = "assign" -> field(x.notes, "folder")
          [] k[1] = "image" -> field(x.images, "name")

\* The device is connected and caught up, and nothing is on its way.
Still(d) ==
    LET e == engine[d]
        b == bridge[d]
    IN  /\ e.up /\ e.open /\ e.seen = Len(server.log) /\ e.out = Nothing
        /\ ~e.idle /\ ~e.refusal /\ ~e.destroyed
        /\ e.results = << >> /\ e.waiting = {} /\ e.fetching = {}
        /\ db[d].space = "mapped" /\ b.has /\ b.live /\ b.joining = "no" /\ b.creating = Nothing
        /\ ~b.due /\ ~Works(db[d], b, e)

\* What a device has not yet seen acknowledged.
Waits(x, k) ==
    CASE k[1] \in {"folder", "parent"} -> k[2] \in DOMAIN x.folders /\ x.folders[k[2]].push
      [] k[1] = "assign" -> k[2] \in DOMAIN x.notes /\ x.notes[k[2]].push
      [] k[1] = "image" -> k[2] \in DOMAIN x.images /\ x.images[k[2]].push
      [] OTHER -> FALSE

Actors == UNION {intents[k].by : k \in DOMAIN intents}

\* No client has written an update that the others cannot integrate.
Whole == \A i \in DOMAIN server.log : ~server.log[i].lost

\* When everything is still, every replica of the index is what the server's
\* log makes of it, and every database agrees with it but for what waits.  A
\* deleted note stays in the index.
QuietMeansAgreed ==
    /\ Whole /\ \A d \in Devices : Still(d) /\ ~engine[d].lost
    /\ deleted \cap FolderIds = {} \/ Cardinality(Actors) = 1
    =>
        \A d \in Devices :
            /\ bridge[d].replica = DocOf(server.log)
            /\ \A k \in Keys :
                  \/ bridge[d].replica[k].value = Shown(db[d], k)
                  \/ Waits(db[d], k)
                  \/ k[1] \in {"note", "assign"} /\ k[2] \in deleted
                  \/ k = NameKey /\ bridge[d].replica[k].value = None

\* A replica that has merged the whole log and has nothing queued is what the log makes of an
\* empty document.
ReplicasConverge ==
    server.exists /\ Whole =>
        \A d \in Devices :
            engine[d].open /\ ~engine[d].lost /\ engine[d].out = Nothing
            /\ engine[d].seen = Len(server.log)
            => bridge[d].replica = DocOf(server.log)

\* Nobody writes the name of a space that was only just joined.
PlaceholderNeverShared ==
    \A i \in DOMAIN server.log :
        NameKey \in DOMAIN server.log[i].update => server.log[i].update[NameKey].value # Placeholder

\* An image that is listed and that nobody has deleted is stored.
AdvertisedIsStored ==
    server.exists => Listed(DocOf(server.log), "image", ImageIds) \ deleted \subseteq server.stored

\* A folder or an image whose removal waits is not there.
PendingStaysDeleted ==
    \A d \in Devices :
        /\ bridge[d].removedFolders \cap DOMAIN db[d].folders = {}
        /\ bridge[d].removedImages \cap DOMAIN db[d].images = {}

\* A folder or a title that the user of one device alone has changed comes to
\* show everywhere as that user left it, and a folder that the only user who
\* did anything deleted is nowhere, while no program is started again: the
\* flags and the queues of sync_folders_to_index and folder_deleted hold what
\* the inbound pass must not overwrite.
IntentKept ==
    /\ Cardinality(clients) = Cardinality(Devices)
    /\ \A d \in Devices : Still(d) /\ ~engine[d].lost
    =>
        /\ \A k \in {key \in DOMAIN intents : key[1] \in {"folder", "parent", "note"}} :
            LET row == {key \in DOMAIN intents : key[2] = k[2]}
                values == {intents[key].value : key \in row}
            IN  /\ Cardinality(UNION {intents[key].by : key \in row}) = 1
                /\ deleted \cap (values \cup {k[2]}) = {}
                => \A d \in Devices : Shown(db[d], k) = intents[k].value
        /\ Cardinality(Actors) = 1 =>
            \A d \in Devices : deleted \cap DOMAIN db[d].folders = {}

\* An image that was in the index goes only when a user deletes it.
RemovedOnlyIfDeleted ==
    [][\A d \in Devices : db[d].space = "mapped" /\ db'[d].space = "mapped"
            => DOMAIN db[d].images \ DOMAIN db'[d].images \subseteq deleted']_vars

\* Once the bridge knows that the server refused the space, the space is local
\* and none of its notes has a document, whatever was on its way.
RefusedIsLocal ==
    \A d \in Devices : bridge[d].refused => db[d].space # "mapped" /\ Mapped(db[d]) = {}

\* When everything is still, every image that is listed, and that nobody has
\* deleted, is there with its content.
ImagesArrive ==
    Whole /\ (\A d \in Devices : Still(d) /\ ~engine[d].lost) =>
        \A d \in Devices : \A i \in Listed(DocOf(server.log), "image", ImageIds) \ deleted :
            i \in DOMAIN db[d].images /\ db[d].images[i].bytes
=============================================================================
