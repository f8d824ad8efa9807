# enkr in TLA+

enkr is an end-to-end encrypted notes application. Its notes live in a local
database; a sync engine exchanges encrypted document updates with a relay that
stores them but cannot read them. This directory models the synchronization and
what it rests on: what must hold between the tables, the disk, the engine and
the relay when messages are reordered, connections and processes die, buffers
overflow, writes fail and keys come late.

The relay and the protocol crate (`enkr-proto`) are not in the repository. The
relay is modelled from what `src/src/sync/engine.rs` relies on, and its
definitions are marked external.

Line numbers below refer to the sources; `PROJECT.json` maps every definition.

## 1. The system

| Part | State | Operations | Talks to |
|---|---|---|---|
| **Notes database** (`note.rs`) | notes (a CRDT document each), `needs_push`, folders, spaces, blobs (images) | local edits, autosave after 750 ms, flush on exit | UI and bridge by calls; writer by a queue of WriteOps |
| **Note store** (`note.rs`) | SQLite (a writer thread) or IndexedDB (a task of the page, with a cache of what it believes is stored) | write whole lists or note rows, load, migrate | disk |
| **Bridge** (`sync/app.rs`, `AppSync`) | document-to-note map, `live`, `engine_idle`, delivered edit clock, spaces being joined, pushed or peeked at, replicas of the index documents, images on their way | `pump` (drain events, then `reconcile`), inbound and outbound passes of the index, entry points of the UI | engine by commands and events; a bridge thread runs the awaits |
| **Client API** (`sync/mod.rs`) | an unbounded command channel, a broadcast event channel of 4096 | `SyncClient` | engine |
| **Engine** (`sync/engine.rs`), one task on one thread, taking commands, socket messages and a 25 ms tick in turn | see the next five rows | `handle_cmd`, `handle_ws`, `on_tick` | relay over a WebSocket |
| – document, receiving | `have_seq`, `ahead`, `deferred`, digests, `lost_frames`, `live`, snapshot bookkeeping | `apply_frame`, `apply_snapshot_info`, `after_seq_advance`, `retry_deferred_frames` | UI replica by events |
| – document, sending | `pending`, outbox, `next_tag`, `busy` | `QueueUpdate`, `flush_doc`, Ack, resend on reconnect | |
| – spaces and keys | epoch keys, membership log, parked envelopes, fetches in flight | create/join/forget a space, add/remove a member, change a role | |
| – requests | waiting joins, space lists, blob puts and gets | reply by one-shot channels | bridge |
| – connection | socket, backoff, ping, given-up states | `try_connect`, `handshake`, `check_liveness` | transport |
| **Identity** (`sync/identity.rs`), **thread**, **clock**, **transport** | key file; thread handle | load or create; spawn, bounded join at exit | |
| **Search** (`search.rs`) | index in a worker thread, generation of the query | submit, poll | UI |
| **UI** (`app/`) | windows, dialogs, selection | connect, disconnect, edit | bridge, database |
| Showcase, test support | fixtures | | |

What is hard: the engine holds no document, so the UI's replica, the engine's
bookkeeping and the relay's log are three states connected by asynchronous,
bounded or lossy channels, and two permanent decisions rest on them. A
*snapshot* lets the relay delete the log below it; clearing *needs_push* removes
the only persistent record that a note is not stored yet. Around that, the tables
of the disk are of different ages after a crash, the index of a space is written
by several devices and by two passes of each bridge, and every connect makes a new
engine while answers for the old one are on their way. Correctness means:

* receiving: the frontier never passes content the UI has not been given, a
  snapshot holds all it claims to cover, and a document that is quiet and live
  is complete;
* sending: an idle document is stored, an edit is stored, in flight or flagged,
  and in the end everything is stored;
* keys: nothing is sealed under an epoch the signed log does not authorise, and
  the log held never loses an operation the relay accepted;
* store: whatever mixture of tables the next start finds, it has a forest of
  folders, no image name or content given twice, and no unflagged note whose text the
  server lacks;
* index: the shared index and the local tables agree once nothing is on its way,
  and what a user did to an item nobody else touched is what shows everywhere;
* requests and connection: every waiter is answered, the user is told the truth,
  a silent link is noticed, and quitting ends.

`PROJECT.json` lists the hazards, each at its line.

## 2. Modules

| Module | Content |
|---|---|
| `DocReplica` | one client following one document |
| `MCDocReplica` | which frames of other clients may be unreadable on arrival, for the runs |
| `DocReplicaProofs` | theorems about `DocReplica`, as long as no event is lost and with lost events |
| `PushPipeline` | the edits of one note on their way to the relay |
| `EditDelivery` | what pushing promises: the abstract specification that `PushPipeline` implements |
| `MCPushPipeline` | instance for the runs |
| `PushPipelineProofs` | theorems about `PushPipeline`, with the refinement |
| `SpaceKeys` | the membership log and the keys of one space, on every installation that shares it |
| `SpaceKeysProofs` | theorems about `SpaceKeys`, for every number of installations |
| `SpaceCurrentProofs` | theorems about `SpaceKeys` while nothing is lost: a quiet member is current |
| `MCSpaceKeys` | the roles an owner gives, for the runs |
| `NoteDb` | the tables of the note database, as data: spaces, folder forest, notes, images |
| `NoteStore` | the tables in memory, the queue of writes, the writer, the disk, the next start |
| `NoteStoreProofs` | theorems about `NoteStore`, for every profile and any number of operations and faults |
| `MCNoteStore` | the profiles that the runs start from |
| `IndexDoc` | the index document of a space and what the passes make of it, as data |
| `IndexBridge` | the bridges of several devices around one index |
| `IndexBridgeProofs` | theorems about `IndexBridge`, for any devices, items and situations |
| `IndexMergeProofs` | theorems about the merging of the index: the replicas converge, and images that are listed arrive |
| `MCIndexBridge` | the situations that the runs start from |
| `Session` | the engines of one installation, their connection and the requests they answer |
| `SessionProofs` | proofs about `Session`, for every set of spaces and every plan |
| `MCSession` | which requests are made, for the runs |

The state machines look at the program from six sides. They are not multiplied
with each other; each keeps of its neighbours what it depends on:

* `DocReplica` has one document and treats a missing key as a fact that an answer
  settles; `SpaceKeys` says where keys come from and keeps of a document only
  whether an edit waits and which frames are parked or open.
* `PushPipeline` has one note, which always holds its key, and saves it atomically;
  `NoteStore` has the snapshot, the queue and the writer behind that save, and of the
  server only the last edit it has of each document.
* `IndexBridge` takes an update as pushed and acknowledged at once and lets the
  DocIdle of it arrive any time later; the inside of that is `PushPipeline`.
* `Session` has the connection, of documents nothing, and of a join only that two
  answers must come.

### DocReplica

The relay numbers frames; a frame is its number, content is a set of numbers.

* **Engine.** `haveSeq`, `ahead`, `lostFrames`, `live`, `snapCovers`,
  `requested`, `asked`, `unverifiable` are the fields of `DocState`. `deferred`
  counts how often each frame is parked (the code's vector may hold a frame
  twice after a resubscription, and its length matters). `digests` is the set of
  frames remembered. `fetching` holds the two in-flight flags. `missing[s]` says
  what the engine lacks to open frame `s`: its author in the membership log, its
  epoch in that log, the epoch's key. `RecvFrames` is a Broadcast or Backlog with
  all it calls: `apply_frame`, `defer_frame`, `incorporate`, `note_seq`, the two
  request queues and `after_seq_advance`. `RecvAnswer` is a Membership or Envelopes
  response with the retry of every parked frame. `ProvideSnapshot` is
  `seal_and_put_snapshot`, which may lack the key of the epoch.
* **Channels.** `events` merges the broadcast channel and the bridge's own
  channel behind `forward_engine_events`: beyond `EventCap` the oldest events are
  lost and the UI is told (`UiLagged`, which asks for a Resync). One event may
  carry the content of a whole backlog. `uplink` and `down` are the connection.
* **UI.** `replica` is the content of the note. `UiSnapshotNeeded` answers with the
  content at that moment.
* **Relay.** Other clients store frames and snapshots; frames fan out in any
  order; a Subscribe is answered with the snapshot or none, the log, and SubscribedOk.
* **Failures.** `Disconnect` empties the connection. `Restart` empties the engine
  and the channels and leaves the UI a subset of its content, since the last
  edits may not have been saved. `FailSubscribe` answers with Internal;
  `subRefused` records that the last Subscribe was answered so, and no operation
  reads it.

Not in the model: frames that never decrypt (they pin the frontier by design), a snapshot of an
author the log does not know apart from one whose key is missing (engine.rs 2064–2073: both
leave it unopened and have something fetched), one frame served under two numbers, roles,
several documents, presence. The outbox appears only as `unacked`: own frames that the relay has
numbered.

### PushPipeline and EditDelivery

One note, mapped to a document in an earlier run. An edit is a number.

* **Note and database.** `note`, `needsPush`, and `saved`, what a crash leaves. The
  writer's queue is merged into an atomic `Save`, which may happen at any time.
* **Bridge.** `joining` and `joinResult` are a join from `fetch_space` to
  SpaceJoined. `submitted` holds requests handed to the bridge thread, which
  reach the command channel later than edits made meanwhile. `mapped` says that
  the observer forwards edits. `settled` is `local_edit_clock ==
  delivered_edit_clock`. `Reconcile` may run between any two events: the forwarder
  moves events one at a time, so a pump may see any prefix.
* **Engine.** `pending`, `outbox`, `busy`, `nextTag`, `opened`, `live`, `resub` and the
  waiter of a join. The membership and envelope fetches of a join are one round trip.
* **Relay.** It stores a frame once per tag and acknowledges it every time.
* **Failures.** `Disconnect`; `FailSubscribe`; `Crash` (the note is what was saved);
  `Reconnect` (the user stops and starts synchronizing: the old engine drains
  first). Both start a new engine, which joins the space at once, as
  `connect_sync` does. A crash may come between any two steps.

`EditDelivery` is what the comments of DocBusy and DocIdle (`sync/mod.rs`) promise: an
engine *owes* the relay the edits it has taken, pays with edits it owes, writes off only
what the relay has stored, and says that it is idle exactly when it owes nothing; when
an engine ends, its debt ends with it and the relay's log stays. `PushPipeline`
implements it with `held <- note`, `owed <-` the edits of the buffer and of the
outbox, `log <- stored`, `busy <- busy`, `ended <- sessions`. The number of engines that
ended is part of the promise because without it an engine could drop its debt in the
middle of its life.

Not in the model: the paths of `flush_doc` that discard what is buffered (a reader's
role, engine.rs 792–798, a merge that fails, 831–841, an update too large, 849–855), after
which an Ack of an earlier frame may report idle; missing sealing keys, overflow of the
event channel, Internal for a push, the edits of other clients.

### SpaceKeys

Several installations (`Client`), each an engine with its connection, and the
relay. `Running` are those that run; the others are only invited and removed.

* **Log and epochs.** A membership log is the sequence of its changes; roles,
  members, epoch and commitments are functions of it, as `MembershipState`
  (enkr-proto) is of its replay. A key is a number, and a change names the key it
  commits to. `log` is the engine's log, with its own changes applied before
  the relay has them; `served` is the prefix that `confirmed_ops` and
  `confirmed_digest` stand for.
* **Engine.** `keys`, `parked`, `fetching` (the in-flight marks), `join` (a
  JoinProgress, as the set of answers that have come), `pending`, `outbox`,
  `waiting` (frames parked by the document) and `opened`. `Learn` is what both
  answers end with: `absorb_parked_envelopes` and `retry_deferred_frames`.
  `JoinSpace` has a guard that comes from the UI: spaces are picked from
  the relay's list, which shows a member its spaces.
* **Relay.** It applies a change that is next in sequence and signed by an owner,
  stores its envelopes, and announces removals to all members that are connected.
  It answers a membership fetch with its log or, at worst, an outdated copy
  (`stale`); the engine is written for a relay it does not trust to be up to date.
* **Failures.** `Disconnect`, `Restart` (a new engine knows nothing of a space),
  and the outdated log share the bound `MaxFaults`.

Not in the model: creating a space, forgetting it, SpaceDeleted, envelopes
deleted by the relay, forged logs and envelopes, several spaces or documents.

### NoteDb and NoteStore

`NoteDb` says what an operation makes of the tables and what the load makes of a disk
(`OpenedSpaces` … `OpenedNotes` are the repairs of `finish_open`). `NoteStore` has
the program around them.

* **Tables.** `spaces`, `folders`, `notes`, `blobs` and `allowEmpty` (`allow_empty_spaces`, the
  record that the user wants no space) are the `NoteDatabase`. A note's text is `ver`, the
  number of its last edit; an image's content is `hash`. One action per operation of the user or
  the bridge (`SpaceOps`, `FolderOps`, `NoteOps`, `BlobOps`), with what it sends to the writer:
  whole lists for spaces, folders and images, at once; rows for notes, only when they are
  flushed (`FlushNotes`).
* **Peers.** The index brings entries that are taken over as they are: `AdoptFolder`
  (`adopt_remote_folder`) looks its parent up nowhere, so that it may be below the
  folder, in another space or unknown; `UpsertBlob` (`upsert_blob_meta_from_remote`) takes
  a name, a content and a folder whatever else the space holds; `SetBlobBytes` and
  `CreateBlob` fill in a content that is missing. The history fields `theirs` remember
  which parent, name and content a peer gave, until an operation here or a repair of
  the load replaces it; no guard reads them.
* **Writer.** `queue` holds the WriteOps. `WriteOk` and `WriteFails` take the first.
  With `kind = "sqlite"` notes are saved row by row and rows of notes refer to rows of
  spaces, so that a write may be refused or end half way; with `"idb"` the difference
  from `cache` is written, which is what the writer believes is stored, also after a
  failed write. Writes that failed are not repeated.
* **Lifecycle.** `phase`: `opening`, the writes of the start are sent; `open`; `aborting`, one
  of them failed and finish_open ended at its `?`, what was sent is still written and the
  program goes on in memory (`OpenAborts`, `FallsBack`); `closing`, the queue draining;
  `closed`; `deaf`, an IndexedDB writer that ended at once (nothing is written); `memory`, no
  store. `Crash` drops the queue and leaves a prefix of what was sent, possibly inside an
  operation. `Open` loads, repairs and queues what it repaired.
* **Server.** `held` is the last edit the server has of each document: what
  `Acknowledge` relies on.

Not in the model: the text, cursors and undo; schema migrations; the order in which
IndexedDB transactions of one task commit (they are awaited one after the other).

### IndexDoc and IndexBridge

The index of a synced space is a Yrs document of maps: the name of the space, titles of
notes, names and parents of folders, folders of notes, names of images. `IndexDoc` has
such a replica as a function from keys to a value and the path of Yrs items that led to
it, so that of concurrent writes every replica picks the same winner; and the passes of
the bridge as functions from a database and a replica to a database (inbound: `adopt_*`)
or to an update (outbound: `sync_*_to_index`).

`IndexBridge` has several devices and a server.

* **Database** (`db`): the space (absent, local or mapped), its folders, notes and
  images with their flags. User operations change it as `NoteDb` says and tell
  AppSync of deletions.
* **Bridge** (`bridge`): the runtime of the space (`replica`, `live`, `author`,
  `titles`, removals that wait, a join on its way), pushes and peeks, documents being
  created, uploads with their tries, `dirty` (`index_dirty`) and `moved` (the revisions
  that gate the outbound passes). A pump handles the events that have come and then
  runs `Reconcile`; users act between pumps (`due`).
* **Engine** (`engine`): what the bridge sees of it — whether it is up and knows the
  space, which updates it has delivered, DocIdle and refusals on their way, uploads on
  the wire, results of blob requests.
* **Server**: the log of the index, the images stored, whether the space exists, and
  whether the server refuses to make it.
* **Failures**: a lost connection, on which uploads fail, the documents being created fail, and
  a join may hang; a program ended and started again (`Restart`); a space refused, deleted,
  forgotten with answers on their way; an image too big.

Simplified: the code keeps an image in three maps (`blobs`, `blob_meta`, `blob_folders`, app.rs
2375–2447), here it is one key without its folder. A removal concurrent with a rename
leaves a name without metadata there, which readers skip (2175–2180); here the rename
wins. The engine knowing a space and the server having it are one step (`PushSpace`): a
CreateSpace that is lost or refused after the engine took it is in `Session`.

Not in the model: two spaces, titles and text of the note itself, presence, which
device created a folder with the same identifier (they are UUIDs).

### Session

One user, one relay, one engine at a time (`eng`), each on its own thread.

* **User.** `Connect`, `Reconnect`, `Disconnect`, `Leave` and `Exit` are `connect_sync`,
  `reconnect_sync`, `disconnect_sync` and the two halves of `shutdown`, which waits
  for the thread, but not for ever: JOIN_TIMEOUT may run out in any state of the engine,
  and a browser does not wait, so `Exit` may follow `Leave` at any time. `Create` pushes a
  space, `Forget` deletes the mirror of one. `shown` is what AppSync believes, `bound` the
  spaces of the database that are bound to the relay.
* **Engine.** `stage` says whether it is in its loop, inside an attempt (where it reads
  no command), closing or done; `gaveUp` that it will not try again; `link` is the
  connection, which may break or go silent without anyone being told; `probing` is an
  unanswered ping. `calls` are the one-shot replies that requests wait for; `waits`
  and `joins` the engine's waiters. `Command`, `Message`, `LostWs`, `TryConnect`,
  `Probe`, `LivenessTimeout` are the branches of the loop. `Forgotten` is
  `forget_space_state`, which drops the waiters of a space without an answer: it is called
  for ForgetSpace, for SpaceDeleted, and for an AccountRequired that names the space, which
  also puts it among `rejected`. `forgot` remembers, for each request, that its space
  was forgotten after the engine read it.
* **Bridge.** Events reach it once it has subscribed (`Listen`); a connect makes it join
  the spaces bound to the relay and repeat uploads (`Adopted`, `Reship`). A space that is
  created or joined is bound when the result is handled (`HandleResult`, `Binds`), one that
  is deleted or refused is unbound when its event is (`HandleEvent`), in either order.
* **Relay and network.** It answers in order, refuses what a non-member asks, answers with
  Internal (`RelayFails`), invites (`Invited`), creates a space or refuses it (`RelayCreates`);
  an owner destroys a space (`SpaceDeleted`); the link fails (`LinkFails`). `member` says
  what each identifier stands for; a creation that is lost with its connection leaves it
  `drawn`, a space bound here that the relay has never heard of.

Time is left out: an armed timer may run out at any moment. A request is made again only when
the last of its kind has ended, although `drop_space_runtime` clears the mark of a join at once.
Not in the model: the delays of the backoff, account usage, presence, several requests of one
kind for one thing other than uploads.

## 3. Runs

Deadlock is not checked: every instance stops when its bounds are used up.

| Run | Instance | Result |
|---|---|---|
| `doc_replica_main` | 2 frames, queue 1, digests 1, threshold 1, events overflow at 2, 1 failure; keys and rotations late, authors unknown, snapshots opaque | `TypeOK`, `FrontierBacked`, `SnapshotComplete`, `QuietMeansComplete` hold (4.7 million states) |
| `doc_replica_live` | 2 frames, late keys, opaque snapshots, 1 failure, fair | `ParkedFramesOpen`, `CatchesUp` hold (230 000 states) |
| `doc_replica_coverage` | overflow at 2 | `CoverageIsHeld` fails |
| `doc_replica_refused` | 3 frames, overflow at 2, 1 failure | `RefusedIsAskedAgain` fails |
| `push_idle` | 2 edits, 1 fault, 1 new engine, 1 refused subscription | `TypeOK`, `IdleMeansStored`, `NothingForgotten`, `DeliveryImplemented` (the refinement of `EditDelivery`) hold (1.9 million states) |
| `push_delivery` | 1 edit, 1 lost connection, 1 new engine, fair | `Delivered` holds (100 000 states) |
| `push_forgotten` | 2 edits, 1 new engine | `UndeliveredIsFlagged` fails |
| `space_keys` | owner, writer, a third identity; 3 changes, 1 frame, 1 fault | `TypeOK`, `HoldersWereMembers`, `SealedForMembers`, `ChangesLand`, `LogsOnlyGrow`, `QuietMeansCurrent` hold (820 000 states) |
| `note_store` | SQLite and IndexedDB; a first installation and a profile with two spaces; 2 operations, 2 faults | `TypeOK`, `TreeOK`, `OwnImagesUnique`, `FlagIsSaved`, `QuietMeansSaved`, `DeletingIsRemembered` hold (3.5 million states) |
| `index_bridge` | 2 devices, 2 folders, 1 note, 1 image, 16 situations up to symmetry of the devices | `TypeOK`, `ReplicasConverge`, `QuietMeansAgreed`, `IntentKept`, `ImagesArrive`, `AdvertisedIsStored`, `PendingStaysDeleted`, `PlaceholderNeverShared`, `RefusedIsLocal` hold (390 000 states) |
| `index_bridge_lost` | an image is pasted, a connection lost | `RemovedOnlyIfDeleted` fails |
| `session` | 2 spaces; a join alone, with an upload, with a download from another space or with the creation of the space, or a list and a download; up to 1 lost link, Internal error or destroyed space; spaces forgotten and creations refused; fair | `TypeOK`, `WaitersAreServed`, `DrainedUiAgrees`, `JoinOkMeansLoaded`, `NobodyIsDropped`, `CallsEnd`, `SilenceIsNoticed` hold (230 000 states) |

**Why the bounds suffice.** Two frames are the fewest with one missing below another. A
deferred queue of one overflows with the second parked frame, a digest budget of one
with the second digest, and a threshold of one gives a snapshot in the middle of the
log. Two events are the fewest in which a DocBytes is lost and the SnapshotNeeded behind
it is not. The properties of `doc_replica_main` are theorems for every value of these
bounds (section 4); with three frames, a digest budget and a threshold of two and an
event channel that does not overflow they were also checked once (2.3 million states).
`MaxUplink`, `MaxDown` and `MaxCmds` only delay a sender while a channel is full; so do
`MaxTraffic` of `SpaceKeys`, for joins, stalled flushes and frames, and `MaxEvents` of
`Session`, for attempts to connect. Three changes are the fewest with a member, another
who is added and removed, and a rotation the first must learn of, or with one who is
removed and admitted again; the changes may all be on their way at once, which is what
the fetches race with. Two edits are the fewest with one made before and one after the
document is opened; one edit already gives two frames, its own and the reship. One
failure of each kind, at any moment, is where each of the findings appears. `space_keys`
was also checked with two faults (7.9 million states, too long for a regular run): an
outdated log together with a restart is what the hypothesis `Informed` leaves out.

In `NoteStore`, two operations on a profile that already has a folder in a folder, a
mapped note and two images suffice for lists of different ages on the disk, and two
faults for a failed write and a crash. `MaxWaiting = 0` lets an operation begin only
on an empty queue; it still queues several writes, which a crash may cut, but the
writes of two operations do not wait together. The theorems (section 4) are for any
number of operations, waiting writes and faults.

`IndexBridge` starts from situations rather than from an empty server: each
(`FolderStarts`, `ImageStarts`, `SpaceStarts`, `LateStarts`) names what exists, what
the users may do, and how many operations, lost connections and restarts there are. Two
operations on connected devices are the fewest that conflict; a situation with a
failure has one or two, before or after it. `IsSettled` says which situations the
bridges could have come to, and the proofs need no more of them. `Devices` may be permuted: nothing
distinguishes them but the Yrs clients, which are chosen from all assignments.

In `Session` a plan has two requests at most, which is what an error that does not say
what it is about, a second attempt, a forgotten space or a lost connection confuses; one
plan has a single join and an owner who does nothing, so that the user alone forgets.
`asks` bounds what the user asks for, creates and forgets, `faults` what fails or is
destroyed; what the user does else (connect, disconnect, reconnect, quit) is not
bounded. Two joins at once were checked as well (360 000 states, too long for a regular run).

**Fairness.** The engine's loop selects among commands, socket and tick, and each handler ends,
so commands, messages and ticks are each weakly fair; so are the UI's pump, the bridge thread,
and a relay that answers. Connecting is fair: the engine tries again for ever. `Session` has the
loop in more detail: an attempt to connect interrupts the reading of commands again and again,
and `tokio::select!` picks at random among what is ready, so `Command` is strongly fair;
`Message`, `LostWs`, the end of an attempt, the heartbeat and its timeout, `Stop`, the relay's
answers (`RelayAnswers`, `RelayCreates`), the end of the wait at exit and the bridge's events
are weakly fair. Attempts need no fairness there. Nothing is assumed of edits, autosave, other
clients, failures, lost connections or the user.

**Hypotheses of the properties.** They are part of each formula, and name what the code
does not give (section 6):

* `ParkedFramesOpen` and `CatchesUp` suppose that fetches do not stay in flight for
  ever (a lost connection leaves their marks set). `CatchesUp` also supposes that
  the last snapshot offered can be opened: a refused one is offered again only by
  the next subscription.
* `QuietMeansComplete` excepts what the last snapshot offered stood for when it could
  not be opened, what a snapshot stored incomplete has lost (`shortened`), and what was
  to come when the relay refused the last Subscribe (`doc_replica_refused`).
* `Delivered` supposes that the last engine joins the space in the end, and
  `NothingForgotten` and `Delivered` that no engine ended after clearing the flag too
  early (`push_forgotten`); `NothingForgotten` also that no subscription was refused.
* `HoldersWereMembers`, `SealedForMembers` and `LogsOnlyGrow` suppose one owner, and that
  an outdated log is not served in a run in which connections or processes are lost: an
  engine that restarts has nothing to compare the first log with, which
  `tests/resilience.rs` (394) describes as known exposure. `ChangesLand` and
  `QuietMeansCurrent` suppose that nothing was lost.
* `TreeOK` and `OwnImagesUnique` except what peers gave (`theirs`): a parent that was adopted
  may close a cycle or lead elsewhere, and two members' images may share a name or a
  content. What is set here keeps to both rules, beside and on top of what was adopted.
  They hold with SQLite through failed writes, with IndexedDB only while no write has
  failed. `QuietMeansSaved` is about SQLite and lists whose last write succeeded, and of an
  adopted parent says that a start keeps it exactly if it is a folder of the space.
* `ReplicasConverge`, `QuietMeansAgreed` and `ImagesArrive` suppose that no client has written an
  update that the others cannot integrate (`Whole`, section 6), and `ReplicasConverge` that the
  space exists.
* `QuietMeansAgreed` and `IntentKept` look at the states in which every device is
  connected, caught up and without work (`Still`); items whose flag
  waits are excepted, as are folders once one was deleted while two devices acted.
  `IntentKept` is about items that one device alone has changed, without restarts.
* `WaitersAreServed` and `CallsEnd` except the *orphans*: requests answered with Internal,
  joins that outlived their connection, blobs refused because of their space, and joins
  of a space whose creation was refused, about which errors are ignored (engine.rs
  1583–1596). `JoinOkMeansLoaded` and `NobodyIsDropped` except requests whose space was
  forgotten since the engine read them. `CallsEnd` supposes that the user stops
  changing engines. `DrainedUiAgrees` excepts events from before the bridge listened.

### What the failing runs show

1. **A snapshot may claim more than it holds** (`doc_replica_coverage`).
   `seal_and_put_snapshot` (engine.rs 2003) trusts that the UI has applied every
   DocBytes before it answers. The event channel is bounded and drops its oldest
   events; a SnapshotNeeded may outlive the DocBytes it rests on. The relay then
   deletes the log below a snapshot that lacks it.
2. **needs_push cleared too early** (`push_forgotten`). An offline edit is flagged; the
   user types again, that update is pushed and acknowledged; DocSynced queues the
   reship, and the DocIdle behind it, which speaks of the earlier push, lets
   `reconcile` (app.rs 1319) clear the flag while the reship is still a command.
   After an autosave and a crash the offline edit is neither stored nor flagged.
3. **An image pasted after a reconnect is deleted** (`index_bridge_lost`). Its flag is
   cleared when the upload is confirmed (app.rs 1541), its entry is written by a later
   outbound pass of a live index. After a reconnect, DocSynced runs the inbound pass
   first, which deletes every unflagged image that the index does not list (2214).
4. **A refused Resync is never asked again** (`doc_replica_refused`). After lost events
   the UI asks for everything (`Resync`, engine.rs 1055), which subscribes again from 0
   while the document stays live. When the relay answers Internal the engine arms its
   retry ("ask for it again shortly", 1538), but `retry_failed_subscriptions` (691) takes
   only documents that are not live or have lost frames. Nothing is in transit any more,
   and the UI lacks what was lost until the next reconnect. The attempt to prove
   `QuietMeansComplete` without this exception led to the run.

## 4. Proofs

Every theorem holds for every value of the caps and the bounds. No module declares a
RECURSIVE operator.

### DocReplicaProofs

From `CapsAssumption`, `BoundsAssumption` and `HidingAssumption` (caps are positive,
bounds are natural numbers):

* `TypeCorrect`: `Spec => []TypeOK`.
* `CoverageHolds`: `Spec => []CoverageInv`.
* `FrontierIsBacked`: `Spec => []FrontierBacked`.
* `SnapshotIsComplete`: `Spec => []SnapshotComplete`.

*Argument.* `SnapshotComplete` is not inductive: it says nothing of a snapshot that is
still on its way. `CoverageInv` follows the claim through the whole
circle, as long as no event has been lost: what the engine counts is in the UI's
content or in an event on its way (`Backed`); a SnapshotNeeded in the channel claims
no more than the UI will hold when it gets there, that is, its content plus
the DocBytes *before* that event (`AsksBacked`); the UI's answer, the message
to the relay, the stored snapshot and the snapshot sent to a subscriber hold
what they claim. Each step is proved to preserve it, `TypeOK` being known in both
states (`CoverageStep`). `AsksBacked` is where the order of the event channel is
used, and the hypothesis that nothing was lost is exactly what finding 1 violates.
The lemmas before it say what `note_seq`, an overflow of the queue, and appending
to or taking from a channel do to each part.

**With lost events.** From the same assumptions, with any number of lost events, connections,
processes and refused Subscribes:

* `DeliveryHolds`: `Spec => []DeliveryInv`.
* `QuietIsComplete`: `Spec => []QuietMeansComplete`.

*Argument.* Once an event is lost the frontier no longer stands for content, so
`CoverageInv` is of no use. `DeliveryInv` asks less of the frontier and more of the
replays. A frame is `Given` when it is with the UI, in an event, or the UI is to ask, or
has asked, for everything again; the frontier counts only frames that are given
(`FrontierGiven`), and a Subscribe on its way asks from a frontier below which everything
is given or asked for by a Subscribe behind it (`AsksHeld`: a Resync overtakes nothing).
The heart is `Settled(s, i)`: for each stored frame `s` and each replay whose SubscribedOk
is at place `i` of the downlink (0 stands for the ones already taken), `s` is given, parked,
waiting to be fanned out, in a message that the engine takes with that replay or
later, asked for by a Subscribe on its way, or it was refused — with its snapshot, or by
a full deferred queue whose retry is armed and which still holds a frame. Each clause hands
over to another when its message moves: a Subscribe that is served becomes a replay whose
three messages bring everything above its number; a Frames message that is taken gives or
parks what it brings (`SettledTaken`); a lost connection ends all replays. `ReplaysWhole`
(a snapshot offer is followed by the log and by SubscribedOk) is what lets a later
answer to a snapshot end the exception that a refused one made. `DeferFramesSettles` needs
that a queue with room takes at least the lowest frame, hence the least-number argument
`LeastNat`. In a quiet state only *given* and *parked* are left.

### PushPipelineProofs

From `PipelineAssumption` (the bounds are natural numbers):

* `TypesCorrect`: `Spec => []TypeOK`.
* `Implements`: `Spec => DeliveryImplemented`, the refinement of `EditDelivery`.
* `IdleIsStored`: `Spec => []IdleMeansStored`.
* `NothingIsForgotten`: `Spec => []NothingForgotten`.

*Argument.* The inductive invariant under all four is `Sound == TypeOK /\ Books`. The
*books* say that note, frames, buffer and channels say nothing false of each other:
frames of the outbox have distinct tags below the next one; the frame of a tag that
the relay knows has its edits stored; `busy` holds exactly while something is owed; a
command carries edits of the note, a push on the wire is a frame that is owed, an Ack
names a tag the relay has, an event tells edits that are stored (`BooksStep`, from one
lemma per group of actions).

* *Implements.* Given the books in the first state, each action is a step of
  `EditDelivery` or a stutter (`PromiseStep`): a command is Take, a flush moves edits
  from buffer to outbox, which `owed` does not see, storing is Pay, an Ack is WriteOff
  because its tag is known to the relay, a new engine is End.
* *IdleIsStored.* What the engine took is stored or owed. `Reported` adds the order of
  the event channel: while the engine is busy, either the UI has not been told that it is
  idle, or a DocBusy is on its way behind every DocIdle.
* *NothingIsForgotten.* Three more invariants, while no subscription was refused and no
  engine ended too early. `Unopened`: before the engine opens the document, it has
  taken nothing that the flag does not stand for. `Observed`: once an opening is on
  its way, the observer forwards edits. `Shipping`: afterwards every edit of the note is
  stored or in flight, or the document is still to be subscribed and the DocSynced
  that makes the bridge ship the whole note comes ahead of any DocIdle that would let
  it clear the flag. `ShippingStep` is the longest lemma because this rests on the
  order of four channels; `Kept` alone is not inductive, as it does not see them.

### SessionProofs

From `SpacesAssumption` (finitely many spaces), `PlansAssumption` and `EventsAssumption`,
so for any number of requests, connections, losses and errors:

* `TypesCorrect`: `Spec => []TypeOK`.
* `NoWaiterIsLeft`: `Spec => []WaitersAreServed`.
* `UserIsToldTheTruth`: `Spec => []DrainedUiAgrees`.
* `JoinsAreLoaded`: `Spec => []JoinOkMeansLoaded`.
* `NoWaiterIsDropped`: `Spec => []NobodyIsDropped`.

*Argument.* The handlers of the engine are functions from engines to engines that call
each other, so the inductive invariant `Inv` is in the main a predicate of one engine,
`Good`, and a lemma says of each handler that it gives a good engine back. The parts of
`Good`:

* `Sane`: a stage that has no connection has no link, an engine that gave up has none
  either, nothing is heard before the bridge listens.
* `Loaded`: what a join has counted as arrived is there, and so is everything a
  successful join promises unless its space was forgotten since.
* `Kept`: who was dropped asked about a space that was forgotten since, and a request that is
  still to be read has no result yet; the second half is what keeps the first when a
  request is read and `forgot` starts anew for it.
* `Single`: a request is in one place, once among the commands or with the waiters. This
  is what `Kept` rests on: an upload displaces a waiter only when the same
  upload is asked for twice, and the bridge (`Waited`) asks only for what it is not
  waiting for. The relation of `Single` to `Waited` is why neither is inductive alone.
* `Told`: the last event of the link that waits (those of spaces change nothing here), or the
  view if none does, agrees with the link and
  with having given up; while the engine has not given up, no fatal event is queued.
* `Served`: every waiter that is not an orphan has its request or its answer on the
  present link, every join that waits has both of its parts at hand or on the way.

`Good` splits into `Loose`, all but `Served`, and `Served`, because inside a handler a
waiter exists for a moment before its request is written (`JoinWaits`), and a message is
off the link before its waiter is answered (`HandleWsGood`).
`WaitsServed` and `JoinsServed` name the exceptions of such a moment.

### SpaceKeysProofs

From `ClientAssumption` (finitely many installations, the creator among those that run),
`CapsAssumption`, `BoundsAssumption` and `RolesAssumption`:

* `TypesCorrect`: `Spec => []TypeOK`.
* `KeysAreOutToMembers`: `Spec => []HoldersWereMembers`.
* `OwnersChangesLand`: `Spec => []ChangesLand`.
* `LogsAreNotTakenBack`: `Spec => LogsOnlyGrow`.
* `SealedKeysAreKept`: `Spec => SealedForMembers`.

*Argument.* None of the last four says where a copy of the log came from, so none is
inductive. The invariant `IInv` is about one owner (the hypothesis of the properties) and
says that every log is a prefix of one log. Its parts:

* `LogsGenuine`: that log is the creation and then the owner's changes, in sequence; a
  removal, and nothing else, starts an epoch, with a key that no other change commits to.
* `LogsAgree`: the owner's log extends the relay's, the relay's extends every other
  engine's, what is served, and what is on its way. An owner that has restarted knows
  nothing, and is then served the relay's whole log; this is the place where an outdated
  log *and* a restart would break it, which the hypothesis `Informed` excludes.
* `ChangesFromOwner`, `ChangesQueued`: a change on its way is one of the owner's log, and
  while nothing was lost those on their way are exactly what the relay still lacks, in
  order. `OwnersChangesLand` rests on it: the first in the queue is always the next one.
* `KeysFromLogs`, `KeysFromRows`, `RowsPlaced`: an engine holds a key that its log
  commits to, got it in an envelope of the relay unless it is the owner, and the relay
  stores an envelope only for someone who was a member at or after the change that made
  the key.

`SealedForMembers` then follows for one step: a key that is out to someone whom the
author's log shows as removed was made before the removal (`RowsPlaced`), but the author
seals only under the last epoch of its log, which the removal started, unless a later
change, which the relay has and the author has not, admitted that member again. The core
steps are the relay accepting a change (`AcceptChange`) and an engine with a longer log
or more envelopes (`LearnKeeps`).

### SpaceCurrentProofs

From the same assumptions, `MaxAhead` being positive:

* `MembersAreCurrent`: `Spec => [](Epoch(relayLog) < MaxParked => QuietMeansCurrent)`.

The two hypotheses are those of the code, 16 places (`MAX_PARKED_ENVELOPES`) and 4 epochs
ahead (`MAX_ENVELOPES_AHEAD`), and both are needed. With more epochs than places the
envelopes of the last ones are never taken (section 6). With no epoch ahead, the
envelopes that are served before the log that commits to them would be dropped.

*Argument.* `QuietMeansCurrent` says nothing of the states in which something is on its
way, which are all that lead to a quiet one. The invariant `CurrentInv` is, as long as
nothing was lost (`Undisturbed`), `Ground` and a `Path` for every member that was never
removed (`Lasting`).

* `Ground` is what all share. The rows at the relay and with the owner's changes hold the keys
  that the log commits to, for every member and every epoch (`RowsThere`); the owner holds
  the key of each epoch of its own log and sends a frame behind the change that made the
  frame's epoch; the relay's log knows the epoch and the author of every frame; an answer
  with envelopes brings all epochs from the first (`Whole`), within the places to park
  them; nobody but the owner changes its log, and who was never invited has nothing.
* `Path(c)` follows one connection: what the answers in `down` and the requests in `up`
  will have taught the engine once they are handled. Its log will be in the relay's epoch,
  or it has asked for the log, or an announcement on its way will make it ask
  (`Announced`). For each epoch it has the key, or an announcement or a request is on its
  way, or an answer brings the envelope and will find a log that takes it or is close
  enough to park it (`Provided`, `Useful`). `Close` is what makes the latter inductive: when the
  envelopes are served, the log that arrives before them lacks one epoch at most, since an
  announcement has the envelopes asked for *before* the log, or another announcement
  follows. `FirstAnswers` is the same for a joining engine, which parks without a log, and
  `Downward` keeps the parked epochs without gaps. `Asked`: a frame that waits, waits for
  one of these.

Every step is proved to preserve it (`NextSound`). The lemmas about one connection (`AnswerAdded`
to `LogTaken`) speak of two sequences and a log, not of the state: a request or an answer
more or one fewer, the log or the envelopes served, the log or the envelopes handled. The core
ones are `LogServed`, `EnvelopesServed`, `EnvelopesTaken` and `LogTaken`. A removal
adds one epoch and one announcement to every path at once (`AcceptChangeSound`). TLC
checked `CurrentInv` first, on 1.1 million states with two running engines.

### NoteStoreProofs

From `BoundsAssumption`, `ImagesAssumption` (names and contents as the model writes them)
and `ProfilesAssumption`: an earlier session left tables of typed rows, finitely many, with
folders that form forests but for parents that peers gave, rows of notes whose space is there,
images that share a name or a content only with one a peer gave, and no document mapped
twice. Both stores, and for any number of operations, of writes
that wait, of crashes and of failed writes:

* `TypesCorrect`: `Spec => []TypeOK`.
* `FlagsAreSaved`: `Spec => []FlagIsSaved`.
* `OwnImagesStayUnique`: `Spec => []OwnImagesUnique`.
* `ForestsStaySound`: `Spec => []TreeOK`.
* `DeletionsAreRemembered`: `Spec => DeletingIsRemembered`.
* `QuietIsSaved`: `Spec => []QuietMeansSaved`.

*Argument.* A note or a list exists in several versions: in memory, in each waiting WriteOp,
on the disk. No property above is inductive, because it speaks of one version
and a later step makes it out of another; each invariant speaks of all of them. What an
operation sends is said once (`Sends`: every list it changes as it is afterwards, the
rows it flushes, the identifiers it deletes, and which of these come first), likewise
what the writer makes of a write (`WriteOkIs`, `WriteFailsIs`, `CrashIs`). `CacheTrue` says
for IndexedDB that the cache of the writer is what is stored, but for lists whose write
failed: with it the differences that are put add up to the whole list.

* `Flagged`, for `FlagsAreSaved`: every version of a note is honest (without a flag it holds
  no edit that the server lacks), no two notes have one document, and no version of a
  document is ahead of the note in memory. The last two are needed because an
  acknowledgement of one note raises what the server has of a document, which must not
  be that of another note.
* `Images` and `Trees`: every version of the list of images has names and contents given here
  once, every version of the list of folders is a forest but for adopted parents, so
  whichever the next start finds, its repairs (`LoadSound`) give sound tables. A parent
  that is gone or elsewhere is repaired, a cycle is not: that none is closed from here is
  what the guard of `set_folder_parent` is for. It has to hold also on folders that
  already run in circles, and a move into another space or a repair takes `theirs` away
  only with the parent it stands for. `SuffixFree` is a pigeonhole argument: more suffixes are tried
  than there are images.
* `Keyed` and `Recorded`, for `DeletionsAreRemembered`: in the queue, the end of the record
  that there may be no space is followed by a list with a space, and an empty list of
  spaces comes behind the record. With SQLite the foreign key keeps the notes from outliving
  the spaces; IndexedDB has no such key, and the next write is a list with a space.
* `Saved`, for `QuietIsSaved`: of every list and of every clean note, each version in the
  queue is the one in memory or is followed by it, and if the disk has another one it
  is in the queue or known to be lost. With `Trees` and `Keyed` a start from these
  tables repairs nothing (`StartFinds`).

### IndexBridgeProofs

From `StartsAssumption` (every situation is of the right types and is `IsSettled`: an absent
space is empty, a local one has a name and no documents, what is listed or does not wait is
stored, a space that is refused or still to be pushed does not exist, one that does not exist
has no log, a device that is caught up has the content of the images it lists), `ImagesAssumption`
(finitely many images), `ClientsAssumption`, `NamesAssumption` (the placeholder is no
user's name) and `AttemptsAssumption`; for any devices, folders, notes and names, and any
number of operations, lost connections and restarts:

* `TypesCorrect`: `Spec => []TypeOK`.
* `RefusedStaysLocal`: `Spec => []RefusedIsLocal`.
* `RemovalsStayDeleted`: `Spec => []PendingStaysDeleted`.
* `PlaceholderStaysLocal`: `Spec => []PlaceholderNeverShared`.
* `ListedIsStored`: `Spec => []AdvertisedIsStored`.

*Argument.* An event changes one device and perhaps the server, so the invariant `IInv` is in
the main a predicate of one device (`Device`), with what it shares as parameters: the length
of the log, the ids that have existed, the images that are *kept* (stored, or deleted by a
user; all of them once the space is gone), whether the server refuses the space, and whether
it is still to be pushed. `Fits` is this predicate under the present values; `Grown` says
that it survives when the shared part moves, for what has existed stays so and what is kept
stays kept. Under that there is one lemma for what each function does (what a pass adopts,
what it writes, what the engine queues or answers) and one for each action.

* `ListedIsStored` needs `ListsKept` of everything an entry of an image passes through: the
  replica of each device, the update the engine holds, the log; `DbGood` (an image without
  flag is kept, for only such an image is written into the index) and `AnswersGood` (an
  upload that is reported as stored is kept). What the server drops, a user deleted.
* `PlaceholderStaysLocal` needs `Named`: a device that writes the name (`author`) shows one
  that its user gave or that the index had; a join that has read the name in a peek knows
  it, and any other shows the placeholder and does not write.
* `RefusedStaysLocal` needs `Refused` about what is on its way when the refusal comes: nobody
  but the owner has or can join the space, and a document that is being created belongs
  to a space that is pushed or mapped, so that its answer finds `refused` set.
* `RemovalsStayDeleted` needs that the queue of removals holds ids that existed (`used`), which no
  operation gives again.

### IndexMergeProofs

From the assumptions of `IndexBridge`:

* `OrderIsNothing`: two logs with the same updates make the same document of an empty one,
  whatever their order and repetitions.
* `ReplicasAgree`: `Spec => []ReplicasConverge`.
* `ListedImagesArrive`: `Spec => []ImagesArrive`.

*Argument.* `Later` is a total order on places (sequences of clients), proved from the first
place at which two of them differ (`Difference`, `LaterTrans`, `LaterTotal`). A document
*covers* an item that it has or whose place is before that of its own; whoever merges covers
both (`MergedCovers`, `AppliedIs`). A document that covers a log and is made of its items is
what the log makes (`DocOfOnly`), provided that two items at one place are one, or one and its
tombstone (`Agree`). This is what the invariant `MInv` has to carry through every step, about
everything that is under a key in a replica, in a queue or in the log (`Around`): an item at a
place that ends with a client is not beyond that client's own replica (`ItemsMeet`), so the
next one it writes, which follows what the replica shows, is at a place of its own; and no
client comes twice (`ClientsMeet`), for an engine that starts has a new one. `Follows` says
what each replica has: it covers its queue, what it has read and what its client has written,
and, unless a write was dropped, it is made of nothing else. There is one lemma for a write, a
delivery, a push and a new start (`WrittenMeets`, `DeliveredMeets`, `PushedMeets`,
`ResetMeets`), and one for each action. An attempt to prove the convergence that
`QuietMeansAgreed` also asks for showed that it needs `Whole`: with two late openings and two
restarts of the same device TLC finds a replica that lacks what the log has.

`ListedImagesArrive` rests on `ReplicasAgree` (the replica of a device at rest is what the log
makes) and on the invariant `AInv`, which TLC checked first, and of which three parts carry it:

* `Sane`: in a replica, a queue or the log, a tombstone of an image is of one that a user has
  deleted, and an entry that lists one has a place. So the entry of an image that nobody deleted
  survives every merge (`ListsOn`), whatever order updates come in.
* `Shows`: on a live device with a mapped space a listed image is there, and its content too or
  its fetch is under way; and an image that neither waits nor has its content is listed. The
  second half is for the pass that writes: it lists an image without flag, and nobody would
  then ask for the content. A lost connection ends the fetches, and `live` with them, so that
  the pass behind the next DocSynced asks anew.
* `Alone`: while its space is local, or the space is still to be pushed, a device has no replica,
  no join and no upload on its way. So it is not live when its space becomes mapped, and no
  answer of earlier finds its images.

An upload that is answered clears the flag, so `Ready` also says that an image with an upload on
its way that is there and not deleted has its content or is listed. The proof showed that
`IsSettled` had said too little: a situation whose caught-up device lacked the content of a
listed image and was not fetching it is none the bridge comes to.

### Only model-checked

The liveness properties (liveness under fairness and ENABLED are out of the prover's
reach). Of `IndexBridge`, `QuietMeansAgreed` and `IntentKept`: what the databases of several
devices show at rest. The replicas are proved to converge, and the images to arrive; that
folders, titles and names then show what the replica says depends on what each pass has left
to the next since the last change of each table.

## 5. Not modelled, and what is left

Not modelled: **presence** (best-effort, nothing depends on it), the **identity store**
(a key file and cryptography), the **search worker** (reads the notes, a stale answer is
dropped by its generation), the **UI** apart from its entry points to synchronization,
showcase and test support, and the relay's storage, which is not in the repository. Of
the note model, text, cursors, undo and Markdown; of the store, schema migrations.

Left, in this order:

1. A proof that in `IndexBridge`, when everything is still, a database shows what its replica says.
2. Several spaces in one engine: envelopes and answers that are not told apart.

## 6. Known divergences without a run

Found while modelling and excepted by the hypotheses above, or outside every property.

*Engine.*
* `disconnect` (engine.rs 486) keeps the in-flight marks of fetches, so that a fetch lost
  with its connection blocks later ones; and it does not answer waiting joins, so that
  `AppSync::joining` makes every later `fetch_space` of that space return at once.
* A rotation missed while disconnected is not caught up until the next one is announced:
  JoinSpace of a space that is joined fetches nothing (938), a frame of the new epoch
  has the envelopes fetched but not the log (1751).
* `handle_envelopes` (2122) takes sixteen envelopes of an answer: whoever joins after the
  sixteenth removal gets the keys of the first sixteen epochs, at every fetch the same.
* A subscription refused with Internal and an edit acknowledged before DocSynced leave no
  flag to reship for.
* A change lost with its connection (`add_member`, `remove_member` apply it first) is
  never sent again; the relay refuses every later change of that owner until it
  starts anew, and the owner may seal under an epoch nobody else knows. With two owners,
  concurrent removals mint two keys for one epoch, and the loser keeps its own. A member
  removed and admitted again while connected keeps its old log.
* An error for an earlier join attempt fails a later one (1604); two uploads of one blob
  share a waiter (1950); GetBlob, PutBlob and ListSpaces refused with Internal wait until
  the next disconnect. A Pong may sit unread while the tick is picked first (713–741),
  against the comment at 284–290; quitting right after Disconnect or Reconnect does not
  wait for the old engine; events from before the bridge subscribed are lost.
* An OpenDoc that reaches the engine after the first write to the index lets that update
  be dropped (1002–1004), and its clock gap keeps later ones pending at the others.

*Bridge and index.*
* A concurrent change of one item leaves its flag set: it is neither written nor adopted
  again. A DocIdle of the title pass at start may clear the flag of a folder (app.rs
  1686). An offline rename of a space or an image is reverted on reconnect.
* A folder deleted by one device takes a flagged subfolder of another with it, although
  the index lists it; a note moved out of a folder that is deleted in the same batch goes
  to the root everywhere. `adopt_remote_folder` (note.rs 719–746) takes a parent as it comes: it may
  be in another space or unknown until the next start drops it, and moves on two devices
  may make a cycle of folders, which no start repairs and on which `folder_path`
  (state.rs 1345) does not end. Images of two members may share a name, which a link then
  does not tell apart, and a content (note.rs 985–989).
* Three immediate failures of an upload while offline put an image aside as if it were
  refused (2329, 2336, 1548). `unsync_space` while a `create_doc` is in flight leaves
  mapped notes in a local space (914–928). Moving a note to another synced space keeps
  its old document's entry.
* The result of a join that comes after the refusal of its space makes a mirror of it: the
  guard of SpacePushed (app.rs 1377) has no counterpart at SpaceJoined (1444). A CreateSpace lost
  with its connection is not sent again, and the space stays bound to nothing.
* `drop_space_runtime` clears a join that is on its way; forgetting a space right after
  pushing loses what the engine has queued.

*Notes database and store.*
* The comment of `finish_open` (452–453) says that images of vanished folders fall back to
  the root; nothing resets `blob.folder`.
* A crash between `set_space_remote` and `set_space_server` leaves a space half bound;
  re-importing a file drops `remote_doc` and `needs_push`; `rename_blob` to an image's own
  name adds a suffix; renaming an image does not rewrite links to it.
* A failed write of a note loses its dirty flag; with IndexedDB a failed write leaves the
  writer's cache wrong, and a row it believes deleted can come back.
