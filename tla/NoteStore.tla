----------------------------- MODULE NoteStore ------------------------------
(***************************************************************************)
(* The note database of one installation and its disk (src/note.rs): the   *)
(* tables in memory, which the UI thread changes, the queue of WriteOps,   *)
(* the writer that applies them to the store, and what the next start      *)
(* makes of whatever the store then holds.                                 *)
(*                                                                         *)
(* Spaces, folders and blobs are written as whole lists on every change,   *)
(* notes only when they are flushed, so the tables of the disk are of      *)
(* different ages whenever the program ends.  The store is SQLite, whose   *)
(* rows of notes refer to rows of spaces, or IndexedDB, which is given     *)
(* only the differences from what the writer believes is stored.           *)
(***************************************************************************)
EXTENDS NoteDb

CONSTANTS
    Profiles,    \* what the disk holds at first, of earlier sessions
    Used,        \* the highest identifier in Profiles
    Names,       \* names the user gives to images
    Hashes,      \* contents of images
    Stores,      \* which of "sqlite", "idb" to run on
    MaxSpaces,   \* bound: identifiers of spaces
    MaxNotes,    \* bound: identifiers of notes
    MaxOps,      \* bound: operations of the user and the sync bridge
    MaxWaiting,  \* bound: writes that wait when an operation, a flush or a close begins
    MaxFaults    \* bound: crashes and failures of the disk

Kinds == {"sqlite", "idb"}
Ids == 0..(Used + 2 * MaxOps)
SpaceIds == Nat \ {0}
Space == [remote : BOOLEAN, server : BOOLEAN]
Folder == [space : SpaceIds, parent : Ids, push : BOOLEAN, theirs : BOOLEAN]
Note == [space : SpaceIds, folder : Ids, fpush : BOOLEAN, doc : Ids, push : BOOLEAN,
         ver : 0..MaxOps, dirty : BOOLEAN]
Blob == [space : SpaceIds, folder : Ids, name : Seq(Nat), hash : Nat, bytes : BOOLEAN,
         push : BOOLEAN, theirs : SUBSET {"name", "content"}]
IsTable(t, K, R) == DOMAIN t \subseteq K /\ IsFiniteSet(DOMAIN t) /\ t \in [DOMAIN t -> R]
IsDisk(d) ==
    /\ DOMAIN d = {"spaces", "folders", "notes", "blobs", "allowEmpty"}
    /\ IsTable(d.spaces, SpaceIds, Space) /\ IsTable(d.folders, Ids \ {NoFolder}, Folder)
    /\ IsTable(d.notes, Nat, Note) /\ IsTable(d.blobs, Ids, Blob)
    /\ d.allowEmpty \in BOOLEAN

\* Every non-empty set of folders has one whose parent is outside of it, or was
\* given by a peer: each cycle holds such a folder.
Acyclic(fs) ==
    \A S \in SUBSET DOMAIN fs : S # {} => \E f \in S : fs[f].theirs \/ fs[f].parent \notin S
\* Of two images of a space with one name, or with one content, a peer gave one.
OneOfEachImage(bs) ==
    \A a, b \in DOMAIN bs : a # b /\ bs[a].space = bs[b].space =>
        /\ bs[a].name = bs[b].name => "name" \in bs[a].theirs \cup bs[b].theirs
        /\ bs[a].hash = bs[b].hash => "content" \in bs[a].theirs \cup bs[b].theirs

ASSUME BoundsAssumption ==
    MaxSpaces \in Nat /\ MaxNotes \in Nat /\ MaxOps \in Nat
    /\ MaxWaiting \in Nat /\ MaxFaults \in Nat /\ Used \in Nat
ASSUME StoresAssumption == Stores \subseteq Kinds
ASSUME ProfilesAssumption == \A d \in Profiles :
    /\ IsDisk(d) /\ Acyclic(d.folders)
    /\ \A f \in DOMAIN d.folders \cup DOMAIN d.blobs : f <= Used
    /\ \A n \in DOMAIN d.notes :
        /\ d.notes[n].ver = 0 /\ ~d.notes[n].dirty /\ d.notes[n].space \in DOMAIN d.spaces
        /\ d.notes[n].doc <= Used
        /\ \A m \in DOMAIN d.notes :
            m # n => d.notes[m].doc # d.notes[n].doc \/ d.notes[n].doc = NoDoc
    /\ OneOfEachImage(d.blobs)
ASSUME ImagesAssumption == Names \subseteq Seq(Nat) /\ Hashes \subseteq Nat

VARIABLES
    kind,        \* the store of this build
    phase,       \* opening: loaded, the start's writes sent; open; closing: queue draining;
                 \* closed; deaf: nothing is written; aborting: the start failed, queue
                 \* draining; memory: no store
    (* the NoteDatabase *)
    spaces, folders, notes, blobs, allowEmpty,
    nextSpace, nextNote,
    (* the writer *)
    queue,
    cache,       \* idb: what the writer believes is stored
    disk,
    (* bounds and history *)
    held,        \* the last edit the server has of every document
    fresh,       \* the last Uuid made
    ops, faults,
    broken,      \* a write has failed since the first start
    failed,      \* a write of the start that is under way has failed
    lostTables,  \* lists whose last write since the start failed
    lostNotes    \* notes whose row is not what was sent or loaded: a write that
                 \* failed, or a repair of the load, which is not written

tables == <<spaces, folders, notes, blobs, allowEmpty>>
db == <<tables, nextSpace, nextNote>>
history == <<held, fresh, ops, faults, broken, failed, lostTables, lostNotes>>
vars == <<kind, phase, db, queue, cache, disk, history>>

TableNames == {"spaces", "folders", "blobs", "allowEmpty"}
IsOp(op) ==
    \/ DOMAIN op = {"table", "value"} /\ op.table = "spaces" /\ IsTable(op.value, SpaceIds, Space)
    \/ DOMAIN op = {"table", "value"} /\ op.table = "folders"
         /\ IsTable(op.value, Ids \ {NoFolder}, Folder)
    \/ DOMAIN op = {"table", "value"} /\ op.table = "blobs" /\ IsTable(op.value, Ids, Blob)
    \/ DOMAIN op = {"table", "value"} /\ op.table = "allowEmpty" /\ op.value \in BOOLEAN
    \/ DOMAIN op = {"table", "value"} /\ op.table = "notes" /\ IsTable(op.value, Nat, Note)
    \/ DOMAIN op = {"table", "gone"} /\ op.table = "notes" /\ op.gone \subseteq Nat

TypeOK ==
    /\ kind \in Kinds
    /\ phase \in {"opening", "open", "closing", "closed", "deaf", "aborting", "memory"}
    /\ IsTable(spaces, SpaceIds, Space) /\ IsTable(folders, Ids \ {NoFolder}, Folder)
    /\ IsTable(notes, Nat, Note) /\ IsTable(blobs, Ids, Blob)
    /\ allowEmpty \in BOOLEAN
    /\ nextSpace \in Nat /\ nextNote \in Nat
    /\ \A i \in DOMAIN queue : IsOp(queue[i])
    /\ IsDisk(cache) /\ IsDisk(disk)
    /\ IsTable(held, Ids, 0..MaxOps)
    /\ fresh \in Ids /\ ops \in 0..MaxOps /\ faults \in 0..MaxFaults /\ broken \in BOOLEAN
    /\ failed \in BOOLEAN /\ lostTables \subseteq TableNames /\ lostNotes \subseteq Nat

-----------------------------------------------------------------------------
(* WriteOps. *)

Whole(name, value) == [table |-> name, value |-> value]
Rows(N) == [table |-> "notes", value |-> [n \in N |-> Snapshot(notes[n])]]
Gone(N) == [table |-> "notes", gone |-> N]
IsList(op) == op.table # "notes"
IsRows(op) == op.table = "notes" /\ "value" \in DOMAIN op

\* A database without a store keeps nothing.
Send(s) == queue' = IF phase = "open" THEN queue \o s ELSE queue

\* An operation of the user or of the sync bridge.
Operates ==
    /\ phase \in {"open", "deaf", "memory"}
    /\ ops < MaxOps /\ ops' = ops + 1
    /\ Len(queue) <= MaxWaiting
    /\ UNCHANGED <<kind, phase, cache, disk, faults, broken, failed,
                   lostTables, lostNotes>>
NoUuid == UNCHANGED fresh
NewUuid == fresh' = fresh + 1
Elsewhere == UNCHANGED <<nextSpace, nextNote, held>>

-----------------------------------------------------------------------------
(* Spaces. *)

CreateSpace ==
    /\ Operates /\ nextSpace <= MaxSpaces
    /\ nextSpace' = nextSpace + 1
    /\ allowEmpty' = FALSE
    /\ spaces' = Over(spaces, Only(nextSpace, LocalSpace))
    /\ Send(<<Whole("allowEmpty", FALSE), Whole("spaces", spaces')>>)
    /\ NoUuid /\ UNCHANGED <<folders, notes, blobs, nextNote, held>>

\* set_space_remote, then set_space_server: two writes.
Rebound(s, remote) ==
    LET half == [spaces EXCEPT ![s].remote = remote]
    IN  /\ spaces' = [half EXCEPT ![s].server = remote]
        /\ Send(<<Whole("spaces", half), Whole("spaces", spaces')>>)
BindSpace(s) ==
    /\ Operates /\ ~spaces[s].remote
    /\ Rebound(s, TRUE)
    /\ NoUuid /\ Elsewhere /\ UNCHANGED <<folders, notes, blobs, allowEmpty>>
UnbindSpace(s) ==
    /\ Operates /\ spaces[s].remote
    /\ Rebound(s, FALSE)
    /\ notes' = [n \in DOMAIN notes |->
            IF notes[n].space = s /\ (notes[n].doc # NoDoc \/ notes[n].push)
            THEN [notes[n] EXCEPT !.doc = NoDoc, !.push = FALSE, !.dirty = TRUE]
            ELSE notes[n]]
    /\ NoUuid /\ Elsewhere /\ UNCHANGED <<folders, blobs, allowEmpty>>

\* mutant: the record that there may be no space is written last.
FlagWrittenLast(s) ==
    <<Gone({n \in DOMAIN notes : notes[n].space = s}),
      Whole("spaces", Without(spaces, {s})), Whole("folders", OutsideSpace(folders, s))>>
    \o (IF DOMAIN spaces = {s} THEN <<Whole("allowEmpty", TRUE)>> ELSE << >>)
\* What the deletion of space s writes, in this order.
DeletionWrites(s) ==
    LET inside == {n \in DOMAIN notes : notes[n].space = s}
    IN  (IF DOMAIN spaces = {s} THEN <<Whole("allowEmpty", TRUE)>> ELSE << >>)
        \o (IF inside # {} THEN <<Gone(inside)>> ELSE << >>)
        \o <<Whole("spaces", Without(spaces, {s})), Whole("folders", OutsideSpace(folders, s))>>
DeleteSpace(s) ==
    /\ Operates
    /\ notes' = OutsideSpace(notes, s)
    /\ folders' = OutsideSpace(folders, s)
    /\ spaces' = Without(spaces, {s})
    /\ allowEmpty' = (allowEmpty \/ DOMAIN spaces = {s})
    /\ Send(DeletionWrites(s))
    /\ NoUuid /\ Elsewhere /\ UNCHANGED blobs

-----------------------------------------------------------------------------
(* Folders. *)

FoldersChanged == Send(<<Whole("folders", folders')>>)
OnlyFolders == NoUuid /\ Elsewhere /\ UNCHANGED <<spaces, blobs, allowEmpty>>

CreateFolder(s, parent) ==
    /\ Operates /\ CanCreateFolder(spaces, folders, s, parent)
    /\ NewUuid
    /\ folders' = Over(folders, Only(fresh', NewFolder(s, parent)))
    /\ FoldersChanged /\ Elsewhere /\ UNCHANGED <<spaces, notes, blobs, allowEmpty>>

\* rename_folder, and the acknowledgement of its entry in the index.
MarkFolder(f, push) ==
    /\ Operates
    /\ folders[f].push # push
    /\ folders' = [folders EXCEPT ![f].push = push]
    /\ FoldersChanged /\ OnlyFolders /\ UNCHANGED notes

\* adopt_remote_folder, of an identifier met before or of a new one.
AdoptFolder(s, f, parent) ==
    /\ Operates /\ CanAdopt(spaces, folders, s, f)
    /\ folders' = FolderAdopted(folders, s, f, parent)
    /\ fresh' = fresh + 2
    /\ FoldersChanged /\ Elsewhere /\ UNCHANGED <<spaces, notes, blobs, allowEmpty>>

DeleteFolder(f) ==
    /\ Operates
    /\ folders' = FoldersWithout(folders, f)
    /\ notes' = NotesAtRoot(notes, Subtree(folders, f))
    /\ FoldersChanged /\ OnlyFolders

SetFolderParent(f, parent) ==
    /\ Operates /\ CanReparent(folders, f, parent)
    /\ folders' = Reparented(folders, f, parent)
    /\ FoldersChanged /\ OnlyFolders /\ UNCHANGED notes

MoveFolderToSpace(f, s) ==
    /\ Operates /\ CanResettle(spaces, folders, f, s)
    /\ folders' = FoldersResettled(folders, f, s)
    /\ notes' = NotesResettled(notes, Subtree(folders, f), s)
    /\ FoldersChanged /\ OnlyFolders

-----------------------------------------------------------------------------
(* Notes: nothing is sent before they are flushed. *)

Deferred == UNCHANGED <<queue, spaces, folders, blobs, allowEmpty>>
ChangeNote(n, note) == notes' = [notes EXCEPT ![n] = note] /\ Deferred

CreateNote(s) ==
    /\ Operates /\ nextNote <= MaxNotes
    /\ nextNote' = nextNote + 1
    /\ notes' = Over(notes, Only(nextNote, Edited(NewNote(s), ops')))
    /\ Deferred /\ NoUuid /\ UNCHANGED <<nextSpace, held>>

\* The first note of a database without spaces brings a space with it.
CreateNoteAndSpace ==
    /\ Operates /\ spaces = Nothing /\ nextSpace <= MaxSpaces /\ nextNote <= MaxNotes
    /\ nextSpace' = nextSpace + 1 /\ nextNote' = nextNote + 1
    /\ allowEmpty' = FALSE
    /\ spaces' = Only(nextSpace, LocalSpace)
    /\ notes' = Over(notes, Only(nextNote, Edited(NewNote(nextSpace), ops')))
    /\ Send(<<Whole("allowEmpty", FALSE), Whole("spaces", spaces')>>)
    /\ NoUuid /\ UNCHANGED <<folders, blobs, held>>

\* A document of the server that no note is mapped to.
CreateNoteFromRemote(s) ==
    /\ Operates /\ nextNote <= MaxNotes /\ spaces[s].remote
    /\ nextNote' = nextNote + 1
    /\ NewUuid
    /\ held' = Over(held, Only(fresh', 0))
    /\ notes' = Over(notes, Only(nextNote, [NewNote(s) EXCEPT !.doc = fresh', !.dirty = TRUE]))
    /\ Deferred /\ UNCHANGED nextSpace

EditNote(n) ==
    /\ Operates
    /\ ChangeNote(n, Edited(notes[n], ops')) /\ NoUuid /\ Elsewhere

\* An update of the server, a new title, or an acknowledged folder.
TouchNote(n) ==
    /\ Operates
    /\ \/ ChangeNote(n, Dirtied(notes[n]))
       \/ notes[n].fpush /\ ChangeNote(n, [Dirtied(notes[n]) EXCEPT !.fpush = FALSE])
    /\ NoUuid /\ Elsewhere

DeleteNote(n) ==
    /\ Operates
    /\ notes' = Without(notes, {n})
    /\ Send(<<Gone({n})>>)
    /\ NoUuid /\ Elsewhere /\ UNCHANGED <<spaces, folders, blobs, allowEmpty>>

MoveNoteToSpace(n, s) ==
    /\ Operates /\ notes[n].space # s
    /\ ChangeNote(n, [Uprooted(notes[n], s) EXCEPT !.folder = NoFolder]) /\ NoUuid /\ Elsewhere

SetNoteFolder(n, f, byUser) ==
    /\ Operates /\ CanSetFolder(folders, notes[n], f)
    /\ ChangeNote(n, InFolder(notes[n], f, byUser)) /\ NoUuid /\ Elsewhere

\* DocCreated: a document of the server, which has nothing of the note yet.
MapNote(n) ==
    /\ Operates /\ notes[n].doc = NoDoc /\ spaces[notes[n].space].remote
    /\ NewUuid
    /\ held' = Over(held, Only(fresh', 0))
    /\ ChangeNote(n, [Dirtied(notes[n]) EXCEPT !.doc = fresh', !.push = TRUE])
    /\ UNCHANGED <<nextSpace, nextNote>>

\* The server has acknowledged every edit.
Acknowledge(n) ==
    /\ Operates /\ notes[n].doc # NoDoc /\ notes[n].push
    /\ held' = Over(held, Only(notes[n].doc, notes[n].ver))
    /\ ChangeNote(n, [Dirtied(notes[n]) EXCEPT !.push = FALSE])
    /\ NoUuid /\ UNCHANGED <<nextSpace, nextNote>>

\* flush_note and flush_dirty; a note is clean once its snapshot is sent.
Flushed(N) == [n \in DOMAIN notes |-> IF n \in N THEN Snapshot(notes[n]) ELSE notes[n]]
Flush(N) ==
    /\ phase \in {"open", "deaf", "memory"} /\ N # {} /\ Len(queue) <= MaxWaiting
    /\ notes' = Flushed(N)
    /\ Send(<<Rows(N)>>)
    /\ UNCHANGED <<kind, phase, spaces, folders, blobs, allowEmpty, nextSpace, nextNote,
                   cache, disk, history>>
Autosave == Flush(Dirty(notes))
FlushNote(n) == n \in Dirty(notes) /\ Flush({n})

\* A file of the tree, into a folder that its path names or makes; the note of
\* an earlier import of the file is replaced.  All dirty notes are flushed.
Import(s, f, n) ==
    LET made == f = fresh + 1
        note == [NewNote(s) EXCEPT !.folder = f, !.fpush = f # NoFolder, !.ver = ops']
        all == Over(notes, Only(n, note))
        N == Dirty(notes) \cup {n}
    IN  /\ Operates
        /\ n = nextNote \/ (n \in DOMAIN notes /\ notes[n].space = s)
        /\ n <= MaxNotes
        /\ nextNote' = IF n = nextNote THEN nextNote + 1 ELSE nextNote
        /\ f = NoFolder \/ made \/ FolderIn(folders, f, s)
        /\ fresh' = IF made THEN f ELSE fresh
        /\ folders' = IF made THEN Over(folders, Only(f, NewFolder(s, NoFolder))) ELSE folders
        /\ notes' = [m \in DOMAIN all |-> IF m \in N THEN Snapshot(all[m]) ELSE all[m]]
        /\ Send((IF made THEN <<Whole("folders", folders')>> ELSE << >>)
                \o <<[table |-> "notes", value |-> [m \in N |-> notes'[m]]]>>)
        /\ UNCHANGED <<spaces, blobs, allowEmpty, nextSpace, held>>

-----------------------------------------------------------------------------
(* Blobs. *)

BlobsChanged == Send(<<Whole("blobs", blobs')>>)
OnlyBlobs == BlobsChanged /\ Elsewhere /\ UNCHANGED <<spaces, folders, notes, allowEmpty>>

\* An image with the same hash in the space is used again; one adopted from the
\* index whose content is still missing gets it.
CreateBlob(s, name, hash) ==
    LET same == {b \in DOMAIN blobs : blobs[b].space = s /\ blobs[b].hash = hash}
    IN  /\ Operates
        /\ \/ /\ same = {}
              /\ NewUuid
              /\ blobs' = Over(blobs, Only(fresh', [space |-> s, folder |-> NoFolder,
                                name |-> UniqueName(blobs, s, name), hash |-> hash,
                                bytes |-> TRUE, push |-> TRUE, theirs |-> {}]))
           \/ /\ NoUuid
              /\ \E b \in same :
                    ~blobs[b].bytes /\ blobs' = [blobs EXCEPT ![b].bytes = TRUE]
        /\ OnlyBlobs

\* upsert_blob_meta_from_remote: the entry of the index, whatever else the
\* space holds; of an image known here only the name and the folder change.
UpsertBlob(s, b, name, hash, f) ==
    /\ Operates
    /\ IF b \in DOMAIN blobs
       THEN /\ blobs[b].name # name \/ blobs[b].folder # f
            /\ blobs' = [blobs EXCEPT ![b] = [@ EXCEPT !.name = name, !.folder = f,
                            !.theirs = blobs[b].theirs \cup
                                       (IF blobs[b].name = name THEN {} ELSE {"name"})]]
            /\ NoUuid
       ELSE /\ NewUuid
            /\ blobs' = Over(blobs, Only(b, [space |-> s, folder |-> f, name |-> name,
                            hash |-> hash, bytes |-> FALSE, push |-> FALSE,
                            theirs |-> {"name", "content"}]))
    /\ OnlyBlobs

\* set_blob_bytes_from_remote, of content with the hash of the entry.
SetBlobBytes(b) ==
    /\ Operates
    /\ blobs' = [blobs EXCEPT ![b].bytes = TRUE]
    /\ NoUuid /\ OnlyBlobs

RenameBlob(b, name) ==
    LET unique == UniqueName(blobs, blobs[b].space, name)
    IN  /\ Operates /\ blobs[b].name # unique
        /\ blobs' = [blobs EXCEPT ![b] = [@ EXCEPT !.name = unique, !.push = TRUE,
                                            !.theirs = blobs[b].theirs \ {"name"}]]
        /\ NoUuid /\ OnlyBlobs

SetBlobFolder(b, f) ==
    /\ Operates /\ blobs[b].folder # f
    /\ blobs' = [blobs EXCEPT ![b].folder = f, ![b].push = TRUE]
    /\ NoUuid /\ OnlyBlobs

DeleteBlob(b) ==
    /\ Operates
    /\ blobs' = Without(blobs, {b})
    /\ NoUuid /\ OnlyBlobs

ClearBlobPush(b) ==
    /\ Operates /\ blobs[b].push
    /\ blobs' = [blobs EXCEPT ![b].push = FALSE]
    /\ NoUuid /\ OnlyBlobs

-----------------------------------------------------------------------------
(* The writer. *)

Op == Head(queue)
Writing == phase \in {"opening", "open", "closing", "aborting"} /\ queue # << >>
Rest == queue' = Tail(queue) /\ UNCHANGED <<kind, phase, db, held, fresh, ops>>

\* A row of notes refers to a row of spaces (foreign_keys = ON).
Refused ==
    /\ kind = "sqlite"
    /\ \/ Op.table = "spaces" /\ \E n \in DOMAIN disk.notes :
                                    disk.notes[n].space \notin DOMAIN Op.value
       \/ IsRows(Op) /\ \E n \in DOMAIN Op.value : Op.value[n].space \notin DOMAIN disk.spaces

\* idb: the rows that differ from the cache are put, those gone from it deleted.
Put(stored, old, new) ==
    LET put == {k \in DOMAIN new : k \notin DOMAIN old \/ old[k] # new[k]}
    IN  Over(Without(stored, DOMAIN old \ DOMAIN new), [k \in put |-> new[k]])
Applied(d, op) ==
    CASE op.table = "notes" /\ "gone" \in DOMAIN op -> [d EXCEPT !.notes = Without(@, op.gone)]
      [] IsRows(op) -> [d EXCEPT !.notes = Over(@, op.value)]
      [] kind = "idb" /\ op.table # "allowEmpty" /\ IsList(op) ->
            [d EXCEPT ![op.table] = Put(@, cache[op.table], op.value)]
      [] OTHER -> [d EXCEPT ![op.table] = op.value]
Cached(op) ==
    IF IsList(op) THEN [cache EXCEPT ![op.table] = op.value] ELSE Applied(cache, op)

WriteOk ==
    /\ Writing /\ ~Refused
    /\ disk' = Applied(disk, Op)
    /\ cache' = IF kind = "idb" THEN Cached(Op) ELSE cache
    /\ lostTables' = IF kind = "sqlite" /\ IsList(Op) THEN lostTables \ {Op.table} ELSE lostTables
    /\ lostNotes' = IF IsRows(Op) THEN lostNotes \ DOMAIN Op.value ELSE lostNotes
    /\ UNCHANGED <<faults, broken, failed>> /\ Rest

\* SQLite saves notes row by row, each in a transaction of its own.
Part(op) ==
    IF kind = "sqlite" /\ IsRows(op)
    THEN {N \in SUBSET DOMAIN op.value : \A n \in N : op.value[n].space \in DOMAIN disk.spaces}
    ELSE {{}}
SomeRows(N) == [disk EXCEPT !.notes = Over(@, [n \in N |-> Op.value[n]])]

\* A write that fails is reported, and not repeated.
WriteFails ==
    /\ Writing
    /\ \/ Refused /\ UNCHANGED faults
       \/ ~Refused /\ faults < MaxFaults /\ faults' = faults + 1
    /\ broken' = TRUE /\ failed' = (phase = "opening")
    /\ \E N \in Part(Op) :
        /\ IsRows(Op) => N # DOMAIN Op.value
        /\ disk' = IF N = {} THEN disk ELSE SomeRows(N)
        /\ lostNotes' = CASE IsRows(Op) -> lostNotes \cup (DOMAIN Op.value \ N)
                          [] IsList(Op) -> lostNotes
                          [] OTHER -> lostNotes \cup Op.gone
    /\ cache' = IF kind = "idb" THEN Cached(Op) ELSE cache
    /\ lostTables' = IF IsList(Op) THEN lostTables \cup {Op.table} ELSE lostTables
    /\ Rest

-----------------------------------------------------------------------------
(* The end of the program, and the next start. *)

NoTables ==
    /\ spaces' = Nothing /\ folders' = Nothing /\ notes' = Nothing /\ blobs' = Nothing
    /\ allowEmpty' = FALSE
    /\ nextSpace' = 0 /\ nextNote' = 0

\* finish_open looks for a failure after each write that it sends, and one ends
\* the start: what was sent until then is still written.  (On wasm the writer
\* does not run before finish_open returns.)
OpenAborts ==
    /\ phase = "opening" /\ kind = "sqlite" /\ failed
    /\ phase' = "aborting" /\ failed' = FALSE
    /\ \E sent \in 0..Len(queue) : queue' = SubSeq(queue, 1, sent)
    /\ NoTables
    /\ UNCHANGED <<kind, cache, disk, held, fresh, ops, faults, broken, lostTables, lostNotes>>

\* EnkrState::shutdown flushes; dropping the handle waits for the queue.
Close ==
    /\ phase \in {"open", "deaf", "memory"} /\ Len(queue) <= MaxWaiting
    /\ phase' = "closing"
    /\ Send(IF Dirty(notes) # {} THEN <<Rows(Dirty(notes))>> ELSE << >>)
    /\ NoTables /\ UNCHANGED <<kind, cache, disk, history>>
Closed ==
    /\ phase = "closing" /\ queue = << >>
    /\ phase' = "closed"
    /\ UNCHANGED <<kind, db, queue, cache, disk, history>>

\* With IndexedDB also the end of a tab: nothing waits for the queue there.
Crash ==
    /\ phase \notin {"closed"} /\ faults < MaxFaults
    /\ faults' = faults + 1
    /\ phase' = "closed" /\ failed' = FALSE
    /\ queue' = << >>
    /\ disk' \in {disk} \cup (IF Writing /\ IsRows(Op)
                             THEN {SomeRows(N) : N \in Part(Op)} ELSE {})
    /\ NoTables
    /\ UNCHANGED <<kind, cache, held, fresh, ops, broken, lostTables, lostNotes>>

Load ==
    /\ spaces' = OpenedSpaces(disk) /\ folders' = OpenedFolders(disk)
    /\ notes' = OpenedNotes(disk) /\ blobs' = OpenedBlobs(disk)
    /\ allowEmpty' = disk.allowEmpty
    /\ nextSpace' = NextAfter(DOMAIN spaces', DefaultSpace)
    /\ nextNote' = NextAfter(DOMAIN notes', 1)
Repaired(d) ==
    {n \in DOMAIN OpenedNotes(d) : n \notin DOMAIN d.notes \/ OpenedNotes(d)[n] # d.notes[n]}
Started ==
    /\ failed' = FALSE /\ lostTables' = {} /\ lostNotes' = Repaired(disk)
    /\ UNCHANGED <<kind, disk, held, fresh, ops>>

Open ==
    /\ phase = "closed" /\ phase' = "opening"
    /\ spaces' = OpenedSpaces(disk) /\ folders' = OpenedFolders(disk)
    /\ blobs' = OpenedBlobs(disk) /\ allowEmpty' = disk.allowEmpty
    /\ nextSpace' = NextAfter(DOMAIN spaces', DefaultSpace)
    /\ LET loaded == OpenedNotes(disk)
       IN  /\ notes' = [n \in DOMAIN loaded |-> Snapshot(loaded[n])]
           /\ nextNote' = NextAfter(DOMAIN loaded, 1)
           /\ queue' = <<Whole("spaces", spaces'), Whole("folders", folders'),
                         Whole("blobs", blobs')>>
                       \o (IF Dirty(loaded) # {}
                           THEN <<[table |-> "notes",
                                   value |-> [n \in Dirty(loaded) |-> notes'[n]]]>>
                           ELSE << >>)
    /\ cache' = disk
    /\ Started /\ UNCHANGED <<faults, broken>>

Opened ==
    /\ phase = "opening" /\ phase' = "open" /\ failed' = FALSE
    /\ UNCHANGED <<kind, db, queue, cache, disk, held, fresh, ops, faults, broken,
                   lostTables, lostNotes>>

\* idb: the writer cannot read what is stored and ends; nobody looks for its error.
OpenDeaf ==
    /\ phase = "closed" /\ kind = "idb" /\ phase' = "deaf"
    /\ faults < MaxFaults /\ faults' = faults + 1
    /\ Load /\ Started /\ broken' = TRUE /\ UNCHANGED <<queue, cache>>

\* The store cannot be opened, or its first writes failed: a database in
\* memory, which is not saved.
InMemory ==
    /\ phase' = "memory"
    /\ spaces' = Only(DefaultSpace, LocalSpace) /\ folders' = Nothing /\ blobs' = Nothing
    /\ notes' = Only(WelcomeNote, NewNote(DefaultSpace))
    /\ allowEmpty' = FALSE
    /\ nextSpace' = DefaultSpace + 1 /\ nextNote' = 1
    /\ Started /\ UNCHANGED <<broken, queue, cache>>
OpenFails == phase = "closed" /\ faults < MaxFaults /\ faults' = faults + 1 /\ InMemory
FallsBack == phase = "aborting" /\ queue = << >> /\ UNCHANGED faults /\ InMemory

-----------------------------------------------------------------------------

SpaceOps ==
    \/ CreateSpace
    \/ \E s \in DOMAIN spaces : BindSpace(s) \/ UnbindSpace(s) \/ DeleteSpace(s)
FolderOps ==
    \/ \E s \in DOMAIN spaces, p \in DOMAIN folders \cup {NoFolder} : CreateFolder(s, p)
    \/ \E f \in DOMAIN folders :
        \/ \E push \in BOOLEAN : MarkFolder(f, push)
        \/ DeleteFolder(f)
        \/ \E p \in DOMAIN folders \cup {NoFolder} : SetFolderParent(f, p)
        \/ \E s \in DOMAIN spaces : MoveFolderToSpace(f, s)
    \/ \E s \in DOMAIN spaces, f \in 1..(fresh + 1), p \in 0..(fresh + 2) : AdoptFolder(s, f, p)
NoteOps ==
    \/ CreateNoteAndSpace
    \/ \E s \in DOMAIN spaces : CreateNote(s) \/ CreateNoteFromRemote(s)
    \/ \E s \in DOMAIN spaces, f \in DOMAIN folders \cup {NoFolder, fresh + 1},
          n \in DOMAIN notes \cup {nextNote} : Import(s, f, n)
    \/ \E n \in DOMAIN notes :
        \/ EditNote(n) \/ TouchNote(n) \/ DeleteNote(n) \/ MapNote(n) \/ Acknowledge(n)
        \/ \E s \in DOMAIN spaces : MoveNoteToSpace(n, s)
        \/ \E f \in DOMAIN folders \cup {NoFolder}, byUser \in BOOLEAN : SetNoteFolder(n, f, byUser)
BlobOps ==
    \/ \E s \in DOMAIN spaces, name \in Names, hash \in Hashes : CreateBlob(s, name, hash)
    \/ \E b \in DOMAIN blobs :
        \/ \E name \in Names : RenameBlob(b, name)
        \/ \E f \in DOMAIN folders \cup {NoFolder} : SetBlobFolder(b, f)
        \/ DeleteBlob(b) \/ ClearBlobPush(b) \/ SetBlobBytes(b)
    \/ \E s \in DOMAIN spaces, b \in DOMAIN blobs \cup {fresh + 1}, name \in Names,
          hash \in Hashes, f \in DOMAIN folders \cup {NoFolder} : UpsertBlob(s, b, name, hash, f)
FlushNotes == Autosave \/ \E n \in DOMAIN notes : FlushNote(n)
Writer == WriteOk \/ WriteFails
Lifecycle ==
    \/ Open \/ Opened \/ OpenAborts \/ FallsBack \/ OpenDeaf \/ OpenFails
    \/ Close \/ Closed \/ Crash

Next == SpaceOps \/ FolderOps \/ NoteOps \/ BlobOps \/ FlushNotes \/ Writer \/ Lifecycle

Init ==
    /\ kind \in Stores /\ phase = "closed"
    /\ spaces = Nothing /\ folders = Nothing /\ notes = Nothing /\ blobs = Nothing
    /\ allowEmpty = FALSE /\ nextSpace = 0 /\ nextNote = 0
    /\ queue = << >>
    /\ disk \in Profiles /\ cache = disk
    /\ held = [d \in {disk.notes[n].doc : n \in DOMAIN disk.notes} |-> 0] /\ fresh = Used
    /\ ops = 0 /\ faults = 0 /\ broken = FALSE
    /\ failed = FALSE /\ lostTables = {} /\ lostNotes = {}

Spec == Init /\ [][Next]_vars

-----------------------------------------------------------------------------
(* Properties. *)

\* The folders of every space stay a forest but for the parents that peers gave,
\* every folder and note is in a space that exists, and every note is in a
\* folder of its own space: through moves of whole subtrees between spaces,
\* deletions, adoptions, and starts from tables of different ages.  What the
\* user does closes no cycle, and takes no folder apart from the parent it was
\* put under here, even where adopted parents already run in circles, lead to
\* another space or to a folder that does not exist.  (With IndexedDB a failed
\* write leaves the writer with a wrong picture of the disk, and with lists that
\* mix two of their versions.)
Sound(sp, fs, ns) ==
    /\ Acyclic(fs)
    /\ \A f \in DOMAIN fs :
        /\ fs[f].space \in DOMAIN sp
        /\ fs[f].theirs \/ fs[f].parent = NoFolder \/ FolderIn(fs, fs[f].parent, fs[f].space)
    /\ \A n \in DOMAIN ns :
        /\ ns[n].space \in DOMAIN sp
        /\ ns[n].folder = NoFolder \/ FolderIn(fs, ns[n].folder, ns[n].space)
TreeOK == kind = "sqlite" \/ ~broken => Sound(spaces, folders, notes)

\* A name that is given here is free and a content that is pasted here is new in
\* its space, beside whatever the index brought and also after a restart: of
\* two images with one name or one content, one has it from a peer.  (A peer's
\* entry is taken over as it is, so two members' images may share both.)
OwnImagesUnique ==
    kind = "sqlite" \/ ~broken => OneOfEachImage(blobs)

\* Whatever the next start finds, a note that is mapped to a document and not
\* flagged holds no edit that the server lacks: its flag and its text are one
\* row, so a crash at any point between an edit, its acknowledgement and their
\* writes leaves the edit flagged or absent.
FlagIsSaved ==
    \A n \in DOMAIN disk.notes :
        LET row == disk.notes[n]
        IN  row.doc # NoDoc /\ ~row.push => row.ver <= held[row.doc]

\* Once the queue is drained, the next start finds what the user sees: nothing
\* is kept of what was deleted and nothing is lost of what was flushed, but
\* for a parent that a peer gave and that leads to no folder of the space.  A write
\* of a list that failed is made good by the next write of the list.
QuietMeansSaved ==
    kind = "sqlite" /\ phase = "open" /\ queue = << >> /\ lostTables = {} =>
        /\ OpenedSpaces(disk) = spaces /\ OpenedFolders(disk) = Rooted(folders)
        /\ OpenedBlobs(disk) =
                Without(blobs, {b \in DOMAIN blobs : blobs[b].space \notin DOMAIN spaces})
        /\ disk.allowEmpty = allowEmpty
        /\ \A n \in DOMAIN notes :
            ~notes[n].dirty /\ n \notin lostNotes => OpenedNotes(disk)[n] = notes[n]
        /\ DOMAIN disk.notes \subseteq DOMAIN notes \cup lostNotes

\* Deleting never makes the disk look like a first installation, into which the
\* next start would put a first space and a welcome note: only the user's
\* creation of a space ends the record that there may be none.
FirstInstall(d) == d.spaces = Nothing /\ d.notes = Nothing /\ ~d.allowEmpty
DeletingIsRemembered ==
    [][FirstInstall(disk') /\ ~FirstInstall(disk) /\ lostTables = {} =>
        Op = Whole("allowEmpty", FALSE)]_disk
=============================================================================
