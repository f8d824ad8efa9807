------------------------------ MODULE IndexDoc ------------------------------
(***************************************************************************)
(* The index document of a synced space (src/sync/app.rs): a set of Yrs    *)
(* maps that say which notes, folders and images the space has, what they  *)
(* are called and where they are.  Every device keeps a replica, writes    *)
(* the differences between its database and the replica into it, and makes *)
(* its database follow what the others wrote.  The module is the data of   *)
(* that exchange and has no state: IndexBridge is the exchange.            *)
(*                                                                         *)
(* The database of a device, as far as the space is concerned:             *)
(*   space    "absent", "local" or "mapped" to the space of the server     *)
(*   name     of the space                                                 *)
(*   folders  id |-> [name, parent, push]                                  *)
(*   notes    doc |-> [title, folder, push, mapped]                        *)
(*   images   id |-> [name, push, bytes]                                   *)
(* where `push` of a note is its folder_needs_push.                        *)
(***************************************************************************)
EXTENDS Naturals, Sequences, FiniteSets

CONSTANTS
    None,       \* no value: not in a map, no parent, no folder
    FolderIds, NoteIds, ImageIds

Nothing == [x \in {} |-> {}]
Only(x, y) == [z \in {x} |-> y]
Over(f, g) == [x \in DOMAIN f \cup DOMAIN g |-> IF x \in DOMAIN g THEN g[x] ELSE f[x]]
Without(f, X) == [x \in DOMAIN f \ X |-> f[x]]

-----------------------------------------------------------------------------
(* Maps.  Yrs keeps the items that were ever put under a key and shows the *)
(* last: an item follows the one its author saw, and of two that follow    *)
(* the same item the one of the greater client is last.  So an item is the *)
(* sequence of the clients that led to it, and the last is the greatest.   *)

NameKey == <<"name", None>>
NoteKey(n) == <<"note", n>>
FolderKey(f) == <<"folder", f>>
ParentKey(f) == <<"parent", f>>
AssignKey(n) == <<"assign", n>>
ImageKey(b) == <<"image", b>>
Keys == {NameKey} \cup {NoteKey(n) : n \in NoteIds} \cup {AssignKey(n) : n \in NoteIds}
        \cup {FolderKey(f) : f \in FolderIds} \cup {ParentKey(f) : f \in FolderIds}
        \cup {ImageKey(b) : b \in ImageIds}

Later(p, q) ==
    \E i \in 1..Len(p) :
        /\ \A j \in 1..(i - 1) : j <= Len(q) /\ p[j] = q[j]
        /\ i > Len(q) \/ p[i] > q[i]
\* A removed item stays as a tombstone.
Merged(r, s) ==
    CASE r.path = s.path -> IF r.value = None THEN r ELSE s
      [] Later(r.path, s.path) -> r
      [] OTHER -> s

EmptyDoc == [k \in Keys |-> [path |-> << >>, value |-> None]]
\* An update is a function from some of the keys; applying one, or joining two.
Apply(doc, update) ==
    [k \in DOMAIN doc \cup DOMAIN update |->
        IF k \notin DOMAIN update THEN doc[k]
        ELSE IF k \notin DOMAIN doc THEN update[k] ELSE Merged(doc[k], update[k])]

\* The update by which `client` makes doc agree with want, a function from keys
\* to values.
Update(doc, want, client) ==
    [k \in {key \in DOMAIN want : doc[key].value # want[key]} |->
        IF want[k] = None THEN [doc[k] EXCEPT !.value = None]
        ELSE [path |-> Append(doc[k].path, client), value |-> want[k]]]

Listed(doc, map, ids) == {i \in ids : doc[<<map, i>>].value # None}

-----------------------------------------------------------------------------
(* What the device wants the maps to say. *)

\* The titles that differ from what was last written, `titles`.
TitleWants(db, titles) ==
    LET stale == {n \in DOMAIN titles \cap DOMAIN db.notes : titles[n] # db.notes[n].title}
    IN  [k \in {NoteKey(n) : n \in stale} |-> db.notes[k[2]].title]

NameWants(db) == Only(NameKey, db.name)

\* Folders, without those in `removed`, and where the documents of `docs` are.
FolderWants(db, docs, removed) ==
    LET ids == removed \cup DOMAIN db.folders
        value(f, field) == IF f \in DOMAIN db.folders THEN db.folders[f][field] ELSE None
        home(n) == IF n \in DOMAIN db.notes THEN db.notes[n].folder ELSE None
    IN  [k \in {FolderKey(f) : f \in ids} \cup {ParentKey(f) : f \in ids}
               \cup {AssignKey(n) : n \in docs} |->
            CASE k[1] = "folder" -> value(k[2], "name")
              [] k[1] = "parent" -> value(k[2], "parent")
              [] k[1] = "assign" -> home(k[2])]

\* mutant: an image is advertised before its content is stored.
AdvertisedAtOnce(db, removed) ==
    [k \in {ImageKey(b) : b \in removed \cup DOMAIN db.images} |->
        IF k[2] \in DOMAIN db.images THEN db.images[k[2]].name ELSE None]
\* Images whose content the server has confirmed, without those in `removed`.
ImageWants(db, removed) ==
    LET stored == {b \in DOMAIN db.images : ~db.images[b].push}
    IN  [k \in {ImageKey(b) : b \in removed \cup stored} |->
            IF k[2] \in stored THEN db.images[k[2]].name ELSE None]

-----------------------------------------------------------------------------
(* What the device takes from the maps. *)

DownClosed(folders, S) == \A g \in DOMAIN folders : folders[g].parent \in S => g \in S
Subtree(folders, f) ==
    {g \in DOMAIN folders :
        /\ f \in DOMAIN folders
        /\ \A S \in SUBSET DOMAIN folders : f \in S /\ DownClosed(folders, S) => g \in S}

\* NoteDatabase::delete_folder for every folder of F: what is below goes with
\* it, and the notes in there fall to the root.
FoldersDeleted(db, F) ==
    LET gone == UNION {Subtree(db.folders, f) : f \in F}
    IN  [db EXCEPT
            !.folders = Without(@, gone),
            !.notes = [n \in DOMAIN @ |->
                IF @[n].folder \in gone THEN [@[n] EXCEPT !.folder = None, !.push = TRUE]
                ELSE @[n]]]

NameAdopted(db, doc) ==
    IF doc[NameKey].value = None THEN db ELSE [db EXCEPT !.name = doc[NameKey].value]

\* A title is taken over unless it is what this device wrote there last, and a
\* note is made of a document that has none and never had one here.
TitleIsNews(db, titles, doc, n) ==
    LET title == doc[NoteKey(n)].value
    IN  title # None /\ n \in DOMAIN db.notes /\ db.notes[n].mapped
        /\ (n \in DOMAIN titles => titles[n] # title) /\ db.notes[n].title # title
NoteIsNew(db, titles, doc, n) ==
    doc[NoteKey(n)].value # None /\ n \notin DOMAIN db.notes /\ n \notin DOMAIN titles
NotesAdopted(db, titles, doc) ==
    LET fresh == {n \in NoteIds : NoteIsNew(db, titles, doc, n)}
        note(n) == [title |-> doc[NoteKey(n)].value, folder |-> None, push |-> FALSE,
                    mapped |-> TRUE]
    IN  [db EXCEPT !.notes =
            [n \in DOMAIN @ \cup fresh |->
                CASE n \in fresh -> note(n)
                  [] TitleIsNews(db, titles, doc, n) ->
                        [@[n] EXCEPT !.title = doc[NoteKey(n)].value]
                  [] OTHER -> @[n]]]
TitlesSeen(db, titles, doc) ==
    LET seen == {n \in NoteIds : NoteIsNew(db, titles, doc, n)
                        \/ (n \in DOMAIN titles /\ TitleIsNews(db, titles, doc, n))}
    IN  Over(titles, [n \in seen |-> doc[NoteKey(n)].value])

\* mutant: the folders whose removal waits are adopted again.
FoldersAdoptedAgain(db, doc, removed) ==
    LET listed == Listed(doc, "folder", FolderIds)
        keep(f) == f \in DOMAIN db.folders /\ db.folders[f].push
    IN  [db EXCEPT !.folders =
            [f \in DOMAIN @ \cup listed |->
                IF f \notin listed \/ keep(f) THEN @[f]
                ELSE [name |-> doc[FolderKey(f)].value, parent |-> doc[ParentKey(f)].value,
                      push |-> FALSE]]]
\* A folder that waits to be written keeps what it has; a parent must be listed.
FoldersAdopted(db, doc, removed) ==
    LET listed == Listed(doc, "folder", FolderIds) \ removed
        parent(f) == LET p == doc[ParentKey(f)].value IN IF p \in listed \ {f} THEN p ELSE None
        keep(f) == f \in DOMAIN db.folders /\ db.folders[f].push
    IN  [db EXCEPT !.folders =
            [f \in DOMAIN @ \cup listed |->
                IF f \notin listed \/ keep(f) THEN @[f]
                ELSE [name |-> doc[FolderKey(f)].value, parent |-> parent(f), push |-> FALSE]]]

StaleFolders(db, doc) ==
    {f \in DOMAIN db.folders : ~db.folders[f].push} \ Listed(doc, "folder", FolderIds)

NotesFiled(db, docs, doc) ==
    LET home(n) == LET f == doc[AssignKey(n)].value
                   IN  IF f \in DOMAIN db.folders THEN f ELSE None
    IN  [db EXCEPT !.notes =
            [n \in DOMAIN @ |-> IF n \in docs /\ ~@[n].push THEN [@[n] EXCEPT !.folder = home(n)]
                                ELSE @[n]]]

\* The images of the index; of those it does not list the ones that do not wait
\* to be uploaded are deleted.
ImagesAdopted(db, doc, removed) ==
    LET listed == Listed(doc, "image", ImageIds)
        stale == {b \in DOMAIN db.images : ~db.images[b].push} \ listed
        fresh == [name |-> None, push |-> FALSE, bytes |-> FALSE]
        known(b) == IF b \in DOMAIN db.images THEN db.images[b] ELSE fresh
    IN  [db EXCEPT !.images =
            [b \in (DOMAIN @ \ stale) \cup (listed \ removed) |->
                IF b \in listed \ removed THEN [known(b) EXCEPT !.name = doc[ImageKey(b)].value]
                ELSE @[b]]]
=============================================================================
