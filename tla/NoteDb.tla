------------------------------- MODULE NoteDb -------------------------------
(***************************************************************************)
(* The data of a NoteDatabase (src/note.rs) and what its operations make   *)
(* of it: spaces, a forest of folders in every space, notes and image      *)
(* blobs, each a function from identifiers to records.  The module has no  *)
(* state of its own: NoteStore puts the operations on a queue to the disk. *)
(*                                                                         *)
(*   spaces   id |-> [remote, server]                                      *)
(*   folders  id |-> [space, parent, push, theirs]                         *)
(*   notes    id |-> [space, folder, fpush, doc, push, ver, dirty]         *)
(*   blobs    id |-> [space, folder, name, hash, bytes, push, theirs]      *)
(*                                                                         *)
(* `push` is needs_push, `fpush` folder_needs_push, `ver` stands for the   *)
(* text of a note and counts the local edits in it.                        *)
(*                                                                         *)
(* `theirs` is history and not a field of the code: whether the parent of  *)
(* the folder, which of the name and the content of the image, are what a  *)
(* peer put into the index of the space.  No operation reads it.           *)
(***************************************************************************)
EXTENDS Naturals, Sequences, FiniteSets

\* Identifiers are numbers; these name nothing.
NoFolder == 0       \* no parent, or the root of the space
NoDoc == 0          \* not mapped to a document of the server
WelcomeNote == 0    \* WELCOME_NOTE_ID
DefaultSpace == 1   \* DEFAULT_SPACE_ID

Nothing == [x \in {} |-> {}]
Only(k, v) == [x \in {k} |-> v]
\* f with the entries of g, which win.
Over(f, g) == [x \in DOMAIN f \cup DOMAIN g |-> IF x \in DOMAIN g THEN g[x] ELSE f[x]]
Without(f, X) == [x \in DOMAIN f \ X |-> f[x]]

-----------------------------------------------------------------------------
(* Spaces. *)

LocalSpace == [remote |-> FALSE, server |-> FALSE]
First(S) == CHOOSE s \in S : \A t \in S : s <= t
NextAfter(S, least) == IF S = {} THEN least ELSE 1 + CHOOSE s \in S : \A t \in S : t <= s

\* Notes and folders go with their space; its blobs stay behind.
OutsideSpace(items, s) == Without(items, {i \in DOMAIN items : items[i].space = s})

-----------------------------------------------------------------------------
(* Folders. *)

FolderIn(folders, f, s) == f \in DOMAIN folders /\ folders[f].space = s

DownClosed(folders, S) == \A g \in DOMAIN folders : folders[g].parent \in S => g \in S
\* What the recursive walk collects: the folder and everything below it.
Subtree(folders, f) ==
    {g \in DOMAIN folders :
        /\ f \in DOMAIN folders
        /\ \A S \in SUBSET DOMAIN folders : f \in S /\ DownClosed(folders, S) => g \in S}

NewFolder(s, parent) == [space |-> s, parent |-> parent, push |-> TRUE, theirs |-> FALSE]
CanCreateFolder(spaces, folders, s, parent) ==
    s \in DOMAIN spaces /\ (parent = NoFolder \/ FolderIn(folders, parent, s))

FoldersWithout(folders, f) == Without(folders, Subtree(folders, f))
\* mutant: the notes of a deleted folder are not marked dirty.
NotesNotMarked(notes, T) ==
    [n \in DOMAIN notes |->
        IF notes[n].folder \in T
        THEN [notes[n] EXCEPT !.folder = NoFolder, !.fpush = TRUE] ELSE notes[n]]
NotesAtRoot(notes, T) ==
    [n \in DOMAIN notes |->
        IF notes[n].folder \in T
        THEN [notes[n] EXCEPT !.folder = NoFolder, !.fpush = TRUE, !.dirty = TRUE]
        ELSE notes[n]]

\* mutant: a folder may move into one that is below it.
MoveIntoDescendant(folders, f, parent) ==
    /\ f \in DOMAIN folders /\ folders[f].parent # parent
    /\ parent = NoFolder \/ (parent # f /\ FolderIn(folders, parent, folders[f].space))
CanReparent(folders, f, parent) ==
    /\ f \in DOMAIN folders /\ folders[f].parent # parent
    /\ \/ parent = NoFolder
       \/ /\ parent # f /\ FolderIn(folders, parent, folders[f].space)
          /\ parent \notin Subtree(folders, f)
Reparented(folders, f, parent) ==
    [folders EXCEPT ![f] = [@ EXCEPT !.parent = parent, !.push = TRUE, !.theirs = FALSE]]

\* An entry of the index: its parent is not looked up here, and may be below
\* the folder, in another space or not known at all.
CanAdopt(spaces, folders, s, f) ==
    IF f \in DOMAIN folders THEN ~folders[f].push ELSE s \in DOMAIN spaces
FolderAdopted(folders, s, f, parent) ==
    LET above == IF parent = f THEN NoFolder ELSE parent
        home == IF f \in DOMAIN folders THEN folders[f].space ELSE s
    IN  Over(folders, Only(f, [space |-> home, parent |-> above, push |-> FALSE,
                               theirs |-> above # NoFolder]))

CanResettle(spaces, folders, f, s) ==
    s \in DOMAIN spaces /\ f \in DOMAIN folders /\ folders[f].space # s
FoldersResettled(folders, f, s) ==
    [g \in DOMAIN folders |->
        IF g \in Subtree(folders, f)
        THEN [folders[g] EXCEPT !.space = s, !.push = TRUE,
                                !.parent = IF g = f THEN NoFolder ELSE @,
                                !.theirs = g # f /\ @]
        ELSE folders[g]]
\* A note in another space is another document there.
Uprooted(note, s) ==
    [note EXCEPT !.space = s, !.fpush = TRUE, !.doc = NoDoc, !.push = TRUE, !.dirty = TRUE]
NotesResettled(notes, T, s) ==
    [n \in DOMAIN notes |->
        IF notes[n].folder \in T THEN Uprooted(notes[n], s) ELSE notes[n]]

-----------------------------------------------------------------------------
(* Notes. *)

NewNote(s) == [space |-> s, folder |-> NoFolder, fpush |-> FALSE,
               doc |-> NoDoc, push |-> FALSE, ver |-> 0, dirty |-> FALSE]
Edited(note, ver) == [note EXCEPT !.ver = ver, !.push = TRUE, !.dirty = TRUE]
Dirtied(note) == [note EXCEPT !.dirty = TRUE]
CanSetFolder(folders, note, f) ==
    note.folder # f /\ (f = NoFolder \/ FolderIn(folders, f, note.space))
InFolder(note, f, byUser) ==
    [note EXCEPT !.folder = f, !.fpush = @ \/ byUser, !.dirty = TRUE]
Dirty(notes) == {n \in DOMAIN notes : notes[n].dirty}
\* mutant: needs_push is not among the columns that are saved.
FlagNotSaved(note) == [note EXCEPT !.dirty = FALSE, !.push = FALSE]
\* A NoteSnapshot, which is also a note as it is loaded.
Snapshot(note) == [note EXCEPT !.dirty = FALSE]

-----------------------------------------------------------------------------
(* Blobs.  The name i1.png is the sequence <<1>>, image.png is << >>. *)

Taken(blobs, s, name) == \E b \in DOMAIN blobs : blobs[b].space = s /\ blobs[b].name = name
\* mutant: the suffix is the number of images and not a free one.
SuffixCounts(blobs, s, name) ==
    IF Taken(blobs, s, name) THEN Append(name, Cardinality(DOMAIN blobs)) ELSE name
UniqueName(blobs, s, name) ==
    IF ~Taken(blobs, s, name) THEN name
    ELSE LET suffixes == 1..(Cardinality(DOMAIN blobs) + 1)
         IN  Append(name, First({k \in suffixes : ~Taken(blobs, s, Append(name, k))}))

-----------------------------------------------------------------------------
(* Opening the tables d of a disk. *)

SeededNotes(d) ==
    IF DOMAIN d.notes = {} /\ ~d.allowEmpty
    THEN Only(WelcomeNote, Edited(NewNote(DefaultSpace), 0))
    ELSE d.notes

OpenedSpaces(d) ==
    IF DOMAIN d.spaces = {} /\ (~d.allowEmpty \/ DOMAIN SeededNotes(d) # {})
    THEN Only(DefaultSpace, LocalSpace)
    ELSE d.spaces

\* A parent that is gone, is in another space or is the folder itself is dropped.
Rooted(folders) ==
    [f \in DOMAIN folders |->
        IF folders[f].parent # f /\ FolderIn(folders, folders[f].parent, folders[f].space)
        THEN folders[f]
        ELSE [folders[f] EXCEPT !.parent = NoFolder, !.theirs = FALSE]]
\* The folders of spaces that still exist.
OpenedFolders(d) ==
    Rooted(Without(d.folders, {f \in DOMAIN d.folders :
                                d.folders[f].space \notin DOMAIN OpenedSpaces(d)}))

\* mutant: a note of a space that is gone is in none.
NotesNowhere(d) ==
    [n \in DOMAIN SeededNotes(d) |->
        IF FolderIn(OpenedFolders(d), SeededNotes(d)[n].folder, SeededNotes(d)[n].space)
        THEN SeededNotes(d)[n] ELSE [SeededNotes(d)[n] EXCEPT !.folder = NoFolder, !.space =
              IF @ \in DOMAIN OpenedSpaces(d) THEN @ ELSE NoFolder]]
\* A note of a space that is gone falls back to the first space, one in a
\* folder that is gone to the root.
OpenedNotes(d) ==
    LET spaces == DOMAIN OpenedSpaces(d)
        home(note) == IF note.space \in spaces THEN note.space ELSE First(spaces)
        settled(note) == [note EXCEPT !.space = home(note), !.folder =
                            IF FolderIn(OpenedFolders(d), @, home(note)) THEN @ ELSE NoFolder]
    IN  [n \in DOMAIN SeededNotes(d) |-> settled(SeededNotes(d)[n])]

OpenedBlobs(d) ==
    Without(d.blobs, {b \in DOMAIN d.blobs : d.blobs[b].space \notin DOMAIN OpenedSpaces(d)})
=============================================================================
