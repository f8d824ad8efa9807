--------------------------- MODULE MCIndexBridge ---------------------------
(* Situations for the bridge around the index of one space. *)
EXTENDS IndexBridge

CONSTANTS A, B, F1, F2, N1, I1

\* A server that knows the space, with one update in its log.
Known(update, stored) ==
    [exists |-> TRUE, refuses |-> FALSE, stored |-> stored,
     log |-> <<[from |-> 0, lost |-> FALSE, update |-> update]>>]
Unknown == [exists |-> FALSE, refuses |-> FALSE, stored |-> {}, log |-> << >>]
Put1(pairs) == [k \in DOMAIN pairs |-> [path |-> <<0>>, value |-> pairs[k]]]

\* Two folders, one in the other, and a note in the inner one.
FolderIndex == Put1(NameKey :> "a" @@ NoteKey(N1) :> "a" @@ FolderKey(F1) :> "a"
                    @@ FolderKey(F2) :> "a" @@ ParentKey(F2) :> F1 @@ AssignKey(N1) :> F2)
FolderDb == [space |-> "mapped", name |-> "a", images |-> Nothing,
             folders |-> F1 :> [name |-> "a", parent |-> None, push |-> FALSE]
                         @@ F2 :> [name |-> "a", parent |-> F1, push |-> FALSE],
             notes |-> N1 :> [title |-> "a", folder |-> F2, push |-> FALSE, mapped |-> TRUE]]
Situation(dbs, server0, ready) ==
    [kinds |-> {}, db |-> dbs, server |-> server0, ready |-> ready,
     ops |-> 0, drops |-> 0, restarts |-> 0, late |-> FALSE, big |-> {}]

FolderKinds == {"rename folder", "move folder", "delete folder", "file note"}
Folders(kinds, ops, drops, restarts) ==
    [Situation([d \in Devices |-> FolderDb], Known(FolderIndex, {}), Devices) EXCEPT
        !.kinds = kinds, !.ops = ops, !.drops = drops, !.restarts = restarts]
\* The outer folder alone.
OuterIndex == [k \in DOMAIN FolderIndex \ {FolderKey(F2), ParentKey(F2), AssignKey(N1)} |->
                  FolderIndex[k]]
OuterDb == [FolderDb EXCEPT !.folders = Without(@, {F2}), !.notes[N1].folder = None]
FolderStarts ==
    {Folders(FolderKinds \cup {"delete note", "rename note"}, 2, 0, 0),
     Folders(FolderKinds, 1, 1, 0), Folders(FolderKinds, 1, 0, 1),
     [Situation([d \in Devices |-> OuterDb], Known(OuterIndex, {}), Devices) EXCEPT
        !.kinds = {"add folder", "delete folder", "file note"}, !.ops = 2]}

\* No image yet.
BareDb == [space |-> "mapped", name |-> "a", images |-> Nothing, folders |-> Nothing,
           notes |-> Nothing]
Images(kinds, ops, drops, restarts) ==
    [Situation([d \in Devices |-> BareDb], Known(Put1(NameKey :> "a"), {}), Devices) EXCEPT
        !.kinds = kinds, !.ops = ops, !.drops = drops, !.restarts = restarts]
ImageKinds == {"paste", "rename image", "delete image"}
ImageStarts ==
    {Images(ImageKinds, 2, 0, 0), Images({"paste", "delete image"}, 3, 0, 0),
     Images(ImageKinds, 1, 1, 0), Images(ImageKinds, 1, 0, 1),
     [Images(ImageKinds, 2, 0, 0) EXCEPT !.big = ImageIds]}

\* One device has a local space and the other does not know it.
LocalDb == [BareDb EXCEPT !.space = "local"]
NotedDb == [LocalDb EXCEPT !.notes =
              N1 :> [title |-> "a", folder |-> None, push |-> FALSE, mapped |-> FALSE]]
Pushed(local, kinds, ops, refuses) ==
    {[Situation([d \in Devices |-> IF d = owner THEN local ELSE Empty],
                [Unknown EXCEPT !.refuses = refuses], {}) EXCEPT
        !.kinds = kinds, !.ops = ops] : owner \in Devices}
\* One device has the space and the other does not.
Shared(kinds, ops, drops) ==
    {[Situation([d \in Devices |-> IF d = owner THEN BareDb ELSE Empty],
                Known(Put1(NameKey :> "a"), {}), {owner}) EXCEPT
        !.kinds = kinds, !.ops = ops, !.drops = drops] : owner \in Devices}
SpaceStarts ==
    Shared({"peek", "fetch", "rename space"}, 3, 0) \cup Shared({"peek", "fetch", "rename space"}, 2, 1)
    \cup Pushed(NotedDb, {"push", "fetch", "forget", "destroy"}, 4, FALSE)
    \cup Pushed(LocalDb, {"push", "fetch", "add note", "rename note"}, 3, FALSE)
    \cup Pushed(NotedDb, {"push", "rename note", "delete note"}, 2, TRUE)
\* A program that opens the index late, after a start or the first fetch.
LateStarts ==
    {[Folders({"rename note"}, 1, 0, 1) EXCEPT !.late = TRUE]}
    \cup {[s EXCEPT !.late = TRUE] : s \in Shared({"fetch", "rename space"}, 2, 0)}
\* One image is pasted, and a connection is lost.
PasteStarts == {Images({"paste"}, 1, 1, 0)}
AllStarts == FolderStarts \cup ImageStarts \cup SpaceStarts \cup LateStarts
Permuted == Permutations(Devices)
TheNames == {"a", "b"}
=============================================================================
