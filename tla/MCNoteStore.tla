---------------------------- MODULE MCNoteStore -----------------------------
(* The instance of NoteStore that TLC checks: the bounds are in the .cfg file. *)
EXTENDS NoteStore, TLC

\* A first installation, and a profile of two spaces: in the first a folder in
\* a folder, a mapped note in the inner one and two images, one of
\* them a peer's, which was renamed here and is still without its content.
FirstStart == [spaces |-> Nothing, folders |-> Nothing, notes |-> Nothing,
               blobs |-> Nothing, allowEmpty |-> FALSE]
TwoSpaces ==
    [spaces |-> 1 :> [remote |-> TRUE, server |-> TRUE] @@ 2 :> LocalSpace,
     folders |-> 1 :> [space |-> 1, parent |-> NoFolder, push |-> FALSE, theirs |-> FALSE]
              @@ 2 :> [space |-> 1, parent |-> 1, push |-> FALSE, theirs |-> FALSE],
     notes |-> 1 :> [NewNote(1) EXCEPT !.folder = 2, !.doc = 1],
     blobs |-> 1 :> [space |-> 1, folder |-> 2, name |-> << >>, hash |-> 1,
                     bytes |-> TRUE, push |-> FALSE, theirs |-> {}]
           @@ 2 :> [space |-> 1, folder |-> NoFolder, name |-> <<2>>, hash |-> 3,
                     bytes |-> FALSE, push |-> FALSE,
                     theirs |-> {"content"}],
     allowEmpty |-> FALSE]
OneOfEach == {FirstStart, TwoSpaces}
OneName == {<< >>}
OneHash == {2}
=============================================================================
