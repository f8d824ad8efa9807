---------------------------- MODULE MCDocReplica ----------------------------
(***************************************************************************)
(* Small instances of DocReplica: which frames of other clients the engine *)
(* may be unable to open when they arrive.                                 *)
(***************************************************************************)
EXTENDS DocReplica

\* Every frame can be opened on arrival.
AllOpen == {}
\* A member added or promoted without a rotation: its author is not in the log held here.
NewAuthors == {{"author"}}
\* The log is current, an envelope is late.
NewAuthorsLateKeys == {{"author"}, {"key"}}
\* A member was removed: neither the log nor the envelopes held here know the epoch.
NewAuthorsRotations == {{"author"}, {"epoch", "key"}}
=============================================================================
