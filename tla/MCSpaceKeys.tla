---------------------------- MODULE MCSpaceKeys -----------------------------
(* The instances of SpaceKeys that TLC checks: the bounds are in the .cfg files. *)
EXTENDS SpaceKeys

\* Owners give the role of a writer only.
JustWriters == {"Writer"}
=============================================================================
