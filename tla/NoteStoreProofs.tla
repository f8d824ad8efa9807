-------------------------- MODULE NoteStoreProofs ---------------------------
(***************************************************************************)
(* What holds of the note database and its disk (src/note.rs) for any      *)
(* profiles, any number of operations of the user and the bridge, of       *)
(* writes that wait, and of crashes and failed writes.                     *)
(*                                                                         *)
(* Each argument is about all versions of one thing: a note or a list in   *)
(* memory, on its way in the queue, and on the disk.  What an operation    *)
(* sends (Sends) and what the writer makes of it (WriteOkIs, WriteFailsIs) *)
(* are said once, and each invariant is then moved along by them.          *)
(***************************************************************************)
EXTENDS NoteStore, TLAPS, FiniteSetTheorems, WellFoundedInduction

-----------------------------------------------------------------------------
(* Tables. *)

\* What IsTable says, as a set.
Tables(K, R) == UNION {[S -> R] : S \in {T \in SUBSET K : IsFiniteSet(T)}}

LEMMA TableIs ==
    ASSUME NEW K, NEW R, NEW t
    PROVE  IsTable(t, K, R) <=> t \in Tables(K, R)
<1>1. ASSUME IsTable(t, K, R) PROVE t \in Tables(K, R)
  <2>1. DOMAIN t \in {T \in SUBSET K : IsFiniteSet(T)} /\ t \in [DOMAIN t -> R]
    BY <1>1 DEF IsTable
  <2>. QED  BY <2>1 DEF Tables
<1>2. ASSUME t \in Tables(K, R) PROVE IsTable(t, K, R)
  <2>1. PICK S \in {T \in SUBSET K : IsFiniteSet(T)} : t \in [S -> R]
    BY <1>2 DEF Tables
  <2>. QED  BY <2>1 DEF IsTable
<1>. QED  BY <1>1, <1>2

LEMMA MadeTable ==
    ASSUME NEW K, NEW R, NEW S, S \subseteq K, IsFiniteSet(S), NEW t \in [S -> R]
    PROVE  IsTable(t, K, R)
BY DEF IsTable

LEMMA EmptyTable ==
    ASSUME NEW K, NEW R
    PROVE  IsTable(Nothing, K, R) /\ DOMAIN Nothing = {}
BY FS_EmptySet DEF IsTable, Nothing

LEMMA OnlyTable ==
    ASSUME NEW K, NEW R, NEW k \in K, NEW v \in R
    PROVE  /\ IsTable(Only(k, v), K, R)
           /\ DOMAIN Only(k, v) = {k} /\ Only(k, v)[k] = v
BY FS_Singleton DEF IsTable, Only

LEMMA OverTable ==
    ASSUME NEW K, NEW R, NEW f, NEW g, IsTable(f, K, R), IsTable(g, K, R)
    PROVE  /\ IsTable(Over(f, g), K, R)
           /\ DOMAIN Over(f, g) = DOMAIN f \cup DOMAIN g
           /\ \A k \in DOMAIN g : Over(f, g)[k] = g[k]
           /\ \A k \in DOMAIN f \ DOMAIN g : Over(f, g)[k] = f[k]
<1>1. IsFiniteSet(DOMAIN f \cup DOMAIN g)
  BY FS_Union DEF IsTable
<1>. QED  BY <1>1 DEF IsTable, Over

LEMMA WithoutTable ==
    ASSUME NEW K, NEW R, NEW f, NEW X, IsTable(f, K, R)
    PROVE  /\ IsTable(Without(f, X), K, R)
           /\ DOMAIN Without(f, X) = DOMAIN f \ X
           /\ \A k \in DOMAIN f \ X : Without(f, X)[k] = f[k]
<1>1. IsFiniteSet(DOMAIN f \ X)
  BY FS_Subset DEF IsTable
<1>. QED  BY <1>1 DEF IsTable, Without

LEMMA SetTable ==
    ASSUME NEW K, NEW R, NEW f, NEW k, NEW v \in R, IsTable(f, K, R)
    PROVE  IsTable([f EXCEPT ![k] = v], K, R)
BY DEF IsTable

\* The entries of a table at some of its keys.
LEMMA PartTable ==
    ASSUME NEW K, NEW R, NEW f, NEW N, IsTable(f, K, R), N \subseteq DOMAIN f
    PROVE  IsTable([n \in N |-> f[n]], K, R)
<1>1. IsFiniteSet(N)
  BY FS_Subset DEF IsTable
<1>. QED  BY <1>1 DEF IsTable

-----------------------------------------------------------------------------
(* WriteOps. *)

SpacesOps == [table : {"spaces"}, value : Tables(SpaceIds, Space)]
FoldersOps == [table : {"folders"}, value : Tables(Ids \ {NoFolder}, Folder)]
BlobsOps == [table : {"blobs"}, value : Tables(Ids, Blob)]
FlagOps == [table : {"allowEmpty"}, value : BOOLEAN]
RowsOps == [table : {"notes"}, value : Tables(Nat, Note)]
GoneOps == [table : {"notes"}, gone : SUBSET Nat]
WriteOps == SpacesOps \cup FoldersOps \cup BlobsOps \cup FlagOps \cup RowsOps \cup GoneOps
QueueTyped == queue \in Seq(WriteOps)

LEMMA WriteOpIs ==
    ASSUME NEW op \in WriteOps
    PROVE  /\ IsOp(op)
           /\ IsList(op) =>
                /\ op.table \in TableNames /\ op = Whole(op.table, op.value)
                /\ ~IsRows(op)
           /\ op.table = "spaces" => IsTable(op.value, SpaceIds, Space)
           /\ op.table = "folders" => IsTable(op.value, Ids \ {NoFolder}, Folder)
           /\ op.table = "blobs" => IsTable(op.value, Ids, Blob)
           /\ op.table = "allowEmpty" => op.value \in BOOLEAN
           /\ IsRows(op) => IsTable(op.value, Nat, Note) /\ DOMAIN op = {"table", "value"}
           /\ ~IsList(op) /\ ~IsRows(op) =>
                op.gone \in SUBSET Nat /\ DOMAIN op = {"table", "gone"}
<1>. USE TableIs
<1>1. CASE op \in SpacesOps
  BY <1>1 DEF SpacesOps, IsOp, IsList, IsRows, TableNames, Whole
<1>2. CASE op \in FoldersOps
  BY <1>2 DEF FoldersOps, IsOp, IsList, IsRows, TableNames, Whole
<1>3. CASE op \in BlobsOps
  BY <1>3 DEF BlobsOps, IsOp, IsList, IsRows, TableNames, Whole
<1>4. CASE op \in FlagOps
  BY <1>4 DEF FlagOps, IsOp, IsList, IsRows, TableNames, Whole
<1>5. CASE op \in RowsOps
  BY <1>5 DEF RowsOps, IsOp, IsList, IsRows, TableNames, Whole
<1>6. CASE op \in GoneOps
  BY <1>6 DEF GoneOps, IsOp, IsList, IsRows, TableNames, Whole
<1>. QED  BY <1>1, <1>2, <1>3, <1>4, <1>5, <1>6 DEF WriteOps

LEMMA OpsMade ==
    /\ \A v : IsTable(v, SpaceIds, Space) => Whole("spaces", v) \in WriteOps
    /\ \A v : IsTable(v, Ids \ {NoFolder}, Folder) => Whole("folders", v) \in WriteOps
    /\ \A v : IsTable(v, Ids, Blob) => Whole("blobs", v) \in WriteOps
    /\ \A v \in BOOLEAN : Whole("allowEmpty", v) \in WriteOps
    /\ \A v : IsTable(v, Nat, Note) => Whole("notes", v) \in WriteOps
    /\ \A N \in SUBSET Nat : Gone(N) \in WriteOps
<1>. USE TableIs DEF WriteOps, Whole, Gone
<1>1. \A v : IsTable(v, SpaceIds, Space) => Whole("spaces", v) \in WriteOps
  BY DEF SpacesOps
<1>2. \A v : IsTable(v, Ids \ {NoFolder}, Folder) => Whole("folders", v) \in WriteOps
  BY DEF FoldersOps
<1>3. \A v : IsTable(v, Ids, Blob) => Whole("blobs", v) \in WriteOps
  BY DEF BlobsOps
<1>4. \A v \in BOOLEAN : Whole("allowEmpty", v) \in WriteOps
  BY DEF FlagOps
<1>5. \A v : IsTable(v, Nat, Note) => Whole("notes", v) \in WriteOps
  BY DEF RowsOps
<1>6. \A N \in SUBSET Nat : Gone(N) \in WriteOps
  BY DEF GoneOps
<1>. QED  BY <1>1, <1>2, <1>3, <1>4, <1>5, <1>6

-----------------------------------------------------------------------------
(* Numbers and names. *)

LEMMA LeastNat ==
    ASSUME NEW T \in SUBSET Nat, T # {}
    PROVE  \E n \in T : \A m \in T : n <= m
<1>. DEFINE R == OpToRel(<, Nat)
<1>1. IsWellFoundedOn(R, Nat)
  BY NatLessThanWellFounded
<1>2. PICK n \in T : \A m \in T : ~(<<m, n>> \in R)
  <2>. HIDE DEF R
  <2>. QED  BY <1>1, WFMin
<1>3. \A m \in T : ~(m < n)
  BY <1>2 DEF OpToRel
<1>. QED  BY <1>3

LEMMA FirstIn ==
    ASSUME NEW S \in SUBSET Nat, S # {}
    PROVE  First(S) \in S
BY LeastNat DEF First

\* A set without a bound would have a smallest subset without one.
LEMMA FiniteIsBounded ==
    ASSUME NEW S \in SUBSET Nat, IsFiniteSet(S)
    PROVE  \E n \in Nat : \A s \in S : s <= n
<1>. DEFINE Bounded(X) == \E n \in Nat : \A s \in X : s <= n
            U == {X \in SUBSET S : ~Bounded(X)}
            T == {Cardinality(X) : X \in U}
<1>1. SUFFICES ASSUME U # {} PROVE FALSE
  OBVIOUS
<1>2. \A X \in U : IsFiniteSet(X) /\ Cardinality(X) \in Nat
  BY FS_Subset, FS_CardinalityType
<1>3. PICK n \in T : \A m \in T : n <= m
  <2>1. T # {} /\ T \in SUBSET Nat
    BY <1>1, <1>2
  <2>. HIDE DEF T
  <2>. QED  BY <2>1, LeastNat
<1>4. PICK X \in U : n = Cardinality(X)
  BY <1>3
<1>5. X # {}
  BY <1>4
<1>6. PICK x \in X : x \in Nat
  BY <1>4, <1>5
<1>7. Cardinality(X \ {x}) = n - 1 /\ n \in Nat
  BY <1>2, <1>4, <1>6, FS_RemoveElement
<1>8. Bounded(X \ {x})
  <2>1. SUFFICES ASSUME ~Bounded(X \ {x}) PROVE FALSE
    OBVIOUS
  <2>2. X \ {x} \in U
    BY <1>4, <2>1
  <2>3. n - 1 \in T
    BY <1>7, <2>2
  <2>. QED  BY <1>3, <1>7, <2>3
<1>9. PICK b \in Nat : \A s \in X \ {x} : s <= b
  BY <1>8
<1>10. \A s \in X : s <= b + x
  BY <1>4, <1>6, <1>9
<1>11. Bounded(X)
  <2>1. b + x \in Nat
    BY <1>6, <1>9
  <2>. QED  BY <2>1, <1>10
<1>. QED  BY <1>4, <1>11

LEMMA NextIsAfter ==
    ASSUME NEW S \in SUBSET Nat, IsFiniteSet(S), NEW least \in Nat \ {0}
    PROVE  /\ NextAfter(S, least) \in Nat \ {0}
           /\ \A s \in S : s < NextAfter(S, least)
<1>1. CASE S = {}
  BY <1>1 DEF NextAfter
<1>2. CASE S # {}
  <2>. DEFINE T == {b \in Nat : \A s \in S : s <= b}
  <2>1. T # {}
    <3>1. PICK n \in Nat : \A s \in S : s <= n
      BY FiniteIsBounded
    <3>. QED  BY <3>1
  <2>2. PICK b \in T : \A m \in T : b <= m
    BY <2>1, LeastNat
  <2>3. b \in S
    <3>1. SUFFICES ASSUME b \notin S PROVE FALSE
      OBVIOUS
    <3>2. PICK s \in S : s \in Nat
      BY <1>2
    <3>3. b # 0 /\ b - 1 \in Nat
      BY <3>1, <3>2
    <3>4. \A t \in S : t <= b - 1
      BY <3>1, <3>3
    <3>. QED  BY <3>3, <3>4, <2>2
  <2>4. \E s \in S : \A t \in S : t <= s
    BY <2>3
  <2>5. PICK m \in S : m = (CHOOSE s \in S : \A t \in S : t <= s) /\ \A t \in S : t <= m
    BY <2>4
  <2>6. NextAfter(S, least) = 1 + m
    BY <1>2, <2>5 DEF NextAfter
  <2>7. m \in Nat /\ \A t \in S : t \in Nat /\ t <= m
    BY <2>5
  <2>8. 1 + m \in Nat \ {0} /\ \A t \in S : t < 1 + m
    BY <2>7
  <2>. QED  BY <2>6, <2>8
<1>. QED  BY <1>1, <1>2

\* Of all the suffixes that are tried one is free.
LEMMA SuffixFree ==
    ASSUME NEW bs, IsTable(bs, Ids, Blob), NEW s, NEW name \in Seq(Nat)
    PROVE  \E k \in 1..(Cardinality(DOMAIN bs) + 1) : ~Taken(bs, s, Append(name, k))
<1>. DEFINE n == Cardinality(DOMAIN bs)
            f == [k \in 1..(n + 1) |-> CHOOSE b \in DOMAIN bs : bs[b].name = Append(name, k)]
<1>1. IsFiniteSet(DOMAIN bs) /\ n \in Nat
  BY FS_CardinalityType DEF IsTable
<1>2. IsFiniteSet(1..(n + 1)) /\ Cardinality(1..(n + 1)) = n + 1
  <2>. HIDE DEF n
  <2>1. 1 \in Int /\ n + 1 \in Int /\ ~(1 > n + 1) /\ n + 1 - 1 + 1 = n + 1
    BY <1>1
  <2>2. Cardinality(1..(n + 1)) = n + 1 - 1 + 1
    BY <2>1, FS_Interval
  <2>. QED  BY <2>1, <2>2, FS_Interval
<1>3. SUFFICES ASSUME \A k \in 1..(n + 1) : Taken(bs, s, Append(name, k)) PROVE FALSE
  OBVIOUS
<1>4. \A k \in 1..(n + 1) : f[k] \in DOMAIN bs /\ bs[f[k]].name = Append(name, k)
  BY <1>3 DEF Taken
<1>5. f \in [1..(n + 1) -> DOMAIN bs]
  BY <1>4
<1>6. PICK x, y \in 1..(n + 1) : x # y /\ f[x] = f[y]
  <2>. HIDE DEF f, n
  <2>. QED  BY <1>1, <1>2, <1>5, FS_PigeonHole DEF n
<1>7. Append(name, x) = Append(name, y)
  BY <1>4, <1>6
<1>8. Append(name, x)[Len(name) + 1] = x /\ Append(name, y)[Len(name) + 1] = y
  BY <1>1
<1>. QED  BY <1>6, <1>7, <1>8

LEMMA UniqueNameFree ==
    ASSUME NEW bs, IsTable(bs, Ids, Blob), NEW s, NEW name \in Seq(Nat)
    PROVE  /\ UniqueName(bs, s, name) \in Seq(Nat)
           /\ ~Taken(bs, s, UniqueName(bs, s, name))
<1>1. CASE ~Taken(bs, s, name)
  BY <1>1 DEF UniqueName
<1>2. CASE Taken(bs, s, name)
  <2>. DEFINE suffixes == 1..(Cardinality(DOMAIN bs) + 1)
              free == {k \in suffixes : ~Taken(bs, s, Append(name, k))}
  <2>1. free # {}
    BY SuffixFree
  <2>. free \in SUBSET Nat
    BY FS_CardinalityType DEF IsTable
  <2>2. First(free) \in free
    <3>. HIDE DEF free
    <3>. QED  BY <2>1, FirstIn
  <2>3. UniqueName(bs, s, name) = Append(name, First(free))
    BY <1>2 DEF UniqueName
  <2>. QED  BY <2>1, <2>2, <2>3
<1>. QED  BY <1>1, <1>2

-----------------------------------------------------------------------------
(* What the operators of NoteDb return. *)

SpaceTable(t) == IsTable(t, SpaceIds, Space)
FolderTable(t) == IsTable(t, Ids \ {NoFolder}, Folder)
NoteTable(t) == IsTable(t, Nat, Note)
BlobTable(t) == IsTable(t, Ids, Blob)

LEMMA ZeroIsId == NoFolder \in Ids /\ NoDoc \in Ids /\ Ids \subseteq Nat
BY BoundsAssumption DEF Ids, NoFolder, NoDoc

LEMMA LocalSpaceTyped == LocalSpace \in Space /\ DefaultSpace \in SpaceIds
BY DEF LocalSpace, Space, DefaultSpace, SpaceIds

LEMMA NewNoteTyped ==
    ASSUME NEW s \in SpaceIds
    PROVE  NewNote(s) \in Note
BY ZeroIsId, BoundsAssumption DEF NewNote, Note

LEMMA NoteChanges ==
    ASSUME NEW note \in Note
    PROVE  /\ \A v \in 0..MaxOps : Edited(note, v) \in Note
           /\ Dirtied(note) \in Note
           /\ Snapshot(note) \in Note
           /\ \A f \in Ids, u \in BOOLEAN : InFolder(note, f, u) \in Note
           /\ \A s \in SpaceIds : Uprooted(note, s) \in Note
<1>. USE ZeroIsId DEF Note
<1>1. \A v \in 0..MaxOps : Edited(note, v) \in Note
  BY DEF Edited
<1>2. Dirtied(note) \in Note
  BY DEF Dirtied
<1>3. Snapshot(note) \in Note
  BY DEF Snapshot
<1>4. \A f \in Ids, u \in BOOLEAN : InFolder(note, f, u) \in Note
  BY DEF InFolder
<1>5. \A s \in SpaceIds : Uprooted(note, s) \in Note
  BY DEF Uprooted
<1>. QED  BY <1>1, <1>2, <1>3, <1>4, <1>5

LEMMA TableEntry ==
    ASSUME NEW K, NEW R, NEW t, IsTable(t, K, R)
    PROVE  \A k \in DOMAIN t : k \in K /\ t[k] \in R
BY DEF IsTable

LEMMA OutsideTyped ==
    ASSUME NEW K, NEW R, NEW t, IsTable(t, K, R), NEW s
    PROVE  /\ IsTable(OutsideSpace(t, s), K, R)
           /\ DOMAIN OutsideSpace(t, s) = {k \in DOMAIN t : t[k].space # s}
           /\ \A k \in DOMAIN OutsideSpace(t, s) : OutsideSpace(t, s)[k] = t[k]
<1>. DEFINE X == {i \in DOMAIN t : t[i].space = s}
<1>1. OutsideSpace(t, s) = Without(t, X)
  BY DEF OutsideSpace
<1>2. /\ IsTable(Without(t, X), K, R)
      /\ DOMAIN Without(t, X) = DOMAIN t \ X
      /\ \A k \in DOMAIN t \ X : Without(t, X)[k] = t[k]
  <2>. HIDE DEF X
  <2>1. IsTable(Without(t, X), K, R)
    BY WithoutTable
  <2>. QED  BY <2>1 DEF Without
<1>3. DOMAIN t \ X = {k \in DOMAIN t : t[k].space # s}
  OBVIOUS
<1>. QED  BY <1>1, <1>2, <1>3

LEMMA NewFolderTyped ==
    ASSUME NEW s \in SpaceIds, NEW p \in Ids
    PROVE  NewFolder(s, p) \in Folder
BY DEF NewFolder, Folder

LEMMA FoldersChangedTyped ==
    ASSUME NEW fs, FolderTable(fs), NEW f \in DOMAIN fs
    PROVE  /\ FolderTable(FoldersWithout(fs, f))
           /\ \A p \in Ids : FolderTable(Reparented(fs, f, p))
           /\ \A s \in SpaceIds : FolderTable(FoldersResettled(fs, f, s))
           /\ \A u \in BOOLEAN : FolderTable([fs EXCEPT ![f].push = u])
<1>1. FolderTable(FoldersWithout(fs, f))
  BY WithoutTable DEF FolderTable, FoldersWithout
<1>2. \A g \in DOMAIN fs : fs[g] \in Folder
  BY TableEntry DEF FolderTable
<1>3. ASSUME NEW p \in Ids PROVE FolderTable(Reparented(fs, f, p))
  <2>. DEFINE moved == [fs[f] EXCEPT !.parent = p, !.push = TRUE, !.theirs = FALSE]
  <2>1. moved \in Folder
    BY <1>2 DEF Folder
  <2>2. Reparented(fs, f, p) = [fs EXCEPT ![f] = moved]
    BY DEF Reparented
  <2>3. \A v \in Folder : IsTable([fs EXCEPT ![f] = v], Ids \ {NoFolder}, Folder)
    BY SetTable DEF FolderTable
  <2>. HIDE DEF moved
  <2>. QED  BY <2>1, <2>2, <2>3 DEF FolderTable
<1>4. ASSUME NEW s \in SpaceIds PROVE FolderTable(FoldersResettled(fs, f, s))
  <2>1. \A g \in DOMAIN fs :
          [fs[g] EXCEPT !.space = s, !.push = TRUE,
                        !.parent = IF g = f THEN NoFolder ELSE fs[g].parent,
                        !.theirs = g # f /\ fs[g].theirs] \in Folder
    <3>1. \A g \in DOMAIN fs : (g # f /\ fs[g].theirs) \in BOOLEAN
      OBVIOUS
    <3>2. \A g \in DOMAIN fs : (IF g = f THEN NoFolder ELSE fs[g].parent) \in Ids
      BY <1>2, ZeroIsId DEF Folder
    <3>. QED  BY <1>2, <3>1, <3>2 DEF Folder
  <2>2. FoldersResettled(fs, f, s) \in [DOMAIN fs -> Folder]
    BY <1>2, <2>1 DEF FoldersResettled
  <2>. QED  BY <2>2, MadeTable DEF FolderTable, IsTable
<1>5. ASSUME NEW u \in BOOLEAN PROVE FolderTable([fs EXCEPT ![f].push = u])
  <2>1. [fs[f] EXCEPT !.push = u] \in Folder
    BY <1>2 DEF Folder
  <2>. QED  BY <2>1, SetTable DEF FolderTable
<1>. QED  BY <1>1, <1>3, <1>4, <1>5

LEMMA AdoptedTyped ==
    ASSUME NEW fs, FolderTable(fs), NEW s \in SpaceIds, NEW f \in Ids \ {NoFolder}, NEW p \in Ids
    PROVE  FolderTable(FolderAdopted(fs, s, f, p))
<1>. DEFINE above == IF p = f THEN NoFolder ELSE p
            home == IF f \in DOMAIN fs THEN fs[f].space ELSE s
            given == above # NoFolder
            row == [space |-> home, parent |-> above, push |-> FALSE, theirs |-> given]
<1>1. above \in Ids /\ given \in BOOLEAN
  BY ZeroIsId
<1>2. home \in SpaceIds
  <2>1. \A g \in DOMAIN fs : fs[g] \in Folder
    BY TableEntry DEF FolderTable
  <2>. QED  BY <2>1 DEF Folder
<1>3. row \in Folder
  <2>. HIDE DEF above, home, given
  <2>. QED  BY <1>1, <1>2 DEF Folder
<1>4. FolderAdopted(fs, s, f, p) = Over(fs, Only(f, row))
  BY DEF FolderAdopted
<1>. HIDE DEF row
<1>5. IsTable(Only(f, row), Ids \ {NoFolder}, Folder)
  BY <1>3, OnlyTable
<1>6. IsTable(fs, Ids \ {NoFolder}, Folder)
  BY DEF FolderTable
<1>7. IsTable(Over(fs, Only(f, row)), Ids \ {NoFolder}, Folder)
  BY <1>5, <1>6, OverTable
<1>. QED  BY <1>4, <1>7 DEF FolderTable

LEMMA NotesChangedTyped ==
    ASSUME NEW ns, NoteTable(ns), NEW T
    PROVE  /\ NoteTable(NotesAtRoot(ns, T))
           /\ \A s \in SpaceIds : NoteTable(NotesResettled(ns, T, s))
<1>1. \A n \in DOMAIN ns : ns[n] \in Note
  BY TableEntry DEF NoteTable
<1>2. \A n \in DOMAIN ns :
        [ns[n] EXCEPT !.folder = NoFolder, !.fpush = TRUE, !.dirty = TRUE] \in Note
  BY <1>1, ZeroIsId DEF Note
<1>3. NotesAtRoot(ns, T) \in [DOMAIN ns -> Note]
  BY <1>1, <1>2 DEF NotesAtRoot
<1>4. \A s \in SpaceIds : \A n \in DOMAIN ns : Uprooted(ns[n], s) \in Note
  BY <1>1, NoteChanges
<1>5. \A s \in SpaceIds : NotesResettled(ns, T, s) \in [DOMAIN ns -> Note]
  BY <1>1, <1>4 DEF NotesResettled
<1>. QED  BY <1>3, <1>5, MadeTable DEF NoteTable, IsTable

-----------------------------------------------------------------------------
(* What opening a disk returns. *)

LEMMA SeededTyped ==
    ASSUME NEW d, IsDisk(d)
    PROVE  NoteTable(SeededNotes(d))
<1>1. Edited(NewNote(DefaultSpace), 0) \in Note
  <2>1. 0 \in 0..MaxOps
    BY BoundsAssumption
  <2>. QED  BY <2>1, NewNoteTyped, NoteChanges, LocalSpaceTyped
<1>2. WelcomeNote \in Nat
  BY DEF WelcomeNote
<1>3. NoteTable(Only(WelcomeNote, Edited(NewNote(DefaultSpace), 0)))
  BY <1>1, <1>2, OnlyTable DEF NoteTable
<1>. QED  BY <1>3 DEF SeededNotes, NoteTable, IsDisk

LEMMA OpenedSpacesTyped ==
    ASSUME NEW d, IsDisk(d)
    PROVE  /\ SpaceTable(OpenedSpaces(d))
           /\ DOMAIN SeededNotes(d) # {} => DOMAIN OpenedSpaces(d) # {}
<1>1. SpaceTable(Only(DefaultSpace, LocalSpace)) /\ DOMAIN Only(DefaultSpace, LocalSpace) # {}
  <2>1. /\ IsTable(Only(DefaultSpace, LocalSpace), SpaceIds, Space)
        /\ DOMAIN Only(DefaultSpace, LocalSpace) = {DefaultSpace}
    BY LocalSpaceTyped, OnlyTable
  <2>. QED  BY <2>1 DEF SpaceTable
<1>. QED  BY <1>1 DEF OpenedSpaces, SpaceTable, IsDisk

LEMMA RootedIs ==
    ASSUME NEW fs, FolderTable(fs)
    PROVE  /\ FolderTable(Rooted(fs)) /\ DOMAIN Rooted(fs) = DOMAIN fs
           /\ \A f \in DOMAIN fs :
                /\ Rooted(fs)[f].space = fs[f].space /\ Rooted(fs)[f].push = fs[f].push
                /\ \/ Rooted(fs)[f] = fs[f] /\ FolderIn(fs, fs[f].parent, fs[f].space)
                   \/ Rooted(fs)[f].parent = NoFolder /\ ~Rooted(fs)[f].theirs
<1>1. \A f \in DOMAIN fs : fs[f] \in Folder
  BY TableEntry DEF FolderTable
<1>2. \A f \in DOMAIN fs : [fs[f] EXCEPT !.parent = NoFolder, !.theirs = FALSE] \in Folder
  BY <1>1, ZeroIsId DEF Folder
<1>3. Rooted(fs) \in [DOMAIN fs -> Folder]
  BY <1>1, <1>2 DEF Rooted
<1>4. FolderTable(Rooted(fs))
  BY <1>3, MadeTable DEF FolderTable, IsTable
<1>5. ASSUME NEW f \in DOMAIN fs
      PROVE  /\ Rooted(fs)[f].space = fs[f].space /\ Rooted(fs)[f].push = fs[f].push
             /\ \/ Rooted(fs)[f] = fs[f] /\ FolderIn(fs, fs[f].parent, fs[f].space)
                \/ Rooted(fs)[f].parent = NoFolder /\ ~Rooted(fs)[f].theirs
  <2>1. CASE fs[f].parent # f /\ FolderIn(fs, fs[f].parent, fs[f].space)
    BY <2>1 DEF Rooted
  <2>2. CASE ~(fs[f].parent # f /\ FolderIn(fs, fs[f].parent, fs[f].space))
    <3>1. Rooted(fs)[f] = [fs[f] EXCEPT !.parent = NoFolder, !.theirs = FALSE]
      BY <2>2 DEF Rooted
    <3>. QED  BY <1>1, <3>1 DEF Folder
  <2>. QED  BY <2>1, <2>2
<1>. QED  BY <1>3, <1>4, <1>5

LEMMA OpenedFoldersTyped ==
    ASSUME NEW d, IsDisk(d)
    PROVE  FolderTable(OpenedFolders(d))
<1>1. FolderTable(d.folders)
  BY DEF IsDisk, FolderTable
<1>2. \A X : FolderTable(Without(d.folders, X))
  BY <1>1, WithoutTable DEF FolderTable
<1>. QED  BY <1>2, RootedIs DEF OpenedFolders

LEMMA OpenedNotesTyped ==
    ASSUME NEW d, IsDisk(d)
    PROVE  NoteTable(OpenedNotes(d)) /\ DOMAIN OpenedNotes(d) = DOMAIN SeededNotes(d)
<1>. DEFINE sp == DOMAIN OpenedSpaces(d)
            ns == SeededNotes(d)
            home(note) == IF note.space \in sp THEN note.space ELSE First(sp)
            at(note) == IF FolderIn(OpenedFolders(d), note.folder, home(note))
                        THEN note.folder ELSE NoFolder
<1>1. NoteTable(ns)
  BY SeededTyped
<1>2. sp \subseteq SpaceIds /\ (DOMAIN ns # {} => sp # {})
  BY OpenedSpacesTyped DEF SpaceTable, IsTable
<1>3. \A n \in DOMAIN ns : home(ns[n]) \in SpaceIds
  <2>1. DOMAIN ns # {} => First(sp) \in sp
    <3>1. sp \in SUBSET Nat
      BY <1>2 DEF SpaceIds
    <3>. HIDE DEF sp, ns
    <3>. QED  BY <1>2, <3>1, FirstIn
  <2>. QED  BY <1>2, <2>1
<1>4. \A n \in DOMAIN ns : ns[n] \in Note
  <2>. HIDE DEF ns
  <2>. QED  BY <1>1, TableEntry DEF NoteTable
<1>5. \A n \in DOMAIN ns : at(ns[n]) \in Ids
  BY <1>4, ZeroIsId DEF Note
<1>6. \A n \in DOMAIN ns : [ns[n] EXCEPT !.space = home(ns[n]), !.folder = at(ns[n])] \in Note
  <2>. HIDE DEF ns, home, at
  <2>. QED  BY <1>3, <1>4, <1>5 DEF Note
<1>7. OpenedNotes(d) =
        [n \in DOMAIN ns |-> [ns[n] EXCEPT !.space = home(ns[n]), !.folder = at(ns[n])]]
  BY DEF OpenedNotes
<1>8. OpenedNotes(d) \in [DOMAIN ns -> Note]
  <2>. HIDE DEF ns, home, at
  <2>. QED  BY <1>6, <1>7
<1>9. IsFiniteSet(DOMAIN ns) /\ DOMAIN ns \subseteq Nat
  <2>. HIDE DEF ns
  <2>. QED  BY <1>1 DEF NoteTable, IsTable
<1>. HIDE DEF ns
<1>10. NoteTable(OpenedNotes(d))
  BY <1>8, <1>9, MadeTable DEF NoteTable
<1>11. DOMAIN OpenedNotes(d) = DOMAIN ns
  BY <1>8
<1>. QED  BY <1>10, <1>11 DEF ns

LEMMA OpenedBlobsTyped ==
    ASSUME NEW d, IsDisk(d)
    PROVE  BlobTable(OpenedBlobs(d))
BY WithoutTable DEF OpenedBlobs, BlobTable, IsDisk

-----------------------------------------------------------------------------
(* Types: operations. *)

\* Types, and that the bounds are reached by counting operations.
Running == phase \in {"open", "deaf", "memory"}
Counted ==
    /\ fresh <= Used + 2 * ops
    /\ Running \/ phase = "opening" => nextSpace # 0
    /\ phase \notin {"opening", "open", "closing", "aborting"} => queue = << >>
Typed == TypeOK /\ QueueTyped /\ Counted

LEMMA TablesTyped ==
    ASSUME Typed
    PROVE  /\ SpaceTable(spaces) /\ FolderTable(folders) /\ NoteTable(notes)
           /\ BlobTable(blobs) /\ IsTable(held, Ids, 0..MaxOps)
           /\ \A s \in DOMAIN spaces : s \in SpaceIds /\ spaces[s] \in Space
           /\ \A f \in DOMAIN folders : f \in Ids \ {NoFolder} /\ folders[f] \in Folder
           /\ \A n \in DOMAIN notes : n \in Nat /\ notes[n] \in Note
           /\ \A b \in DOMAIN blobs : b \in Ids /\ blobs[b] \in Blob
<1>1. /\ SpaceTable(spaces) /\ FolderTable(folders) /\ NoteTable(notes)
      /\ BlobTable(blobs) /\ IsTable(held, Ids, 0..MaxOps)
  BY DEF Typed, TypeOK, SpaceTable, FolderTable, NoteTable, BlobTable
<1>2. \A s \in DOMAIN spaces : s \in SpaceIds /\ spaces[s] \in Space
  BY <1>1, TableEntry DEF SpaceTable
<1>3. \A f \in DOMAIN folders : f \in Ids \ {NoFolder} /\ folders[f] \in Folder
  BY <1>1, TableEntry DEF FolderTable
<1>4. \A n \in DOMAIN notes : n \in Nat /\ notes[n] \in Note
  BY <1>1, TableEntry DEF NoteTable
<1>5. \A b \in DOMAIN blobs : b \in Ids /\ blobs[b] \in Blob
  BY <1>1, TableEntry DEF BlobTable
<1>. QED  BY <1>1, <1>2, <1>3, <1>4, <1>5

LEMMA OperationFacts ==
    ASSUME Typed, Operates
    PROVE  /\ Running /\ ops' = ops + 1 /\ ops' \in 0..MaxOps /\ ops \in Nat
           /\ fresh \in Nat /\ fresh + 1 \in Ids \ {NoFolder}
           /\ fresh + 2 \in Ids \ {NoFolder}
           /\ nextSpace \in SpaceIds /\ nextNote \in Nat
           /\ kind' = kind /\ phase' = phase
BY BoundsAssumption DEF Typed, TypeOK, Counted, Operates, Running, Ids, NoFolder, SpaceIds

LEMMA OperationTyped ==
    ASSUME Typed, Operates,
           SpaceTable(spaces'), FolderTable(folders'), NoteTable(notes'), BlobTable(blobs'),
           allowEmpty' \in BOOLEAN, nextSpace' \in SpaceIds, nextNote' \in Nat,
           QueueTyped', Running /\ phase # "open" => queue' = queue,
           fresh' \in {fresh, fresh + 1, fresh + 2}, IsTable(held', Ids, 0..MaxOps)
    PROVE  Typed'
<1>1. Counted'
  BY OperationFacts, BoundsAssumption
     DEF Typed, TypeOK, Counted, Operates, Running, SpaceIds, Ids
<1>2. \A i \in DOMAIN queue' : IsOp(queue[i])'
  <2>1. TAKE i \in DOMAIN queue'
  <2>2. queue'[i] \in WriteOps
    BY <2>1 DEF QueueTyped
  <2>3. IsOp(queue'[i])
    BY <2>2, WriteOpIs
  <2>. QED  BY <2>3
<1>3. TypeOK'
  BY <1>2, OperationFacts
     DEF Typed, TypeOK, Operates, SpaceTable, FolderTable, NoteTable, BlobTable, SpaceIds
<1>. QED  BY <1>1, <1>3 DEF Typed

LEMMA SendTyped ==
    ASSUME Typed, NEW s \in Seq(WriteOps), Send(s)
    PROVE  QueueTyped' /\ (phase # "open" => queue' = queue)
BY DEF Typed, QueueTyped, Send

LEMMA ShortSeqs ==
    ASSUME NEW S, NEW a \in S, NEW b \in S, NEW c \in S
    PROVE  /\ <<a>> \in Seq(S) /\ <<a, b>> \in Seq(S) /\ <<a, b, c>> \in Seq(S)
           /\ << >> \in Seq(S)
OBVIOUS

LEMMA SpaceSet ==
    ASSUME NEW sp, SpaceTable(sp), NEW s \in DOMAIN sp, NEW u \in BOOLEAN
    PROVE  /\ SpaceTable([sp EXCEPT ![s].remote = u])
           /\ SpaceTable([sp EXCEPT ![s].server = u])
<1>1. sp[s] \in Space
  BY TableEntry DEF SpaceTable
<1>2. [sp[s] EXCEPT !.remote = u] \in Space /\ [sp[s] EXCEPT !.server = u] \in Space
  BY <1>1 DEF Space
<1>3. \A v \in Space : IsTable([sp EXCEPT ![s] = v], SpaceIds, Space)
  BY SetTable DEF SpaceTable
<1>. QED  BY <1>2, <1>3 DEF SpaceTable

LEMMA CreateSpaceTyped ==
    ASSUME Typed, CreateSpace
    PROVE  Typed'
<1>1. nextSpace \in SpaceIds /\ nextSpace + 1 \in SpaceIds
  BY OperationFacts DEF CreateSpace, SpaceIds
<1>2. SpaceTable(Only(nextSpace, LocalSpace))
  BY <1>1, LocalSpaceTyped, OnlyTable DEF SpaceTable
<1>3. SpaceTable(spaces')
  BY <1>2, TablesTyped, OverTable DEF SpaceTable, CreateSpace
<1>4. <<Whole("allowEmpty", FALSE), Whole("spaces", spaces')>> \in Seq(WriteOps)
  <2>1. Whole("allowEmpty", FALSE) \in WriteOps /\ Whole("spaces", spaces') \in WriteOps
    BY <1>3, OpsMade DEF SpaceTable
  <2>. QED  BY <2>1, ShortSeqs
<1>5. QueueTyped' /\ (phase # "open" => queue' = queue)
  BY <1>4, SendTyped DEF CreateSpace
<1>. QED  BY <1>1, <1>3, <1>5, TablesTyped, OperationFacts, OperationTyped DEF CreateSpace, NoUuid

LEMMA ReboundTyped ==
    ASSUME Typed, NEW s \in DOMAIN spaces, NEW u \in BOOLEAN, Rebound(s, u)
    PROVE  /\ SpaceTable(spaces')
           /\ QueueTyped' /\ (phase # "open" => queue' = queue)
<1>. DEFINE half == [spaces EXCEPT ![s].remote = u]
<1>1. SpaceTable(half) /\ s \in DOMAIN half
  BY TablesTyped, SpaceSet
<1>2. spaces' = [half EXCEPT ![s].server = u] /\ Send(<<Whole("spaces", half), Whole("spaces", spaces')>>)
  BY DEF Rebound
<1>3. SpaceTable(spaces')
  <2>. HIDE DEF half
  <2>. QED  BY <1>1, <1>2, SpaceSet
<1>4. <<Whole("spaces", half), Whole("spaces", spaces')>> \in Seq(WriteOps)
  <2>1. Whole("spaces", half) \in WriteOps /\ Whole("spaces", spaces') \in WriteOps
    BY <1>1, <1>3, OpsMade DEF SpaceTable
  <2>. HIDE DEF half
  <2>. QED  BY <2>1, ShortSeqs
<1>5. QueueTyped' /\ (phase # "open" => queue' = queue)
  BY <1>2, <1>4, SendTyped
<1>. QED  BY <1>3, <1>5

LEMMA BindTyped ==
    ASSUME Typed, NEW s \in DOMAIN spaces, BindSpace(s) \/ UnbindSpace(s)
    PROVE  Typed'
<1>1. /\ Operates /\ NoUuid /\ Elsewhere /\ UNCHANGED <<folders, blobs, allowEmpty>>
      /\ \E u \in BOOLEAN : Rebound(s, u)
  BY DEF BindSpace, UnbindSpace
<1>2. SpaceTable(spaces') /\ QueueTyped' /\ (phase # "open" => queue' = queue)
  BY <1>1, ReboundTyped
<1>3. NoteTable(notes')
  <2>1. CASE notes' = notes
    BY <2>1, TablesTyped
  <2>2. CASE UnbindSpace(s)
    <3>1. \A n \in DOMAIN notes :
            notes[n] \in Note
            /\ [notes[n] EXCEPT !.doc = NoDoc, !.push = FALSE, !.dirty = TRUE] \in Note
      BY TablesTyped, ZeroIsId DEF Note
    <3>2. notes' \in [DOMAIN notes -> Note]
      BY <2>2, <3>1 DEF UnbindSpace
    <3>. QED  BY <3>2, TablesTyped, MadeTable DEF NoteTable, IsTable
  <2>. QED  BY <2>1, <2>2 DEF BindSpace
<1>4. allowEmpty' \in BOOLEAN /\ nextSpace' \in SpaceIds /\ nextNote' \in Nat
      /\ fresh' = fresh /\ held' = held
      /\ FolderTable(folders') /\ BlobTable(blobs')
  BY <1>1, TablesTyped, OperationFacts DEF Typed, TypeOK, NoUuid, Elsewhere
<1>. QED  BY <1>1, <1>2, <1>3, <1>4, TablesTyped, OperationTyped

LEMMA DeleteSpaceTyped ==
    ASSUME Typed, NEW s \in DOMAIN spaces, DeleteSpace(s)
    PROVE  Typed'
<1>1. SpaceTable(spaces')
  BY TablesTyped, WithoutTable DEF DeleteSpace, SpaceTable
<1>2. FolderTable(folders') /\ NoteTable(notes')
  BY TablesTyped, OutsideTyped DEF DeleteSpace, FolderTable, NoteTable
<1>3. DeletionWrites(s) \in Seq(WriteOps)
  <2>. DEFINE inside == {n \in DOMAIN notes : notes[n].space = s}
              a == IF DOMAIN spaces = {s} THEN <<Whole("allowEmpty", TRUE)>> ELSE << >>
              b == IF inside # {} THEN <<Gone(inside)>> ELSE << >>
              c == <<Whole("spaces", Without(spaces, {s})), Whole("folders", OutsideSpace(folders, s))>>
  <2>1. Whole("allowEmpty", TRUE) \in WriteOps /\ Gone(inside) \in WriteOps
    BY TablesTyped, OpsMade
  <2>2. Whole("spaces", spaces') \in WriteOps /\ Whole("folders", folders') \in WriteOps
    BY <1>1, <1>2, OpsMade DEF SpaceTable, FolderTable
  <2>3. c = <<Whole("spaces", spaces'), Whole("folders", folders')>>
    BY DEF DeleteSpace
  <2>4. a \in Seq(WriteOps) /\ b \in Seq(WriteOps)
    BY <2>1, ShortSeqs
  <2>6. c \in Seq(WriteOps)
    BY <2>2, <2>3, ShortSeqs
  <2>5. DeletionWrites(s) = a \o b \o c
    BY DEF DeletionWrites
  <2>. HIDE DEF a, b, c
  <2>. QED  BY <2>4, <2>5, <2>6
<1>4. QueueTyped' /\ (phase # "open" => queue' = queue)
  BY <1>3, SendTyped DEF DeleteSpace
<1>5. allowEmpty' \in BOOLEAN /\ nextSpace' \in SpaceIds /\ nextNote' \in Nat
      /\ fresh' = fresh /\ held' = held /\ BlobTable(blobs') /\ Operates
  BY TablesTyped, OperationFacts DEF DeleteSpace, Typed, TypeOK, NoUuid, Elsewhere
<1>. QED  BY <1>1, <1>2, <1>4, <1>5, TablesTyped, OperationTyped

LEMMA SendFolders ==
    ASSUME Typed, FolderTable(folders'), FoldersChanged
    PROVE  QueueTyped' /\ (phase # "open" => queue' = queue)
<1>1. <<Whole("folders", folders')>> \in Seq(WriteOps)
  <2>1. Whole("folders", folders') \in WriteOps
    BY OpsMade DEF FolderTable
  <2>. QED  BY <2>1, ShortSeqs
<1>. QED  BY <1>1, SendTyped DEF FoldersChanged

LEMMA FolderOpsTyped ==
    ASSUME Typed, FolderOps
    PROVE  Typed'
<1>1. ASSUME Operates, FoldersChanged, Elsewhere, UNCHANGED <<spaces, blobs, allowEmpty>>,
             FolderTable(folders'), NoteTable(notes'), fresh' \in {fresh, fresh + 1, fresh + 2}
      PROVE  Typed'
  <2>1. QueueTyped' /\ (phase # "open" => queue' = queue)
    BY <1>1, SendFolders
  <2>2. allowEmpty' \in BOOLEAN /\ nextSpace' \in SpaceIds /\ nextNote' \in Nat
        /\ held' = held /\ BlobTable(blobs') /\ SpaceTable(spaces')
    BY <1>1, TablesTyped, OperationFacts DEF Typed, TypeOK, Elsewhere
  <2>. QED  BY <1>1, <2>1, <2>2, TablesTyped, OperationTyped
<1>2. ASSUME NEW s \in DOMAIN spaces, NEW p \in DOMAIN folders \cup {NoFolder}, CreateFolder(s, p)
      PROVE  Typed'
  <2>1. s \in SpaceIds /\ p \in Ids
    BY <1>2, TablesTyped, ZeroIsId
  <2>2. fresh' \in Ids \ {NoFolder}
    BY <1>2, OperationFacts DEF CreateFolder, NewUuid
  <2>3. FolderTable(Only(fresh', NewFolder(s, p)))
    BY <2>1, <2>2, NewFolderTyped, OnlyTable DEF FolderTable
  <2>4. FolderTable(folders')
    BY <1>2, <2>3, TablesTyped, OverTable DEF CreateFolder, FolderTable
  <2>. QED  BY <1>1, <1>2, <2>4, TablesTyped DEF CreateFolder, NewUuid
<1>3. ASSUME NEW f \in DOMAIN folders, NEW u \in BOOLEAN, MarkFolder(f, u)
      PROVE  Typed'
  <2>1. FolderTable(folders')
    BY <1>3, TablesTyped, FoldersChangedTyped DEF MarkFolder
  <2>. QED  BY <1>1, <1>3, <2>1, TablesTyped DEF MarkFolder, OnlyFolders, NoUuid
<1>4. ASSUME NEW f \in DOMAIN folders, DeleteFolder(f)
      PROVE  Typed'
  <2>1. FolderTable(folders')
    BY <1>4, TablesTyped, FoldersChangedTyped DEF DeleteFolder
  <2>2. NoteTable(notes')
    BY <1>4, TablesTyped, NotesChangedTyped DEF DeleteFolder
  <2>. QED  BY <1>1, <1>4, <2>1, <2>2 DEF DeleteFolder, OnlyFolders, NoUuid
<1>5. ASSUME NEW f \in DOMAIN folders, NEW p \in DOMAIN folders \cup {NoFolder},
             SetFolderParent(f, p)
      PROVE  Typed'
  <2>1. p \in Ids
    BY TablesTyped, ZeroIsId
  <2>2. FolderTable(folders')
    BY <1>5, <2>1, TablesTyped, FoldersChangedTyped DEF SetFolderParent
  <2>. QED  BY <1>1, <1>5, <2>2, TablesTyped DEF SetFolderParent, OnlyFolders, NoUuid
<1>6. ASSUME NEW f \in DOMAIN folders, NEW s \in DOMAIN spaces, MoveFolderToSpace(f, s)
      PROVE  Typed'
  <2>1. s \in SpaceIds
    BY TablesTyped
  <2>2. FolderTable(folders')
    BY <1>6, <2>1, TablesTyped, FoldersChangedTyped DEF MoveFolderToSpace
  <2>3. NoteTable(notes')
    BY <1>6, <2>1, TablesTyped, NotesChangedTyped DEF MoveFolderToSpace
  <2>. QED  BY <1>1, <1>6, <2>2, <2>3 DEF MoveFolderToSpace, OnlyFolders, NoUuid
<1>7. ASSUME NEW s \in DOMAIN spaces, NEW f \in 1..(fresh + 1), NEW p \in 0..(fresh + 2),
             AdoptFolder(s, f, p)
      PROVE  Typed'
  <2>1. s \in SpaceIds
    BY TablesTyped
  <2>2. f \in Ids \ {NoFolder} /\ p \in Ids
    BY <1>7, OperationFacts, BoundsAssumption DEF AdoptFolder, Ids, NoFolder
  <2>3. FolderTable(folders')
    BY <1>7, <2>1, <2>2, TablesTyped, AdoptedTyped DEF AdoptFolder
  <2>. QED  BY <1>1, <1>7, <2>3, TablesTyped DEF AdoptFolder
<1>. QED  BY <1>2, <1>3, <1>4, <1>5, <1>6, <1>7 DEF FolderOps

LEMMA AddNoteTyped ==
    ASSUME Typed, Operates, NEW note \in Note
    PROVE  /\ NoteTable(Over(notes, Only(nextNote, note)))
           /\ \A n \in DOMAIN notes : NoteTable([notes EXCEPT ![n] = note])
           /\ nextNote + 1 \in Nat
<1>1. nextNote \in Nat
  BY OperationFacts
<1>2. NoteTable(Only(nextNote, note))
  BY <1>1, OnlyTable DEF NoteTable
<1>3. NoteTable(Over(notes, Only(nextNote, note)))
  BY <1>2, TablesTyped, OverTable DEF NoteTable
<1>4. \A n \in DOMAIN notes : NoteTable([notes EXCEPT ![n] = note])
  BY TablesTyped, SetTable DEF NoteTable
<1>. QED  BY <1>1, <1>3, <1>4

LEMMA HeldTyped ==
    ASSUME Typed, NEW d \in Ids, NEW v \in 0..MaxOps
    PROVE  IsTable(Over(held, Only(d, v)), Ids, 0..MaxOps)
<1>1. IsTable(Only(d, v), Ids, 0..MaxOps)
  BY OnlyTable
<1>. QED  BY <1>1, TablesTyped, OverTable

LEMMA DeferredTyped ==
    ASSUME Typed, Operates, Deferred, NoteTable(notes'), nextSpace' = nextSpace,
           nextNote' \in Nat, fresh' \in {fresh, fresh + 1, fresh + 2}, IsTable(held', Ids, 0..MaxOps)
    PROVE  Typed'
<1>1. QueueTyped' /\ queue' = queue /\ allowEmpty' \in BOOLEAN /\ nextSpace' \in SpaceIds
  BY OperationFacts DEF Deferred, Typed, QueueTyped, TypeOK
<1>2. SpaceTable(spaces') /\ FolderTable(folders') /\ BlobTable(blobs')
  BY TablesTyped DEF Deferred
<1>. QED  BY <1>1, <1>2, OperationTyped

LEMMA ChangeNoteTyped ==
    ASSUME Typed, Operates, NEW n \in DOMAIN notes, NEW note \in Note, ChangeNote(n, note),
           UNCHANGED <<nextSpace, nextNote>>,
           fresh' \in {fresh, fresh + 1, fresh + 2}, IsTable(held', Ids, 0..MaxOps)
    PROVE  Typed'
<1>1. NoteTable(notes')
  BY AddNoteTyped DEF ChangeNote
<1>2. nextNote' \in Nat /\ Deferred /\ nextSpace' = nextSpace
  BY OperationFacts DEF ChangeNote
<1>. QED  BY <1>1, <1>2, DeferredTyped

LEMMA CreateNoteTyped ==
    ASSUME Typed, NEW s \in DOMAIN spaces, CreateNote(s) \/ CreateNoteFromRemote(s)
    PROVE  Typed'
<1>1. s \in SpaceIds /\ NewNote(s) \in Note
  BY TablesTyped, NewNoteTyped
<1>2. CASE CreateNote(s)
  <2>1. Edited(NewNote(s), ops') \in Note
    BY <1>1, <1>2, OperationFacts, NoteChanges DEF CreateNote
  <2>2. NoteTable(notes') /\ nextNote' \in Nat
    BY <1>2, <2>1, AddNoteTyped DEF CreateNote
  <2>. QED  BY <1>2, <2>2, TablesTyped, DeferredTyped DEF CreateNote, NoUuid
<1>3. CASE CreateNoteFromRemote(s)
  <2>1. fresh' \in Ids /\ 0 \in 0..MaxOps
    BY <1>3, OperationFacts, BoundsAssumption DEF CreateNoteFromRemote, NewUuid
  <2>2. [NewNote(s) EXCEPT !.doc = fresh', !.dirty = TRUE] \in Note
    BY <1>1, <2>1 DEF Note
  <2>3. NoteTable(notes') /\ nextNote' \in Nat
    BY <1>3, <2>2, AddNoteTyped DEF CreateNoteFromRemote
  <2>4. IsTable(held', Ids, 0..MaxOps)
    BY <1>3, <2>1, HeldTyped DEF CreateNoteFromRemote
  <2>. QED  BY <1>3, <2>3, <2>4, DeferredTyped DEF CreateNoteFromRemote, NewUuid
<1>. QED  BY <1>2, <1>3

LEMMA CreateNoteAndSpaceTyped ==
    ASSUME Typed, CreateNoteAndSpace
    PROVE  Typed'
<1>1. nextSpace \in SpaceIds /\ nextSpace + 1 \in SpaceIds
  BY OperationFacts DEF CreateNoteAndSpace, SpaceIds
<1>2. SpaceTable(spaces')
  BY <1>1, LocalSpaceTyped, OnlyTable DEF SpaceTable, CreateNoteAndSpace
<1>3. Whole("allowEmpty", FALSE) \in WriteOps /\ Whole("spaces", spaces') \in WriteOps
  BY <1>2, OpsMade DEF SpaceTable
<1>4. QueueTyped' /\ (phase # "open" => queue' = queue)
  BY <1>3, ShortSeqs, SendTyped DEF CreateNoteAndSpace
<1>5. NewNote(nextSpace) \in Note
  BY <1>1, NewNoteTyped
<1>6. Edited(NewNote(nextSpace), ops') \in Note
  BY <1>5, OperationFacts, NoteChanges DEF CreateNoteAndSpace
<1>7. NoteTable(notes') /\ nextNote' \in Nat
  BY <1>6, AddNoteTyped DEF CreateNoteAndSpace
<1>8. fresh' = fresh /\ held' = held /\ FolderTable(folders') /\ BlobTable(blobs')
      /\ allowEmpty' \in BOOLEAN /\ nextSpace' \in SpaceIds /\ Operates
  BY <1>1, TablesTyped DEF CreateNoteAndSpace, NoUuid
<1>. QED  BY <1>2, <1>4, <1>7, <1>8, TablesTyped, OperationTyped

LEMMA ChangesTyped ==
    ASSUME Typed, NEW n \in DOMAIN notes,
           \/ EditNote(n) \/ TouchNote(n) \/ MapNote(n) \/ Acknowledge(n)
           \/ \E s \in DOMAIN spaces : MoveNoteToSpace(n, s)
           \/ \E f \in DOMAIN folders \cup {NoFolder}, byUser \in BOOLEAN : SetNoteFolder(n, f, byUser)
    PROVE  Typed'
<1>0. notes[n] \in Note /\ Dirtied(notes[n]) \in Note /\ IsTable(held, Ids, 0..MaxOps)
  BY TablesTyped, NoteChanges
<1>1. CASE EditNote(n)
  <2>1. Edited(notes[n], ops') \in Note
    BY <1>0, <1>1, OperationFacts, NoteChanges DEF EditNote
  <2>. QED  BY <1>0, <1>1, <2>1, ChangeNoteTyped DEF EditNote, NoUuid, Elsewhere
<1>2. CASE TouchNote(n)
  <2>1. [Dirtied(notes[n]) EXCEPT !.fpush = FALSE] \in Note
    BY <1>0 DEF Note
  <2>2. PICK note \in Note : ChangeNote(n, note)
    BY <1>0, <1>2, <2>1 DEF TouchNote
  <2>. QED  BY <1>0, <1>2, <2>2, ChangeNoteTyped DEF TouchNote, NoUuid, Elsewhere
<1>3. CASE MapNote(n)
  <2>1. fresh' \in Ids /\ 0 \in 0..MaxOps
    BY <1>3, OperationFacts, BoundsAssumption DEF MapNote, NewUuid
  <2>2. [Dirtied(notes[n]) EXCEPT !.doc = fresh', !.push = TRUE] \in Note
    BY <1>0, <2>1 DEF Note
  <2>3. IsTable(held', Ids, 0..MaxOps)
    BY <1>3, <2>1, HeldTyped DEF MapNote
  <2>. QED  BY <1>3, <2>2, <2>3, ChangeNoteTyped DEF MapNote, NewUuid
<1>4. CASE Acknowledge(n)
  <2>1. [Dirtied(notes[n]) EXCEPT !.push = FALSE] \in Note
    BY <1>0 DEF Note
  <2>2. notes[n].doc \in Ids /\ notes[n].ver \in 0..MaxOps
    BY <1>0 DEF Note
  <2>3. IsTable(held', Ids, 0..MaxOps)
    BY <1>4, <2>2, HeldTyped DEF Acknowledge
  <2>. QED  BY <1>4, <2>1, <2>3, ChangeNoteTyped DEF Acknowledge, NoUuid
<1>5. ASSUME NEW s \in DOMAIN spaces, MoveNoteToSpace(n, s) PROVE Typed'
  <2>1. Uprooted(notes[n], s) \in Note
    BY <1>0, TablesTyped, NoteChanges
  <2>2. [Uprooted(notes[n], s) EXCEPT !.folder = NoFolder] \in Note
    BY <2>1, ZeroIsId DEF Note
  <2>. QED  BY <1>0, <1>5, <2>2, ChangeNoteTyped DEF MoveNoteToSpace, NoUuid, Elsewhere
<1>6. ASSUME NEW f \in DOMAIN folders \cup {NoFolder}, NEW byUser \in BOOLEAN, SetNoteFolder(n, f, byUser)
      PROVE  Typed'
  <2>1. f \in Ids
    BY TablesTyped, ZeroIsId
  <2>2. InFolder(notes[n], f, byUser) \in Note
    BY <1>0, <2>1, NoteChanges
  <2>. QED  BY <1>0, <1>6, <2>2, ChangeNoteTyped DEF SetNoteFolder, NoUuid, Elsewhere
<1>. QED  BY <1>1, <1>2, <1>3, <1>4, <1>5, <1>6

LEMMA DeleteNoteTyped ==
    ASSUME Typed, NEW n \in DOMAIN notes, DeleteNote(n)
    PROVE  Typed'
<1>1. NoteTable(notes')
  BY TablesTyped, WithoutTable DEF DeleteNote, NoteTable
<1>2. Gone({n}) \in WriteOps
  BY TablesTyped, OpsMade
<1>3. QueueTyped' /\ (phase # "open" => queue' = queue)
  BY <1>2, ShortSeqs, SendTyped DEF DeleteNote
<1>4. allowEmpty' \in BOOLEAN /\ nextSpace' \in SpaceIds /\ nextNote' \in Nat
      /\ fresh' = fresh /\ held' = held /\ Operates
      /\ SpaceTable(spaces') /\ FolderTable(folders') /\ BlobTable(blobs')
  BY TablesTyped, OperationFacts DEF DeleteNote, Typed, TypeOK, NoUuid, Elsewhere
<1>. QED  BY <1>1, <1>3, <1>4, TablesTyped, OperationTyped

\* The tables that an import leaves.
\* The note that an import makes of a file.
Imported(s, f, v) == [NewNote(s) EXCEPT !.folder = f, !.fpush = f # NoFolder, !.ver = v]

LEMMA ImportMakes ==
    ASSUME Typed, NEW s \in DOMAIN spaces, NEW f \in DOMAIN folders \cup {NoFolder, fresh + 1},
           NEW n \in DOMAIN notes \cup {nextNote}, Import(s, f, n)
    PROVE  /\ n \in Nat /\ f \in Ids /\ FolderTable(folders') /\ NoteTable(notes')
           /\ DOMAIN notes' = DOMAIN notes \cup {n}
           /\ notes'[n] = Imported(s, f, ops')
           /\ \A m \in DOMAIN notes \ {n} : notes'[m] = Snapshot(notes[m])
           /\ Send((IF f = fresh + 1 THEN <<Whole("folders", folders')>> ELSE << >>)
                   \o <<Whole("notes", [m \in Dirty(notes) \cup {n} |-> notes'[m]])>>)
<1>. DEFINE made == f = fresh + 1
            note == Imported(s, f, ops')
            all == Over(notes, Only(n, note))
            N == Dirty(notes) \cup {n}
<1>1. n \in Nat /\ f \in Ids /\ s \in SpaceIds /\ ops' \in 0..MaxOps /\ fresh + 1 \in Ids \ {NoFolder}
  BY TablesTyped, OperationFacts, ZeroIsId DEF Import
<1>2. note \in Note
  <2>1. NewNote(s) \in Note
    BY <1>1, NewNoteTyped
  <2>. QED  BY <1>1, <2>1 DEF Note, Imported
<1>3. NoteTable(Only(n, note)) /\ DOMAIN Only(n, note) = {n} /\ Only(n, note)[n] = note
  <2>. HIDE DEF note
  <2>. QED  BY <1>1, <1>2, OnlyTable DEF NoteTable
<1>4. /\ NoteTable(all)
      /\ DOMAIN all = DOMAIN notes \cup {n}
      /\ all[n] = note
      /\ \A m \in DOMAIN notes \ {n} : all[m] = notes[m]
  <2>. HIDE DEF note
  <2>1. IsTable(notes, Nat, Note) /\ IsTable(Only(n, note), Nat, Note)
    BY <1>3, TablesTyped DEF NoteTable
  <2>2. IsTable(all, Nat, Note)
    BY <2>1, OverTable
  <2>. QED  BY <1>3, <2>2 DEF NoteTable, Over
<1>5. notes' = [m \in DOMAIN all |-> IF m \in N THEN Snapshot(all[m]) ELSE all[m]]
  BY DEF Import, Imported
<1>6. \A m \in DOMAIN all : all[m] \in Note /\ Snapshot(all[m]) \in Note
  <2>. HIDE DEF all
  <2>. QED  BY <1>4, TableEntry, NoteChanges DEF NoteTable
<1>7. notes' \in [DOMAIN all -> Note]
  <2>. HIDE DEF all, N
  <2>. QED  BY <1>5, <1>6
<1>8. NoteTable(notes')
  <2>. HIDE DEF all
  <2>. QED  BY <1>4, <1>7, MadeTable DEF NoteTable, IsTable
<1>9. notes'[n] = note
  <2>1. notes'[n] = Snapshot(note)
    <3>. HIDE DEF all, note
    <3>. QED  BY <1>4, <1>5
  <2>2. note.dirty = FALSE
    BY DEF Imported, NewNote
  <2>3. Snapshot(note) = note
    <3>. HIDE DEF note
    <3>. QED  BY <1>2, <2>2 DEF Snapshot, Note
  <2>. QED  BY <2>1, <2>3
<1>10. \A m \in DOMAIN notes \ {n} : notes'[m] = Snapshot(notes[m])
  <2>1. TAKE m \in DOMAIN notes \ {n}
  <2>2. all[m] = notes[m] /\ m \in DOMAIN all
    <3>. HIDE DEF all
    <3>. QED  BY <1>4, <2>1
  <2>3. CASE m \in N
    <3>. HIDE DEF all, N
    <3>. QED  BY <1>5, <2>2, <2>3
  <2>4. CASE m \notin N
    <3>1. notes'[m] = notes[m]
      <4>. HIDE DEF all, N
      <4>. QED  BY <1>5, <2>2, <2>4
    <3>2. ~notes[m].dirty /\ notes[m] \in Note
      BY <2>1, <2>4, TablesTyped DEF Dirty
    <3>3. Snapshot(notes[m]) = notes[m]
      BY <3>2 DEF Snapshot, Note
    <3>. QED  BY <3>1, <3>3
  <2>. QED  BY <2>3, <2>4
<1>11. FolderTable(folders')
  <2>1. CASE made
    <3>1. FolderTable(Only(f, NewFolder(s, NoFolder)))
      BY <1>1, <2>1, ZeroIsId, NewFolderTyped, OnlyTable DEF FolderTable
    <3>2. folders' = Over(folders, Only(f, NewFolder(s, NoFolder)))
      BY <2>1 DEF Import
    <3>. QED  BY <3>1, <3>2, TablesTyped, OverTable DEF FolderTable
  <2>2. CASE ~made
    BY <2>2, TablesTyped DEF Import
  <2>. QED  BY <2>1, <2>2
<1>12. Send((IF f = fresh + 1 THEN <<Whole("folders", folders')>> ELSE << >>)
            \o <<Whole("notes", [m \in N |-> notes'[m]])>>)
  BY DEF Import, Whole
<1>13. DOMAIN notes' = DOMAIN notes \cup {n}
  <2>. HIDE DEF all
  <2>. QED  BY <1>4, <1>7
<1>. QED  BY <1>1, <1>8, <1>9, <1>10, <1>11, <1>12, <1>13

LEMMA ImportTyped ==
    ASSUME Typed, NEW s \in DOMAIN spaces, NEW f \in DOMAIN folders \cup {NoFolder, fresh + 1},
           NEW n \in DOMAIN notes \cup {nextNote}, Import(s, f, n)
    PROVE  Typed'
<1>. DEFINE N == Dirty(notes) \cup {n}
            a == IF f = fresh + 1 THEN <<Whole("folders", folders')>> ELSE << >>
            b == <<Whole("notes", [m \in N |-> notes'[m]])>>
<1>1. FolderTable(folders') /\ NoteTable(notes') /\ N \subseteq DOMAIN notes'
  BY ImportMakes DEF Dirty
<1>2. NoteTable([m \in N |-> notes'[m]])
  <2>. HIDE DEF N
  <2>. QED  BY <1>1, PartTable DEF NoteTable
<1>3. Whole("folders", folders') \in WriteOps /\ Whole("notes", [m \in N |-> notes'[m]]) \in WriteOps
  <2>. HIDE DEF N
  <2>. QED  BY <1>1, <1>2, OpsMade DEF FolderTable, NoteTable
<1>4. a \in Seq(WriteOps) /\ b \in Seq(WriteOps)
  <2>. HIDE DEF N
  <2>. QED  BY <1>3, ShortSeqs
<1>5. Send(a \o b)
  BY ImportMakes
<1>6. QueueTyped' /\ (phase # "open" => queue' = queue)
  <2>1. a \o b \in Seq(WriteOps)
    <3>. HIDE DEF a, b
    <3>. QED  BY <1>4
  <2>. QED  BY <1>5, <2>1, SendTyped
<1>7. nextNote' \in Nat /\ fresh' \in {fresh, fresh + 1, fresh + 2} /\ held' = held /\ Operates
      /\ SpaceTable(spaces') /\ BlobTable(blobs') /\ allowEmpty' \in BOOLEAN /\ nextSpace' \in SpaceIds
  <2>1. nextNote \in Nat /\ nextSpace \in SpaceIds /\ Operates
    BY OperationFacts DEF Import
  <2>. QED  BY <2>1, TablesTyped DEF Import, Typed, TypeOK
<1>. QED  BY <1>1, <1>6, <1>7, TablesTyped, OperationTyped

LEMMA NoteOpsTyped ==
    ASSUME Typed, NoteOps
    PROVE  Typed'
BY CreateNoteAndSpaceTyped, CreateNoteTyped, ImportTyped, ChangesTyped, DeleteNoteTyped DEF NoteOps

LEMMA BlobOpsTyped ==
    ASSUME Typed, BlobOps
    PROVE  Typed'
<1>1. ASSUME Operates, OnlyBlobs, BlobTable(blobs'), fresh' \in {fresh, fresh + 1, fresh + 2}
      PROVE  Typed'
  <2>1. Whole("blobs", blobs') \in WriteOps
    BY <1>1, OpsMade DEF BlobTable
  <2>2. QueueTyped' /\ (phase # "open" => queue' = queue)
    BY <1>1, <2>1, ShortSeqs, SendTyped DEF OnlyBlobs, BlobsChanged
  <2>3. allowEmpty' \in BOOLEAN /\ nextSpace' \in SpaceIds /\ nextNote' \in Nat /\ held' = held
        /\ SpaceTable(spaces') /\ FolderTable(folders') /\ NoteTable(notes')
    BY <1>1, TablesTyped, OperationFacts DEF OnlyBlobs, Typed, TypeOK, Elsewhere
  <2>. QED  BY <1>1, <2>2, <2>3, TablesTyped, OperationTyped
<1>2. ASSUME NEW b \in DOMAIN blobs, NEW blob \in Blob
      PROVE  BlobTable([blobs EXCEPT ![b] = blob])
  BY TablesTyped, SetTable DEF BlobTable
<1>3. ASSUME NEW b \in DOMAIN blobs, BlobTable(blobs),
             blobs' = [blobs EXCEPT ![b].bytes = TRUE]
      PROVE  BlobTable(blobs')
  <2>1. [blobs[b] EXCEPT !.bytes = TRUE] \in Blob
    BY TablesTyped DEF Blob
  <2>. QED  BY <1>2, <1>3, <2>1
<1>4. ASSUME NEW b \in Ids, NEW blob \in Blob, blobs' = Over(blobs, Only(b, blob))
      PROVE  BlobTable(blobs')
  <2>1. IsTable(Only(b, blob), Ids, Blob) /\ IsTable(blobs, Ids, Blob)
    BY OnlyTable, TablesTyped DEF BlobTable
  <2>2. IsTable(Over(blobs, Only(b, blob)), Ids, Blob)
    BY <2>1, OverTable
  <2>. QED  BY <1>4, <2>2 DEF BlobTable
<1>5. ASSUME NEW s \in DOMAIN spaces, NEW name \in Names, NEW hash \in Hashes, CreateBlob(s, name, hash)
      PROVE  Typed'
  <2>1. s \in SpaceIds /\ name \in Seq(Nat) /\ hash \in Nat /\ BlobTable(blobs)
    BY TablesTyped, ImagesAssumption
  <2>2. CASE fresh' = fresh
    <3>. DEFINE same == {b \in DOMAIN blobs : blobs[b].space = s /\ blobs[b].hash = hash}
    <3>1. PICK b \in same : blobs' = [blobs EXCEPT ![b].bytes = TRUE]
      BY <1>5, <2>2, OperationFacts DEF CreateBlob, NewUuid
    <3>. QED  BY <1>1, <1>3, <1>5, <2>1, <2>2, <3>1 DEF CreateBlob
  <2>3. CASE fresh' # fresh
    <3>1. UniqueName(blobs, s, name) \in Seq(Nat)
      BY <2>1, UniqueNameFree DEF BlobTable
    <3>2. fresh' \in Ids /\ fresh' = fresh + 1
      BY <1>5, <2>3, OperationFacts DEF CreateBlob, NewUuid, NoUuid
    <3>. DEFINE blob == [space |-> s, folder |-> NoFolder, name |-> UniqueName(blobs, s, name),
                         hash |-> hash, bytes |-> TRUE, push |-> TRUE, theirs |-> {}]
    <3>3. blob \in Blob
      BY <2>1, <3>1, ZeroIsId DEF Blob
    <3>4. blobs' = Over(blobs, Only(fresh', blob))
      BY <1>5, <2>3 DEF CreateBlob, NoUuid
    <3>. HIDE DEF blob
    <3>5. BlobTable(blobs')
      BY <1>4, <3>2, <3>3, <3>4
    <3>. QED  BY <1>1, <1>5, <3>2, <3>5 DEF CreateBlob
  <2>. QED  BY <2>2, <2>3
<1>6. ASSUME NEW b \in DOMAIN blobs, NEW name \in Names, RenameBlob(b, name)
      PROVE  Typed'
  <2>1. name \in Seq(Nat) /\ BlobTable(blobs) /\ blobs[b] \in Blob
    BY TablesTyped, ImagesAssumption
  <2>. DEFINE unique == UniqueName(blobs, blobs[b].space, name)
              blob == [blobs[b] EXCEPT !.name = unique, !.push = TRUE,
                                       !.theirs = blobs[b].theirs \ {"name"}]
  <2>2. unique \in Seq(Nat)
    BY <2>1, UniqueNameFree DEF BlobTable
  <2>3. blob \in Blob
    <3>1. blobs[b].theirs \ {"name"} \in SUBSET {"name", "content"}
      BY <2>1 DEF Blob
    <3>. HIDE DEF unique
    <3>. QED  BY <2>1, <2>2, <3>1 DEF Blob
  <2>4. blobs' = [blobs EXCEPT ![b] = blob]
    BY <1>6 DEF RenameBlob, BlobTable, IsTable
  <2>. HIDE DEF blob
  <2>5. BlobTable(blobs')
    BY <1>2, <2>3, <2>4
  <2>. QED  BY <1>1, <1>6, <2>5 DEF RenameBlob, NoUuid
<1>7. ASSUME NEW b \in DOMAIN blobs, NEW f \in DOMAIN folders \cup {NoFolder}, SetBlobFolder(b, f)
      PROVE  Typed'
  <2>1. f \in Ids /\ blobs[b] \in Blob
    BY TablesTyped, ZeroIsId
  <2>2. [blobs[b] EXCEPT !.folder = f, !.push = TRUE] \in Blob
    BY <2>1 DEF Blob
  <2>3. blobs' = [blobs EXCEPT ![b] = [blobs[b] EXCEPT !.folder = f, !.push = TRUE]]
    BY <1>7 DEF SetBlobFolder
  <2>4. BlobTable(blobs')
    BY <1>2, <2>2, <2>3
  <2>. QED  BY <1>1, <1>7, <2>4 DEF SetBlobFolder, NoUuid
<1>8. ASSUME NEW b \in DOMAIN blobs, DeleteBlob(b)
      PROVE  Typed'
  <2>1. BlobTable(blobs')
    BY <1>8, TablesTyped, WithoutTable DEF BlobTable, DeleteBlob
  <2>. QED  BY <1>1, <1>8, <2>1 DEF DeleteBlob, NoUuid
<1>9. ASSUME NEW b \in DOMAIN blobs, ClearBlobPush(b)
      PROVE  Typed'
  <2>1. blobs[b] \in Blob
    BY TablesTyped
  <2>2. [blobs[b] EXCEPT !.push = FALSE] \in Blob
    BY <2>1 DEF Blob
  <2>3. BlobTable(blobs')
    BY <1>2, <1>9, <2>2 DEF ClearBlobPush
  <2>. QED  BY <1>1, <1>9, <2>3 DEF ClearBlobPush, NoUuid
<1>10. ASSUME NEW b \in DOMAIN blobs, SetBlobBytes(b)
      PROVE  Typed'
  <2>1. BlobTable(blobs')
    BY <1>3, <1>10, TablesTyped DEF SetBlobBytes
  <2>. QED  BY <1>1, <1>10, <2>1 DEF SetBlobBytes, NoUuid
<1>11. ASSUME NEW s \in DOMAIN spaces, NEW b \in DOMAIN blobs \cup {fresh + 1}, NEW name \in Names,
              NEW hash \in Hashes, NEW f \in DOMAIN folders \cup {NoFolder},
              UpsertBlob(s, b, name, hash, f)
      PROVE  Typed'
  <2>1. s \in SpaceIds /\ name \in Seq(Nat) /\ hash \in Nat /\ f \in Ids
    BY TablesTyped, ImagesAssumption, ZeroIsId
  <2>2. CASE b \in DOMAIN blobs
    <3>. DEFINE given == blobs[b].theirs \cup (IF blobs[b].name = name THEN {} ELSE {"name"})
                blob == [blobs[b] EXCEPT !.name = name, !.folder = f, !.theirs = given]
    <3>1. blobs[b] \in Blob
      BY <2>2, TablesTyped
    <3>2. given \in SUBSET {"name", "content"}
      BY <3>1 DEF Blob
    <3>3. blob \in Blob
      <4>. HIDE DEF given
      <4>. QED  BY <2>1, <3>1, <3>2 DEF Blob
    <3>4. blobs' = [blobs EXCEPT ![b] = blob] /\ fresh' = fresh
      BY <1>11, <2>2 DEF UpsertBlob, NoUuid
    <3>. HIDE DEF blob
    <3>5. BlobTable(blobs')
      BY <1>2, <2>2, <3>3, <3>4
    <3>. QED  BY <1>1, <1>11, <3>4, <3>5 DEF UpsertBlob
  <2>3. CASE b \notin DOMAIN blobs
    <3>. DEFINE blob == [space |-> s, folder |-> f, name |-> name, hash |-> hash,
                         bytes |-> FALSE, push |-> FALSE, theirs |-> {"name", "content"}]
    <3>1. blob \in Blob
      BY <2>1 DEF Blob
    <3>2. blobs' = Over(blobs, Only(b, blob)) /\ fresh' = fresh + 1
      BY <1>11, <2>3 DEF UpsertBlob, NewUuid
    <3>3. b \in Ids
      BY <1>11, <2>3, OperationFacts DEF UpsertBlob
    <3>. HIDE DEF blob
    <3>4. BlobTable(blobs')
      BY <1>4, <3>1, <3>2, <3>3
    <3>. QED  BY <1>1, <1>11, <3>2, <3>4 DEF UpsertBlob
  <2>. QED  BY <2>2, <2>3
<1>. QED  BY <1>5, <1>6, <1>7, <1>8, <1>9, <1>10, <1>11 DEF BlobOps

-----------------------------------------------------------------------------
(* Types: flushes, the writer, the end and the next start. *)

LEMMA RowsTyped ==
    ASSUME Typed, NEW N, N \subseteq DOMAIN notes
    PROVE  Rows(N) \in WriteOps /\ NoteTable(Flushed(N))
<1>1. \A n \in DOMAIN notes : notes[n] \in Note /\ Snapshot(notes[n]) \in Note
  BY TablesTyped, NoteChanges
<1>2. [n \in N |-> Snapshot(notes[n])] \in [N -> Note]
  BY <1>1
<1>3. IsFiniteSet(N) /\ N \subseteq Nat /\ IsFiniteSet(DOMAIN notes) /\ DOMAIN notes \subseteq Nat
  BY TablesTyped, FS_Subset DEF NoteTable, IsTable
<1>4. IsTable([n \in N |-> Snapshot(notes[n])], Nat, Note)
  BY <1>2, <1>3, MadeTable
<1>5. Rows(N) \in WriteOps
  BY <1>4, OpsMade DEF Rows, Whole
<1>6. Flushed(N) \in [DOMAIN notes -> Note]
  BY <1>1 DEF Flushed
<1>. QED  BY <1>3, <1>5, <1>6, MadeTable DEF NoteTable

LEMMA QueueFits ==
    ASSUME QueueTyped'
    PROVE  \A i \in DOMAIN queue' : IsOp(queue[i])'
<1>1. TAKE i \in DOMAIN queue'
<1>2. queue'[i] \in WriteOps
  BY <1>1 DEF QueueTyped
<1>3. IsOp(queue'[i])
  BY <1>2, WriteOpIs
<1>. QED  BY <1>3

LEMMA FlushTyped ==
    ASSUME Typed, NEW N, N \subseteq DOMAIN notes, Flush(N)
    PROVE  Typed'
<1>1. QueueTyped' /\ (phase # "open" => queue' = queue)
  BY RowsTyped, ShortSeqs, SendTyped DEF Flush
<1>2. NoteTable(notes')
  BY RowsTyped DEF Flush
<1>3. TypeOK'
  BY <1>1, <1>2, QueueFits DEF Flush, Typed, TypeOK, NoteTable, history
<1>4. Counted'
  BY <1>1 DEF Flush, Typed, Counted, Running, history
<1>. QED  BY <1>1, <1>3, <1>4 DEF Typed

LEMMA FlushNotesTyped ==
    ASSUME Typed, FlushNotes
    PROVE  Typed'
BY FlushTyped DEF FlushNotes, Autosave, FlushNote, Dirty

LEMMA OpIs ==
    ASSUME Typed, Writing
    PROVE  /\ Op \in WriteOps /\ Op = queue[1] /\ Len(queue) > 0
           /\ Tail(queue) \in Seq(WriteOps) /\ (Rest => queue' = Tail(queue))
           /\ phase \in {"opening", "open", "closing", "aborting"}
BY DEF Typed, QueueTyped, Writing, Op, Rest

LEMMA DiskSet ==
    ASSUME NEW d, IsDisk(d)
    PROVE  /\ \A v : IsTable(v, SpaceIds, Space) => IsDisk([d EXCEPT !.spaces = v])
           /\ \A v : IsTable(v, Ids \ {NoFolder}, Folder) => IsDisk([d EXCEPT !.folders = v])
           /\ \A v : IsTable(v, Ids, Blob) => IsDisk([d EXCEPT !.blobs = v])
           /\ \A v : IsTable(v, Nat, Note) => IsDisk([d EXCEPT !.notes = v])
           /\ \A v \in BOOLEAN : IsDisk([d EXCEPT !.allowEmpty = v])
BY DEF IsDisk

LEMMA ListSet ==
    ASSUME NEW d, IsDisk(d), NEW op \in WriteOps, IsList(op)
    PROVE  IsDisk([d EXCEPT ![op.table] = op.value])
<1>1. op.table \in TableNames
  BY WriteOpIs
<1>2. CASE op.table = "spaces"
  <2>1. IsTable(op.value, SpaceIds, Space)
    BY <1>2, WriteOpIs
  <2>. QED  BY <1>2, <2>1, DiskSet
<1>3. CASE op.table = "folders"
  <2>1. IsTable(op.value, Ids \ {NoFolder}, Folder)
    BY <1>3, WriteOpIs
  <2>. QED  BY <1>3, <2>1, DiskSet
<1>4. CASE op.table = "blobs"
  <2>1. IsTable(op.value, Ids, Blob)
    BY <1>4, WriteOpIs
  <2>. QED  BY <1>4, <2>1, DiskSet
<1>5. CASE op.table = "allowEmpty"
  <2>1. op.value \in BOOLEAN
    BY <1>5, WriteOpIs
  <2>. QED  BY <1>5, <2>1, DiskSet
<1>. QED  BY <1>1, <1>2, <1>3, <1>4, <1>5 DEF TableNames

LEMMA PutTyped ==
    ASSUME NEW K, NEW R, NEW stored, NEW old, NEW new,
           IsTable(stored, K, R), IsTable(old, K, R), IsTable(new, K, R)
    PROVE  IsTable(Put(stored, old, new), K, R)
<1>. DEFINE put == {k \in DOMAIN new : k \notin DOMAIN old \/ old[k] # new[k]}
            gone == DOMAIN old \ DOMAIN new
            part == [k \in put |-> new[k]]
<1>1. IsTable(Without(stored, gone), K, R)
  <2>. HIDE DEF gone
  <2>. QED  BY WithoutTable
<1>2. IsTable(part, K, R)
  <2>1. put \subseteq DOMAIN new
    OBVIOUS
  <2>. HIDE DEF put
  <2>. QED  BY <2>1, PartTable
<1>3. IsTable(Over(Without(stored, gone), part), K, R)
  <2>. HIDE DEF part, gone
  <2>. QED  BY <1>1, <1>2, OverTable
<1>. QED  BY <1>3 DEF Put

LEMMA AppliedTyped ==
    ASSUME NEW d, IsDisk(d), NEW op \in WriteOps, IsDisk(cache)
    PROVE  IsDisk(Applied(d, op))
<1>1. CASE ~IsList(op) /\ ~IsRows(op)
  <2>1. Applied(d, op) = [d EXCEPT !.notes = Without(d.notes, op.gone)]
    BY <1>1, WriteOpIs DEF Applied, IsList
  <2>2. IsTable(Without(d.notes, op.gone), Nat, Note)
    BY WithoutTable DEF IsDisk
  <2>. QED  BY <2>1, <2>2, DiskSet
<1>2. CASE IsRows(op)
  <2>1. Applied(d, op) = [d EXCEPT !.notes = Over(d.notes, op.value)]
    BY <1>2, WriteOpIs DEF Applied, IsRows
  <2>2. IsTable(Over(d.notes, op.value), Nat, Note)
    BY <1>2, WriteOpIs, OverTable DEF IsDisk
  <2>. QED  BY <2>1, <2>2, DiskSet
<1>3. CASE IsList(op)
  <2>1. op.table \in TableNames /\ op.table # "notes"
    BY <1>3, WriteOpIs DEF IsList
  <2>2. \/ op.table # "allowEmpty"
           /\ Applied(d, op) = [d EXCEPT ![op.table] = Put(d[op.table], cache[op.table], op.value)]
        \/ Applied(d, op) = [d EXCEPT ![op.table] = op.value]
    BY <1>3, <2>1 DEF Applied, IsList, IsRows
  <2>3. CASE op.table = "spaces"
    <3>1. IsTable(op.value, SpaceIds, Space)
      BY <2>3, WriteOpIs
    <3>2. IsTable(Put(d.spaces, cache.spaces, op.value), SpaceIds, Space)
      BY <3>1, PutTyped DEF IsDisk
    <3>. QED  BY <2>2, <2>3, <3>1, <3>2, DiskSet
  <2>4. CASE op.table = "folders"
    <3>1. IsTable(op.value, Ids \ {NoFolder}, Folder)
      BY <2>4, WriteOpIs
    <3>2. IsTable(Put(d.folders, cache.folders, op.value), Ids \ {NoFolder}, Folder)
      BY <3>1, PutTyped DEF IsDisk
    <3>. QED  BY <2>2, <2>4, <3>1, <3>2, DiskSet
  <2>5. CASE op.table = "blobs"
    <3>1. IsTable(op.value, Ids, Blob)
      BY <2>5, WriteOpIs
    <3>2. IsTable(Put(d.blobs, cache.blobs, op.value), Ids, Blob)
      BY <3>1, PutTyped DEF IsDisk
    <3>. QED  BY <2>2, <2>5, <3>1, <3>2, DiskSet
  <2>6. CASE op.table = "allowEmpty"
    <3>1. op.value \in BOOLEAN
      BY <2>6, WriteOpIs
    <3>. QED  BY <2>2, <2>6, <3>1, DiskSet
  <2>. QED  BY <2>1, <2>3, <2>4, <2>5, <2>6 DEF TableNames
<1>. QED  BY <1>1, <1>2, <1>3 DEF IsList, IsRows

LEMMA CachedTyped ==
    ASSUME IsDisk(cache), NEW op \in WriteOps
    PROVE  IsDisk(Cached(op))
<1>1. CASE ~IsList(op)
  BY <1>1, AppliedTyped DEF Cached
<1>2. CASE IsList(op)
  <2>1. Cached(op) = [cache EXCEPT ![op.table] = op.value]
    BY <1>2 DEF Cached
  <2>. QED  BY <1>2, <2>1, ListSet
<1>. QED  BY <1>1, <1>2

LEMMA SomeRowsTyped ==
    ASSUME Typed, IsRows(Op), Op \in WriteOps, NEW N, N \subseteq DOMAIN Op.value
    PROVE  IsDisk(SomeRows(N))
<1>1. IsTable(Op.value, Nat, Note)
  BY WriteOpIs
<1>2. IsTable([n \in N |-> Op.value[n]], Nat, Note)
  BY <1>1, PartTable
<1>3. IsDisk(disk) /\ IsTable(disk.notes, Nat, Note)
  BY DEF Typed, TypeOK, IsDisk
<1>4. IsTable(Over(disk.notes, [n \in N |-> Op.value[n]]), Nat, Note)
  BY <1>2, <1>3, OverTable
<1>. QED  BY <1>3, <1>4, DiskSet DEF SomeRows

LEMMA WriterTyped ==
    ASSUME Typed, Writer
    PROVE  Typed'
<1>1. Writing /\ Rest
  BY DEF Writer, WriteOk, WriteFails
<1>2. Op \in WriteOps /\ QueueTyped' /\ phase \in {"opening", "open", "closing", "aborting"}
  BY <1>1, OpIs DEF QueueTyped
<1>3. IsDisk(disk) /\ IsDisk(cache)
  BY DEF Typed, TypeOK
<1>4. IsDisk(cache')
  BY <1>2, <1>3, CachedTyped DEF Writer, WriteOk, WriteFails
<1>5. IsDisk(disk')
  <2>1. CASE WriteOk
    BY <1>2, <1>3, <2>1, AppliedTyped DEF WriteOk
  <2>2. CASE WriteFails
    <3>1. PICK N \in Part(Op) : disk' = IF N = {} THEN disk ELSE SomeRows(N)
      BY <2>2 DEF WriteFails
    <3>2. N = {} \/ (IsRows(Op) /\ N \subseteq DOMAIN Op.value)
      BY DEF Part
    <3>. QED  BY <1>2, <1>3, <3>1, <3>2, SomeRowsTyped
  <2>. QED  BY <2>1, <2>2 DEF Writer
<1>6. lostTables' \subseteq TableNames
  BY <1>2, WriteOpIs DEF Writer, WriteOk, WriteFails, Typed, TypeOK
<1>7. lostNotes' \subseteq Nat
  <2>1. CASE WriteOk
    BY <2>1 DEF WriteOk, Typed, TypeOK
  <2>2. CASE WriteFails
    <3>1. PICK N \in Part(Op) :
            lostNotes' = CASE IsRows(Op) -> lostNotes \cup (DOMAIN Op.value \ N)
                           [] IsList(Op) -> lostNotes
                           [] OTHER -> lostNotes \cup Op.gone
      BY <2>2 DEF WriteFails
    <3>2. IsRows(Op) => DOMAIN Op.value \subseteq Nat
      BY <1>2, WriteOpIs DEF IsTable
    <3>3. ~IsRows(Op) /\ ~IsList(Op) => Op.gone \subseteq Nat
      BY <1>2, WriteOpIs
    <3>4. lostNotes \subseteq Nat
      BY DEF Typed, TypeOK
    <3>5. CASE IsRows(Op)
      BY <3>1, <3>2, <3>4, <3>5
    <3>6. CASE ~IsRows(Op) /\ IsList(Op)
      BY <3>1, <3>4, <3>6
    <3>7. CASE ~IsRows(Op) /\ ~IsList(Op)
      BY <3>1, <3>3, <3>4, <3>7
    <3>. QED  BY <3>5, <3>6, <3>7
  <2>. QED  BY <2>1, <2>2 DEF Writer
<1>8. faults' \in 0..MaxFaults /\ broken' \in BOOLEAN /\ failed' \in BOOLEAN
  <2>1. faults \in 0..MaxFaults /\ broken \in BOOLEAN /\ failed \in BOOLEAN /\ MaxFaults \in Nat
    BY BoundsAssumption DEF Typed, TypeOK
  <2>2. CASE WriteOk
    BY <2>1, <2>2 DEF WriteOk
  <2>3. CASE WriteFails
    <3>1. /\ broken' = TRUE /\ failed' \in BOOLEAN
          /\ (faults' = faults \/ (faults < MaxFaults /\ faults' = faults + 1))
      BY <2>3 DEF WriteFails
    <3>. QED  BY <2>1, <3>1
  <2>. QED  BY <2>2, <2>3 DEF Writer
<1>9. TypeOK'
  BY <1>1, <1>2, <1>4, <1>5, <1>6, <1>7, <1>8, QueueFits DEF Typed, TypeOK, Rest, db, tables
<1>10. Counted'
  BY <1>1, <1>2 DEF Typed, Counted, Running, Rest, db, tables
<1>. QED  BY <1>2, <1>9, <1>10 DEF Typed

LEMMA PrefixIs ==
    ASSUME NEW S, NEW q \in Seq(S), NEW k \in 0..Len(q)
    PROVE  /\ SubSeq(q, 1, k) \in Seq(S) /\ Len(SubSeq(q, 1, k)) = k
           /\ \A i \in 1..k : i \in 1..Len(q) /\ SubSeq(q, 1, k)[i] = q[i]
OBVIOUS

LEMMA CloseTyped ==
    ASSUME Typed, Close \/ Closed \/ Opened \/ OpenAborts
    PROVE  Typed'
<1>1. CASE Close
  <2>1. QueueTyped' /\ (phase # "open" => queue' = queue)
    <3>1. Dirty(notes) \subseteq DOMAIN notes
      BY DEF Dirty
    <3>2. Rows(Dirty(notes)) \in WriteOps
      BY <3>1, RowsTyped
    <3>3. (IF Dirty(notes) # {} THEN <<Rows(Dirty(notes))>> ELSE << >>) \in Seq(WriteOps)
      BY <3>2, ShortSeqs
    <3>. QED  BY <1>1, <3>3, SendTyped DEF Close
  <2>2. /\ IsTable(spaces', SpaceIds, Space) /\ IsTable(folders', Ids \ {NoFolder}, Folder)
        /\ IsTable(notes', Nat, Note) /\ IsTable(blobs', Ids, Blob)
        /\ allowEmpty' \in BOOLEAN /\ nextSpace' \in Nat /\ nextNote' \in Nat
    BY <1>1, EmptyTable DEF Close, NoTables
  <2>3. TypeOK'
    BY <1>1, <2>1, <2>2, QueueFits DEF Close, Typed, TypeOK, history
  <2>4. Counted'
    BY <1>1 DEF Close, Typed, Counted, Running, history
  <2>. QED  BY <2>1, <2>3, <2>4 DEF Typed
<1>2. CASE Closed
  <2>1. TypeOK'
    BY <1>2 DEF Closed, Typed, TypeOK, history, db, tables
  <2>2. QueueTyped'
    BY <1>2 DEF Closed, Typed, QueueTyped
  <2>3. Counted'
    BY <1>2 DEF Closed, Typed, Counted, Running, history, db
  <2>. QED  BY <2>1, <2>2, <2>3 DEF Typed
<1>3. CASE Opened
  <2>1. TypeOK'
    BY <1>3 DEF Opened, Typed, TypeOK, db, tables
  <2>2. QueueTyped'
    BY <1>3 DEF Opened, Typed, QueueTyped
  <2>3. Counted'
    BY <1>3 DEF Opened, Typed, Counted, Running, db
  <2>. QED  BY <2>1, <2>2, <2>3 DEF Typed
<1>4. CASE OpenAborts
  <2>1. QueueTyped'
    <3>1. PICK sent \in 0..Len(queue) : queue' = SubSeq(queue, 1, sent)
      BY <1>4 DEF OpenAborts
    <3>. QED  BY <3>1, PrefixIs DEF Typed, QueueTyped
  <2>2. /\ IsTable(spaces', SpaceIds, Space) /\ IsTable(folders', Ids \ {NoFolder}, Folder)
        /\ IsTable(notes', Nat, Note) /\ IsTable(blobs', Ids, Blob)
        /\ allowEmpty' \in BOOLEAN /\ nextSpace' \in Nat /\ nextNote' \in Nat
    BY <1>4, EmptyTable DEF OpenAborts, NoTables
  <2>3. TypeOK'
    BY <1>4, <2>1, <2>2, QueueFits DEF OpenAborts, Typed, TypeOK
  <2>4. Counted'
    BY <1>4 DEF OpenAborts, Typed, Counted, Running
  <2>. QED  BY <2>1, <2>3, <2>4 DEF Typed
<1>. QED  BY <1>1, <1>2, <1>3, <1>4

LEMMA CrashTyped ==
    ASSUME Typed, Crash
    PROVE  Typed'
<1>1. QueueTyped' /\ queue' = << >>
  BY DEF Crash, QueueTyped
<1>2. IsDisk(disk')
  <2>1. IsDisk(disk)
    BY DEF Typed, TypeOK
  <2>2. CASE disk' # disk
    <3>1. queue # << >> /\ IsRows(Op) /\ \E N \in Part(Op) : disk' = SomeRows(N)
      BY <2>2 DEF Crash, Writing
    <3>2. PICK N \in Part(Op) : disk' = SomeRows(N)
      BY <3>1
    <3>3. N \subseteq DOMAIN Op.value
      BY <3>1 DEF Part
    <3>4. Op \in WriteOps
      BY <3>1 DEF Typed, QueueTyped, Op
    <3>. QED  BY <3>1, <3>2, <3>3, <3>4, SomeRowsTyped
  <2>. QED  BY <2>1, <2>2
<1>3. /\ IsTable(spaces', SpaceIds, Space) /\ IsTable(folders', Ids \ {NoFolder}, Folder)
      /\ IsTable(notes', Nat, Note) /\ IsTable(blobs', Ids, Blob)
      /\ allowEmpty' \in BOOLEAN /\ nextSpace' \in Nat /\ nextNote' \in Nat
  BY EmptyTable DEF Crash, NoTables
<1>4. faults' \in 0..MaxFaults
  BY BoundsAssumption DEF Crash, Typed, TypeOK
<1>5. TypeOK'
  BY <1>1, <1>2, <1>3, <1>4, QueueFits DEF Crash, Typed, TypeOK
<1>6. Counted'
  BY <1>1 DEF Crash, Typed, Counted, Running
<1>. QED  BY <1>1, <1>5, <1>6 DEF Typed

LEMMA LoadTyped ==
    ASSUME Typed
    PROVE  /\ SpaceTable(OpenedSpaces(disk)) /\ FolderTable(OpenedFolders(disk))
           /\ NoteTable(OpenedNotes(disk)) /\ BlobTable(OpenedBlobs(disk))
           /\ disk.allowEmpty \in BOOLEAN
           /\ NextAfter(DOMAIN OpenedSpaces(disk), DefaultSpace) \in Nat \ {0}
           /\ NextAfter(DOMAIN OpenedNotes(disk), 1) \in Nat
           /\ Repaired(disk) \subseteq Nat
<1>1. IsDisk(disk)
  BY DEF Typed, TypeOK
<1>2. /\ SpaceTable(OpenedSpaces(disk)) /\ FolderTable(OpenedFolders(disk))
      /\ NoteTable(OpenedNotes(disk)) /\ BlobTable(OpenedBlobs(disk))
      /\ disk.allowEmpty \in BOOLEAN
  BY <1>1, OpenedSpacesTyped, OpenedFoldersTyped, OpenedNotesTyped, OpenedBlobsTyped DEF IsDisk
<1>3. NextAfter(DOMAIN OpenedSpaces(disk), DefaultSpace) \in Nat \ {0}
  <2>1. DOMAIN OpenedSpaces(disk) \in SUBSET Nat /\ IsFiniteSet(DOMAIN OpenedSpaces(disk))
        /\ DefaultSpace \in Nat \ {0}
    BY <1>2 DEF SpaceTable, IsTable, SpaceIds, DefaultSpace
  <2>. QED  BY <2>1, NextIsAfter
<1>4. NextAfter(DOMAIN OpenedNotes(disk), 1) \in Nat /\ DOMAIN OpenedNotes(disk) \subseteq Nat
  <2>1. DOMAIN OpenedNotes(disk) \in SUBSET Nat /\ IsFiniteSet(DOMAIN OpenedNotes(disk))
        /\ 1 \in Nat \ {0}
    BY <1>2 DEF NoteTable, IsTable
  <2>. QED  BY <2>1, NextIsAfter
<1>. QED  BY <1>2, <1>3, <1>4 DEF Repaired

\* What a start sends: the lists, and the notes that it changed.
LEMMA OpenSends ==
    ASSUME Typed, Open
    PROVE  /\ QueueTyped' /\ NoteTable(notes')
           /\ DOMAIN notes' = DOMAIN OpenedNotes(disk)
           /\ \A n \in DOMAIN notes' : notes'[n] = Snapshot(OpenedNotes(disk)[n])
<1>. DEFINE loaded == OpenedNotes(disk)
            rows == [n \in Dirty(loaded) |-> notes'[n]]
            lists == <<Whole("spaces", spaces'), Whole("folders", folders'), Whole("blobs", blobs')>>
            more == IF Dirty(loaded) # {} THEN <<[table |-> "notes", value |-> rows]>> ELSE << >>
<1>1. NoteTable(loaded)
  BY LoadTyped
<1>2. /\ notes' = [n \in DOMAIN loaded |-> Snapshot(loaded[n])]
      /\ queue' = lists \o more
  BY DEF Open
<1>3. \A n \in DOMAIN loaded : Snapshot(loaded[n]) \in Note
  <2>. HIDE DEF loaded
  <2>. QED  BY <1>1, TableEntry, NoteChanges DEF NoteTable
<1>4. notes' \in [DOMAIN loaded -> Note]
  <2>. HIDE DEF loaded
  <2>. QED  BY <1>2, <1>3
<1>5. NoteTable(notes') /\ DOMAIN notes' = DOMAIN loaded
  <2>. HIDE DEF loaded
  <2>. QED  BY <1>1, <1>4, MadeTable DEF NoteTable, IsTable
<1>6. Dirty(loaded) \subseteq DOMAIN notes'
  <2>. HIDE DEF loaded
  <2>. QED  BY <1>5 DEF Dirty
<1>7. NoteTable(rows)
  <2>. HIDE DEF loaded
  <2>. QED  BY <1>5, <1>6, PartTable DEF NoteTable
<1>8. [table |-> "notes", value |-> rows] \in WriteOps
  <2>. HIDE DEF rows
  <2>. QED  BY <1>7, OpsMade DEF NoteTable, Whole
<1>9. more \in Seq(WriteOps)
  <2>. HIDE DEF rows, loaded
  <2>. QED  BY <1>8, ShortSeqs
<1>10. lists \in Seq(WriteOps)
  <2>1. Whole("spaces", spaces') \in WriteOps /\ Whole("folders", folders') \in WriteOps
        /\ Whole("blobs", blobs') \in WriteOps
    BY LoadTyped, OpsMade DEF Open, SpaceTable, FolderTable, BlobTable
  <2>. QED  BY <2>1, ShortSeqs
<1>11. QueueTyped'
  <2>. HIDE DEF lists, more
  <2>. QED  BY <1>2, <1>9, <1>10 DEF QueueTyped
<1>12. \A n \in DOMAIN notes' : notes'[n] = Snapshot(loaded[n])
  <2>. HIDE DEF loaded
  <2>. QED  BY <1>2, <1>5
<1>. QED  BY <1>5, <1>11, <1>12

LEMMA OpenTyped ==
    ASSUME Typed, Open \/ OpenDeaf \/ OpenFails \/ FallsBack
    PROVE  Typed'
<1>1. CASE Open
  <2>1. QueueTyped' /\ NoteTable(notes')
    BY <1>1, OpenSends
  <2>2. NextAfter(DOMAIN OpenedNotes(disk), 1) \in Nat /\ nextSpace' \in Nat \ {0}
    BY <1>1, LoadTyped DEF Open
  <2>3. TypeOK'
    BY <1>1, <2>1, <2>2, LoadTyped, QueueFits
       DEF Open, Started, Typed, TypeOK, SpaceTable, FolderTable, NoteTable, BlobTable
  <2>4. Counted'
    BY <1>1, <2>2 DEF Open, Started, Typed, Counted, Running
  <2>. QED  BY <2>1, <2>3, <2>4 DEF Typed
<1>2. faults + 1 \in Nat /\ (faults < MaxFaults => faults + 1 \in 0..MaxFaults)
  BY BoundsAssumption DEF Typed, TypeOK
<1>3. CASE OpenDeaf
  <2>1. QueueTyped' /\ queue' = << >>
    BY <1>3 DEF OpenDeaf, Typed, QueueTyped, Counted
  <2>2. TypeOK'
    BY <1>2, <1>3, LoadTyped
       DEF OpenDeaf, Load, Started, Typed, TypeOK, SpaceTable, FolderTable, NoteTable, BlobTable
  <2>3. Counted'
    BY <1>3, <2>1, LoadTyped DEF OpenDeaf, Load, Started, Typed, Counted, Running
  <2>. QED  BY <2>1, <2>2, <2>3 DEF Typed
<1>4. CASE OpenFails \/ FallsBack
  <2>1. QueueTyped' /\ queue' = << >>
    BY <1>4 DEF OpenFails, FallsBack, InMemory, Typed, QueueTyped, Counted
  <2>2. NoteTable(notes')
    <3>1. NewNote(DefaultSpace) \in Note /\ WelcomeNote \in Nat
      BY LocalSpaceTyped, NewNoteTyped DEF WelcomeNote
    <3>2. NoteTable(Only(WelcomeNote, NewNote(DefaultSpace)))
      BY <3>1, OnlyTable DEF NoteTable
    <3>. QED  BY <1>4, <3>2 DEF OpenFails, FallsBack, InMemory
  <2>3. SpaceTable(spaces')
    <3>1. SpaceTable(Only(DefaultSpace, LocalSpace))
      BY LocalSpaceTyped, OnlyTable DEF SpaceTable
    <3>. QED  BY <1>4, <3>1 DEF OpenFails, FallsBack, InMemory
  <2>4. FolderTable(folders') /\ BlobTable(blobs')
    BY <1>4, EmptyTable DEF OpenFails, FallsBack, InMemory, FolderTable, BlobTable
  <2>5. nextSpace' \in Nat \ {0} /\ nextNote' \in Nat
    BY <1>4 DEF OpenFails, FallsBack, InMemory, DefaultSpace
  <2>6. TypeOK'
    BY <1>2, <1>4, <2>2, <2>3, <2>4, <2>5, LoadTyped
       DEF OpenFails, FallsBack, InMemory, Started, Typed, TypeOK, SpaceTable, FolderTable, NoteTable, BlobTable
  <2>7. Counted'
    BY <1>4, <2>1, <2>5 DEF OpenFails, FallsBack, InMemory, Started, Typed, Counted, Running
  <2>. QED  BY <2>1, <2>6, <2>7 DEF Typed
<1>. QED  BY <1>1, <1>3, <1>4

LEMMA NextTyped ==
    ASSUME Typed, [Next]_vars
    PROVE  Typed'
<1>1. CASE SpaceOps
  BY <1>1, CreateSpaceTyped, BindTyped, DeleteSpaceTyped DEF SpaceOps
<1>2. CASE Lifecycle
  BY <1>2, CloseTyped, CrashTyped, OpenTyped DEF Lifecycle
<1>3. CASE UNCHANGED vars
  <2>1. TypeOK'
    BY <1>3 DEF vars, db, tables, history, Typed, TypeOK
  <2>. QED  BY <1>3, <2>1 DEF vars, db, tables, history, Typed, QueueTyped, Counted, Running
<1>. QED  BY <1>1, <1>2, <1>3, FolderOpsTyped, NoteOpsTyped, BlobOpsTyped, FlushNotesTyped,
             WriterTyped DEF Next

LEMMA InitTyped ==
    ASSUME Init
    PROVE  Typed
<1>1. IsDisk(disk) /\ IsDisk(cache)
  BY ProfilesAssumption DEF Init
<1>2. /\ IsTable(spaces, SpaceIds, Space) /\ IsTable(folders, Ids \ {NoFolder}, Folder)
      /\ IsTable(notes, Nat, Note) /\ IsTable(blobs, Ids, Blob)
  BY EmptyTable DEF Init
<1>3. IsTable(held, Ids, 0..MaxOps)
  <2>. DEFINE docs == {disk.notes[n].doc : n \in DOMAIN disk.notes}
  <2>1. IsTable(disk.notes, Nat, Note)
    BY <1>1 DEF IsDisk
  <2>2. \A n \in DOMAIN disk.notes : disk.notes[n].doc \in Ids
    <3>1. \A n \in DOMAIN disk.notes : disk.notes[n] \in Note
      BY <2>1, TableEntry
    <3>. QED  BY <3>1 DEF Note
  <2>3. IsFiniteSet(docs)
    <3>. DEFINE doc == [n \in DOMAIN disk.notes |-> disk.notes[n].doc]
    <3>1. doc \in Surjection(DOMAIN disk.notes, docs)
      BY DEF Surjection
    <3>2. IsFiniteSet(DOMAIN disk.notes)
      BY <2>1 DEF IsTable
    <3>. HIDE DEF doc, docs
    <3>. QED  BY <3>1, <3>2, FS_Surjection
  <2>4. held \in [docs -> 0..MaxOps]
    BY BoundsAssumption DEF Init
  <2>5. docs \subseteq Ids
    BY <2>2
  <2>. HIDE DEF docs
  <2>. QED  BY <2>3, <2>4, <2>5, MadeTable
<1>4. fresh \in Ids /\ ops \in 0..MaxOps /\ faults \in 0..MaxFaults /\ queue \in Seq(WriteOps)
  BY BoundsAssumption DEF Init, Ids
<1>5. TypeOK
  <2>1. kind \in Kinds /\ phase = "closed" /\ allowEmpty \in BOOLEAN /\ broken \in BOOLEAN
        /\ failed \in BOOLEAN
    BY StoresAssumption DEF Init
  <2>2. nextSpace \in Nat /\ nextNote \in Nat /\ lostTables \subseteq TableNames /\ lostNotes \subseteq Nat
    BY DEF Init
  <2>3. \A i \in DOMAIN queue : IsOp(queue[i])
    BY DEF Init
  <2>. QED  BY <1>1, <1>2, <1>3, <1>4, <2>1, <2>2, <2>3 DEF TypeOK
<1>6. Counted
  BY BoundsAssumption DEF Init, Counted, Running
<1>. QED  BY <1>4, <1>5, <1>6 DEF Typed, QueueTyped

LEMMA TypedHolds == Spec => []Typed
<1>. QED  BY InitTyped, NextTyped, PTL DEF Spec

-----------------------------------------------------------------------------
(* The flags that are saved. *)

\* The rows of note n that are stored or among the writes q, and all its rows, those of ns too.
RowsIn(stored, q, n) ==
    (IF n \in DOMAIN stored THEN {stored[n]} ELSE {})
    \cup {q[i].value[n] : i \in {j \in DOMAIN q : IsRows(q[j]) /\ n \in DOMAIN q[j].value}}
Written(n) == RowsIn(disk.notes, queue, n)
Copies(n) == Written(n) \cup (IF n \in DOMAIN notes THEN {notes[n]} ELSE {})

\* A row holds no edit of the future, and without a flag none that the server lacks.
Honest(r) ==
    /\ r.ver <= ops
    /\ r.doc # NoDoc => r.doc \in DOMAIN held /\ (~r.push => r.ver <= held[r.doc])

\* Besides, no two notes have one document, and no row of a document is ahead of the note.
Flagged ==
    /\ \A d \in DOMAIN held : d <= fresh
    /\ \A n \in Nat : \A r \in Copies(n) : Honest(r)
    /\ \A m, n \in Nat : \A q \in Copies(m), r \in Copies(n) :
        q.doc = r.doc /\ r.doc # NoDoc => m = n
    /\ \A n \in DOMAIN notes : \A r \in Copies(n) :
        r.doc = notes[n].doc /\ r.doc # NoDoc => r.ver <= notes[n].ver

LEMMA RowIs ==
    ASSUME NEW stored, NEW q, NEW n, NEW r
    PROVE  r \in RowsIn(stored, q, n) <=>
            \/ n \in DOMAIN stored /\ r = stored[n]
            \/ \E i \in DOMAIN q :
                IsRows(q[i]) /\ n \in DOMAIN q[i].value /\ r = q[i].value[n]
BY DEF RowsIn

\* The rows among writes s are those of the notes ns.
RowsOf(s, ns) ==
    \A i \in DOMAIN s : IsRows(s[i]) =>
        \A n \in DOMAIN s[i].value : n \in DOMAIN ns /\ s[i].value[n] = Snapshot(ns[n])

LEMMA RowsAppended ==
    ASSUME NEW stored, NEW q \in Seq(WriteOps), NEW s \in Seq(WriteOps), NEW ns, RowsOf(s, ns),
           NEW n, NEW r \in RowsIn(stored, q \o s, n)
    PROVE  r \in RowsIn(stored, q, n) \/ (n \in DOMAIN ns /\ r = Snapshot(ns[n]))
<1>1. CASE n \in DOMAIN stored /\ r = stored[n]
  BY <1>1, RowIs
<1>2. ASSUME NEW i \in DOMAIN (q \o s),
             IsRows((q \o s)[i]), n \in DOMAIN (q \o s)[i].value, r = (q \o s)[i].value[n]
      PROVE  r \in RowsIn(stored, q, n) \/ (n \in DOMAIN ns /\ r = Snapshot(ns[n]))
  <2>1. CASE i \in DOMAIN q
    <3>1. (q \o s)[i] = q[i]
      BY <2>1
    <3>. QED  BY <1>2, <2>1, <3>1, RowIs
  <2>2. CASE i \notin DOMAIN q
    <3>1. i - Len(q) \in DOMAIN s /\ (q \o s)[i] = s[i - Len(q)]
      BY <2>2
    <3>. QED  BY <1>2, <3>1 DEF RowsOf
  <2>. QED  BY <2>1, <2>2
<1>3. \/ n \in DOMAIN stored /\ r = stored[n]
      \/ \E i \in DOMAIN (q \o s) :
            IsRows((q \o s)[i]) /\ n \in DOMAIN (q \o s)[i].value /\ r = (q \o s)[i].value[n]
  <2>. DEFINE w == q \o s
  <2>1. r \in RowsIn(stored, w, n)
    OBVIOUS
  <2>. HIDE DEF w
  <2>2. \/ n \in DOMAIN stored /\ r = stored[n]
        \/ \E i \in DOMAIN w : IsRows(w[i]) /\ n \in DOMAIN w[i].value /\ r = w[i].value[n]
    BY <2>1, RowIs
  <2>. QED  BY <2>2 DEF w
<1>. QED  BY <1>1, <1>2, <1>3

LEMMA RowsTaken ==
    ASSUME NEW q \in Seq(WriteOps), q # << >>, NEW stored, NEW after,
           \A m \in DOMAIN after :
               \/ m \in DOMAIN stored /\ after[m] = stored[m]
               \/ IsRows(q[1]) /\ m \in DOMAIN q[1].value /\ after[m] = q[1].value[m],
           NEW rest \in {Tail(q), << >>},
           NEW n, NEW r \in RowsIn(after, rest, n)
    PROVE  r \in RowsIn(stored, q, n)
<1>1. CASE n \in DOMAIN after /\ r = after[n]
  <2>1. 1 \in DOMAIN q
    OBVIOUS
  <2>. QED  BY <1>1, <2>1, RowIs
<1>2. ASSUME NEW i \in DOMAIN rest, IsRows(rest[i]), n \in DOMAIN rest[i].value, r = rest[i].value[n]
      PROVE  r \in RowsIn(stored, q, n)
  <2>1. rest = Tail(q)
    BY <1>2
  <2>2. i + 1 \in DOMAIN q /\ q[i + 1] = rest[i]
    BY <2>1
  <2>. QED  BY <1>2, <2>2, RowIs
<1>3. \/ n \in DOMAIN after /\ r = after[n]
      \/ \E i \in DOMAIN rest :
            IsRows(rest[i]) /\ n \in DOMAIN rest[i].value /\ r = rest[i].value[n]
  BY RowIs
<1>. QED  BY <1>1, <1>2, <1>3

\* What an operation may make of a note: an edit or nothing, an acknowledgement, nothing that
\* the server knows, the note of a new document.
Kept(old, new) ==
    /\ new.doc = old.doc /\ old.ver <= new.ver
    /\ new.push \/ (~old.push /\ new.ver = old.ver)
Acked(n) ==
    /\ notes'[n].doc = notes[n].doc /\ notes[n].doc # NoDoc /\ notes'[n].ver = notes[n].ver
    /\ held'[notes[n].doc] = notes[n].ver
Mapped(n) ==
    /\ fresh' = fresh + 1 /\ notes'[n].doc = fresh' /\ fresh' \in DOMAIN held'
    /\ notes'[n].push \/ notes'[n].ver <= held'[fresh']
NoteMoves(n) ==
    /\ notes'[n].ver <= ops'
    /\ \/ n \in DOMAIN notes /\ (Kept(notes[n], notes'[n]) \/ Acked(n))
       \/ notes'[n].doc = NoDoc
       \/ Mapped(n)
HeldMoves ==
    /\ \A d \in DOMAIN held' : d \in DOMAIN held \/ d <= fresh'
    /\ \A d \in DOMAIN held : d \in DOMAIN held' /\
        (held[d] <= held'[d] \/ \E n \in DOMAIN notes : n \in DOMAIN notes' /\ notes[n].doc = d /\ Acked(n))
RowsMove ==
    \A n \in Nat : \A r \in Written(n)' :
        r \in Written(n) \/ (n \in DOMAIN notes' /\ r = Snapshot(notes'[n]))

LEMMA CopiesTyped ==
    ASSUME Typed
    PROVE  \A n \in Nat : \A r \in Copies(n) : r \in Note
<1>1. TAKE n \in Nat
<1>2. TAKE r \in Copies(n)
<1>3. CASE n \in DOMAIN notes /\ r = notes[n]
  BY <1>3, TablesTyped
<1>4. CASE r \in Written(n)
  <2>1. CASE n \in DOMAIN disk.notes /\ r = disk.notes[n]
    <3>1. IsTable(disk.notes, Nat, Note)
      BY DEF Typed, TypeOK, IsDisk
    <3>. QED  BY <2>1, <3>1, TableEntry
  <2>2. ASSUME NEW i \in DOMAIN queue, IsRows(queue[i]), n \in DOMAIN queue[i].value,
               r = queue[i].value[n]
        PROVE  r \in Note
    <3>1. queue[i] \in WriteOps
      BY DEF Typed, QueueTyped
    <3>2. IsTable(queue[i].value, Nat, Note)
      BY <2>2, <3>1, WriteOpIs
    <3>. QED  BY <2>2, <3>2, TableEntry
  <2>. QED  BY <1>4, <2>1, <2>2, RowIs DEF Written
<1>. QED  BY <1>2, <1>3, <1>4 DEF Copies

LEMMA FlaggedStep ==
    ASSUME Typed, Typed', Flagged, fresh <= fresh', ops <= ops',
           RowsMove, HeldMoves, \A n \in DOMAIN notes' : NoteMoves(n),
           \A m, n \in DOMAIN notes' : Mapped(m) /\ Mapped(n) => m = n
    PROVE  Flagged'
<1>1. \A n \in Nat : \A r \in Copies(n) : r \in Note
  BY CopiesTyped
<1>2. \A n \in DOMAIN notes : n \in Nat /\ notes[n] \in Copies(n) /\ notes[n] \in Note
  BY TablesTyped DEF Copies
<1>3. \A n \in DOMAIN notes' : n \in Nat /\ notes'[n] \in Note
  BY DEF Typed, TypeOK, IsTable
<1>4. /\ fresh \in Nat /\ fresh' \in Nat /\ ops \in Nat /\ ops' \in Nat
      /\ \A d \in DOMAIN held : d \in Nat /\ held[d] \in Nat
      /\ \A d \in DOMAIN held' : d \in Nat /\ held'[d] \in Nat
  <2>1. \A d \in DOMAIN held : d \in Ids /\ held[d] \in 0..MaxOps
    BY TableEntry DEF Typed, TypeOK
  <2>2. \A d \in DOMAIN held' : d \in Ids /\ held'[d] \in 0..MaxOps
    BY TableEntry DEF Typed, TypeOK
  <2>3. fresh \in Ids /\ fresh' \in Ids /\ ops \in 0..MaxOps /\ ops' \in 0..MaxOps
    BY DEF Typed, TypeOK
  <2>4. Ids \subseteq Nat /\ 0..MaxOps \subseteq Nat
    BY ZeroIsId, BoundsAssumption
  <2>5. \A d \in DOMAIN held : d \in Nat /\ held[d] \in Nat
    BY <2>1, <2>4
  <2>6. \A d \in DOMAIN held' : d \in Nat /\ held'[d] \in Nat
    BY <2>2, <2>4
  <2>. QED  BY <2>3, <2>4, <2>5, <2>6
\* A row after the step is one of before, or has what the note has now.
<1>5. ASSUME NEW n \in Nat, NEW r \in Copies(n)'
      PROVE  \/ r \in Written(n) /\ r \in Copies(n)
             \/ /\ n \in DOMAIN notes'
                /\ r.doc = notes'[n].doc /\ r.ver = notes'[n].ver /\ r.push = notes'[n].push
  <2>1. CASE n \in DOMAIN notes' /\ r = notes'[n]
    BY <2>1
  <2>2. CASE r \in Written(n)'
    <3>1. CASE n \in DOMAIN notes' /\ r = Snapshot(notes'[n])
      BY <1>3, <3>1 DEF Snapshot, Note
    <3>2. CASE r \in Written(n)
      BY <3>2 DEF Copies
    <3>. QED  BY <2>2, <3>1, <3>2 DEF RowsMove
  <2>. QED  BY <1>5, <2>1, <2>2 DEF Copies
<1>6. \A n \in Nat : \A r \in Written(n) : r \in Copies(n) /\ r \in Note /\ Honest(r)
  BY <1>1 DEF Copies, Flagged
<1>7. ASSUME NEW n \in Nat, NEW r \in Written(n) PROVE Honest(r)'
  <2>1. Honest(r) /\ r \in Note /\ r \in Copies(n)
    BY <1>6
  <2>2. r.ver \in Nat /\ r.ver <= ops'
    BY <1>4, <2>1 DEF Honest, Note
  <2>3. ASSUME r.doc # NoDoc PROVE r.doc \in DOMAIN held' /\ (~r.push => r.ver <= held'[r.doc])
    <3>1. r.doc \in DOMAIN held /\ (~r.push => r.ver <= held[r.doc])
      BY <2>1, <2>3 DEF Honest
    <3>2. CASE held[r.doc] <= held'[r.doc]
      BY <1>4, <2>2, <3>1, <3>2 DEF HeldMoves
    <3>3. ASSUME NEW m \in DOMAIN notes, m \in DOMAIN notes', notes[m].doc = r.doc, Acked(m)
          PROVE  r.ver <= held'[r.doc]
      <4>1. m = n
        BY <1>2, <2>1, <2>3, <3>3 DEF Flagged
      <4>2. r.ver <= notes[m].ver
        BY <2>1, <2>3, <3>3, <4>1 DEF Flagged
      <4>. QED  BY <3>3, <4>2 DEF Acked
    <3>. QED  BY <3>1, <3>2, <3>3 DEF HeldMoves
  <2>. QED  BY <2>2, <2>3 DEF Honest
<1>8. ASSUME NEW n \in DOMAIN notes'
      PROVE  Honest(notes[n])'
  <2>1. NoteMoves(n) /\ notes'[n] \in Note /\ n \in Nat
    BY <1>3
  <2>2. notes'[n].ver <= ops'
    BY <2>1 DEF NoteMoves
  <2>3. ASSUME n \in DOMAIN notes, Kept(notes[n], notes'[n]), notes'[n].doc # NoDoc
        PROVE  /\ notes'[n].doc \in DOMAIN held'
               /\ ~notes'[n].push => notes'[n].ver <= held'[notes'[n].doc]
    <3>1. notes[n].doc \in DOMAIN held /\ (~notes[n].push => notes[n].ver <= held[notes[n].doc])
      BY <1>2, <2>3 DEF Kept, Flagged, Honest
    <3>2. notes[n].doc \in DOMAIN held'
      BY <3>1 DEF HeldMoves
    <3>3. ASSUME ~notes'[n].push PROVE notes'[n].ver <= held'[notes'[n].doc]
      <4>1. ~notes[n].push /\ notes'[n].ver = notes[n].ver /\ notes'[n].doc = notes[n].doc
        BY <2>3, <3>3 DEF Kept
      <4>2. CASE held[notes[n].doc] <= held'[notes[n].doc]
        <5>1. notes'[n].ver <= held[notes[n].doc] /\ notes'[n].ver \in Nat
          BY <1>3, <3>1, <4>1 DEF Note
        <5>2. held[notes[n].doc] \in Nat /\ held'[notes[n].doc] \in Nat
          BY <1>4, <3>1, <3>2
        <5>. QED  BY <4>1, <4>2, <5>1, <5>2
      <4>3. ASSUME NEW m \in DOMAIN notes, m \in DOMAIN notes', notes[m].doc = notes[n].doc, Acked(m)
            PROVE  notes'[n].ver <= held'[notes'[n].doc]
        <5>1. m = n
          BY <1>2, <2>3, <4>1, <4>3 DEF Flagged
        <5>. QED  BY <1>2, <4>1, <4>3, <5>1 DEF Acked, Note
      <4>. QED  BY <3>1, <4>2, <4>3 DEF HeldMoves
    <3>. QED  BY <2>3, <3>2, <3>3 DEF Kept
  <2>4. ASSUME n \in DOMAIN notes, Acked(n)
        PROVE  notes'[n].doc \in DOMAIN held' /\ notes'[n].ver <= held'[notes'[n].doc]
    <3>1. notes[n].doc \in DOMAIN held
      BY <1>2, <2>4 DEF Acked, Flagged, Honest
    <3>2. notes[n].doc \in DOMAIN held'
      BY <3>1 DEF HeldMoves
    <3>. QED  BY <1>2, <2>4, <3>2 DEF Acked, Note
  <2>5. ASSUME Mapped(n)
        PROVE  /\ notes'[n].doc \in DOMAIN held'
               /\ ~notes'[n].push => notes'[n].ver <= held'[notes'[n].doc]
    BY <2>5 DEF Mapped
  <2>6. notes'[n].doc # NoDoc =>
            /\ notes'[n].doc \in DOMAIN held'
            /\ ~notes'[n].push => notes'[n].ver <= held'[notes'[n].doc]
    BY <2>1, <2>3, <2>4, <2>5 DEF NoteMoves
  <2>. QED  BY <2>2, <2>6 DEF Honest
<1>9. \A n \in Nat : \A r \in Copies(n)' : Honest(r)'
  <2>1. TAKE n \in Nat
  <2>2. TAKE r \in Copies(n)'
  <2>3. CASE r \in Written(n)
    BY <1>7, <2>3
  <2>4. CASE n \in DOMAIN notes' /\ r.doc = notes'[n].doc /\ r.ver = notes'[n].ver
             /\ r.push = notes'[n].push
    <3>1. Honest(notes[n])'
      BY <1>8, <2>4
    <3>2. /\ notes'[n].ver <= ops'
          /\ notes'[n].doc # NoDoc =>
                /\ notes'[n].doc \in DOMAIN held'
                /\ ~notes'[n].push => notes'[n].ver <= held'[notes'[n].doc]
      BY <3>1 DEF Honest
    <3>3. /\ r.ver <= ops'
          /\ r.doc # NoDoc =>
                r.doc \in DOMAIN held' /\ (~r.push => r.ver <= held'[r.doc])
      BY <2>4, <3>2
    <3>. QED  BY <3>3 DEF Honest
  <2>. QED  BY <1>5, <2>2, <2>3, <2>4
<1>10. \A d \in DOMAIN held' : d <= fresh'
  BY <1>4 DEF HeldMoves, Flagged
\* The document of a note now is the one it had, or none, or a new one.
<1>11. ASSUME NEW n \in DOMAIN notes', notes'[n].doc # NoDoc, ~Mapped(n)
       PROVE  n \in DOMAIN notes /\ notes'[n].doc = notes[n].doc /\ notes[n].ver <= notes'[n].ver
  BY <1>2, <1>11, <1>3 DEF NoteMoves, Kept, Acked, Note
<1>12. \A n \in Nat : \A r \in Copies(n) : r.doc # NoDoc => r.doc <= fresh
  BY DEF Flagged, Honest
<1>13. ASSUME NEW m \in Nat, NEW n \in Nat, NEW q \in Written(m), NEW k \in DOMAIN notes',
              k = n, q.doc = notes'[n].doc, q.doc # NoDoc
       PROVE  m = n /\ ~Mapped(n) /\ q.ver <= notes'[n].ver
  <2>1. q \in Copies(m) /\ q \in Note
    BY <1>6
  <2>2. ~Mapped(n)
    BY <1>4, <1>12, <1>13, <2>1 DEF Mapped, Note
  <2>3. n \in DOMAIN notes /\ q.doc = notes[n].doc /\ notes[n].ver <= notes'[n].ver
    BY <1>11, <1>13, <2>2
  <2>4. m = n
    BY <1>2, <1>13, <2>1, <2>3 DEF Flagged
  <2>5. q.ver <= notes[n].ver
    BY <1>13, <2>1, <2>3, <2>4 DEF Flagged
  <2>6. q.ver \in Nat /\ notes[n].ver \in Nat /\ notes'[n].ver \in Nat
    BY <1>2, <1>3, <2>1, <2>3, <1>13 DEF Note
  <2>. QED  BY <2>2, <2>3, <2>4, <2>5, <2>6
<1>14. ASSUME NEW m \in DOMAIN notes', NEW n \in DOMAIN notes',
              notes'[m].doc = notes'[n].doc, notes'[n].doc # NoDoc
       PROVE  m = n
  <2>1. CASE Mapped(m) /\ Mapped(n)
    BY <2>1
  <2>2. CASE ~Mapped(m) /\ ~Mapped(n)
    <3>1. m \in DOMAIN notes /\ notes'[m].doc = notes[m].doc /\ n \in DOMAIN notes /\ notes'[n].doc = notes[n].doc
      BY <1>11, <1>14, <2>2
    <3>2. notes[m] \in Copies(m) /\ notes[n] \in Copies(n) /\ m \in Nat /\ n \in Nat
      BY <1>2, <3>1
    <3>. QED  BY <1>14, <3>1, <3>2 DEF Flagged
  <2>3. ASSUME NEW x \in DOMAIN notes', NEW y \in DOMAIN notes', Mapped(x), ~Mapped(y),
               notes'[x].doc = notes'[y].doc, notes'[y].doc # NoDoc
        PROVE  FALSE
    <3>1. y \in DOMAIN notes /\ notes[y].doc = notes'[x].doc
      BY <1>11, <2>3
    <3>2. notes[y].doc <= fresh
      BY <1>2, <1>12, <2>3, <3>1
    <3>. QED  BY <1>4, <2>3, <3>1, <3>2 DEF Mapped
  <2>. QED  BY <1>14, <2>1, <2>2, <2>3
<1>15. \A m, n \in Nat : \A q \in Copies(m)', r \in Copies(n)' :
         q.doc = r.doc /\ r.doc # NoDoc => m = n
  <2>1. TAKE m, n \in Nat
  <2>2. TAKE q \in Copies(m)', r \in Copies(n)'
  <2>3. HAVE q.doc = r.doc /\ r.doc # NoDoc
  <2>4. CASE q \in Written(m) /\ r \in Written(n)
    BY <1>6, <2>3, <2>4 DEF Flagged
  <2>5. CASE q \in Written(m) /\ n \in DOMAIN notes' /\ r.doc = notes'[n].doc
    BY <1>13, <2>3, <2>5
  <2>6. CASE m \in DOMAIN notes' /\ q.doc = notes'[m].doc /\ r \in Written(n)
    BY <1>13, <2>3, <2>6
  <2>7. CASE m \in DOMAIN notes' /\ q.doc = notes'[m].doc /\ n \in DOMAIN notes' /\ r.doc = notes'[n].doc
    BY <1>14, <2>3, <2>7
  <2>. QED  BY <1>5, <2>2, <2>4, <2>5, <2>6, <2>7
<1>16. \A n \in DOMAIN notes' : \A r \in Copies(n)' :
         r.doc = notes'[n].doc /\ r.doc # NoDoc => r.ver <= notes'[n].ver
  <2>1. TAKE n \in DOMAIN notes'
  <2>2. TAKE r \in Copies(n)'
  <2>3. HAVE r.doc = notes'[n].doc /\ r.doc # NoDoc
  <2>4. CASE r \in Written(n)
    BY <1>3, <1>13, <2>3, <2>4
  <2>5. CASE r.ver = notes'[n].ver
    BY <1>3, <2>5 DEF Note
  <2>. QED  BY <1>3, <1>5, <2>2, <2>4, <2>5
<1>. QED  BY <1>9, <1>10, <1>15, <1>16 DEF Flagged

-----------------------------------------------------------------------------
(* What an operation or a flush sends: every list that it changes, as it is  *)
(* afterwards, and the notes that it flushes or deletes.                     *)

IsGone(op) == ~IsList(op) /\ ~IsRows(op)

ListsSent(s) ==
    /\ \A i \in DOMAIN s :
        /\ s[i].table = "folders" => s[i].value = folders'
        /\ s[i].table = "blobs" => s[i].value = blobs'
        /\ s[i].table = "allowEmpty" => s[i].value = allowEmpty'
        /\ s[i].table = "spaces" =>
            /\ DOMAIN s[i].value = DOMAIN spaces'
            /\ s[i].value = spaces' \/ \E j \in DOMAIN s : j > i /\ s[j] = Whole("spaces", spaces')
    /\ spaces' = spaces \/ \E i \in DOMAIN s : s[i] = Whole("spaces", spaces')
    /\ folders' = folders \/ \E i \in DOMAIN s : s[i] = Whole("folders", folders')
    /\ blobs' = blobs \/ \E i \in DOMAIN s : s[i] = Whole("blobs", blobs')
    /\ allowEmpty' = allowEmpty \/ \E i \in DOMAIN s : s[i] = Whole("allowEmpty", allowEmpty')

NotesSent(s) ==
    /\ RowsOf(s, notes')
    /\ \A i \in DOMAIN s : IsGone(s[i]) => \A n \in s[i].gone : n \notin DOMAIN notes'
    /\ \A n \in DOMAIN notes' :
        \/ notes'[n].dirty
        \/ n \in DOMAIN notes /\ notes'[n] = notes[n]
        \/ \E i \in DOMAIN s : IsRows(s[i]) /\ n \in DOMAIN s[i].value
    /\ \A n \in DOMAIN notes \ DOMAIN notes' :
        \E i \in DOMAIN s : IsGone(s[i]) /\ n \in s[i].gone

\* An empty list of spaces follows the record that there may be none, and the end of that
\* record is followed by a list with a space.
FlagSent(s) ==
    \A i \in DOMAIN s :
        /\ s[i].table = "spaces" /\ DOMAIN s[i].value = {} =>
            allowEmpty' /\ \E k \in DOMAIN s : k < i /\ s[k].table = "allowEmpty"
        /\ s[i].table = "allowEmpty" /\ ~s[i].value =>
            i + 1 \in DOMAIN s /\ s[i + 1].table = "spaces" /\ DOMAIN s[i + 1].value # {}

Sends(s) == s \in Seq(WriteOps) /\ Send(s) /\ ListsSent(s) /\ NotesSent(s) /\ FlagSent(s)

LEMMA OpsNow ==
    ASSUME Typed'
    PROVE  /\ Whole("spaces", spaces') \in WriteOps /\ Whole("folders", folders') \in WriteOps
           /\ Whole("blobs", blobs') \in WriteOps /\ Whole("allowEmpty", allowEmpty') \in WriteOps
BY OpsMade DEF Typed, TypeOK

LEMMA KindOfOp ==
    /\ \A x, v : /\ Whole(x, v).table = x /\ Whole(x, v).value = v
                 /\ IsList(Whole(x, v)) <=> x # "notes"
                 /\ IsRows(Whole(x, v)) <=> x = "notes"
                 /\ ~IsGone(Whole(x, v))
    /\ \A N : /\ Gone(N).table = "notes" /\ Gone(N).gone = N
              /\ ~IsList(Gone(N)) /\ ~IsRows(Gone(N)) /\ IsGone(Gone(N))
BY DEF Whole, Gone, IsList, IsRows, IsGone

\* The elements of w are those of p and of q.
Joins(w, p, q) ==
    /\ \A i \in DOMAIN w :
        (\E j \in DOMAIN p : w[i] = p[j]) \/ (\E j \in DOMAIN q : w[i] = q[j])
    /\ \A j \in DOMAIN p : \E i \in DOMAIN w : w[i] = p[j]
    /\ \A j \in DOMAIN q : \E i \in DOMAIN w : w[i] = q[j]

\* Their places.
Joined(w, p, q) ==
    /\ Len(w) = Len(p) + Len(q)
    /\ \A j \in DOMAIN p : j \in DOMAIN w /\ w[j] = p[j]
    /\ \A j \in DOMAIN q : Len(p) + j \in DOMAIN w /\ w[Len(p) + j] = q[j]

LEMMA ConcatPlaces ==
    ASSUME NEW S, NEW p \in Seq(S), NEW q \in Seq(S)
    PROVE  Joined(p \o q, p, q)
<1>. DEFINE w == p \o q
<1>1. w \in Seq(S) /\ Len(w) = Len(p) + Len(q)
  OBVIOUS
<1>2. /\ \A j \in 1..Len(p) : w[j] = p[j]
      /\ \A j \in 1..Len(q) : w[Len(p) + j] = q[j]
  OBVIOUS
<1>. HIDE DEF w
<1>3. \A j \in DOMAIN p : j \in DOMAIN w /\ w[j] = p[j]
  BY <1>1, <1>2
<1>4. \A j \in DOMAIN q : Len(p) + j \in DOMAIN w /\ w[Len(p) + j] = q[j]
  BY <1>1, <1>2
<1>. QED  BY <1>1, <1>3, <1>4 DEF Joined, w

LEMMA ConcatElements ==
    ASSUME NEW S, NEW p \in Seq(S), NEW q \in Seq(S)
    PROVE  p \o q \in Seq(S) /\ Joins(p \o q, p, q)
<1>. DEFINE w == p \o q
<1>1. w \in Seq(S) /\ Len(w) = Len(p) + Len(q)
  OBVIOUS
<1>0. /\ \A i \in 1..Len(p) : w[i] = p[i]
      /\ \A i \in 1..Len(q) : w[Len(p) + i] = q[i]
  OBVIOUS
<1>. HIDE DEF w
<1>2. ASSUME NEW i \in DOMAIN w
      PROVE  (\E j \in DOMAIN p : w[i] = p[j]) \/ (\E j \in DOMAIN q : w[i] = q[j])
  <2>1. CASE i <= Len(p)
    <3>1. i \in DOMAIN p /\ w[i] = p[i]
      BY <1>0, <1>1, <2>1
    <3>. QED  BY <3>1
  <2>2. CASE i > Len(p)
    <3>1. PICK k \in 1..Len(q) : i = Len(p) + k
      <4>1. i - Len(p) \in 1..Len(q) /\ i = Len(p) + (i - Len(p))
        BY <1>1, <2>2
      <4>. QED  BY <4>1
    <3>. QED  BY <1>0, <3>1
  <2>. QED  BY <2>1, <2>2
<1>3. ASSUME NEW j \in DOMAIN p PROVE \E i \in DOMAIN w : w[i] = p[j]
  <2>1. j \in DOMAIN w /\ w[j] = p[j]
    BY <1>0, <1>1
  <2>. QED  BY <2>1
<1>4. ASSUME NEW j \in DOMAIN q PROVE \E i \in DOMAIN w : w[i] = q[j]
  <2>1. j \in 1..Len(q) /\ Len(p) \in Nat /\ Len(q) \in Nat
    OBVIOUS
  <2>2. w[Len(p) + j] = q[j]
    BY <1>0, <2>1
  <2>3. Len(p) + j \in 1..Len(w)
    BY <1>1, <2>1
  <2>4. DOMAIN w = 1..Len(w)
    BY <1>1
  <2>. QED  BY <2>2, <2>3, <2>4
<1>5. Joins(w, p, q)
  BY <1>2, <1>3, <1>4 DEF Joins
<1>. QED  BY <1>1, <1>5 DEF w

\* Operations that send one list, and those that send nothing.
LEMMA SendsFolders ==
    ASSUME Typed', FoldersChanged, UNCHANGED <<spaces, blobs, allowEmpty>>,
           DOMAIN notes' = DOMAIN notes,
           \A n \in DOMAIN notes' : notes'[n].dirty \/ notes'[n] = notes[n]
    PROVE  Sends(<<Whole("folders", folders')>>)
<1>. DEFINE op == Whole("folders", folders')
            s == <<op>>
<1>1. op \in WriteOps /\ op.table = "folders" /\ op.value = folders' /\ IsList(op) /\ ~IsRows(op) /\ ~IsGone(op)
  BY OpsNow, KindOfOp DEF IsList
<1>. HIDE DEF op
<1>2. s \in Seq(WriteOps) /\ DOMAIN s = {1} /\ s[1] = op
  BY <1>1
<1>3. Send(s)
  BY DEF FoldersChanged, op
<1>. HIDE DEF s
<1>4. ListsSent(s)
  BY <1>1, <1>2 DEF ListsSent, op
<1>5. NotesSent(s)
  BY <1>1, <1>2 DEF NotesSent, RowsOf
<1>6. FlagSent(s)
  BY <1>1, <1>2 DEF FlagSent
<1>. QED  BY <1>2, <1>3, <1>4, <1>5, <1>6 DEF Sends, s, op

LEMMA SendsBlobs ==
    ASSUME Typed', BlobsChanged, UNCHANGED <<spaces, folders, notes, allowEmpty>>
    PROVE  Sends(<<Whole("blobs", blobs')>>)
<1>. DEFINE op == Whole("blobs", blobs')
            s == <<op>>
<1>1. op \in WriteOps /\ op.table = "blobs" /\ op.value = blobs' /\ IsList(op) /\ ~IsRows(op) /\ ~IsGone(op)
  BY OpsNow, KindOfOp DEF IsList
<1>. HIDE DEF op
<1>2. s \in Seq(WriteOps) /\ DOMAIN s = {1} /\ s[1] = op
  BY <1>1
<1>3. Send(s)
  BY DEF BlobsChanged, op
<1>. HIDE DEF s
<1>4. ListsSent(s)
  BY <1>1, <1>2 DEF ListsSent, op
<1>5. NotesSent(s)
  BY <1>1, <1>2 DEF NotesSent, RowsOf
<1>6. FlagSent(s)
  BY <1>1, <1>2 DEF FlagSent
<1>. QED  BY <1>2, <1>3, <1>4, <1>5, <1>6 DEF Sends, s, op

LEMMA SendsNothing ==
    ASSUME Typed, Deferred, \A n \in DOMAIN notes : n \in DOMAIN notes',
           \A n \in DOMAIN notes' : notes'[n].dirty \/ (n \in DOMAIN notes /\ notes'[n] = notes[n])
    PROVE  Sends(<< >>)
<1>1. Send(<< >>)
  BY DEF Deferred, Send, Typed, QueueTyped
<1>2. << >> \in Seq(WriteOps) /\ DOMAIN << >> = {}
  OBVIOUS
<1>3. ListsSent(<< >>)
  BY <1>2 DEF Deferred, ListsSent
<1>4. NotesSent(<< >>)
  BY <1>2 DEF NotesSent, RowsOf
<1>5. FlagSent(<< >>)
  BY <1>2 DEF FlagSent
<1>. QED  BY <1>1, <1>2, <1>3, <1>4, <1>5 DEF Sends

\* The flag, then the list of spaces.
LEMMA SendsSpace ==
    ASSUME Typed', Send(<<Whole("allowEmpty", FALSE), Whole("spaces", spaces')>>), allowEmpty' = FALSE,
           DOMAIN spaces' # {}, UNCHANGED <<folders, blobs>>, \A n \in DOMAIN notes : n \in DOMAIN notes',
           \A n \in DOMAIN notes' : notes'[n].dirty \/ (n \in DOMAIN notes /\ notes'[n] = notes[n])
    PROVE  Sends(<<Whole("allowEmpty", FALSE), Whole("spaces", spaces')>>)
<1>. DEFINE a == Whole("allowEmpty", FALSE)
            b == Whole("spaces", spaces')
            s == <<a, b>>
<1>1. a \in WriteOps /\ a.table = "allowEmpty" /\ a.value = allowEmpty' /\ IsList(a) /\ ~IsRows(a) /\ ~IsGone(a)
  BY OpsNow, KindOfOp DEF IsList
<1>2. b \in WriteOps /\ b.table = "spaces" /\ b.value = spaces' /\ IsList(b) /\ ~IsRows(b) /\ ~IsGone(b)
  BY OpsNow, KindOfOp DEF IsList
<1>3. a = Whole("allowEmpty", allowEmpty') /\ b = Whole("spaces", spaces')
  OBVIOUS
<1>. HIDE DEF a, b
<1>4. s \in Seq(WriteOps) /\ DOMAIN s = {1, 2} /\ s[1] = a /\ s[2] = b
  BY <1>1, <1>2
<1>5. Send(s)
  BY DEF a, b
<1>. HIDE DEF s
<1>6. ListsSent(s)
  BY <1>1, <1>2, <1>3, <1>4 DEF ListsSent
<1>7. NotesSent(s)
  BY <1>1, <1>2, <1>4 DEF NotesSent, RowsOf
<1>8. FlagSent(s)
  BY <1>1, <1>2, <1>4 DEF FlagSent
<1>. QED  BY <1>4, <1>5, <1>6, <1>7, <1>8 DEF Sends, s, a, b

LEMMA SendsRebound ==
    ASSUME Typed, Typed', NEW x \in DOMAIN spaces, NEW u \in BOOLEAN, Rebound(x, u),
           UNCHANGED <<folders, blobs, allowEmpty>>, DOMAIN notes' = DOMAIN notes,
           \A n \in DOMAIN notes' : notes'[n].dirty \/ notes'[n] = notes[n]
    PROVE  Sends(<<Whole("spaces", [spaces EXCEPT ![x].remote = u]), Whole("spaces", spaces')>>)
<1>. DEFINE half == [spaces EXCEPT ![x].remote = u]
            a == Whole("spaces", half)
            b == Whole("spaces", spaces')
            s == <<a, b>>
<1>1. a \in WriteOps /\ a.table = "spaces" /\ a.value = half /\ IsList(a) /\ ~IsRows(a) /\ ~IsGone(a)
  <2>1. SpaceTable(half)
    BY TablesTyped, SpaceSet
  <2>. HIDE DEF half
  <2>. QED  BY <2>1, OpsMade, KindOfOp DEF IsList, SpaceTable
<1>2. b \in WriteOps /\ b.table = "spaces" /\ b.value = spaces' /\ IsList(b) /\ ~IsRows(b) /\ ~IsGone(b)
  BY OpsNow, KindOfOp DEF IsList
<1>3. DOMAIN half = DOMAIN spaces' /\ DOMAIN spaces' = DOMAIN spaces /\ Send(s)
  BY TablesTyped DEF Rebound, SpaceTable, IsTable
<1>4. b = Whole("spaces", spaces')
  OBVIOUS
<1>. HIDE DEF a, b, half
<1>5. s \in Seq(WriteOps) /\ DOMAIN s = {1, 2} /\ s[1] = a /\ s[2] = b
  BY <1>1, <1>2
<1>. HIDE DEF s
<1>6. ListsSent(s)
  <2>1. \A i \in DOMAIN s : s[i].table = "spaces" =>
            /\ DOMAIN s[i].value = DOMAIN spaces'
            /\ s[i].value = spaces' \/ \E j \in DOMAIN s : j > i /\ s[j] = Whole("spaces", spaces')
    BY <1>1, <1>2, <1>3, <1>4, <1>5
  <2>. QED  BY <1>1, <1>2, <1>4, <1>5, <2>1 DEF ListsSent
<1>7. NotesSent(s)
  BY <1>1, <1>2, <1>5 DEF NotesSent, RowsOf
<1>8. FlagSent(s)
  BY <1>1, <1>2, <1>3, <1>5 DEF FlagSent
<1>. QED  BY <1>3, <1>5, <1>6, <1>7, <1>8 DEF Sends, s, a, b, half

LEMMA SendsDeletion ==
    ASSUME Typed, Typed', NEW x \in DOMAIN spaces, DeleteSpace(x)
    PROVE  Sends(DeletionWrites(x))
<1>. DEFINE inside == {n \in DOMAIN notes : notes[n].space = x}
            A == Whole("allowEmpty", TRUE)
            G == Gone(inside)
            P == Whole("spaces", spaces')
            F == Whole("folders", folders')
            a == IF DOMAIN spaces = {x} THEN <<A>> ELSE << >>
            b == IF inside # {} THEN <<G>> ELSE << >>
            c == <<P, F>>
<1>1. A \in WriteOps /\ A.table = "allowEmpty" /\ A.value = TRUE /\ IsList(A) /\ ~IsRows(A) /\ ~IsGone(A)
  BY OpsMade, KindOfOp DEF IsList
<1>2. P \in WriteOps /\ P.table = "spaces" /\ P.value = spaces' /\ IsList(P) /\ ~IsRows(P) /\ ~IsGone(P)
  BY OpsNow, KindOfOp DEF IsList
<1>3. F \in WriteOps /\ F.table = "folders" /\ F.value = folders' /\ IsList(F) /\ ~IsRows(F) /\ ~IsGone(F)
  BY OpsNow, KindOfOp DEF IsList
<1>4. G \in WriteOps /\ G.table = "notes" /\ G.gone = inside /\ ~IsList(G) /\ ~IsRows(G) /\ IsGone(G)
  <2>1. inside \in SUBSET Nat
    BY TablesTyped
  <2>. HIDE DEF inside
  <2>. QED  BY <2>1, OpsMade, KindOfOp
<1>5. DeletionWrites(x) = (a \o b) \o c /\ Send(DeletionWrites(x))
  BY DEF DeleteSpace, DeletionWrites
<1>6. /\ DOMAIN notes' = DOMAIN notes \ inside
      /\ \A n \in DOMAIN notes' : notes'[n] = notes[n]
      /\ allowEmpty' = (allowEmpty \/ DOMAIN spaces = {x})
      /\ blobs' = blobs /\ allowEmpty \in BOOLEAN /\ allowEmpty' \in BOOLEAN
  <2>1. notes' = [n \in DOMAIN notes \ inside |-> notes[n]]
    BY DEF DeleteSpace, OutsideSpace, Without
  <2>. HIDE DEF inside
  <2>. QED  BY <2>1 DEF DeleteSpace, Typed, TypeOK
<1>7. Whole("spaces", spaces') = P /\ Whole("folders", folders') = F
      /\ (DOMAIN spaces = {x} => Whole("allowEmpty", allowEmpty') = A)
  BY <1>6
<1>. HIDE DEF A, G, P, F, inside
<1>8. a \in Seq(WriteOps) /\ b \in Seq(WriteOps) /\ c \in Seq(WriteOps)
  BY <1>1, <1>2, <1>3, <1>4, ShortSeqs
<1>9. \A j \in DOMAIN a : a[j] = A /\ DOMAIN spaces = {x}
  OBVIOUS
<1>10. \A j \in DOMAIN b : b[j] = G
  OBVIOUS
<1>11. \A j \in DOMAIN c : c[j] = P \/ c[j] = F
  OBVIOUS
<1>12. /\ DOMAIN spaces = {x} => 1 \in DOMAIN a
       /\ inside # {} => 1 \in DOMAIN b
       /\ 1 \in DOMAIN c /\ c[1] = P /\ 2 \in DOMAIN c /\ c[2] = F
  OBVIOUS
<1>. HIDE DEF a, b, c
<1>13. PICK ab : ab = a \o b
  OBVIOUS
<1>14. PICK s : s = ab \o c
  OBVIOUS
<1>15. ab \in Seq(WriteOps) /\ Joins(ab, a, b)
  BY <1>8, <1>13, ConcatElements
<1>16. /\ \A i \in DOMAIN ab : (ab[i] = A /\ DOMAIN spaces = {x}) \/ ab[i] = G
       /\ DOMAIN spaces = {x} => \E i \in DOMAIN ab : ab[i] = A
       /\ inside # {} => \E i \in DOMAIN ab : ab[i] = G
  <2>1. ASSUME DOMAIN spaces = {x} PROVE \E i \in DOMAIN ab : ab[i] = A
    BY <1>9, <1>12, <1>15, <2>1 DEF Joins
  <2>2. ASSUME inside # {} PROVE \E i \in DOMAIN ab : ab[i] = G
    BY <1>10, <1>12, <1>15, <2>2 DEF Joins
  <2>. QED  BY <1>9, <1>10, <1>15, <2>1, <2>2 DEF Joins
<1>17. s \in Seq(WriteOps) /\ Joins(s, ab, c)
  BY <1>8, <1>14, <1>15, ConcatElements
<1>18. \A i \in DOMAIN s : (s[i] = A /\ DOMAIN spaces = {x}) \/ s[i] = G \/ s[i] = P \/ s[i] = F
  BY <1>11, <1>16, <1>17 DEF Joins
<1>19. \E i \in DOMAIN s : s[i] = P
  BY <1>12, <1>17 DEF Joins
<1>20. \E i \in DOMAIN s : s[i] = F
  BY <1>12, <1>17 DEF Joins
<1>21. /\ DOMAIN spaces = {x} => \E i \in DOMAIN s : s[i] = A
       /\ inside # {} => \E i \in DOMAIN s : s[i] = G
  BY <1>16, <1>17 DEF Joins
<1>22. ListsSent(s)
  <2>1. ASSUME NEW i \in DOMAIN s
        PROVE  /\ s[i].table = "folders" => s[i].value = folders'
               /\ s[i].table = "blobs" => s[i].value = blobs'
               /\ s[i].table = "allowEmpty" => s[i].value = allowEmpty'
               /\ s[i].table = "spaces" => s[i].value = spaces'
    BY <1>1, <1>2, <1>3, <1>4, <1>6, <1>18
  <2>2. allowEmpty' = allowEmpty \/ \E i \in DOMAIN s : s[i] = Whole("allowEmpty", allowEmpty')
    BY <1>6, <1>7, <1>21
  <2>. QED  BY <1>6, <1>7, <1>19, <1>20, <2>1, <2>2 DEF ListsSent
<1>23. NotesSent(s)
  <2>1. RowsOf(s, notes')
    BY <1>1, <1>2, <1>3, <1>4, <1>18 DEF RowsOf
  <2>2. \A i \in DOMAIN s : IsGone(s[i]) => s[i].gone = inside
    BY <1>1, <1>2, <1>3, <1>4, <1>18
  <2>3. \A n \in DOMAIN notes \ DOMAIN notes' : \E i \in DOMAIN s : IsGone(s[i]) /\ n \in s[i].gone
    BY <1>4, <1>6, <1>21
  <2>. QED  BY <1>6, <2>1, <2>2, <2>3 DEF NotesSent
<1>24. DeletionWrites(x) = s
  BY <1>5, <1>13, <1>14
<1>25. FlagSent(s)
  <2>1. ASSUME NEW i \in DOMAIN s, s[i].table = "spaces", DOMAIN s[i].value = {}
        PROVE  allowEmpty' /\ \E k \in DOMAIN s : k < i /\ s[k].table = "allowEmpty"
    <3>1. s[i] = P
      BY <1>1, <1>3, <1>4, <1>18, <2>1
    <3>2. DOMAIN spaces = {x}
      <4>1. DOMAIN spaces' = DOMAIN spaces \ {x}
        BY DEF DeleteSpace, Without
      <4>. QED  BY <1>2, <2>1, <3>1, <4>1
    <3>3. 1 \in DOMAIN ab /\ ab[1] = A
      <4>1. Joined(ab, a, b)
        BY <1>8, <1>13, ConcatPlaces
      <4>. QED  BY <1>9, <1>12, <3>2, <4>1 DEF Joined
    <3>4. 1 \in DOMAIN s /\ s[1] = A
      <4>1. Joined(s, ab, c)
        BY <1>8, <1>14, <1>15, ConcatPlaces
      <4>. QED  BY <3>3, <4>1 DEF Joined
    <3>5. 1 < i
      BY <1>1, <1>17, <2>1, <3>4
    <3>. QED  BY <1>1, <1>6, <3>2, <3>4, <3>5
  <2>2. ASSUME NEW i \in DOMAIN s, s[i].table = "allowEmpty" PROVE s[i].value
    BY <1>1, <1>2, <1>3, <1>4, <1>18, <2>2
  <2>. QED  BY <2>1, <2>2 DEF FlagSent
<1>. QED  BY <1>5, <1>17, <1>22, <1>23, <1>24, <1>25 DEF Sends

LEMMA SendsGone ==
    ASSUME Typed, Typed', NEW n \in DOMAIN notes, DeleteNote(n)
    PROVE  Sends(<<Gone({n})>>)
<1>. DEFINE G == Gone({n})
            s == <<G>>
<1>1. G \in WriteOps /\ G.table = "notes" /\ G.gone = {n} /\ ~IsList(G) /\ ~IsRows(G) /\ IsGone(G)
  BY TablesTyped, OpsMade, KindOfOp
<1>2. Send(s) /\ UNCHANGED <<spaces, folders, blobs, allowEmpty>>
  BY DEF DeleteNote
<1>3. DOMAIN notes' = DOMAIN notes \ {n} /\ \A m \in DOMAIN notes' : notes'[m] = notes[m]
  BY DEF DeleteNote, Without
<1>. HIDE DEF G
<1>4. s \in Seq(WriteOps) /\ DOMAIN s = {1} /\ s[1] = G
  BY <1>1
<1>. HIDE DEF s
<1>5. ListsSent(s)
  BY <1>1, <1>2, <1>4 DEF ListsSent
<1>6. NotesSent(s)
  BY <1>1, <1>3, <1>4 DEF NotesSent, RowsOf
<1>7. FlagSent(s)
  BY <1>1, <1>4 DEF FlagSent
<1>. QED  BY <1>2, <1>4, <1>5, <1>6, <1>7 DEF Sends, s, G

LEMMA SnapshotIs ==
    ASSUME NEW note \in Note
    PROVE  /\ Snapshot(note) \in Note /\ ~Snapshot(note).dirty
           /\ Snapshot(Snapshot(note)) = Snapshot(note)
           /\ ~note.dirty => Snapshot(note) = note
           /\ Snapshot(note).doc = note.doc /\ Snapshot(note).ver = note.ver
           /\ Snapshot(note).push = note.push /\ Snapshot(note).space = note.space
           /\ Snapshot(note).folder = note.folder
BY DEF Snapshot, Note

LEMMA SendsRows ==
    ASSUME Typed, Typed', NEW N, N \subseteq DOMAIN notes, Flush(N)
    PROVE  Sends(<<Rows(N)>>)
<1>. DEFINE R == Rows(N)
            s == <<R>>
<1>1. R \in WriteOps /\ R.table = "notes" /\ R.value = [n \in N |-> Snapshot(notes[n])]
      /\ ~IsList(R) /\ IsRows(R) /\ ~IsGone(R)
  <2>1. R = Whole("notes", [n \in N |-> Snapshot(notes[n])])
    BY DEF Rows, Whole
  <2>. QED  BY <2>1, RowsTyped, KindOfOp
<1>2. Send(s) /\ UNCHANGED <<spaces, folders, blobs, allowEmpty>>
  BY DEF Flush
<1>3. DOMAIN notes' = DOMAIN notes
      /\ \A n \in DOMAIN notes : notes'[n] = IF n \in N THEN Snapshot(notes[n]) ELSE notes[n]
  BY DEF Flush, Flushed
<1>4. \A n \in N : n \in DOMAIN notes' /\ R.value[n] = Snapshot(notes'[n])
  BY <1>1, <1>3, TablesTyped, SnapshotIs
<1>5. DOMAIN R.value = N
  BY <1>1
<1>. HIDE DEF R
<1>6. s \in Seq(WriteOps) /\ DOMAIN s = {1} /\ s[1] = R
  BY <1>1
<1>. HIDE DEF s
<1>7. ListsSent(s)
  BY <1>1, <1>2, <1>6 DEF ListsSent, IsList
<1>8. NotesSent(s)
  BY <1>1, <1>3, <1>4, <1>5, <1>6 DEF NotesSent, RowsOf
<1>9. FlagSent(s)
  BY <1>1, <1>6 DEF FlagSent
<1>. QED  BY <1>2, <1>6, <1>7, <1>8, <1>9 DEF Sends, s, R

LEMMA SendsImport ==
    ASSUME Typed, Typed', NEW x \in DOMAIN spaces, NEW f \in DOMAIN folders \cup {NoFolder, fresh + 1},
           NEW n \in DOMAIN notes \cup {nextNote}, Import(x, f, n)
    PROVE  \E s : Sends(s)
<1>. DEFINE N == Dirty(notes) \cup {n}
            F == Whole("folders", folders')
            R == Whole("notes", [m \in N |-> notes'[m]])
            a == IF f = fresh + 1 THEN <<F>> ELSE << >>
            b == <<R>>
            s == a \o b
<1>1. /\ FolderTable(folders') /\ NoteTable(notes')
      /\ DOMAIN notes' = DOMAIN notes \cup {n} /\ Send(s)
      /\ \A m \in DOMAIN notes \ {n} : notes'[m] = Snapshot(notes[m])
      /\ notes'[n] = Imported(x, f, ops')
  <2>1. /\ FolderTable(folders') /\ NoteTable(notes')
        /\ DOMAIN notes' = DOMAIN notes \cup {n}
        /\ \A m \in DOMAIN notes \ {n} : notes'[m] = Snapshot(notes[m])
        /\ notes'[n] = Imported(x, f, ops')
    <3>. HIDE DEF N, F, R, a, b, s
    <3>1. FolderTable(folders') /\ NoteTable(notes')
      BY ImportMakes
    <3>2. DOMAIN notes' = DOMAIN notes \cup {n}
      BY ImportMakes
    <3>3. \A m \in DOMAIN notes \ {n} : notes'[m] = Snapshot(notes[m])
      BY ImportMakes
    <3>4. notes'[n] = Imported(x, f, ops')
      BY ImportMakes
    <3>. QED  BY <3>1, <3>2, <3>3, <3>4
  <2>2. Send(s)
    BY ImportMakes
  <2>. QED  BY <2>1, <2>2
<1>2. UNCHANGED <<spaces, blobs, allowEmpty>> /\ (f # fresh + 1 => folders' = folders)
  BY DEF Import
<1>3. F \in WriteOps /\ F.table = "folders" /\ F.value = folders' /\ IsList(F) /\ ~IsRows(F) /\ ~IsGone(F)
  BY OpsNow, KindOfOp DEF IsList
<1>4. N \subseteq DOMAIN notes'
  BY <1>1 DEF Dirty
<1>5. R \in WriteOps /\ R.table = "notes" /\ R.value = [m \in N |-> notes'[m]]
      /\ ~IsList(R) /\ IsRows(R) /\ ~IsGone(R)
  <2>. HIDE DEF N
  <2>1. IsTable([m \in N |-> notes'[m]], Nat, Note)
    BY <1>1, <1>4, PartTable DEF NoteTable
  <2>. QED  BY <2>1, OpsMade, KindOfOp
\* An imported note is clean, and so is every other one.
<1>6. \A m \in DOMAIN notes' : ~notes'[m].dirty /\ notes'[m] \in Note
  <2>1. \A m \in DOMAIN notes' : notes'[m] \in Note
    BY <1>1, TableEntry DEF NoteTable
  <2>2. ~notes'[n].dirty
    BY <1>1 DEF Imported, NewNote
  <2>3. \A m \in DOMAIN notes \ {n} : ~notes'[m].dirty
    BY <1>1, TablesTyped, SnapshotIs
  <2>. QED  BY <1>1, <2>1, <2>2, <2>3
<1>7. \A m \in N : m \in DOMAIN notes' /\ R.value[m] = Snapshot(notes'[m])
  BY <1>4, <1>5, <1>6, SnapshotIs
<1>8. DOMAIN R.value = N
  BY <1>5
<1>9. \A m \in DOMAIN notes' : m \in N \/ (m \in DOMAIN notes /\ notes'[m] = notes[m])
  BY <1>1, TablesTyped, SnapshotIs DEF Dirty
<1>. HIDE DEF N
<1>10. F = Whole("folders", folders')
  OBVIOUS
<1>. HIDE DEF R, F
<1>11. a \in Seq(WriteOps) /\ b \in Seq(WriteOps)
  BY <1>3, <1>5, ShortSeqs
<1>12. \A j \in DOMAIN a : a[j] = F /\ f = fresh + 1
  OBVIOUS
<1>18. \A j \in DOMAIN b : b[j] = R
  OBVIOUS
<1>19. (f = fresh + 1 => 1 \in DOMAIN a) /\ 1 \in DOMAIN b
  OBVIOUS
<1>20. s = a \o b
  OBVIOUS
<1>. HIDE DEF a, b, s
<1>13. s \in Seq(WriteOps) /\ Joins(s, a, b)
  BY <1>11, <1>20, ConcatElements
<1>14. /\ \A i \in DOMAIN s : s[i] = F \/ s[i] = R
       /\ \E i \in DOMAIN s : s[i] = R
       /\ f = fresh + 1 => \E i \in DOMAIN s : s[i] = F
  BY <1>12, <1>13, <1>18, <1>19 DEF Joins
<1>15. ListsSent(s)
  BY <1>2, <1>3, <1>5, <1>10, <1>14 DEF ListsSent, IsList
<1>16. NotesSent(s)
  BY <1>1, <1>3, <1>5, <1>7, <1>8, <1>9, <1>14 DEF NotesSent, RowsOf
<1>21. FlagSent(s)
  BY <1>3, <1>5, <1>14 DEF FlagSent
<1>17. Sends(s)
  BY <1>1, <1>13, <1>15, <1>16, <1>21 DEF Sends
<1>. QED  BY <1>17

LEMMA FolderOpsSend ==
    ASSUME Typed, Typed', FolderOps
    PROVE  \E s : Sends(s)
<1>1. ASSUME FoldersChanged, UNCHANGED <<spaces, blobs, allowEmpty>>, DOMAIN notes' = DOMAIN notes,
             \A n \in DOMAIN notes' : notes'[n].dirty \/ notes'[n] = notes[n]
      PROVE  \E s : Sends(s)
  BY <1>1, SendsFolders
<1>2. FoldersChanged /\ UNCHANGED <<spaces, blobs, allowEmpty>>
  BY DEF FolderOps, CreateFolder, AdoptFolder, MarkFolder, DeleteFolder, SetFolderParent, MoveFolderToSpace, OnlyFolders
<1>3. DOMAIN notes' = DOMAIN notes /\ \A n \in DOMAIN notes' : notes'[n].dirty \/ notes'[n] = notes[n]
  <2>1. CASE notes' = notes
    BY <2>1
  <2>2. ASSUME NEW f \in DOMAIN folders, DeleteFolder(f)
        PROVE  DOMAIN notes' = DOMAIN notes /\ \A n \in DOMAIN notes' : notes'[n].dirty \/ notes'[n] = notes[n]
    <3>1. notes' = NotesAtRoot(notes, Subtree(folders, f))
      BY <2>2 DEF DeleteFolder
    <3>2. \A n \in DOMAIN notes :
            [notes[n] EXCEPT !.folder = NoFolder, !.fpush = TRUE, !.dirty = TRUE].dirty
      BY TablesTyped DEF Note
    <3>. QED  BY <3>1, <3>2 DEF NotesAtRoot
  <2>3. ASSUME NEW f \in DOMAIN folders, NEW x \in DOMAIN spaces, MoveFolderToSpace(f, x)
        PROVE  DOMAIN notes' = DOMAIN notes /\ \A n \in DOMAIN notes' : notes'[n].dirty \/ notes'[n] = notes[n]
    <3>1. notes' = NotesResettled(notes, Subtree(folders, f), x)
      BY <2>3 DEF MoveFolderToSpace
    <3>2. \A n \in DOMAIN notes : Uprooted(notes[n], x).dirty
      BY TablesTyped DEF Note, Uprooted
    <3>. QED  BY <3>1, <3>2 DEF NotesResettled
  <2>. QED  BY <2>1, <2>2, <2>3 DEF FolderOps, CreateFolder, AdoptFolder, MarkFolder, SetFolderParent
<1>. QED  BY <1>1, <1>2, <1>3

LEMMA ChangesSend ==
    ASSUME Typed, NEW n \in DOMAIN notes, NEW note, ChangeNote(n, note), note.dirty
    PROVE  Sends(<< >>)
<1>1. Deferred /\ DOMAIN notes' = DOMAIN notes
      /\ \A m \in DOMAIN notes : notes'[m] = IF m = n THEN note ELSE notes[m]
  BY TablesTyped DEF ChangeNote, NoteTable, IsTable
<1>. QED  BY <1>1, SendsNothing

LEMMA NewNoteSends ==
    ASSUME Typed, NEW note, notes' = Over(notes, Only(nextNote, note)), note.dirty
    PROVE  /\ \A n \in DOMAIN notes : n \in DOMAIN notes'
           /\ \A n \in DOMAIN notes' : notes'[n].dirty \/ (n \in DOMAIN notes /\ notes'[n] = notes[n])
BY DEF Over, Only

LEMMA NoteOpsSend ==
    ASSUME Typed, Typed', NoteOps
    PROVE  \E s : Sends(s)
<1>1. CASE CreateNoteAndSpace
  <2>1. Edited(NewNote(nextSpace), ops').dirty
    BY DEF Edited, NewNote
  <2>2. /\ \A n \in DOMAIN notes : n \in DOMAIN notes'
        /\ \A n \in DOMAIN notes' : notes'[n].dirty \/ (n \in DOMAIN notes /\ notes'[n] = notes[n])
    BY <1>1, <2>1, NewNoteSends DEF CreateNoteAndSpace
  <2>3. DOMAIN spaces' # {}
    BY <1>1 DEF CreateNoteAndSpace, Only
  <2>. QED  BY <1>1, <2>2, <2>3, SendsSpace DEF CreateNoteAndSpace
<1>2. ASSUME NEW x \in DOMAIN spaces, CreateNote(x) \/ CreateNoteFromRemote(x)
      PROVE  \E s : Sends(s)
  <2>1. Edited(NewNote(x), ops').dirty /\ [NewNote(x) EXCEPT !.doc = fresh', !.dirty = TRUE].dirty
    BY DEF Edited, NewNote
  <2>2. Deferred /\ \E note : notes' = Over(notes, Only(nextNote, note)) /\ note.dirty
    BY <1>2, <2>1 DEF CreateNote, CreateNoteFromRemote
  <2>3. /\ \A n \in DOMAIN notes : n \in DOMAIN notes'
        /\ \A n \in DOMAIN notes' : notes'[n].dirty \/ (n \in DOMAIN notes /\ notes'[n] = notes[n])
    BY <2>2, NewNoteSends
  <2>. QED  BY <2>2, <2>3, SendsNothing
<1>3. ASSUME NEW n \in DOMAIN notes,
             \/ EditNote(n) \/ TouchNote(n) \/ MapNote(n) \/ Acknowledge(n)
             \/ \E x \in DOMAIN spaces : MoveNoteToSpace(n, x)
             \/ \E f \in DOMAIN folders \cup {NoFolder}, u \in BOOLEAN : SetNoteFolder(n, f, u)
      PROVE  \E s : Sends(s)
  <2>1. notes[n] \in Note
    BY TablesTyped
  <2>2. /\ Edited(notes[n], ops').dirty /\ Dirtied(notes[n]).dirty
        /\ [Dirtied(notes[n]) EXCEPT !.fpush = FALSE].dirty
        /\ [Dirtied(notes[n]) EXCEPT !.push = FALSE].dirty
        /\ [Dirtied(notes[n]) EXCEPT !.doc = fresh', !.push = TRUE].dirty
    BY <2>1 DEF Edited, Dirtied, Note
  <2>3. /\ \A x : [Uprooted(notes[n], x) EXCEPT !.folder = NoFolder].dirty
        /\ \A f, u : InFolder(notes[n], f, u).dirty
    BY <2>1 DEF Uprooted, InFolder, Note
  <2>4. \E note : ChangeNote(n, note) /\ note.dirty
    <3>1. CASE EditNote(n) \/ TouchNote(n) \/ MapNote(n) \/ Acknowledge(n)
      BY <2>2, <3>1 DEF EditNote, TouchNote, MapNote, Acknowledge
    <3>2. ASSUME NEW x \in DOMAIN spaces, MoveNoteToSpace(n, x) PROVE \E note : ChangeNote(n, note) /\ note.dirty
      BY <2>3, <3>2 DEF MoveNoteToSpace
    <3>3. ASSUME NEW f \in DOMAIN folders \cup {NoFolder}, NEW u \in BOOLEAN, SetNoteFolder(n, f, u)
          PROVE  \E note : ChangeNote(n, note) /\ note.dirty
      BY <2>3, <3>3 DEF SetNoteFolder
    <3>. QED  BY <1>3, <3>1, <3>2, <3>3
  <2>. QED  BY <2>4, ChangesSend
<1>4. ASSUME NEW n \in DOMAIN notes, DeleteNote(n) PROVE \E s : Sends(s)
  BY <1>4, SendsGone
<1>. QED  BY <1>1, <1>2, <1>3, <1>4, SendsImport DEF NoteOps

LEMMA SpaceOpsSend ==
    ASSUME Typed, Typed', SpaceOps
    PROVE  \E s : Sends(s)
<1>1. CASE CreateSpace
  <2>1. DOMAIN spaces' # {}
    BY <1>1 DEF CreateSpace, Over, Only
  <2>. QED  BY <1>1, <2>1, SendsSpace DEF CreateSpace
<1>2. ASSUME NEW x \in DOMAIN spaces, BindSpace(x) \/ UnbindSpace(x)
      PROVE  \E s : Sends(s)
  <2>1. UNCHANGED <<folders, blobs, allowEmpty>> /\ \E u \in BOOLEAN : Rebound(x, u)
    BY <1>2 DEF BindSpace, UnbindSpace
  <2>2. DOMAIN notes' = DOMAIN notes /\ \A n \in DOMAIN notes' : notes'[n].dirty \/ notes'[n] = notes[n]
    <3>1. CASE BindSpace(x)
      BY <3>1 DEF BindSpace
    <3>2. CASE UnbindSpace(x)
      <4>1. \A n \in DOMAIN notes : [notes[n] EXCEPT !.doc = NoDoc, !.push = FALSE, !.dirty = TRUE].dirty
        BY TablesTyped DEF Note
      <4>. QED  BY <3>2, <4>1 DEF UnbindSpace
    <3>. QED  BY <1>2, <3>1, <3>2
  <2>. QED  BY <2>1, <2>2, SendsRebound
<1>3. ASSUME NEW x \in DOMAIN spaces, DeleteSpace(x) PROVE \E s : Sends(s)
  BY <1>3, SendsDeletion
<1>. QED  BY <1>1, <1>2, <1>3 DEF SpaceOps

\* An operation on images changes only them, and makes one Uuid at most.
LEMMA BlobOpsChange ==
    ASSUME BlobOps
    PROVE  Operates /\ OnlyBlobs /\ (NoUuid \/ NewUuid)
<1>1. ASSUME NEW s \in DOMAIN spaces, NEW name \in Names, NEW hash \in Hashes,
             CreateBlob(s, name, hash)
      PROVE  Operates /\ OnlyBlobs /\ (NoUuid \/ NewUuid)
  BY <1>1 DEF CreateBlob
<1>2. ASSUME NEW b \in DOMAIN blobs,
             \/ \E name \in Names : RenameBlob(b, name)
             \/ \E f \in DOMAIN folders \cup {NoFolder} : SetBlobFolder(b, f)
             \/ DeleteBlob(b) \/ ClearBlobPush(b) \/ SetBlobBytes(b)
      PROVE  Operates /\ OnlyBlobs /\ (NoUuid \/ NewUuid)
  <2>1. ASSUME NEW name \in Names, RenameBlob(b, name)
        PROVE  Operates /\ OnlyBlobs /\ (NoUuid \/ NewUuid)
    BY <2>1, Zenon DEF RenameBlob
  <2>2. ASSUME NEW f \in DOMAIN folders \cup {NoFolder}, SetBlobFolder(b, f)
        PROVE  Operates /\ OnlyBlobs /\ (NoUuid \/ NewUuid)
    BY <2>2, Zenon DEF SetBlobFolder
  <2>3. ASSUME DeleteBlob(b) \/ ClearBlobPush(b) \/ SetBlobBytes(b)
        PROVE  Operates /\ OnlyBlobs /\ (NoUuid \/ NewUuid)
    BY <2>3, Zenon DEF DeleteBlob, ClearBlobPush, SetBlobBytes
  <2>. QED  BY <1>2, <2>1, <2>2, <2>3
<1>3. ASSUME NEW s \in DOMAIN spaces, NEW b \in DOMAIN blobs \cup {fresh + 1},
             NEW name \in Names, NEW hash \in Hashes,
             NEW f \in DOMAIN folders \cup {NoFolder}, UpsertBlob(s, b, name, hash, f)
      PROVE  Operates /\ OnlyBlobs /\ (NoUuid \/ NewUuid)
  BY <1>3 DEF UpsertBlob
<1>. QED  BY <1>1, <1>2, <1>3 DEF BlobOps

LEMMA OperationsSend ==
    ASSUME Typed, Typed', SpaceOps \/ FolderOps \/ NoteOps \/ BlobOps \/ FlushNotes
    PROVE  \E s : Sends(s)
<1>1. CASE BlobOps
  <2>1. BlobsChanged /\ UNCHANGED <<spaces, folders, notes, allowEmpty>>
    BY <1>1, BlobOpsChange DEF OnlyBlobs
  <2>. QED  BY <2>1, SendsBlobs
<1>2. CASE FlushNotes
  <2>1. \E N : N \subseteq DOMAIN notes /\ Flush(N)
    BY <1>2 DEF FlushNotes, Autosave, FlushNote, Dirty
  <2>. QED  BY <2>1, SendsRows
<1>. QED  BY <1>1, <1>2, SpaceOpsSend, FolderOpsSend, NoteOpsSend

-----------------------------------------------------------------------------
(* FlagIsSaved: what an operation makes of the notes. *)

\* Most operations leave alone what the server has: a note stays as it was there, is edited,
\* or is not mapped to a document, and a new note is not.
Same(old, new) == new.doc = old.doc /\ new.ver = old.ver /\ new.push = old.push
StillNote(n) ==
    \/ /\ n \in DOMAIN notes
       /\ \/ Same(notes[n], notes'[n])
          \/ notes'[n].doc = NoDoc /\ notes'[n].ver = notes[n].ver
          \/ notes'[n].doc = notes[n].doc /\ notes'[n].push /\ notes'[n].ver = ops'
    \/ notes'[n].doc = NoDoc /\ notes'[n].ver = ops'
Still ==
    /\ held' = held /\ fresh' \in {fresh, fresh + 1, fresh + 2} /\ ops' \in {ops, ops + 1}
    /\ \A n \in DOMAIN notes' : StillNote(n)
Moves ==
    /\ fresh <= fresh' /\ ops <= ops' /\ HeldMoves
    /\ \A n \in DOMAIN notes' : NoteMoves(n)
    /\ \A m, n \in DOMAIN notes' : Mapped(m) /\ Mapped(n) => m = n

LEMMA Counts ==
    ASSUME Typed
    PROVE  /\ fresh \in Nat /\ ops \in Nat
           /\ \A d \in DOMAIN held : d \in Nat /\ held[d] \in Nat
<1>1. \A d \in DOMAIN held : d \in Ids /\ held[d] \in 0..MaxOps
  BY TableEntry DEF Typed, TypeOK
<1>2. Ids \subseteq Nat /\ 0..MaxOps \subseteq Nat /\ fresh \in Ids /\ ops \in 0..MaxOps
  BY ZeroIsId, BoundsAssumption DEF Typed, TypeOK
<1>. QED  BY <1>1, <1>2

LEMMA VersPast ==
    ASSUME Typed, Flagged
    PROVE  \A n \in DOMAIN notes : /\ notes[n] \in Note /\ notes[n].ver \in Nat /\ notes[n].ver <= ops
                                   /\ notes[n].doc \in Nat
                                   /\ notes[n].doc # NoDoc => notes[n].doc \in DOMAIN held
<1>1. TAKE n \in DOMAIN notes
<1>2. n \in Nat /\ notes[n] \in Note /\ notes[n] \in Copies(n)
  BY TablesTyped DEF Copies
<1>3. Honest(notes[n])
  BY <1>2 DEF Flagged
<1>4. notes[n].ver \in Nat /\ notes[n].doc \in Nat
  <2>1. notes[n].ver \in 0..MaxOps /\ notes[n].doc \in Ids
    BY <1>2 DEF Note
  <2>2. 0..MaxOps \subseteq Nat
    BY BoundsAssumption
  <2>. QED  BY <2>1, <2>2, ZeroIsId
<1>. QED  BY <1>2, <1>3, <1>4 DEF Honest

LEMMA StillMoves ==
    ASSUME Typed, Typed', Flagged, Still
    PROVE  Moves
<1>1. /\ fresh \in Nat /\ ops \in Nat /\ fresh <= fresh' /\ ops <= ops' /\ ops' \in Nat
      /\ \A d \in DOMAIN held : d \in Nat /\ held[d] \in Nat
  BY Counts DEF Still
<1>2. HeldMoves
  BY <1>1 DEF HeldMoves, Still, Flagged
<1>3. ASSUME NEW n \in DOMAIN notes' PROVE NoteMoves(n)
  <2>1. StillNote(n)
    BY DEF Still
  <2>2. CASE n \in DOMAIN notes
    <3>1. notes[n].ver \in Nat /\ notes[n].ver <= ops /\ notes[n] \in Note
      BY <2>2, VersPast
    <3>2. notes[n].push \in BOOLEAN
      BY <3>1 DEF Note
    <3>. QED  BY <1>1, <2>1, <2>2, <3>1, <3>2 DEF StillNote, Same, NoteMoves, Kept
  <2>3. CASE n \notin DOMAIN notes
    BY <1>1, <2>1, <2>3 DEF StillNote, NoteMoves
  <2>. QED  BY <2>2, <2>3
<1>4. \A n : ~Mapped(n)
  BY <1>1 DEF Mapped, Still, Flagged
<1>. QED  BY <1>1, <1>2, <1>3, <1>4 DEF Moves

LEMMA SpaceOpsStill ==
    ASSUME Typed, SpaceOps
    PROVE  Still
<1>1. \A n \in DOMAIN notes : notes[n] \in Note
  BY TablesTyped
<1>2. ASSUME CreateSpace \/ \E s \in DOMAIN spaces : BindSpace(s)
      PROVE  Still
  BY <1>2 DEF CreateSpace, BindSpace, NoUuid, Elsewhere, Operates, Still, StillNote, Same
<1>3. ASSUME NEW s \in DOMAIN spaces, UnbindSpace(s) PROVE Still
  <2>1. \A n \in DOMAIN notes :
            LET new == [notes[n] EXCEPT !.doc = NoDoc, !.push = FALSE, !.dirty = TRUE]
            IN  new.doc = NoDoc /\ new.ver = notes[n].ver
    BY <1>1 DEF Note
  <2>2. \A n \in DOMAIN notes' : StillNote(n)
    BY <1>3, <2>1 DEF UnbindSpace, StillNote, Same
  <2>. QED  BY <1>3, <2>2 DEF UnbindSpace, NoUuid, Elsewhere, Operates, Still
<1>4. ASSUME NEW s \in DOMAIN spaces, DeleteSpace(s) PROVE Still
  <2>1. \A n \in DOMAIN notes' : n \in DOMAIN notes /\ notes'[n] = notes[n]
    BY <1>4 DEF DeleteSpace, OutsideSpace, Without
  <2>. QED  BY <1>4, <2>1 DEF DeleteSpace, NoUuid, Elsewhere, Operates, Still, StillNote, Same
<1>. QED  BY <1>2, <1>3, <1>4 DEF SpaceOps

LEMMA FolderOpsStill ==
    ASSUME Typed, FolderOps
    PROVE  Still
<1>1. \A n \in DOMAIN notes : notes[n] \in Note
  BY TablesTyped
<1>2. Operates /\ fresh' \in {fresh, fresh + 1, fresh + 2} /\ held' = held
  BY DEF FolderOps, CreateFolder, AdoptFolder, MarkFolder, DeleteFolder, SetFolderParent, MoveFolderToSpace,
         OnlyFolders, NoUuid, NewUuid, Elsewhere
<1>3. CASE notes' = notes
  BY <1>2, <1>3 DEF Operates, Still, StillNote, Same
<1>4. ASSUME NEW f \in DOMAIN folders, DeleteFolder(f) PROVE Still
  <2>1. \A n \in DOMAIN notes :
            Same(notes[n], [notes[n] EXCEPT !.folder = NoFolder, !.fpush = TRUE, !.dirty = TRUE])
    BY <1>1 DEF Note, Same
  <2>2. \A n \in DOMAIN notes' : n \in DOMAIN notes /\ Same(notes[n], notes'[n])
    BY <1>4, <2>1 DEF DeleteFolder, NotesAtRoot, Same
  <2>. QED  BY <1>2, <2>2 DEF Operates, Still, StillNote
<1>5. ASSUME NEW f \in DOMAIN folders, NEW x \in DOMAIN spaces, MoveFolderToSpace(f, x) PROVE Still
  <2>1. \A n \in DOMAIN notes : Uprooted(notes[n], x).doc = NoDoc /\ Uprooted(notes[n], x).ver = notes[n].ver
    BY <1>1 DEF Note, Uprooted
  <2>2. \A n \in DOMAIN notes' :
            n \in DOMAIN notes /\ (notes'[n] = notes[n] \/ notes'[n] = Uprooted(notes[n], x))
    BY <1>5 DEF MoveFolderToSpace, NotesResettled
  <2>. QED  BY <1>2, <2>1, <2>2 DEF Operates, Still, StillNote, Same
<1>. QED  BY <1>3, <1>4, <1>5 DEF FolderOps, CreateFolder, AdoptFolder, MarkFolder, SetFolderParent

LEMMA BlobsAndFlushesStill ==
    ASSUME Typed, BlobOps \/ FlushNotes
    PROVE  Still
<1>1. CASE BlobOps
  <2>1. Operates /\ OnlyBlobs /\ (NoUuid \/ NewUuid)
    BY <1>1, BlobOpsChange
  <2>2. notes' = notes /\ held' = held
    BY <2>1 DEF OnlyBlobs, Elsewhere
  <2>. QED  BY <2>1, <2>2 DEF NoUuid, NewUuid, Operates, Still, StillNote, Same
<1>2. CASE FlushNotes
  <2>1. \A n \in DOMAIN notes : Same(notes[n], Snapshot(notes[n]))
    BY TablesTyped, SnapshotIs DEF Same
  <2>2. PICK N : Flush(N)
    BY <1>2 DEF FlushNotes, Autosave, FlushNote
  <2>. QED  BY <2>1, <2>2 DEF Flush, Flushed, history, Still, StillNote, Same
<1>. QED  BY <1>1, <1>2

\* The operations on one note.
LEMMA ChangeStill ==
    ASSUME Typed, Operates, NoUuid, held' = held, NEW n \in DOMAIN notes, NEW note, ChangeNote(n, note),
           \/ Same(notes[n], note)
           \/ note.doc = NoDoc /\ note.ver = notes[n].ver
           \/ note.doc = notes[n].doc /\ note.push /\ note.ver = ops'
    PROVE  Still
<1>1. DOMAIN notes' = DOMAIN notes
      /\ \A m \in DOMAIN notes : notes'[m] = IF m = n THEN note ELSE notes[m]
  BY TablesTyped DEF ChangeNote, NoteTable, IsTable
<1>. QED  BY <1>1 DEF Operates, NoUuid, Still, StillNote, Same

LEMMA AddStill ==
    ASSUME Typed, Operates, fresh' \in {fresh, fresh + 1, fresh + 2}, held' = held, NEW n, NEW note,
           notes' = Over(notes, Only(n, note)), note.doc = NoDoc, note.ver = ops'
    PROVE  Still
BY DEF Over, Only, Operates, Still, StillNote, Same

LEMMA NoteOpsMove ==
    ASSUME Typed, Typed', Flagged, NoteOps
    PROVE  Moves
<1>1. ASSUME Still PROVE Moves
  BY <1>1, StillMoves
<1>2. CASE CreateNoteAndSpace
  <2>1. Edited(NewNote(nextSpace), ops').doc = NoDoc /\ Edited(NewNote(nextSpace), ops').ver = ops'
    BY DEF Edited, NewNote
  <2>. QED  BY <1>1, <1>2, <2>1, AddStill DEF CreateNoteAndSpace, NoUuid
<1>3. ASSUME NEW s \in DOMAIN spaces, CreateNote(s) PROVE Moves
  <2>1. Edited(NewNote(s), ops').doc = NoDoc /\ Edited(NewNote(s), ops').ver = ops'
    BY DEF Edited, NewNote
  <2>. QED  BY <1>1, <1>3, <2>1, AddStill DEF CreateNote, NoUuid
<1>4. ASSUME NEW n \in DOMAIN notes, DeleteNote(n) PROVE Moves
  <2>1. \A m \in DOMAIN notes' : m \in DOMAIN notes /\ notes'[m] = notes[m]
    BY <1>4 DEF DeleteNote, Without
  <2>2. Still
    BY <1>4, <2>1 DEF DeleteNote, NoUuid, Elsewhere, Operates, Still, StillNote, Same
  <2>. QED  BY <1>1, <2>2
<1>5. ASSUME NEW n \in DOMAIN notes, EditNote(n) PROVE Moves
  <2>1. /\ Edited(notes[n], ops').doc = notes[n].doc /\ Edited(notes[n], ops').push
        /\ Edited(notes[n], ops').ver = ops'
    BY TablesTyped DEF Edited, Note
  <2>. QED  BY <1>1, <1>5, <2>1, ChangeStill DEF EditNote, Elsewhere
<1>6. ASSUME NEW n \in DOMAIN notes, TouchNote(n) PROVE Moves
  <2>1. /\ Same(notes[n], Dirtied(notes[n]))
        /\ Same(notes[n], [Dirtied(notes[n]) EXCEPT !.fpush = FALSE])
    BY TablesTyped DEF Dirtied, Note, Same
  <2>2. \E note : ChangeNote(n, note) /\ Same(notes[n], note)
    BY <1>6, <2>1 DEF TouchNote
  <2>. QED  BY <1>1, <1>6, <2>2, ChangeStill DEF TouchNote, Elsewhere
<1>7. ASSUME NEW n \in DOMAIN notes, NEW x \in DOMAIN spaces, MoveNoteToSpace(n, x) PROVE Moves
  <2>. DEFINE note == [Uprooted(notes[n], x) EXCEPT !.folder = NoFolder]
  <2>1. note.doc = NoDoc /\ note.ver = notes[n].ver
    BY TablesTyped DEF Uprooted, Note
  <2>2. ChangeNote(n, note) /\ Operates /\ NoUuid /\ held' = held
    BY <1>7 DEF MoveNoteToSpace, Elsewhere
  <2>. HIDE DEF note
  <2>. QED  BY <1>1, <2>1, <2>2, ChangeStill
<1>8. ASSUME NEW n \in DOMAIN notes, NEW f, NEW u \in BOOLEAN, SetNoteFolder(n, f, u) PROVE Moves
  <2>1. Same(notes[n], InFolder(notes[n], f, u))
    BY TablesTyped DEF InFolder, Note, Same
  <2>. QED  BY <1>1, <1>8, <2>1, ChangeStill DEF SetNoteFolder, Elsewhere
<1>9. ASSUME NEW x \in DOMAIN spaces, NEW f \in DOMAIN folders \cup {NoFolder, fresh + 1},
             NEW n \in DOMAIN notes \cup {nextNote}, Import(x, f, n)
      PROVE  Moves
  <2>1. /\ DOMAIN notes' = DOMAIN notes \cup {n}
        /\ \A m \in DOMAIN notes \ {n} : notes'[m] = Snapshot(notes[m])
    <3>1. DOMAIN notes' = DOMAIN notes \cup {n}
      BY <1>9, ImportMakes
    <3>2. \A m \in DOMAIN notes \ {n} : notes'[m] = Snapshot(notes[m])
      BY <1>9, ImportMakes
    <3>. QED  BY <3>1, <3>2
  <2>2. notes'[n] = Imported(x, f, ops')
    BY <1>9, ImportMakes
  <2>3. Imported(x, f, ops').doc = NoDoc /\ Imported(x, f, ops').ver = ops'
    BY DEF Imported, NewNote
  <2>4. \A m \in DOMAIN notes : Same(notes[m], Snapshot(notes[m]))
    BY TablesTyped, SnapshotIs DEF Same
  <2>5. \A m \in DOMAIN notes' : StillNote(m)
    BY <2>1, <2>2, <2>3, <2>4 DEF StillNote
  <2>6. Operates /\ held' = held /\ fresh' \in {fresh, fresh + 1, fresh + 2}
    BY <1>9 DEF Import
  <2>7. Still
    BY <2>5, <2>6 DEF Operates, Still
  <2>. QED  BY <1>1, <2>7
<1>10. ASSUME NEW x \in DOMAIN spaces, CreateNoteFromRemote(x) PROVE Moves
  <2>. DEFINE note == [NewNote(x) EXCEPT !.doc = fresh', !.dirty = TRUE]
  <2>1. note.doc = fresh' /\ note.ver = 0
    BY DEF NewNote
  <2>2. notes' = Over(notes, Only(nextNote, note)) /\ held' = Over(held, Only(fresh', 0))
        /\ fresh' = fresh + 1 /\ ops' = ops + 1
    BY <1>10 DEF CreateNoteFromRemote, NewUuid, Operates
  <2>. HIDE DEF note
  <2>3. /\ \A n \in DOMAIN notes' : \/ n = nextNote /\ notes'[n] = note
                                    \/ n \in DOMAIN notes /\ notes'[n] = notes[n]
        /\ DOMAIN held' = DOMAIN held \cup {fresh'} /\ held'[fresh'] = 0
        /\ \A d \in DOMAIN held \ {fresh'} : held'[d] = held[d]
    BY <2>2 DEF Over, Only
  <2>4. /\ fresh \in Nat /\ ops \in Nat /\ fresh' \notin DOMAIN held
        /\ \A d \in DOMAIN held : d \in Nat /\ held[d] \in Nat
    BY <2>2, Counts DEF Flagged
  <2>5. HeldMoves
    BY <2>2, <2>3, <2>4 DEF HeldMoves, Flagged
  <2>6. ASSUME NEW n \in DOMAIN notes' PROVE NoteMoves(n)
    <3>1. CASE notes'[n] = note
      BY <2>1, <2>2, <2>3, <2>4, <3>1 DEF NoteMoves, Mapped
    <3>2. CASE n \in DOMAIN notes /\ notes'[n] = notes[n]
      <4>1. notes[n].ver \in Nat /\ notes[n].ver <= ops /\ notes[n].push \in BOOLEAN
        BY <3>2, VersPast DEF Note
      <4>. QED  BY <2>2, <2>4, <3>2, <4>1 DEF NoteMoves, Kept
    <3>. QED  BY <2>3, <3>1, <3>2
  <2>7. \A n \in DOMAIN notes' : Mapped(n) => n = nextNote
    <3>1. \A n \in DOMAIN notes : notes[n].doc # fresh'
      BY <2>4, <2>2, VersPast DEF NoDoc
    <3>. QED  BY <2>3, <3>1 DEF Mapped
  <2>. QED  BY <2>2, <2>4, <2>5, <2>6, <2>7 DEF Moves
<1>11. ASSUME NEW n \in DOMAIN notes, MapNote(n) PROVE Moves
  <2>. DEFINE note == [Dirtied(notes[n]) EXCEPT !.doc = fresh', !.push = TRUE]
  <2>1. note.doc = fresh' /\ note.push /\ note.ver = notes[n].ver
    BY TablesTyped DEF Dirtied, Note
  <2>2. notes' = [notes EXCEPT ![n] = note] /\ held' = Over(held, Only(fresh', 0))
        /\ fresh' = fresh + 1 /\ ops' = ops + 1
    BY <1>11 DEF MapNote, NewUuid, Operates, ChangeNote
  <2>. HIDE DEF note
  <2>3. /\ DOMAIN notes' = DOMAIN notes
        /\ \A m \in DOMAIN notes : notes'[m] = IF m = n THEN note ELSE notes[m]
        /\ DOMAIN held' = DOMAIN held \cup {fresh'}
        /\ \A d \in DOMAIN held \ {fresh'} : held'[d] = held[d]
    BY <2>2, TablesTyped DEF Over, Only, NoteTable, IsTable
  <2>4. /\ fresh \in Nat /\ ops \in Nat /\ fresh' \notin DOMAIN held
        /\ \A d \in DOMAIN held : d \in Nat /\ held[d] \in Nat
    BY <2>2, Counts DEF Flagged
  <2>5. HeldMoves
    BY <2>2, <2>3, <2>4 DEF HeldMoves, Flagged
  <2>6. ASSUME NEW m \in DOMAIN notes' PROVE NoteMoves(m)
    <3>1. notes[m].ver \in Nat /\ notes[m].ver <= ops /\ notes[m].push \in BOOLEAN
      BY <2>3, VersPast DEF Note
    <3>2. CASE m = n
      BY <2>1, <2>2, <2>3, <2>4, <3>1, <3>2 DEF NoteMoves, Mapped
    <3>3. CASE m # n
      BY <2>2, <2>3, <2>4, <3>1, <3>3 DEF NoteMoves, Kept
    <3>. QED  BY <3>2, <3>3
  <2>7. \A m \in DOMAIN notes' : Mapped(m) => m = n
    <3>1. \A m \in DOMAIN notes : notes[m].doc # fresh'
      BY <2>4, <2>2, VersPast DEF NoDoc
    <3>. QED  BY <2>3, <3>1 DEF Mapped
  <2>. QED  BY <2>2, <2>4, <2>5, <2>6, <2>7 DEF Moves
<1>12. ASSUME NEW n \in DOMAIN notes, Acknowledge(n) PROVE Moves
  <2>. DEFINE note == [Dirtied(notes[n]) EXCEPT !.push = FALSE]
              d == notes[n].doc
  <2>1. note.doc = d /\ note.ver = notes[n].ver
    BY TablesTyped DEF Dirtied, Note
  <2>2. notes' = [notes EXCEPT ![n] = note] /\ held' = Over(held, Only(d, notes[n].ver))
        /\ fresh' = fresh /\ ops' = ops + 1 /\ d # NoDoc
    BY <1>12 DEF Acknowledge, NoUuid, Operates, ChangeNote
  <2>3. d \in DOMAIN held
    BY <2>2, VersPast
  <2>. HIDE DEF note
  <2>4. /\ DOMAIN notes' = DOMAIN notes
        /\ \A m \in DOMAIN notes : notes'[m] = IF m = n THEN note ELSE notes[m]
    BY <2>2, TablesTyped DEF NoteTable, IsTable
  <2>5. /\ DOMAIN held' = DOMAIN held /\ held'[d] = notes[n].ver
        /\ \A e \in DOMAIN held \ {d} : held'[e] = held[e]
    <3>. HIDE DEF d
    <3>. QED  BY <2>2, <2>3 DEF Over, Only
  <2>6. /\ fresh \in Nat /\ ops \in Nat
        /\ \A e \in DOMAIN held : e \in Nat /\ held[e] \in Nat
    BY Counts
  <2>7. Acked(n)
    BY <2>1, <2>2, <2>4, <2>5 DEF Acked
  <2>8. HeldMoves
    <3>. HIDE DEF d
    <3>1. d = notes[n].doc
      BY DEF d
    <3>. QED  BY <2>2, <2>4, <2>5, <2>6, <2>7, <3>1 DEF HeldMoves, Flagged
  <2>9. ASSUME NEW m \in DOMAIN notes' PROVE NoteMoves(m)
    <3>1. notes[m].ver \in Nat /\ notes[m].ver <= ops /\ notes[m].push \in BOOLEAN
      BY <2>4, VersPast DEF Note
    <3>2. CASE m = n
      BY <2>1, <2>2, <2>4, <2>6, <2>7, <3>1, <3>2 DEF NoteMoves
    <3>3. CASE m # n
      BY <2>2, <2>4, <2>6, <3>1, <3>3 DEF NoteMoves, Kept
    <3>. QED  BY <3>2, <3>3
  <2>10. \A m : ~Mapped(m)
    BY <2>2, <2>6 DEF Mapped
  <2>. QED  BY <2>2, <2>6, <2>8, <2>9, <2>10 DEF Moves
<1>. QED  BY <1>2, <1>3, <1>4, <1>5, <1>6, <1>7, <1>8, <1>9, <1>10, <1>11, <1>12 DEF NoteOps

LEMMA OperationsMove ==
    ASSUME Typed, Typed', Flagged, SpaceOps \/ FolderOps \/ NoteOps \/ BlobOps \/ FlushNotes
    PROVE  Moves
BY SpaceOpsStill, FolderOpsStill, BlobsAndFlushesStill, NoteOpsMove, StillMoves
-----------------------------------------------------------------------------
(* FlagIsSaved: the writer, the end and the next start. *)

LEMMA OperationRows ==
    ASSUME Typed, disk' = disk, NEW s, Sends(s)
    PROVE  RowsMove
<1>1. ASSUME NEW n \in Nat, NEW r \in Written(n)'
      PROVE  r \in Written(n) \/ (n \in DOMAIN notes' /\ r = Snapshot(notes'[n]))
  <2>1. r \in RowsIn(disk.notes, queue', n)
    BY <1>1 DEF Written
  <2>2. CASE queue' = queue
    BY <2>1, <2>2 DEF Written
  <2>3. CASE queue' = queue \o s
    <3>1. s \in Seq(WriteOps) /\ queue \in Seq(WriteOps) /\ RowsOf(s, notes')
      BY DEF Sends, NotesSent, Typed, QueueTyped
    <3>2. r \in RowsIn(disk.notes, queue \o s, n)
      BY <2>1, <2>3
    <3>. QED  BY <3>1, <3>2, RowsAppended DEF Written
  <2>. QED  BY <2>2, <2>3 DEF Sends, Send
<1>. QED  BY <1>1 DEF RowsMove

LEMMA StoreStill ==
    ASSUME SpaceOps \/ FolderOps \/ NoteOps \/ BlobOps \/ FlushNotes
    PROVE  /\ phase \in {"open", "deaf", "memory"}
           /\ UNCHANGED <<kind, phase, cache, disk, faults, broken, lostTables, lostNotes>>
<1>1. CASE FlushNotes
  BY <1>1 DEF FlushNotes, Autosave, FlushNote, Flush, history
<1>2. ASSUME SpaceOps PROVE Operates
  BY <1>2 DEF SpaceOps, CreateSpace, BindSpace, UnbindSpace, DeleteSpace
<1>3. ASSUME FolderOps PROVE Operates
  BY <1>3 DEF FolderOps, CreateFolder, AdoptFolder, MarkFolder, DeleteFolder, SetFolderParent, MoveFolderToSpace
<1>4. ASSUME NoteOps PROVE Operates
  BY <1>4 DEF NoteOps, CreateNoteAndSpace, CreateNote, CreateNoteFromRemote, Import, EditNote,
              TouchNote, DeleteNote, MapNote, Acknowledge, MoveNoteToSpace, SetNoteFolder
<1>5. ASSUME BlobOps PROVE Operates
  BY <1>5, BlobOpsChange
<1>. QED  BY <1>1, <1>2, <1>3, <1>4, <1>5 DEF Operates

LEMMA OperationsFlagged ==
    ASSUME Typed, Typed', Flagged, SpaceOps \/ FolderOps \/ NoteOps \/ BlobOps \/ FlushNotes
    PROVE  Flagged'
<1>1. disk' = disk
  BY StoreStill
<1>2. PICK s : Sends(s)
  BY OperationsSend
<1>3. RowsMove
  BY <1>1, <1>2, OperationRows
<1>4. Moves
  BY OperationsMove
<1>. QED  BY <1>3, <1>4, FlaggedStep DEF Moves

\* No new row: the writer, and the end of the program.
LEMMA FewerRows ==
    ASSUME Typed, Typed', Flagged, UNCHANGED <<held, fresh, ops>>,
           \A n \in Nat : \A r \in Written(n)' : r \in Written(n) \/ (n \in DOMAIN notes /\ r = Snapshot(notes[n])),
           notes' = notes \/ notes' = Nothing
    PROVE  Flagged'
<1>1. CASE notes' = notes
  <2>1. RowsMove
    BY <1>1 DEF RowsMove
  <2>2. Still
    BY <1>1 DEF Still, StillNote, Same
  <2>. QED  BY <2>1, <2>2, StillMoves, FlaggedStep DEF Moves
<1>2. CASE notes' = Nothing
  <2>1. DOMAIN notes' = {}
    BY <1>2 DEF Nothing
  <2>2. ASSUME NEW n \in Nat, NEW r \in Copies(n)'
        PROVE  \E q \in Copies(n) : q.doc = r.doc /\ q.ver = r.ver /\ q.push = r.push
    <3>1. r \in Written(n)'
      BY <2>1, <2>2 DEF Copies
    <3>2. CASE r \in Written(n)
      BY <3>2 DEF Copies
    <3>3. CASE n \in DOMAIN notes /\ r = Snapshot(notes[n])
      BY <3>3, TablesTyped, SnapshotIs DEF Copies
    <3>. QED  BY <3>1, <3>2, <3>3
  <2>3. \A n \in Nat : \A r \in Copies(n)' : Honest(r)'
    BY <2>2 DEF Flagged, Honest
  <2>4. \A m, n \in Nat : \A q \in Copies(m)', r \in Copies(n)' : q.doc = r.doc /\ r.doc # NoDoc => m = n
    <3>1. TAKE m, n \in Nat
    <3>2. TAKE q \in Copies(m)', r \in Copies(n)'
    <3>3. PICK q0 \in Copies(m) : q0.doc = q.doc
      BY <2>2
    <3>4. PICK r0 \in Copies(n) : r0.doc = r.doc
      BY <2>2
    <3>. QED  BY <3>3, <3>4 DEF Flagged
  <2>. QED  BY <2>1, <2>3, <2>4 DEF Flagged
<1>. QED  BY <1>1, <1>2

\* What the writer may leave on the disk.
LEMMA WriterRows ==
    ASSUME Typed, queue # << >>, NEW after,
           \/ after = Applied(disk, Op).notes
           \/ after = disk.notes
           \/ /\ IsRows(Op)
              /\ \E N \in SUBSET DOMAIN Op.value : after = SomeRows(N).notes,
           NEW rest \in {Tail(queue), << >>}, NEW n, NEW r \in RowsIn(after, rest, n)
    PROVE  r \in Written(n)
<1>1. queue \in Seq(WriteOps) /\ Op = queue[1] /\ Op \in WriteOps /\ IsDisk(disk)
  BY DEF Typed, TypeOK, QueueTyped, Op
<1>2. ASSUME NEW m \in DOMAIN after
      PROVE  \/ m \in DOMAIN disk.notes /\ after[m] = disk.notes[m]
             \/ IsRows(Op) /\ m \in DOMAIN Op.value /\ after[m] = Op.value[m]
  <2>1. CASE after = disk.notes
    BY <2>1
  <2>2. ASSUME IsRows(Op), NEW N \in SUBSET DOMAIN Op.value, after = SomeRows(N).notes
        PROVE  \/ m \in DOMAIN disk.notes /\ after[m] = disk.notes[m]
               \/ IsRows(Op) /\ m \in DOMAIN Op.value /\ after[m] = Op.value[m]
    <3>1. after = Over(disk.notes, [k \in N |-> Op.value[k]])
      BY <1>1, <2>2 DEF SomeRows, IsDisk
    <3>. QED  BY <2>2, <3>1 DEF Over
  <2>3. CASE after = Applied(disk, Op).notes
    <3>1. CASE IsRows(Op)
      <4>1. Applied(disk, Op) = [disk EXCEPT !.notes = Over(disk.notes, Op.value)]
        BY <1>1, <3>1, WriteOpIs DEF Applied, IsRows
      <4>2. after = Over(disk.notes, Op.value)
        BY <1>1, <2>3, <4>1 DEF IsDisk
      <4>. QED  BY <3>1, <4>2 DEF Over
    <3>2. CASE IsList(Op)
      <4>1. Op.table \in TableNames
        BY <1>1, <3>2, WriteOpIs
      <4>2. \/ Applied(disk, Op) = [disk EXCEPT ![Op.table] = Put(disk[Op.table], cache[Op.table], Op.value)]
            \/ Applied(disk, Op) = [disk EXCEPT ![Op.table] = Op.value]
        BY <3>2, <4>1 DEF Applied, IsList, IsRows
      <4>3. after = disk.notes
        BY <1>1, <2>3, <4>1, <4>2 DEF IsDisk, TableNames
      <4>. QED  BY <2>1, <4>3
    <3>3. CASE ~IsRows(Op) /\ ~IsList(Op)
      <4>1. Applied(disk, Op) = [disk EXCEPT !.notes = Without(disk.notes, Op.gone)]
        BY <1>1, <3>3, WriteOpIs DEF Applied, IsList
      <4>2. after = Without(disk.notes, Op.gone)
        BY <1>1, <2>3, <4>1 DEF IsDisk
      <4>. QED  BY <4>2 DEF Without
    <3>. QED  BY <3>1, <3>2, <3>3
  <2>. QED  BY <2>1, <2>2, <2>3
<1>. QED  BY <1>1, <1>2, RowsTaken DEF Written

LEMMA WriterFlagged ==
    ASSUME Typed, Typed', Flagged, Writer
    PROVE  Flagged'
<1>1. Writing /\ Rest
  BY DEF Writer, WriteOk, WriteFails
<1>2. queue # << >> /\ queue' = Tail(queue) /\ UNCHANGED <<held, fresh, ops, notes>>
  BY <1>1 DEF Writing, Rest, db, tables
<1>3. \/ disk'.notes = Applied(disk, Op).notes
      \/ disk'.notes = disk.notes
      \/ /\ IsRows(Op)
         /\ \E N \in SUBSET DOMAIN Op.value : disk'.notes = SomeRows(N).notes
  <2>1. CASE WriteOk
    BY <2>1 DEF WriteOk
  <2>2. CASE WriteFails
    BY <2>2 DEF WriteFails, Part
  <2>. QED  BY <2>1, <2>2 DEF Writer
<1>4. \A n \in Nat : \A r \in Written(n)' : r \in Written(n)
  <2>1. TAKE n \in Nat
  <2>2. TAKE r \in Written(n)'
  <2>3. r \in RowsIn(disk'.notes, Tail(queue), n)
    BY <1>2, <2>2 DEF Written
  <2>. QED  BY <1>2, <1>3, <2>3, WriterRows
<1>. QED  BY <1>2, <1>4, FewerRows

LEMMA EndFlagged ==
    ASSUME Typed, Typed', Flagged, Close \/ Closed \/ Crash \/ Opened \/ OpenAborts
    PROVE  Flagged'
<1>1. CASE Close
  <2>. DEFINE N == Dirty(notes)
              s == IF N # {} THEN <<Rows(N)>> ELSE << >>
  <2>1. /\ UNCHANGED <<held, fresh, ops, disk>> /\ notes' = Nothing
        /\ queue' = queue \o s \/ queue' = queue
    BY <1>1 DEF Close, NoTables, history, Send
  <2>2. N \subseteq DOMAIN notes /\ Rows(N) \in WriteOps
    <3>1. N \subseteq DOMAIN notes
      BY DEF Dirty
    <3>. QED  BY <3>1, RowsTyped
  <2>3. s \in Seq(WriteOps) /\ RowsOf(s, notes)
    <3>1. \A i \in DOMAIN s : s[i] = Rows(N)
      OBVIOUS
    <3>2. s \in Seq(WriteOps)
      BY <2>2, ShortSeqs
    <3>. HIDE DEF s
    <3>3. \A i \in DOMAIN s : \A n \in DOMAIN s[i].value : n \in DOMAIN notes /\ s[i].value[n] = Snapshot(notes[n])
      BY <2>2, <3>1 DEF Rows
    <3>. QED  BY <3>2, <3>3 DEF RowsOf
  <2>4. \A n \in Nat : \A r \in Written(n)' : r \in Written(n) \/ (n \in DOMAIN notes /\ r = Snapshot(notes[n]))
    <3>. HIDE DEF N, s
    <3>1. TAKE n \in Nat
    <3>2. TAKE r \in Written(n)'
    <3>3. r \in RowsIn(disk.notes, queue', n)
      BY <2>1, <3>2 DEF Written
    <3>4. CASE queue' = queue
      BY <3>3, <3>4 DEF Written
    <3>5. CASE queue' = queue \o s
      <4>1. r \in RowsIn(disk.notes, queue \o s, n) /\ queue \in Seq(WriteOps)
        BY <3>3, <3>5 DEF Typed, QueueTyped
      <4>. QED  BY <2>3, <4>1, RowsAppended DEF Written
    <3>. QED  BY <2>1, <3>4, <3>5
  <2>. QED  BY <2>1, <2>4, FewerRows
<1>2. CASE Closed \/ Opened
  <2>1. UNCHANGED <<held, fresh, ops, notes, disk, queue>>
    BY <1>2 DEF Closed, Opened, history, db, tables
  <2>. QED  BY <2>1, FewerRows DEF Written
<1>3. CASE Crash
  <2>1. UNCHANGED <<held, fresh, ops>> /\ notes' = Nothing /\ queue' = << >>
    BY <1>3 DEF Crash, NoTables
  <2>2. ASSUME NEW n \in Nat, NEW r \in Written(n)' PROVE r \in Written(n)
    <3>1. r \in RowsIn(disk'.notes, << >>, n)
      BY <2>1, <2>2 DEF Written
    <3>2. CASE disk' = disk
      <4>1. r \in RowsIn(disk.notes, << >>, n)
        BY <3>1, <3>2
      <4>2. n \in DOMAIN disk.notes /\ r = disk.notes[n]
        BY <4>1, RowIs
      <4>. QED  BY <4>2, RowIs DEF Written
    <3>3. CASE disk' # disk
      <4>1. queue # << >> /\ IsRows(Op) /\ \E N \in SUBSET DOMAIN Op.value : disk' = SomeRows(N)
        BY <1>3, <3>3 DEF Crash, Writing, Part
      <4>2. \E N \in SUBSET DOMAIN Op.value : disk'.notes = SomeRows(N).notes
        BY <4>1
      <4>. QED  BY <3>1, <4>1, <4>2, WriterRows
    <3>. QED  BY <3>2, <3>3
  <2>. QED  BY <2>1, <2>2, FewerRows
<1>4. CASE OpenAborts
  <2>1. UNCHANGED <<held, fresh, ops, disk>> /\ notes' = Nothing
    BY <1>4 DEF OpenAborts, NoTables
  <2>2. PICK sent \in 0..Len(queue) : queue' = SubSeq(queue, 1, sent)
    BY <1>4 DEF OpenAborts
  <2>3. \A i \in DOMAIN queue' : i \in DOMAIN queue /\ queue'[i] = queue[i]
    BY <2>2, PrefixIs DEF Typed, QueueTyped
  <2>4. ASSUME NEW n \in Nat, NEW r \in Written(n)' PROVE r \in Written(n)
    <3>1. r \in RowsIn(disk.notes, queue', n)
      BY <2>1, <2>4 DEF Written
    <3>2. r \in RowsIn(disk.notes, queue, n)
      BY <2>3, <3>1, RowIs
    <3>. QED  BY <3>2 DEF Written
  <2>. QED  BY <2>1, <2>4, FewerRows
<1>. QED  BY <1>1, <1>2, <1>3, <1>4

\* A note as it is loaded is a row of the disk, or the note of a first installation.
LEMMA LoadedNote ==
    ASSUME Typed, NEW n \in DOMAIN OpenedNotes(disk)
    PROVE  /\ OpenedNotes(disk)[n] \in Note
           /\ \/ n \in DOMAIN disk.notes /\ Same(disk.notes[n], OpenedNotes(disk)[n])
              \/ OpenedNotes(disk)[n].doc = NoDoc /\ OpenedNotes(disk)[n].ver = 0
<1>. DEFINE old == SeededNotes(disk)[n]
            new == OpenedNotes(disk)[n]
<1>1. n \in DOMAIN SeededNotes(disk) /\ \E x, f : new = [old EXCEPT !.space = x, !.folder = f]
  BY DEF OpenedNotes
<1>2. NoteTable(SeededNotes(disk)) /\ NoteTable(OpenedNotes(disk))
  BY LoadTyped, SeededTyped DEF Typed, TypeOK, IsDisk, NoteTable
<1>3. old \in Note /\ new \in Note
  BY <1>1, <1>2, TableEntry DEF NoteTable
<1>4. new.doc = old.doc /\ new.ver = old.ver /\ new.push = old.push
  BY <1>1, <1>3 DEF Note
<1>5. (n \in DOMAIN disk.notes /\ old = disk.notes[n]) \/ (old.doc = NoDoc /\ old.ver = 0)
  BY <1>1 DEF SeededNotes, Only, Edited, NewNote
<1>. QED  BY <1>3, <1>4, <1>5 DEF Same

\* With nothing queued before it, a start makes no row that the disk does not have.
LEMMA OpenFlagged ==
    ASSUME Typed, Typed', Flagged, Open \/ OpenDeaf \/ OpenFails \/ FallsBack
    PROVE  Flagged'
<1>1. queue = << >> /\ UNCHANGED <<disk, held, fresh, ops>>
  BY DEF Open, OpenDeaf, OpenFails, FallsBack, InMemory, Started, Typed, Counted
<1>2. ASSUME NEW n \in DOMAIN notes'
      PROVE  /\ n \in Nat
             /\ \/ n \in DOMAIN disk.notes /\ Same(disk.notes[n], notes'[n])
                \/ notes'[n].doc = NoDoc /\ notes'[n].ver = 0
  <2>0. n \in Nat
    BY DEF Typed, TypeOK, IsTable
  <2>1. CASE Open
    <3>1. n \in DOMAIN OpenedNotes(disk) /\ notes'[n] = Snapshot(OpenedNotes(disk)[n])
      BY <2>1, OpenSends
    <3>. QED  BY <2>0, <3>1, LoadedNote, SnapshotIs DEF Same
  <2>2. CASE OpenDeaf
    <3>1. n \in DOMAIN OpenedNotes(disk) /\ notes'[n] = OpenedNotes(disk)[n]
      BY <2>2 DEF OpenDeaf, Load
    <3>. QED  BY <2>0, <3>1, LoadedNote
  <2>3. CASE OpenFails \/ FallsBack
    BY <2>0, <2>3 DEF OpenFails, FallsBack, InMemory, Only, NewNote
  <2>. QED  BY <2>1, <2>2, <2>3
<1>3. ASSUME NEW n \in Nat, NEW r \in Written(n)'
      PROVE  (n \in DOMAIN disk.notes /\ r = disk.notes[n]) \/ (n \in DOMAIN notes' /\ r = notes'[n])
  <2>1. r \in RowsIn(disk.notes, queue', n)
    BY <1>1, <1>3 DEF Written
  <2>2. CASE queue' = << >>
    <3>1. r \in RowsIn(disk.notes, << >>, n)
      BY <2>1, <2>2
    <3>. QED  BY <3>1, RowIs
  <2>3. CASE Open
    <3>. DEFINE loaded == OpenedNotes(disk)
                R == [table |-> "notes", value |-> [m \in Dirty(loaded) |-> notes'[m]]]
                l1 == Whole("spaces", spaces')
                l2 == Whole("folders", folders')
                l3 == Whole("blobs", blobs')
                lists == <<l1, l2, l3>>
                more == IF Dirty(loaded) # {} THEN <<R>> ELSE << >>
                w == lists \o more
    <3>1. queue' = w
      BY <2>3 DEF Open
    <3>2. IsRows(R) /\ DOMAIN R.value = Dirty(loaded) /\ \A m \in Dirty(loaded) : R.value[m] = notes'[m]
      BY DEF IsRows
    <3>3. ~IsRows(l1) /\ ~IsRows(l2) /\ ~IsRows(l3)
      BY KindOfOp
    <3>4. Dirty(loaded) \subseteq DOMAIN notes'
      BY <2>3, OpenSends DEF Dirty
    <3>. HIDE DEF R, l1, l2, l3, loaded
    <3>5. \A i \in DOMAIN w : w[i] = l1 \/ w[i] = l2 \/ w[i] = l3 \/ w[i] = R
      <4>. DEFINE S == {l1, l2, l3, R}
      <4>1. l1 \in S /\ l2 \in S /\ l3 \in S /\ R \in S
        OBVIOUS
      <4>. HIDE DEF S
      <4>2. lists \in Seq(S) /\ more \in Seq(S)
        BY <4>1, ShortSeqs
      <4>3. \A j \in DOMAIN lists : lists[j] = l1 \/ lists[j] = l2 \/ lists[j] = l3
        OBVIOUS
      <4>4. \A j \in DOMAIN more : more[j] = R
        OBVIOUS
      <4>. HIDE DEF lists, more
      <4>5. Joins(w, lists, more)
        BY <4>2, ConcatElements
      <4>. HIDE DEF w
      <4>. QED  BY <4>3, <4>4, <4>5 DEF Joins
    <3>. HIDE DEF w
    <3>6. r \in RowsIn(disk.notes, w, n)
      BY <2>1, <3>1
    <3>7. \/ n \in DOMAIN disk.notes /\ r = disk.notes[n]
          \/ \E i \in DOMAIN w : IsRows(w[i]) /\ n \in DOMAIN w[i].value /\ r = w[i].value[n]
      BY <3>6, RowIs
    <3>. QED  BY <3>2, <3>3, <3>4, <3>5, <3>7
  <2>. QED  BY <1>1, <2>2, <2>3 DEF OpenDeaf, OpenFails, FallsBack, InMemory
<1>4. ASSUME NEW n \in Nat, NEW r \in Copies(n)'
      PROVE  \/ \E q \in Copies(n) : Same(q, r)
             \/ r.doc = NoDoc /\ r.ver = 0
  <2>1. n \in DOMAIN disk.notes => disk.notes[n] \in Copies(n)
    BY RowIs DEF Copies, Written
  <2>2. (n \in DOMAIN disk.notes /\ r = disk.notes[n]) \/ (n \in DOMAIN notes' /\ r = notes'[n])
    BY <1>3, <1>4 DEF Copies
  <2>. QED  BY <1>2, <2>1, <2>2 DEF Same
<1>5. \A n \in Nat : \A r \in Copies(n)' : Honest(r)'
  <2>1. ops \in Nat
    BY Counts
  <2>. QED  BY <1>1, <1>4, <2>1 DEF Flagged, Honest, Same
<1>6. \A m, n \in Nat : \A q \in Copies(m)', r \in Copies(n)' : q.doc = r.doc /\ r.doc # NoDoc => m = n
  <2>1. TAKE m, n \in Nat
  <2>2. TAKE q \in Copies(m)', r \in Copies(n)'
  <2>3. HAVE q.doc = r.doc /\ r.doc # NoDoc
  <2>4. PICK q0 \in Copies(m) : q0.doc = q.doc
    BY <1>4, <2>3 DEF Same
  <2>5. PICK r0 \in Copies(n) : r0.doc = r.doc
    BY <1>4, <2>3 DEF Same
  <2>. QED  BY <2>3, <2>4, <2>5 DEF Flagged
<1>7. \A n \in DOMAIN notes' : \A r \in Copies(n)' :
        r.doc = notes'[n].doc /\ r.doc # NoDoc => r.ver <= notes'[n].ver
  <2>1. TAKE n \in DOMAIN notes'
  <2>2. TAKE r \in Copies(n)'
  <2>3. HAVE r.doc = notes'[n].doc /\ r.doc # NoDoc
  <2>4. n \in Nat /\ notes'[n] \in Note /\ notes'[n].ver \in Nat
    <3>1. NoteTable(notes')
      BY DEF Typed, TypeOK, NoteTable
    <3>2. n \in Nat /\ notes'[n] \in Note
      BY <3>1, TableEntry DEF NoteTable
    <3>. QED  BY <3>2, BoundsAssumption DEF Note
  <2>5. n \in DOMAIN disk.notes /\ Same(disk.notes[n], notes'[n])
    BY <1>2, <2>3
  <2>6. (n \in DOMAIN disk.notes /\ r = disk.notes[n]) \/ r = notes'[n]
    BY <1>3, <2>2, <2>4 DEF Copies
  <2>. QED  BY <2>4, <2>5, <2>6 DEF Same
<1>. QED  BY <1>1, <1>5, <1>6, <1>7 DEF Flagged

LEMMA InitFlagged ==
    ASSUME Init
    PROVE  Flagged
<1>. DEFINE d == disk
<1>1. /\ d \in Profiles /\ queue = << >> /\ DOMAIN notes = {} /\ ops = 0 /\ fresh = Used
      /\ held = [k \in {d.notes[n].doc : n \in DOMAIN d.notes} |-> 0]
  BY DEF Init, Nothing
<1>2. \A n \in DOMAIN d.notes :
        /\ d.notes[n].ver = 0 /\ d.notes[n].doc <= Used
        /\ \A m \in DOMAIN d.notes : m # n => d.notes[m].doc # d.notes[n].doc \/ d.notes[n].doc = NoDoc
  BY <1>1, ProfilesAssumption
<1>3. ASSUME NEW n \in Nat, NEW r \in Copies(n) PROVE n \in DOMAIN d.notes /\ r = d.notes[n]
  <2>1. r \in RowsIn(d.notes, << >>, n)
    BY <1>1, <1>3 DEF Copies, Written
  <2>. QED  BY <2>1, RowIs
<1>4. \A k \in DOMAIN held : k <= fresh
  BY <1>1, <1>2
<1>5. \A n \in DOMAIN d.notes : d.notes[n].doc \in DOMAIN held /\ held[d.notes[n].doc] = 0
  BY <1>1
<1>6. \A n \in Nat : \A r \in Copies(n) : Honest(r)
  BY <1>1, <1>2, <1>3, <1>5 DEF Honest
<1>7. \A m, n \in Nat : \A q \in Copies(m), r \in Copies(n) : q.doc = r.doc /\ r.doc # NoDoc => m = n
  BY <1>2, <1>3
<1>. QED  BY <1>1, <1>4, <1>6, <1>7 DEF Flagged

LEMMA FlaggedHolds == Spec => []Flagged
<1>1. Init => Flagged
  BY InitFlagged
<1>2. ASSUME Typed, Typed', Flagged, [Next]_vars PROVE Flagged'
  <2>1. CASE UNCHANGED vars
    <3>1. UNCHANGED <<held, fresh, ops, notes, disk, queue>>
      BY <2>1 DEF vars, history, db, tables
    <3>. QED  BY <1>2, <3>1, FewerRows DEF Written
  <2>2. CASE Lifecycle
    BY <1>2, <2>2, EndFlagged, OpenFlagged DEF Lifecycle
  <2>. QED  BY <1>2, <2>1, <2>2, OperationsFlagged, WriterFlagged DEF Next
<1>. QED  BY <1>1, <1>2, TypedHolds, PTL DEF Spec

-----------------------------------------------------------------------------
(* Whatever a crash or a failed write leaves on the disk, a row of a note    *)
(* that is mapped to a document and has no needs_push holds no edit that the *)
(* server lacks: flag and text are one snapshot, and the flag falls only for *)
(* an edit that the server has (note.rs Note::snapshot, flush_note;          *)
(* sync/app.rs set_needs_push).                                              *)
THEOREM FlagsAreSaved == Spec => []FlagIsSaved
<1>1. Typed /\ Flagged => FlagIsSaved
  <2>1. ASSUME Typed, Flagged, NEW n \in DOMAIN disk.notes, disk.notes[n].doc # NoDoc, ~disk.notes[n].push
        PROVE  disk.notes[n].ver <= held[disk.notes[n].doc]
    <3>1. n \in Nat
      BY <2>1 DEF Typed, TypeOK, IsDisk, IsTable
    <3>2. disk.notes[n] \in Copies(n)
      BY RowIs DEF Copies, Written
    <3>. QED  BY <2>1, <3>1, <3>2 DEF Flagged, Honest
  <2>. QED  BY <2>1 DEF FlagIsSaved
<1>. QED  BY <1>1, TypedHolds, FlaggedHolds, PTL

-----------------------------------------------------------------------------
(* Every variable keeps its type: all that is in memory, waits for the       *)
(* writer or is stored are finite tables of typed rows, and the bounds are   *)
(* bounds.                                                                   *)
THEOREM TypesCorrect == Spec => []TypeOK
<1>1. Typed => TypeOK
  BY DEF Typed
<1>. QED  BY <1>1, TypedHolds, PTL
-----------------------------------------------------------------------------
(* The lists: what the writer believes is stored, and the versions of a list *)
(* that are on the disk and on the way to it.                                *)

\* With IndexedDB a failed write leaves the writer with a wrong picture of the disk.
Believed == kind = "sqlite" \/ ~broken
\* The cache of IndexedDB is what is stored, but for the lists that a failed write left aside.
CacheTrue ==
    kind = "idb" =>
        /\ ~broken => lostTables = {}
        /\ phase \in {"opening", "open"} \/ queue # << >> => \A t \in TableNames \ lostTables : cache[t] = disk[t]
Memory(t) == IF t = "spaces" THEN spaces ELSE IF t = "folders" THEN folders
             ELSE IF t = "blobs" THEN blobs ELSE allowEmpty
Versions(t) == {disk[t]} \cup {queue[i].value : i \in {j \in DOMAIN queue : queue[j].table = t}}

LEMMA VersionIs ==
    ASSUME NEW t, NEW v
    PROVE  v \in Versions(t) <=> v = disk[t] \/ \E i \in DOMAIN queue : queue[i].table = t /\ v = queue[i].value
BY DEF Versions

LEMMA PutSame ==
    ASSUME NEW K, NEW R, NEW old, NEW new, IsTable(old, K, R), IsTable(new, K, R)
    PROVE  Put(old, old, new) = new
<1>. DEFINE put == {k \in DOMAIN new : k \notin DOMAIN old \/ old[k] # new[k]}
            both == Put(old, old, new)
<1>1. both = [k \in (DOMAIN old \ (DOMAIN old \ DOMAIN new)) \cup put |->
                IF k \in put THEN new[k] ELSE old[k]]
  BY DEF Put, Over, Without
<1>2. (DOMAIN old \ (DOMAIN old \ DOMAIN new)) \cup put = DOMAIN new
  OBVIOUS
<1>3. both = [k \in DOMAIN new |-> IF k \in put THEN new[k] ELSE old[k]]
  <2>. HIDE DEF put, both
  <2>. QED  BY <1>1, <1>2
<1>4. \A k \in DOMAIN new : (IF k \in put THEN new[k] ELSE old[k]) = new[k]
  OBVIOUS
<1>5. new = [k \in DOMAIN new |-> new[k]]
  BY DEF IsTable
<1>. HIDE DEF put, both
<1>6. both = [k \in DOMAIN new |-> new[k]]
  BY <1>3, <1>4
<1>. QED  BY <1>5, <1>6 DEF both

LEMMA DiskFields ==
    ASSUME NEW d, IsDisk(d)
    PROVE  /\ \A v : [d EXCEPT !.notes = v].notes = v
           /\ \A v : \A t \in TableNames : [d EXCEPT !.notes = v][t] = d[t]
           /\ \A t \in TableNames : \A v :
                /\ [d EXCEPT ![t] = v][t] = v /\ [d EXCEPT ![t] = v].notes = d.notes
                /\ \A u \in TableNames \ {t} : [d EXCEPT ![t] = v][u] = d[u]
BY DEF IsDisk, TableNames

\* A write of a list puts the list, where the writer is not mistaken about it.
LEMMA AppliedList ==
    ASSUME Typed, NEW op \in WriteOps,
           kind = "idb" /\ IsList(op) => cache[op.table] = disk[op.table]
    PROVE  /\ \A t \in TableNames :
                Applied(disk, op)[t] = IF op.table = t THEN op.value ELSE disk[t]
           /\ IsList(op) => /\ Applied(disk, op).notes = disk.notes
                            /\ Applied(disk, op) = [disk EXCEPT ![op.table] = op.value]
           /\ IsRows(op) => Applied(disk, op).notes = Over(disk.notes, op.value)
           /\ IsGone(op) => Applied(disk, op).notes = Without(disk.notes, op.gone)
<1>1. IsDisk(disk) /\ "notes" \notin TableNames
  BY DEF Typed, TypeOK, TableNames
<1>2. CASE IsRows(op)
  <2>1. Applied(disk, op) = [disk EXCEPT !.notes = Over(disk.notes, op.value)]
    BY <1>2, WriteOpIs DEF Applied, IsRows
  <2>. QED  BY <1>1, <1>2, <2>1, DiskFields DEF IsRows, IsList, IsGone
<1>3. CASE IsGone(op)
  <2>1. Applied(disk, op) = [disk EXCEPT !.notes = Without(disk.notes, op.gone)]
    BY <1>3, WriteOpIs DEF Applied, IsList, IsGone
  <2>. QED  BY <1>1, <1>3, <2>1, DiskFields DEF IsRows, IsList, IsGone
<1>4. CASE IsList(op)
  <2>1. op.table \in TableNames /\ ~IsRows(op) /\ ~IsGone(op)
    BY <1>4, WriteOpIs DEF IsGone
  <2>2. Applied(disk, op) = [disk EXCEPT ![op.table] = op.value]
    <3>1. CASE kind = "idb" /\ op.table # "allowEmpty"
      <4>1. Applied(disk, op) = [disk EXCEPT ![op.table] = Put(disk[op.table], cache[op.table], op.value)]
        BY <1>4, <2>1, <3>1 DEF Applied, IsList, IsRows
      <4>2. Put(disk[op.table], disk[op.table], op.value) = op.value
        <5>1. CASE op.table = "spaces"
          <6>1. IsTable(disk.spaces, SpaceIds, Space) /\ IsTable(op.value, SpaceIds, Space)
            BY <1>1, <5>1, WriteOpIs DEF IsDisk
          <6>. QED  BY <5>1, <6>1, PutSame
        <5>2. CASE op.table = "folders"
          <6>1. IsTable(disk.folders, Ids \ {NoFolder}, Folder) /\ IsTable(op.value, Ids \ {NoFolder}, Folder)
            BY <1>1, <5>2, WriteOpIs DEF IsDisk
          <6>. QED  BY <5>2, <6>1, PutSame
        <5>3. CASE op.table = "blobs"
          <6>1. IsTable(disk.blobs, Ids, Blob) /\ IsTable(op.value, Ids, Blob)
            BY <1>1, <5>3, WriteOpIs DEF IsDisk
          <6>. QED  BY <5>3, <6>1, PutSame
        <5>. QED  BY <2>1, <3>1, <5>1, <5>2, <5>3 DEF TableNames
      <4>. QED  BY <1>4, <3>1, <4>1, <4>2
    <3>2. CASE ~(kind = "idb" /\ op.table # "allowEmpty")
      BY <1>4, <2>1, <3>2 DEF Applied, IsList, IsRows
    <3>. QED  BY <3>1, <3>2
  <2>. QED  BY <1>1, <2>1, <2>2, DiskFields
<1>. QED  BY <1>2, <1>3, <1>4 DEF IsGone

\* What a failed or unfinished write leaves on the disk.
LEMMA SomeRowsIs ==
    ASSUME Typed, NEW N
    PROVE  /\ \A t \in TableNames : SomeRows(N)[t] = disk[t]
           /\ SomeRows(N).notes = Over(disk.notes, [n \in N |-> Op.value[n]])
<1>1. IsDisk(disk)
  BY DEF Typed, TypeOK
<1>. QED  BY <1>1, DiskFields DEF SomeRows

LEMMA CacheTrueStep ==
    ASSUME Typed, CacheTrue, [Next]_vars
    PROVE  CacheTrue'
<1>1. ASSUME SpaceOps \/ FolderOps \/ NoteOps \/ BlobOps \/ FlushNotes PROVE CacheTrue'
  <2>1. /\ UNCHANGED <<kind, phase, cache, disk, broken, lostTables>>
        /\ phase # "open" => queue' = queue
    <3>1. Typed'
      BY NextTyped
    <3>2. PICK s : Sends(s)
      BY <1>1, <3>1, OperationsSend
    <3>. QED  BY <1>1, <3>2, StoreStill DEF Sends, Send
  <2>. QED  BY <2>1 DEF CacheTrue
<1>2. CASE Writer
  <2>1. /\ Op \in WriteOps /\ kind' = kind /\ phase' = phase /\ queue # << >>
        /\ (kind = "idb" => cache' = Cached(Op))
    BY <1>2, OpIs DEF Writer, WriteOk, WriteFails, Rest, Writing
  <2>2. ASSUME kind = "idb" PROVE ~broken' => lostTables' = {}
    BY <1>2, <2>2 DEF CacheTrue, Writer, WriteOk, WriteFails, Rest
  <2>3. ASSUME kind = "idb", NEW t \in TableNames \ lostTables' PROVE cache'[t] = disk'[t]
    <3>1. t \notin lostTables /\ cache[t] = disk[t]
      BY <1>2, <2>1, <2>3 DEF CacheTrue, Writer, WriteOk, WriteFails
    <3>2. cache'[t] = IF Op.table = t THEN Op.value ELSE cache[t]
      <4>1. IsDisk(cache)
        BY DEF Typed, TypeOK
      <4>2. CASE IsList(Op)
        <5>1. cache' = [cache EXCEPT ![Op.table] = Op.value] /\ Op.table \in TableNames
          BY <2>1, <2>3, <4>2, WriteOpIs DEF Cached
        <5>. QED  BY <4>1, <5>1, DiskFields
      <4>3. CASE ~IsList(Op)
        <5>1. cache' = Applied(cache, Op) /\ Op.table = "notes"
          BY <2>1, <2>3, <4>3 DEF Cached, IsList
        <5>2. \E v : cache' = [cache EXCEPT !.notes = v]
          BY <2>1, <4>3, <5>1, WriteOpIs DEF Applied, IsList, IsRows
        <5>. QED  BY <4>1, <5>1, <5>2, DiskFields DEF TableNames
      <4>. QED  BY <4>2, <4>3
    <3>3. CASE WriteOk
      <4>1. disk' = Applied(disk, Op)
        BY <3>3 DEF WriteOk
      <4>2. CASE IsList(Op) /\ Op.table \in lostTables
        <5>1. Op.table # t
          BY <3>1, <4>2
        <5>2. \E v : disk' = [disk EXCEPT ![Op.table] = v]
          BY <2>1, <4>1, <4>2, WriteOpIs DEF Applied, IsList, IsRows
        <5>3. IsDisk(disk) /\ Op.table \in TableNames
          BY <2>1, <4>2, WriteOpIs DEF Typed, TypeOK
        <5>. QED  BY <3>1, <3>2, <5>1, <5>2, <5>3, DiskFields
      <4>3. CASE IsList(Op) => Op.table \notin lostTables
        <5>1. IsList(Op) => cache[Op.table] = disk[Op.table]
          BY <2>1, <2>3, <4>3, WriteOpIs DEF CacheTrue
        <5>2. disk'[t] = IF Op.table = t THEN Op.value ELSE disk[t]
          BY <2>1, <4>1, <5>1, AppliedList
        <5>. QED  BY <3>1, <3>2, <5>2
      <4>. QED  BY <4>2, <4>3
    <3>4. CASE WriteFails
      <4>1. PICK N : disk' = IF N = {} THEN disk ELSE SomeRows(N)
        BY <3>4 DEF WriteFails
      <4>2. disk'[t] = disk[t]
        BY <4>1, SomeRowsIs
      <4>3. Op.table # t
        BY <2>3, <3>4 DEF WriteFails, IsList, TableNames
      <4>. QED  BY <3>1, <3>2, <4>2, <4>3
    <3>. QED  BY <1>2, <3>3, <3>4 DEF Writer
  <2>. QED  BY <2>1, <2>2, <2>3 DEF CacheTrue
<1>3. CASE Close
  <2>1. /\ UNCHANGED <<kind, cache, disk, broken, lostTables>>
        /\ phase # "open" => queue' = queue
    BY <1>3 DEF Close, Send, history
  <2>. QED  BY <1>3, <2>1 DEF Close, CacheTrue
<1>4. CASE Open
  BY <1>4 DEF Open, Started, CacheTrue
<1>5. CASE Closed \/ Crash \/ OpenDeaf \/ OpenFails \/ FallsBack
  <2>1. queue' = << >> /\ phase' \notin {"opening", "open"} /\ kind' = kind
    BY <1>5 DEF Closed, Crash, OpenDeaf, OpenFails, FallsBack, InMemory, Started, Typed, Counted
  <2>2. ~broken' => ~broken /\ lostTables' \in {lostTables, {}}
    BY <1>5 DEF Closed, Crash, OpenDeaf, OpenFails, FallsBack, InMemory, Started, history
  <2>. QED  BY <2>1, <2>2 DEF CacheTrue
<1>6. CASE UNCHANGED vars
  BY <1>6 DEF vars, history, CacheTrue
<1>7. CASE Opened \/ OpenAborts
  BY <1>7 DEF Opened, OpenAborts, CacheTrue
<1>. QED  BY <1>1, <1>2, <1>3, <1>4, <1>5, <1>6, <1>7 DEF Next, Lifecycle

LEMMA CacheHolds == Spec => []CacheTrue
<1>1. Init => CacheTrue
  BY DEF Init, CacheTrue
<1>. QED  BY <1>1, CacheTrueStep, TypedHolds, PTL DEF Spec

\* A step of the writer makes no version of a list.
LEMMA WriterVersions ==
    ASSUME Typed, CacheTrue, Believed', Writer, NEW t \in TableNames, NEW v \in Versions(t)'
    PROVE  v \in Versions(t)
<1>1. Op \in WriteOps /\ Op = queue[1] /\ 1 \in DOMAIN queue /\ queue \in Seq(WriteOps) /\ queue' = Tail(queue)
  <2>1. Writing /\ Rest
    BY DEF Writer, WriteOk, WriteFails
  <2>. QED  BY <2>1, OpIs DEF Typed, QueueTyped
<1>2. disk'[t] \in Versions(t)
  <2>1. CASE WriteOk
    <3>1. kind = "idb" /\ IsList(Op) => cache[Op.table] = disk[Op.table]
      BY <1>1, <2>1, WriteOpIs DEF CacheTrue, Believed, WriteOk, Rest
    <3>2. disk'[t] = IF Op.table = t THEN Op.value ELSE disk[t]
      BY <1>1, <2>1, <3>1, AppliedList DEF WriteOk
    <3>. QED  BY <1>1, <3>2, VersionIs
  <2>2. CASE WriteFails
    <3>1. PICK N : disk' = IF N = {} THEN disk ELSE SomeRows(N)
      BY <2>2 DEF WriteFails
    <3>2. disk'[t] = disk[t]
      BY <3>1, SomeRowsIs
    <3>. QED  BY <3>2, VersionIs
  <2>. QED  BY <2>1, <2>2 DEF Writer
<1>3. ASSUME NEW i \in DOMAIN queue', queue'[i].table = t, v = queue'[i].value
      PROVE  v \in Versions(t)
  <2>1. i + 1 \in DOMAIN queue /\ queue[i + 1] = queue'[i]
    BY <1>1
  <2>. QED  BY <1>3, <2>1, VersionIs
<1>4. v = disk'[t] \/ \E i \in DOMAIN queue' : queue'[i].table = t /\ v = queue'[i].value
  BY DEF Versions
<1>. QED  BY <1>2, <1>3, <1>4

LEMMA VersionsMove ==
    ASSUME Typed, Typed', CacheTrue, Believed', [Next]_vars,
           NEW t \in {"folders", "blobs"}, NEW v \in Versions(t)'
    PROVE  v \in Versions(t) \/ v = Memory(t)'
<1>0. v = disk'[t] \/ \E i \in DOMAIN queue' : queue'[i].table = t /\ v = queue'[i].value
  BY DEF Versions
<1>1. ASSUME disk' = disk, NEW s, queue' = queue \o s, s \in Seq(WriteOps),
             \A i \in DOMAIN s : s[i].table = t => s[i].value = Memory(t)'
      PROVE  v \in Versions(t) \/ v = Memory(t)'
  <2>1. Joins(queue', queue, s)
    BY <1>1, ConcatElements DEF Typed, QueueTyped
  <2>. QED  BY <1>0, <1>1, <2>1, VersionIs DEF Joins
<1>2. ASSUME disk' = disk, queue' = queue PROVE v \in Versions(t)
  BY <1>0, <1>2, VersionIs
<1>3. CASE SpaceOps \/ FolderOps \/ NoteOps \/ BlobOps \/ FlushNotes
  <2>1. disk' = disk
    BY <1>3, StoreStill
  <2>2. PICK s : Sends(s)
    BY <1>3, OperationsSend
  <2>3. s \in Seq(WriteOps) /\ \A i \in DOMAIN s : s[i].table = t => s[i].value = Memory(t)'
    BY <2>2 DEF Sends, ListsSent, Memory
  <2>. QED  BY <1>1, <1>2, <2>1, <2>2, <2>3 DEF Sends, Send
<1>4. CASE Writer
  BY <1>4, WriterVersions DEF TableNames
<1>5. CASE Close
  <2>. DEFINE s == IF Dirty(notes) # {} THEN <<Rows(Dirty(notes))>> ELSE << >>
  <2>1. disk' = disk /\ (queue' = queue \o s \/ queue' = queue)
    BY <1>5 DEF Close, Send
  <2>2. s \in Seq(WriteOps)
    <3>1. Dirty(notes) \subseteq DOMAIN notes
      BY DEF Dirty
    <3>2. Rows(Dirty(notes)) \in WriteOps
      BY <3>1, RowsTyped
    <3>. QED  BY <3>2, ShortSeqs
  <2>3. \A i \in DOMAIN s : s[i].table = "notes"
    BY DEF Rows
  <2>. HIDE DEF s
  <2>. QED  BY <1>1, <1>2, <2>1, <2>2, <2>3
<1>6. CASE Crash
  <2>1. disk'[t] = disk[t]
    BY <1>6, SomeRowsIs DEF Crash, TableNames
  <2>2. DOMAIN queue' = {}
    BY <1>6 DEF Crash
  <2>. QED  BY <1>0, <2>1, <2>2, VersionIs
<1>7. CASE Open
  <2>. DEFINE R == [table |-> "notes", value |-> [n \in Dirty(OpenedNotes(disk)) |-> notes'[n]]]
              l1 == Whole("spaces", spaces')
              l2 == Whole("folders", folders')
              l3 == Whole("blobs", blobs')
              lists == <<l1, l2, l3>>
              more == IF Dirty(OpenedNotes(disk)) # {} THEN <<R>> ELSE << >>
              S == {l1, l2, l3, R}
  <2>1. queue' = lists \o more /\ disk' = disk
    BY <1>7 DEF Open, Started
  <2>2. /\ l1.table = "spaces" /\ l2.table = "folders" /\ l3.table = "blobs" /\ R.table = "notes"
        /\ l2.value = folders' /\ l3.value = blobs'
    BY DEF Whole
  <2>. HIDE DEF l1, l2, l3, R
  <2>3. l1 \in S /\ l2 \in S /\ l3 \in S /\ R \in S
    OBVIOUS
  <2>. HIDE DEF S
  <2>4. lists \in Seq(S) /\ more \in Seq(S)
    BY <2>3, ShortSeqs
  <2>5. \A j \in DOMAIN lists : lists[j] = l1 \/ lists[j] = l2 \/ lists[j] = l3
    OBVIOUS
  <2>6. \A j \in DOMAIN more : more[j] = R
    OBVIOUS
  <2>. HIDE DEF lists, more
  <2>7. Joins(queue', lists, more)
    BY <2>1, <2>4, ConcatElements
  <2>8. \A i \in DOMAIN queue' : queue'[i] = l1 \/ queue'[i] = l2 \/ queue'[i] = l3 \/ queue'[i] = R
    BY <2>5, <2>6, <2>7 DEF Joins
  <2>. QED  BY <1>0, <2>1, <2>2, <2>8, VersionIs DEF Memory
<1>8. CASE Closed \/ Opened \/ OpenDeaf \/ OpenFails \/ FallsBack \/ UNCHANGED vars
  BY <1>2, <1>8 DEF Closed, Opened, OpenDeaf, OpenFails, FallsBack, InMemory, Started, vars
<1>9. CASE OpenAborts
  <2>1. disk' = disk /\ \E sent \in 0..Len(queue) : queue' = SubSeq(queue, 1, sent)
    BY <1>9 DEF OpenAborts
  <2>2. \A i \in DOMAIN queue' : i \in DOMAIN queue /\ queue'[i] = queue[i]
    BY <2>1, PrefixIs DEF Typed, QueueTyped
  <2>. QED  BY <1>0, <2>1, <2>2, VersionIs
<1>. QED  BY <1>3, <1>4, <1>5, <1>6, <1>7, <1>8, <1>9 DEF Next, Lifecycle

LEMMA BelievedBefore ==
    ASSUME Typed, Believed', [Next]_vars
    PROVE  Believed
<1>1. ASSUME SpaceOps \/ FolderOps \/ NoteOps \/ BlobOps \/ FlushNotes PROVE Believed
  BY <1>1, StoreStill DEF Believed
<1>2. CASE Writer
  BY <1>2 DEF Writer, WriteOk, WriteFails, Rest, Believed
<1>3. CASE Lifecycle
  BY <1>3 DEF Lifecycle, Close, Closed, Crash, Open, Opened, OpenAborts, OpenDeaf, OpenFails,
              FallsBack, InMemory, Started, history, Believed
<1>4. CASE UNCHANGED vars
  BY <1>4 DEF vars, history, Believed
<1>. QED  BY <1>1, <1>2, <1>3, <1>4 DEF Next
-----------------------------------------------------------------------------
(* OwnImagesUnique. *)

\* It holds of every version of the list: the one in memory, those queued, the stored one.
Images == Believed => OneOfEachImage(blobs) /\ \A v \in Versions("blobs") : OneOfEachImage(v)

\* Neither of two images has from a user a name or a content that the other has.
Distinct(x, y) ==
    /\ x.name = y.name => "name" \in x.theirs \cup y.theirs
    /\ x.hash = y.hash => "content" \in x.theirs \cup y.theirs
SameImage(x, y) ==
    x.space = y.space /\ x.name = y.name /\ x.hash = y.hash /\ x.theirs = y.theirs

\* At most image b is new or changed.
LEMMA ImagesKept ==
    ASSUME NEW bs, NEW cs, NEW b, OneOfEachImage(bs),
           \A c \in DOMAIN cs \ {b} :
               /\ c \in DOMAIN bs /\ SameImage(cs[c], bs[c])
               /\ b \in DOMAIN cs /\ cs[c].space = cs[b].space => Distinct(cs[c], cs[b])
    PROVE  OneOfEachImage(cs)
<1>. SUFFICES ASSUME NEW c \in DOMAIN cs, NEW e \in DOMAIN cs, c # e, cs[c].space = cs[e].space
              PROVE  Distinct(cs[c], cs[e])
  BY DEF OneOfEachImage, Distinct
<1>1. CASE e = b
  BY <1>1
<1>2. CASE c = b
  <2>1. Distinct(cs[e], cs[b])
    BY <1>2
  <2>. QED  BY <1>2, <2>1 DEF Distinct
<1>3. CASE c # b /\ e # b
  BY <1>3 DEF OneOfEachImage, Distinct, SameImage
<1>. QED  BY <1>1, <1>2, <1>3

LEMMA BlobOpsImages ==
    ASSUME Typed, BlobOps, OneOfEachImage(blobs)
    PROVE  OneOfEachImage(blobs')
<1>1. \A b \in DOMAIN blobs : blobs[b] \in Blob
  BY TablesTyped
<1>2. ASSUME NEW b, NEW blob, blobs' = Over(blobs, Only(b, blob)),
             \A c \in DOMAIN blobs : blobs[c].space = blob.space => Distinct(blobs[c], blob)
      PROVE  OneOfEachImage(blobs')
  <2>1. /\ DOMAIN blobs' = DOMAIN blobs \cup {b} /\ blobs'[b] = blob
        /\ \A c \in DOMAIN blobs' \ {b} : c \in DOMAIN blobs /\ blobs'[c] = blobs[c]
    BY <1>2 DEF Over, Only
  <2>. QED  BY <1>2, <2>1, ImagesKept DEF SameImage
<1>3. ASSUME NEW b \in DOMAIN blobs, NEW blob, blobs' = [blobs EXCEPT ![b] = blob],
             \A c \in DOMAIN blobs \ {b} : blobs[c].space = blob.space => Distinct(blobs[c], blob)
      PROVE  OneOfEachImage(blobs')
  <2>1. /\ DOMAIN blobs' = DOMAIN blobs /\ blobs'[b] = blob
        /\ \A c \in DOMAIN blobs' \ {b} : c \in DOMAIN blobs /\ blobs'[c] = blobs[c]
    BY <1>3, TablesTyped DEF BlobTable, IsTable
  <2>. QED  BY <1>3, <2>1, ImagesKept DEF SameImage
<1>4. ASSUME NEW b \in DOMAIN blobs, NEW blob, blobs' = [blobs EXCEPT ![b] = blob],
             SameImage(blob, blobs[b])
      PROVE  OneOfEachImage(blobs')
  BY <1>3, <1>4 DEF OneOfEachImage, SameImage, Distinct
<1>5. ASSUME NEW s \in DOMAIN spaces, NEW name \in Names, NEW hash \in Hashes, CreateBlob(s, name, hash)
      PROVE  OneOfEachImage(blobs')
  <2>. DEFINE same == {b \in DOMAIN blobs : blobs[b].space = s /\ blobs[b].hash = hash}
              unique == UniqueName(blobs, s, name)
              new == [space |-> s, folder |-> NoFolder, name |-> unique, hash |-> hash,
                      bytes |-> TRUE, push |-> TRUE, theirs |-> {}]
  <2>1. CASE same = {} /\ blobs' = Over(blobs, Only(fresh', new))
    <3>1. ~Taken(blobs, s, unique)
      BY ImagesAssumption, TablesTyped, UniqueNameFree DEF BlobTable
    <3>2. \A b \in DOMAIN blobs : blobs[b].space = s => blobs[b].name # unique /\ blobs[b].hash # hash
      BY <2>1, <3>1 DEF Taken
    <3>3. new.space = s /\ new.name = unique /\ new.hash = hash
      OBVIOUS
    <3>. HIDE DEF new, unique
    <3>. QED  BY <1>2, <2>1, <3>2, <3>3 DEF Distinct
  <2>2. ASSUME NEW b \in same, blobs' = [blobs EXCEPT ![b].bytes = TRUE]
        PROVE  OneOfEachImage(blobs')
    <3>1. SameImage([blobs[b] EXCEPT !.bytes = TRUE], blobs[b])
      BY <1>1 DEF Blob, SameImage
    <3>. QED  BY <1>4, <2>2, <3>1
  <2>. QED  BY <1>5, <2>1, <2>2 DEF CreateBlob
<1>6. ASSUME NEW b \in DOMAIN blobs, NEW name \in Names, RenameBlob(b, name)
      PROVE  OneOfEachImage(blobs')
  <2>. DEFINE unique == UniqueName(blobs, blobs[b].space, name)
              new == [blobs[b] EXCEPT !.name = unique, !.push = TRUE,
                                      !.theirs = blobs[b].theirs \ {"name"}]
  <2>1. ~Taken(blobs, blobs[b].space, unique)
    BY ImagesAssumption, TablesTyped, UniqueNameFree DEF BlobTable
  <2>2. \A c \in DOMAIN blobs : blobs[c].space = blobs[b].space => blobs[c].name # unique
    BY <2>1 DEF Taken
  <2>3. blobs' = [blobs EXCEPT ![b] = new]
    BY <1>6 DEF RenameBlob
  <2>4. /\ new.space = blobs[b].space /\ new.name = unique /\ new.hash = blobs[b].hash
        /\ new.theirs = blobs[b].theirs \ {"name"}
    <3>. HIDE DEF unique
    <3>. QED  BY <1>1 DEF Blob
  <2>. HIDE DEF new, unique
  <2>5. \A c \in DOMAIN blobs \ {b} : blobs[c].space = new.space => Distinct(blobs[c], new)
    <3>1. TAKE c \in DOMAIN blobs \ {b}
    <3>2. HAVE blobs[c].space = new.space
    <3>3. blobs[c].name # unique
      BY <2>2, <2>4, <3>2
    <3>4. blobs[c].hash = blobs[b].hash => "content" \in blobs[c].theirs \cup blobs[b].theirs
      BY <2>4, <3>2 DEF OneOfEachImage
    <3>. QED  BY <2>4, <3>3, <3>4 DEF Distinct
  <2>. QED  BY <1>3, <2>3, <2>5
<1>7. ASSUME NEW b \in DOMAIN blobs, NEW f, SetBlobFolder(b, f) \/ ClearBlobPush(b) \/ SetBlobBytes(b)
      PROVE  OneOfEachImage(blobs')
  <2>. DEFINE moved == [[blobs[b] EXCEPT !.folder = f] EXCEPT !.push = TRUE]
              cleared == [blobs[b] EXCEPT !.push = FALSE]
              filled == [blobs[b] EXCEPT !.bytes = TRUE]
  <2>1. \/ blobs' = [blobs EXCEPT ![b] = moved]
        \/ blobs' = [blobs EXCEPT ![b] = cleared]
        \/ blobs' = [blobs EXCEPT ![b] = filled]
    BY <1>7, TablesTyped DEF SetBlobFolder, ClearBlobPush, SetBlobBytes, BlobTable, IsTable
  <2>2. SameImage(moved, blobs[b]) /\ SameImage(cleared, blobs[b]) /\ SameImage(filled, blobs[b])
    BY <1>1 DEF Blob, SameImage
  <2>. HIDE DEF moved, cleared, filled
  <2>. QED  BY <1>4, <2>1, <2>2
<1>8. ASSUME NEW b \in DOMAIN blobs, DeleteBlob(b) PROVE OneOfEachImage(blobs')
  <2>1. blobs' = Without(blobs, {b})
    BY <1>8 DEF DeleteBlob
  <2>. QED  BY <2>1, ImagesKept DEF Without, SameImage
<1>9. ASSUME NEW s \in DOMAIN spaces, NEW b \in DOMAIN blobs \cup {fresh + 1}, NEW name \in Names,
             NEW hash \in Hashes, NEW f, UpsertBlob(s, b, name, hash, f)
      PROVE  OneOfEachImage(blobs')
  <2>1. CASE b \in DOMAIN blobs
    <3>. DEFINE given == blobs[b].theirs \cup (IF blobs[b].name = name THEN {} ELSE {"name"})
                new == [blobs[b] EXCEPT !.name = name, !.folder = f, !.theirs = given]
    <3>1. blobs' = [blobs EXCEPT ![b] = new]
      BY <1>9, <2>1 DEF UpsertBlob
    <3>2. /\ new.space = blobs[b].space /\ new.name = name /\ new.hash = blobs[b].hash
          /\ new.theirs = given
      <4>. HIDE DEF given
      <4>. QED  BY <1>1, <2>1 DEF Blob
    <3>3. blobs[b].theirs \subseteq given /\ (blobs[b].name # name => "name" \in given)
      OBVIOUS
    <3>. HIDE DEF new, given
    <3>4. \A c \in DOMAIN blobs \ {b} : blobs[c].space = new.space => Distinct(blobs[c], new)
      <4>1. TAKE c \in DOMAIN blobs \ {b}
      <4>2. HAVE blobs[c].space = new.space
      <4>3. Distinct(blobs[c], blobs[b])
        BY <2>1, <3>2, <4>2 DEF OneOfEachImage, Distinct
      <4>. QED  BY <3>2, <3>3, <4>3 DEF Distinct
    <3>. QED  BY <1>3, <2>1, <3>1, <3>4
  <2>2. CASE b \notin DOMAIN blobs
    <3>. DEFINE new == [space |-> s, folder |-> f, name |-> name, hash |-> hash,
                        bytes |-> FALSE, push |-> FALSE, theirs |-> {"name", "content"}]
    <3>1. blobs' = Over(blobs, Only(b, new))
      BY <1>9, <2>2 DEF UpsertBlob
    <3>2. \A c \in DOMAIN blobs : Distinct(blobs[c], new)
      BY DEF Distinct
    <3>. HIDE DEF new
    <3>. QED  BY <1>2, <3>1, <3>2
  <2>. QED  BY <2>1, <2>2
<1>. QED  BY <1>5, <1>6, <1>7, <1>8, <1>9 DEF BlobOps

LEMMA ImagesStep ==
    ASSUME Typed, Typed', CacheTrue, Images, [Next]_vars
    PROVE  Images'
<1>. SUFFICES ASSUME Believed'
              PROVE  OneOfEachImage(blobs') /\ \A v \in Versions("blobs")' : OneOfEachImage(v)
  BY DEF Images
<1>1. OneOfEachImage(blobs) /\ \A v \in Versions("blobs") : OneOfEachImage(v)
  BY BelievedBefore DEF Images
<1>2. OneOfEachImage(blobs')
  <2>0. OneOfEachImage(Nothing)
    BY DEF OneOfEachImage, Nothing
  <2>1. CASE BlobOps
    BY <1>1, <2>1, BlobOpsImages
  <2>2. CASE SpaceOps \/ FolderOps \/ NoteOps \/ FlushNotes
    <3>1. ASSUME SpaceOps PROVE blobs' = blobs
      BY <3>1 DEF SpaceOps, CreateSpace, BindSpace, UnbindSpace, DeleteSpace
    <3>2. ASSUME FolderOps PROVE blobs' = blobs
      BY <3>2 DEF FolderOps, CreateFolder, AdoptFolder, MarkFolder, DeleteFolder, SetFolderParent,
                  MoveFolderToSpace, OnlyFolders
    <3>3. ASSUME NoteOps PROVE blobs' = blobs
      BY <3>3 DEF NoteOps, CreateNoteAndSpace, CreateNote, CreateNoteFromRemote, Import, EditNote,
                  TouchNote, DeleteNote, MapNote, Acknowledge, MoveNoteToSpace, SetNoteFolder,
                  ChangeNote, Deferred
    <3>4. ASSUME FlushNotes PROVE blobs' = blobs
      BY <3>4 DEF FlushNotes, Autosave, FlushNote, Flush
    <3>. QED  BY <1>1, <2>2, <3>1, <3>2, <3>3, <3>4
  <2>3. CASE Writer \/ UNCHANGED vars
    BY <1>1, <2>3 DEF Writer, WriteOk, WriteFails, Rest, vars, db, tables
  <2>4. CASE Close \/ Crash \/ OpenFails \/ OpenAborts \/ FallsBack
    BY <2>0, <2>4 DEF Close, Crash, OpenFails, OpenAborts, FallsBack, InMemory, NoTables
  <2>5. CASE Closed \/ Opened
    BY <1>1, <2>5 DEF Closed, Opened, db, tables
  <2>6. CASE Open \/ OpenDeaf
    <3>1. blobs' = OpenedBlobs(disk)
      BY <2>6 DEF Open, OpenDeaf, Load
    <3>2. OneOfEachImage(disk.blobs)
      BY <1>1, VersionIs
    <3>. QED  BY <3>1, <3>2 DEF OpenedBlobs, Without, OneOfEachImage
  <2>. QED  BY <2>1, <2>2, <2>3, <2>4, <2>5, <2>6 DEF Next, Lifecycle
<1>3. ASSUME NEW v \in Versions("blobs")' PROVE OneOfEachImage(v)
  <2>1. v \in Versions("blobs") \/ v = Memory("blobs")'
    BY VersionsMove
  <2>2. Memory("blobs")' = blobs'
    BY DEF Memory
  <2>. QED  BY <1>1, <1>2, <2>1, <2>2
<1>. QED  BY <1>2, <1>3

-----------------------------------------------------------------------------
(* No name that is given here and no content that is pasted here is that of  *)
(* another image of the space, in memory and after every start, for any      *)
(* number of images, entries of the index, renames, crashes and failed       *)
(* writes: of two images with one name or content, one has it from a peer.   *)
(* The list is written whole, and each version of it has the property        *)
(* (note.rs create_blob_in, rename_blob, unique_blob_name,                   *)
(* upsert_blob_meta_from_remote, finish_open).                               *)
THEOREM OwnImagesStayUnique == Spec => []OwnImagesUnique
<1>1. Init => Images
  <2>. SUFFICES ASSUME Init PROVE Images
    OBVIOUS
  <2>1. OneOfEachImage(blobs) /\ OneOfEachImage(disk.blobs) /\ DOMAIN queue = {}
    BY ProfilesAssumption DEF Init, OneOfEachImage, Nothing
  <2>. QED  BY <2>1 DEF Images, Versions
<1>2. Typed /\ Typed' /\ CacheTrue /\ Images /\ [Next]_vars => Images'
  BY ImagesStep
<1>3. Images => OwnImagesUnique
  BY DEF Images, OwnImagesUnique, Believed
<1>. QED  BY <1>1, <1>2, <1>3, TypedHolds, CacheHolds, PTL DEF Spec
-----------------------------------------------------------------------------
(* TreeOK: forests. *)

\* Sound, in its parts.
InTree(sp, fs, folder) ==
    /\ folder.space \in DOMAIN sp
    /\ folder.theirs \/ folder.parent = NoFolder \/ FolderIn(fs, folder.parent, folder.space)
InPlace(sp, fs, note) ==
    /\ note.space \in DOMAIN sp
    /\ note.folder = NoFolder \/ FolderIn(fs, note.folder, note.space)
Settled(sp, fs) == \A f \in DOMAIN fs : InTree(sp, fs, fs[f])
Housed(sp, fs, ns) == \A n \in DOMAIN ns : InPlace(sp, fs, ns[n])

LEMMA SoundIs ==
    ASSUME NEW sp, NEW fs, NEW ns
    PROVE  Sound(sp, fs, ns) <=> Acyclic(fs) /\ Settled(sp, fs) /\ Housed(sp, fs, ns)
BY DEF Sound, Settled, Housed, InTree, InPlace

LEMMA SubtreeIs ==
    ASSUME NEW fs, NEW f \in DOMAIN fs
    PROVE  /\ f \in Subtree(fs, f) /\ Subtree(fs, f) \subseteq DOMAIN fs
           /\ \A g \in DOMAIN fs : fs[g].parent \in Subtree(fs, f) => g \in Subtree(fs, f)
           /\ \A g \in Subtree(fs, f) \ {f} : fs[g].parent \in Subtree(fs, f)
<1>. DEFINE T == Subtree(fs, f)
<1>1. f \in T /\ T \subseteq DOMAIN fs
  BY DEF Subtree
<1>2. ASSUME NEW g \in DOMAIN fs, fs[g].parent \in T PROVE g \in T
  <2>1. ASSUME NEW S \in SUBSET DOMAIN fs, f \in S, DownClosed(fs, S) PROVE g \in S
    BY <1>2, <2>1 DEF Subtree, DownClosed
  <2>. QED  BY <2>1 DEF Subtree
\* Were its parent not in it, the subtree would be closed without g.
<1>3. ASSUME NEW g \in T \ {f}, fs[g].parent \notin T PROVE FALSE
  <2>. DEFINE S == T \ {g}
  <2>1. f \in S /\ S \in SUBSET DOMAIN fs
    BY <1>1
  <2>2. DownClosed(fs, S)
    <3>. HIDE DEF T
    <3>. QED  BY <1>2, <1>3 DEF DownClosed
  <2>3. \A S0 \in SUBSET DOMAIN fs : f \in S0 /\ DownClosed(fs, S0) => g \in S0
    BY DEF Subtree
  <2>4. g \in S
    <3>. HIDE DEF S
    <3>. QED  BY <2>1, <2>2, <2>3
  <2>. QED  BY <2>4
<1>. QED  BY <1>1, <1>2, <1>3

\* Fewer folders, or some moved to the root.
LEMMA AcyclicKept ==
    ASSUME NEW fs, NEW gs, Acyclic(fs), NoFolder \notin DOMAIN fs, DOMAIN gs \subseteq DOMAIN fs,
           \A g \in DOMAIN gs : \/ gs[g].parent = fs[g].parent /\ gs[g].theirs = fs[g].theirs
                                \/ gs[g].parent = NoFolder
    PROVE  Acyclic(gs)
<1>. SUFFICES ASSUME NEW S \in SUBSET DOMAIN gs, S # {}
              PROVE  \E f \in S : gs[f].theirs \/ gs[f].parent \notin S
  BY DEF Acyclic
<1>1. S \in SUBSET DOMAIN fs
  OBVIOUS
<1>2. PICK f \in S : fs[f].theirs \/ fs[f].parent \notin S
  BY <1>1 DEF Acyclic
<1>. QED  BY <1>2

\* A folder that was not there: if it was a parent before, a peer gave it.
LEMMA AcyclicMore ==
    ASSUME NEW sp, NEW fs, NEW new, NEW v, Acyclic(fs), Settled(sp, fs),
           new \notin DOMAIN fs, new # NoFolder, v.parent # new
    PROVE  Acyclic(Over(fs, Only(new, v)))
<1>. DEFINE gs == Over(fs, Only(new, v))
<1>1. /\ DOMAIN gs = DOMAIN fs \cup {new} /\ gs[new] = v
      /\ \A g \in DOMAIN fs : gs[g] = fs[g]
  BY DEF Over, Only
<1>. HIDE DEF gs
<1>. SUFFICES ASSUME NEW S \in SUBSET DOMAIN gs, S # {}
              PROVE  \E f \in S : gs[f].theirs \/ gs[f].parent \notin S
  BY DEF Acyclic, gs
<1>2. CASE S \ {new} = {}
  BY <1>1, <1>2
<1>3. CASE S \ {new} # {}
  <2>1. S \ {new} \in SUBSET DOMAIN fs
    BY <1>1
  <2>2. PICK g \in S \ {new} : fs[g].theirs \/ fs[g].parent \notin S \ {new}
    BY <1>3, <2>1 DEF Acyclic
  <2>3. fs[g].theirs \/ fs[g].parent # new
    BY <2>1 DEF Settled, InTree, FolderIn
  <2>. QED  BY <1>1, <2>1, <2>2, <2>3
<1>. QED  BY <1>2, <1>3

\* A folder whose parent a peer gives.
LEMMA AcyclicGiven ==
    ASSUME NEW fs, Acyclic(fs), NoFolder \notin DOMAIN fs, NEW f, f # NoFolder, NEW v,
           v.theirs \/ v.parent = NoFolder
    PROVE  Acyclic(Over(fs, Only(f, v)))
<1>. DEFINE gs == Over(fs, Only(f, v))
<1>1. /\ DOMAIN gs = DOMAIN fs \cup {f} /\ gs[f] = v
      /\ \A g \in DOMAIN fs \ {f} : gs[g] = fs[g]
  BY DEF Over, Only
<1>. HIDE DEF gs
<1>. SUFFICES ASSUME NEW S \in SUBSET DOMAIN gs, S # {}
              PROVE  \E g \in S : gs[g].theirs \/ gs[g].parent \notin S
  BY DEF Acyclic, gs
<1>2. CASE f \in S
  BY <1>1, <1>2
<1>3. CASE f \notin S
  <2>1. S \in SUBSET DOMAIN fs
    BY <1>1, <1>3
  <2>2. PICK g \in S : fs[g].theirs \/ fs[g].parent \notin S
    BY <2>1 DEF Acyclic
  <2>. QED  BY <1>1, <1>3, <2>1, <2>2
<1>. QED  BY <1>2, <1>3

\* A folder moves to one that is not below it.
LEMMA AcyclicMoved ==
    ASSUME NEW fs, FolderTable(fs), Acyclic(fs), NEW f \in DOMAIN fs, NEW p, p \notin Subtree(fs, f),
           NEW gs, DOMAIN gs = DOMAIN fs, gs[f].parent = p,
           \A g \in DOMAIN fs \ {f} : gs[g] = fs[g]
    PROVE  Acyclic(gs)
<1>. DEFINE T == Subtree(fs, f)
<1>1. f \in T /\ p \notin T /\ \A g \in DOMAIN fs : fs[g].parent \in T => g \in T
  BY SubtreeIs
<1>. HIDE DEF T
<1>. SUFFICES ASSUME NEW S \in SUBSET DOMAIN gs, S # {}
              PROVE  \E g \in S : gs[g].theirs \/ gs[g].parent \notin S
  BY DEF Acyclic
<1>2. CASE S \ T # {}
  <2>1. PICK g \in S \ T : fs[g].theirs \/ fs[g].parent \notin S \ T
    BY <1>2 DEF Acyclic
  <2>. QED  BY <1>1, <2>1
<1>3. CASE S \subseteq T
  <2>1. PICK g \in S : fs[g].theirs \/ fs[g].parent \notin S
    BY DEF Acyclic
  <2>. QED  BY <1>1, <1>3, <2>1
<1>. QED  BY <1>2, <1>3

LEMMA PlacesKept ==
    ASSUME NEW sp, NEW fs, NEW sp2, NEW fs2, DOMAIN sp \subseteq DOMAIN sp2,
           \A f \in DOMAIN fs : f \in DOMAIN fs2 /\ fs2[f].space = fs[f].space
    PROVE  /\ \A note : InPlace(sp, fs, note) => InPlace(sp2, fs2, note)
           /\ \A folder : InTree(sp, fs, folder) => InTree(sp2, fs2, folder)
BY DEF InPlace, InTree, FolderIn

LEMMA NotesKept ==
    ASSUME NEW sp, NEW fs, NEW ns, Housed(sp, fs, ns), NEW ns2,
           \A n \in DOMAIN ns2 : \/ n \in DOMAIN ns /\ ns2[n].space = ns[n].space
                                                   /\ ns2[n].folder = ns[n].folder
                                 \/ InPlace(sp, fs, ns2[n])
    PROVE  Housed(sp, fs, ns2)
BY DEF Housed, InPlace
-----------------------------------------------------------------------------
(* TreeOK: operations. *)

LEMMA FolderIds ==
    ASSUME Typed
    PROVE  NoFolder \notin DOMAIN folders /\ FolderTable(folders) /\ fresh \in Nat
BY TablesTyped, ZeroIsId DEF FolderTable, IsTable, Typed, TypeOK

\* No folder has the identifier that is made next.
FoldersLow(fs, k) == \A f \in DOMAIN fs : f <= k
\* The tables are sound, and a start from any mixture of versions is: each list of folders is
\* a forest of its own.
Trees ==
    Believed =>
        /\ Sound(spaces, folders, notes) /\ FoldersLow(folders, fresh)
        /\ \A v \in Versions("folders") : Acyclic(v) /\ FoldersLow(v, fresh)

LEMMA SpaceOpsSound ==
    ASSUME Typed, Sound(spaces, folders, notes), SpaceOps
    PROVE  Sound(spaces', folders', notes')
<1>. USE SoundIs
<1>1. ASSUME DOMAIN spaces \subseteq DOMAIN spaces', folders' = folders,
             \A n \in DOMAIN notes' : n \in DOMAIN notes /\ notes'[n].space = notes[n].space
                                                       /\ notes'[n].folder = notes[n].folder
      PROVE  Sound(spaces', folders', notes')
  <2>1. Housed(spaces, folders, notes')
    BY <1>1, NotesKept
  <2>2. /\ \A note : InPlace(spaces, folders, note) => InPlace(spaces', folders', note)
        /\ \A folder : InTree(spaces, folders, folder) => InTree(spaces', folders', folder)
    BY <1>1, PlacesKept
  <2>. QED  BY <1>1, <2>1, <2>2 DEF Housed, Settled
<1>2. CASE CreateSpace
  BY <1>1, <1>2 DEF CreateSpace, Over, Only
<1>3. ASSUME NEW s \in DOMAIN spaces, NEW u, Rebound(s, u) PROVE DOMAIN spaces' = DOMAIN spaces
  BY <1>3 DEF Rebound
<1>4. ASSUME NEW s \in DOMAIN spaces, BindSpace(s) PROVE Sound(spaces', folders', notes')
  BY <1>1, <1>3, <1>4 DEF BindSpace
<1>5. ASSUME NEW s \in DOMAIN spaces, UnbindSpace(s) PROVE Sound(spaces', folders', notes')
  <2>1. \A n \in DOMAIN notes :
            LET new == [notes[n] EXCEPT !.doc = NoDoc, !.push = FALSE, !.dirty = TRUE]
            IN  new.space = notes[n].space /\ new.folder = notes[n].folder
    BY TablesTyped DEF Note
  <2>2. \A n \in DOMAIN notes' : n \in DOMAIN notes /\ notes'[n].space = notes[n].space
                                                   /\ notes'[n].folder = notes[n].folder
    BY <1>5, <2>1 DEF UnbindSpace
  <2>3. folders' = folders /\ Rebound(s, FALSE)
    BY <1>5 DEF UnbindSpace
  <2>. QED  BY <1>1, <1>3, <2>2, <2>3
<1>6. ASSUME NEW s \in DOMAIN spaces, DeleteSpace(s) PROVE Sound(spaces', folders', notes')
  <2>1. /\ DOMAIN spaces' = DOMAIN spaces \ {s}
        /\ \A f \in DOMAIN folders' : f \in DOMAIN folders /\ folders'[f] = folders[f] /\ folders[f].space # s
        /\ \A f \in DOMAIN folders : folders[f].space # s => f \in DOMAIN folders'
        /\ \A n \in DOMAIN notes' : n \in DOMAIN notes /\ notes'[n] = notes[n] /\ notes[n].space # s
    BY <1>6 DEF DeleteSpace, OutsideSpace, Without
  <2>2. Acyclic(folders')
    BY <2>1, FolderIds, AcyclicKept
  <2>3. Settled(spaces', folders')
    BY <2>1 DEF Settled, InTree, FolderIn
  <2>4. Housed(spaces', folders', notes')
    BY <2>1 DEF Housed, InPlace, FolderIn
  <2>. QED  BY <2>2, <2>3, <2>4
<1>. QED  BY <1>2, <1>4, <1>5, <1>6 DEF SpaceOps

\* A folder that was not there, in a space or a folder of it.
LEMMA MoreFolders ==
    ASSUME Typed, Sound(spaces, folders, notes), FoldersLow(folders, fresh),
           NEW s \in DOMAIN spaces, NEW p, CanCreateFolder(spaces, folders, s, p), NEW fs,
           fs = Over(folders, Only(fresh + 1, NewFolder(s, p)))
    PROVE  /\ Acyclic(fs) /\ Settled(spaces, fs) /\ FoldersLow(fs, fresh + 1)
           /\ \A f \in DOMAIN folders : f \in DOMAIN fs /\ fs[f].space = folders[f].space
           /\ FolderIn(fs, fresh + 1, s)
<1>. DEFINE new == fresh + 1
            v == NewFolder(s, p)
<1>1. new \notin DOMAIN folders /\ new # NoFolder /\ v.space = s /\ v.parent = p
  BY FolderIds DEF FoldersLow, NoFolder, NewFolder
<1>2. p # new
  BY <1>1 DEF CanCreateFolder, FolderIn
<1>3. /\ DOMAIN fs = DOMAIN folders \cup {new} /\ fs[new] = v
      /\ \A f \in DOMAIN folders : fs[f] = folders[f]
  BY <1>1 DEF Over, Only
<1>4. Acyclic(folders) /\ Settled(spaces, folders) /\ fresh \in Nat
  BY SoundIs, FolderIds
<1>. HIDE DEF new, v
<1>5. Acyclic(fs)
  BY <1>1, <1>2, <1>4, AcyclicMore DEF new, v
<1>6. Settled(spaces, fs)
  <2>1. \A folder : InTree(spaces, folders, folder) => InTree(spaces, fs, folder)
    BY <1>3, PlacesKept
  <2>2. InTree(spaces, folders, v)
    BY <1>1 DEF InTree, CanCreateFolder
  <2>. QED  BY <1>3, <1>4, <2>1, <2>2 DEF Settled
<1>7. FoldersLow(fs, new)
  <2>1. \A f \in DOMAIN folders : f \in Nat
    BY TablesTyped, ZeroIsId
  <2>. QED  BY <1>3, <1>4, <2>1 DEF FoldersLow, new
<1>. QED  BY <1>1, <1>3, <1>5, <1>6, <1>7 DEF FolderIn, new

LEMMA FolderOpsSound ==
    ASSUME Typed, Sound(spaces, folders, notes), FoldersLow(folders, fresh), FolderOps
    PROVE  Sound(spaces', folders', notes') /\ FoldersLow(folders', fresh')
<1>0. /\ Acyclic(folders) /\ Settled(spaces, folders) /\ Housed(spaces, folders, notes)
      /\ NoFolder \notin DOMAIN folders /\ FolderTable(folders) /\ fresh \in Nat
      /\ \A f \in DOMAIN folders : folders[f] \in Folder
      /\ \A n \in DOMAIN notes : notes[n] \in Note
  BY SoundIs, FolderIds, TablesTyped
<1>1. ASSUME NEW s \in DOMAIN spaces, NEW p, CreateFolder(s, p)
      PROVE  Sound(spaces', folders', notes') /\ FoldersLow(folders', fresh')
  <2>1. /\ UNCHANGED <<spaces, notes>> /\ fresh' = fresh + 1
        /\ CanCreateFolder(spaces, folders, s, p)
        /\ folders' = Over(folders, Only(fresh + 1, NewFolder(s, p)))
    BY <1>1 DEF CreateFolder, NewUuid
  <2>2. /\ Acyclic(folders') /\ Settled(spaces, folders') /\ FoldersLow(folders', fresh + 1)
        /\ \A f \in DOMAIN folders : f \in DOMAIN folders' /\ folders'[f].space = folders[f].space
    BY <2>1, MoreFolders
  <2>3. \A note : InPlace(spaces, folders, note) => InPlace(spaces, folders', note)
    BY <2>2, PlacesKept
  <2>. QED  BY <1>0, <2>1, <2>2, <2>3, SoundIs DEF Housed
<1>2. ASSUME NEW f \in DOMAIN folders, NEW u, MarkFolder(f, u)
      PROVE  Sound(spaces', folders', notes') /\ FoldersLow(folders', fresh')
  <2>1. /\ UNCHANGED <<spaces, notes, fresh>>
        /\ DOMAIN folders' = DOMAIN folders
        /\ \A g \in DOMAIN folders : /\ folders'[g].space = folders[g].space
                                     /\ folders'[g].parent = folders[g].parent
                                     /\ folders'[g].theirs = folders[g].theirs
    BY <1>0, <1>2 DEF MarkFolder, OnlyFolders, NoUuid, Folder, FolderTable, IsTable
  <2>2. Acyclic(folders')
    BY <1>0, <2>1, AcyclicKept
  <2>. QED  BY <1>0, <2>1, <2>2, SoundIs DEF Settled, Housed, InTree, InPlace, FolderIn, FoldersLow
<1>3. ASSUME NEW f \in DOMAIN folders, DeleteFolder(f)
      PROVE  Sound(spaces', folders', notes') /\ FoldersLow(folders', fresh')
  <2>. DEFINE T == Subtree(folders, f)
  <2>1. \A g \in DOMAIN folders : folders[g].parent \in T => g \in T
    BY SubtreeIs
  <2>2. /\ spaces' = spaces /\ fresh' = fresh
        /\ DOMAIN folders' = DOMAIN folders \ T
        /\ \A g \in DOMAIN folders' : folders'[g] = folders[g]
    BY <1>3 DEF DeleteFolder, OnlyFolders, NoUuid, FoldersWithout, Without
  <2>3. \A n \in DOMAIN notes' : /\ n \in DOMAIN notes /\ notes'[n].space = notes[n].space
                                 /\ notes'[n].folder = IF notes[n].folder \in T THEN NoFolder ELSE notes[n].folder
    <3>1. \A n \in DOMAIN notes :
            LET new == [notes[n] EXCEPT !.folder = NoFolder, !.fpush = TRUE, !.dirty = TRUE]
            IN  new.space = notes[n].space /\ new.folder = NoFolder
      BY <1>0 DEF Note
    <3>. QED  BY <1>3, <3>1 DEF DeleteFolder, NotesAtRoot
  <2>. HIDE DEF T
  <2>4. Acyclic(folders')
    BY <1>0, <2>2, AcyclicKept
  <2>5. Settled(spaces, folders')
    BY <1>0, <2>1, <2>2 DEF Settled, InTree, FolderIn
  <2>6. Housed(spaces, folders', notes')
    BY <1>0, <2>2, <2>3 DEF Housed, InPlace, FolderIn
  <2>. QED  BY <2>2, <2>4, <2>5, <2>6, SoundIs DEF FoldersLow
<1>4. ASSUME NEW f \in DOMAIN folders, NEW p, SetFolderParent(f, p)
      PROVE  Sound(spaces', folders', notes') /\ FoldersLow(folders', fresh')
  <2>1. /\ UNCHANGED <<spaces, notes, fresh>> /\ CanReparent(folders, f, p)
        /\ folders' = [folders EXCEPT ![f] = [folders[f] EXCEPT !.parent = p, !.push = TRUE, !.theirs = FALSE]]
    BY <1>4 DEF SetFolderParent, OnlyFolders, NoUuid, Reparented
  <2>2. LET new == [folders[f] EXCEPT !.parent = p, !.push = TRUE, !.theirs = FALSE]
        IN  new.space = folders[f].space /\ new.parent = p
    BY <1>0 DEF Folder
  <2>3. /\ DOMAIN folders' = DOMAIN folders
        /\ \A g \in DOMAIN folders : folders'[g].space = folders[g].space
        /\ \A g \in DOMAIN folders \ {f} : folders'[g] = folders[g]
        /\ folders'[f].parent = p
    BY <2>1, <2>2
  <2>4. p \notin Subtree(folders, f)
    BY <1>0, <2>1, SubtreeIs DEF CanReparent
  <2>5. Acyclic(folders')
    BY <1>0, <2>3, <2>4, AcyclicMoved
  <2>6. Settled(spaces, folders')
    <3>1. p = NoFolder \/ FolderIn(folders, p, folders[f].space)
      BY <2>1 DEF CanReparent
    <3>. QED  BY <1>0, <2>3, <3>1 DEF Settled, InTree, FolderIn
  <2>7. Housed(spaces, folders', notes)
    BY <1>0, <2>3 DEF Housed, InPlace, FolderIn
  <2>. QED  BY <2>1, <2>3, <2>5, <2>6, <2>7, SoundIs DEF FoldersLow
<1>5. ASSUME NEW f \in DOMAIN folders, NEW s \in DOMAIN spaces, MoveFolderToSpace(f, s)
      PROVE  Sound(spaces', folders', notes') /\ FoldersLow(folders', fresh')
  <2>. DEFINE T == Subtree(folders, f)
  <2>1. /\ f \in T /\ T \subseteq DOMAIN folders
        /\ \A g \in DOMAIN folders : folders[g].parent \in T => g \in T
        /\ \A g \in T \ {f} : folders[g].parent \in T
    BY SubtreeIs
  <2>2. /\ spaces' = spaces /\ fresh' = fresh
        /\ folders' = FoldersResettled(folders, f, s) /\ notes' = NotesResettled(notes, T, s)
    BY <1>5 DEF MoveFolderToSpace, OnlyFolders, NoUuid
  <2>3. /\ DOMAIN folders' = DOMAIN folders
        /\ \A g \in DOMAIN folders \ T : folders'[g] = folders[g]
        /\ \A g \in T : folders'[g].space = s
        /\ \A g \in T \ {f} : folders'[g].parent = folders[g].parent /\ folders'[g].theirs = folders[g].theirs
        /\ folders'[f].parent = NoFolder
    <3>1. \A g \in DOMAIN folders : \A p, u :
            LET new == [folders[g] EXCEPT !.space = s, !.push = TRUE, !.parent = p, !.theirs = u]
            IN  new.space = s /\ new.parent = p /\ new.theirs = u
      BY <1>0 DEF Folder
    <3>2. \A g \in T : folders'[g] = [folders[g] EXCEPT !.space = s, !.push = TRUE,
                                        !.parent = IF g = f THEN NoFolder ELSE folders[g].parent,
                                        !.theirs = g # f /\ folders[g].theirs]
      BY <2>1, <2>2 DEF FoldersResettled
    <3>3. DOMAIN folders' = DOMAIN folders /\ \A g \in DOMAIN folders \ T : folders'[g] = folders[g]
      BY <2>2 DEF FoldersResettled
    <3>. HIDE DEF T
    <3>4. \A g \in T : /\ folders'[g].space = s
                       /\ folders'[g].parent = IF g = f THEN NoFolder ELSE folders[g].parent
                       /\ folders'[g].theirs = (g # f /\ folders[g].theirs)
      <4>1. TAKE g \in T
      <4>. DEFINE p == IF g = f THEN NoFolder ELSE folders[g].parent
                  u == g # f /\ folders[g].theirs
      <4>2. folders'[g] = [folders[g] EXCEPT !.space = s, !.push = TRUE, !.parent = p, !.theirs = u]
        BY <3>2
      <4>. HIDE DEF p, u
      <4>3. folders'[g].space = s /\ folders'[g].parent = p /\ folders'[g].theirs = u
        BY <2>1, <3>1, <4>2
      <4>. QED  BY <4>3 DEF p, u
    <3>5. \A g \in T : folders[g].theirs \in BOOLEAN
      BY <1>0, <2>1 DEF Folder
    <3>. QED  BY <2>1, <3>3, <3>4, <3>5
  <2>4. \A n \in DOMAIN notes' : /\ n \in DOMAIN notes /\ notes'[n].folder = notes[n].folder
                                 /\ notes'[n].space = IF notes[n].folder \in T THEN s ELSE notes[n].space
    <3>1. \A n \in DOMAIN notes :
            Uprooted(notes[n], s).space = s /\ Uprooted(notes[n], s).folder = notes[n].folder
      BY <1>0 DEF Note, Uprooted
    <3>. QED  BY <2>2, <3>1 DEF NotesResettled
  <2>. HIDE DEF T
  <2>5. Acyclic(folders')
    <3>1. \A g \in DOMAIN folders' :
            \/ folders'[g].parent = folders[g].parent /\ folders'[g].theirs = folders[g].theirs
            \/ folders'[g].parent = NoFolder
      BY <2>3
    <3>. QED  BY <1>0, <2>3, <3>1, AcyclicKept
  <2>6. Settled(spaces, folders')
    <3>1. ASSUME NEW g \in T PROVE InTree(spaces, folders', folders'[g])
      BY <2>1, <2>3 DEF InTree, FolderIn
    <3>2. ASSUME NEW g \in DOMAIN folders \ T PROVE InTree(spaces, folders', folders'[g])
      BY <1>0, <2>1, <2>3 DEF Settled, InTree, FolderIn
    <3>. QED  BY <2>3, <3>1, <3>2 DEF Settled
  <2>7. Housed(spaces, folders', notes')
    <3>. SUFFICES ASSUME NEW n \in DOMAIN notes' PROVE InPlace(spaces, folders', notes'[n])
      BY DEF Housed
    <3>2. InPlace(spaces, folders, notes[n])
      BY <1>0, <2>4 DEF Housed
    <3>. QED  BY <2>1, <2>3, <2>4, <3>2 DEF InPlace, FolderIn
  <2>. QED  BY <2>2, <2>3, <2>5, <2>6, <2>7, SoundIs DEF FoldersLow
<1>6. ASSUME NEW s \in DOMAIN spaces, NEW f \in 1..(fresh + 1), NEW p, AdoptFolder(s, f, p)
      PROVE  Sound(spaces', folders', notes') /\ FoldersLow(folders', fresh')
  <2>. DEFINE above == IF p = f THEN NoFolder ELSE p
              home == IF f \in DOMAIN folders THEN folders[f].space ELSE s
              v == [space |-> home, parent |-> above, push |-> FALSE, theirs |-> above # NoFolder]
  <2>1. /\ UNCHANGED <<spaces, notes>> /\ fresh' = fresh + 2
        /\ folders' = Over(folders, Only(f, v))
    BY <1>6 DEF AdoptFolder, FolderAdopted
  <2>2. /\ DOMAIN folders' = DOMAIN folders \cup {f} /\ folders'[f] = v
        /\ \A g \in DOMAIN folders \ {f} : folders'[g] = folders[g]
    <3>. HIDE DEF v
    <3>. QED  BY <2>1 DEF Over, Only
  <2>3. home \in DOMAIN spaces
    BY <1>0 DEF Settled, InTree
  <2>4. v.space = home /\ (v.theirs \/ v.parent = NoFolder)
    <3>. HIDE DEF home, above
    <3>. QED  OBVIOUS
  <2>5. \A g \in DOMAIN folders : folders'[g].space = folders[g].space
    <3>1. f \in DOMAIN folders => v.space = folders[f].space
      BY <2>4
    <3>. HIDE DEF v
    <3>. QED  BY <2>2, <3>1
  <2>6. f # NoFolder /\ f \in Nat /\ f <= fresh'
    BY <1>0, <2>1 DEF NoFolder
  <2>. HIDE DEF v, home, above
  <2>7. Acyclic(folders')
    BY <1>0, <2>1, <2>4, <2>6, AcyclicGiven
  <2>8. /\ \A note : InPlace(spaces, folders, note) => InPlace(spaces, folders', note)
        /\ \A folder : InTree(spaces, folders, folder) => InTree(spaces, folders', folder)
    BY <2>2, <2>5, PlacesKept
  <2>9. Settled(spaces, folders')
    BY <1>0, <2>2, <2>3, <2>4, <2>8 DEF Settled, InTree
  <2>10. FoldersLow(folders', fresh')
    <3>1. \A g \in DOMAIN folders : g \in Nat
      BY TablesTyped, ZeroIsId
    <3>. QED  BY <1>0, <2>1, <2>2, <2>6, <3>1 DEF FoldersLow
  <2>. QED  BY <1>0, <2>1, <2>7, <2>8, <2>9, <2>10, SoundIs DEF Housed
<1>. QED  BY <1>1, <1>2, <1>3, <1>4, <1>5, <1>6 DEF FolderOps

\* The notes that an operation makes or moves are in their places.
LEMMA ChangeHoused ==
    ASSUME Typed, Housed(spaces, folders, notes), NEW n \in DOMAIN notes, NEW note,
           notes' = [notes EXCEPT ![n] = note], InPlace(spaces, folders, note)
    PROVE  Housed(spaces, folders, notes')
<1>1. DOMAIN notes' = DOMAIN notes
      /\ \A m \in DOMAIN notes : notes'[m] = IF m = n THEN note ELSE notes[m]
  BY TablesTyped DEF NoteTable, IsTable
<1>. QED  BY <1>1 DEF Housed

LEMMA NoteOpsSound ==
    ASSUME Typed, Sound(spaces, folders, notes), FoldersLow(folders, fresh), NoteOps
    PROVE  Sound(spaces', folders', notes') /\ FoldersLow(folders', fresh')
<1>0. /\ Acyclic(folders) /\ Settled(spaces, folders) /\ Housed(spaces, folders, notes)
      /\ \A n \in DOMAIN notes : notes[n] \in Note /\ InPlace(spaces, folders, notes[n])
      /\ \A f \in DOMAIN folders : f \in Nat
      /\ fresh \in Nat
  BY SoundIs, FolderIds, TablesTyped, ZeroIsId DEF Housed
<1>1. ASSUME UNCHANGED <<spaces, folders>>, Housed(spaces, folders, notes'), fresh' \in {fresh, fresh + 1, fresh + 2}
      PROVE  Sound(spaces', folders', notes') /\ FoldersLow(folders', fresh')
  <2>1. FoldersLow(folders, fresh')
    BY <1>0, <1>1 DEF FoldersLow
  <2>. QED  BY <1>0, <1>1, <2>1, SoundIs
<1>2. ASSUME NEW n \in DOMAIN notes, NEW note, ChangeNote(n, note), InPlace(spaces, folders, note),
             fresh' \in {fresh, fresh + 1, fresh + 2}
      PROVE  Sound(spaces', folders', notes') /\ FoldersLow(folders', fresh')
  <2>1. notes' = [notes EXCEPT ![n] = note] /\ UNCHANGED <<spaces, folders>>
    BY <1>2 DEF ChangeNote, Deferred
  <2>2. Housed(spaces, folders, notes')
    BY <1>0, <1>2, <2>1, ChangeHoused
  <2>. QED  BY <1>1, <1>2, <2>1, <2>2
<1>3. ASSUME NEW n, NEW note, notes' = Over(notes, Only(n, note)), InPlace(spaces, folders, note),
             UNCHANGED <<spaces, folders>>, fresh' \in {fresh, fresh + 1, fresh + 2}
      PROVE  Sound(spaces', folders', notes') /\ FoldersLow(folders', fresh')
  <2>1. Housed(spaces, folders, notes')
    BY <1>0, <1>3 DEF Over, Only, Housed
  <2>. QED  BY <1>1, <1>3, <2>1
<1>4. \A s \in DOMAIN spaces : InPlace(spaces, folders, NewNote(s))
  BY DEF InPlace, NewNote
<1>5. CASE CreateNoteAndSpace
  <2>. DEFINE s == nextSpace
  <2>1. /\ notes = Nothing /\ folders = Nothing
    <3>1. DOMAIN spaces = {}
      BY <1>5 DEF CreateNoteAndSpace, Nothing
    <3>2. DOMAIN notes = {} /\ DOMAIN folders = {}
      BY <1>0, <3>1 DEF Settled, InTree, InPlace
    <3>3. notes = [n \in DOMAIN notes |-> notes[n]] /\ folders = [f \in DOMAIN folders |-> folders[f]]
      BY TablesTyped DEF NoteTable, FolderTable, IsTable
    <3>. QED  BY <3>2, <3>3 DEF Nothing
  <2>2. /\ folders' = folders /\ fresh' = fresh
        /\ DOMAIN spaces' = {s}
        /\ \A n \in DOMAIN notes' : notes'[n] = Edited(NewNote(s), ops')
    BY <1>5, <2>1 DEF CreateNoteAndSpace, NoUuid, Only, Over, Nothing
  <2>3. Edited(NewNote(s), ops').space = s /\ Edited(NewNote(s), ops').folder = NoFolder
    BY DEF Edited, NewNote
  <2>4. Settled(spaces', folders') /\ Housed(spaces', folders', notes')
    BY <2>1, <2>2, <2>3 DEF Settled, Housed, InPlace, Nothing
  <2>. QED  BY <1>0, <2>2, <2>4, SoundIs
<1>6. ASSUME NEW s \in DOMAIN spaces, CreateNote(s)
      PROVE  Sound(spaces', folders', notes') /\ FoldersLow(folders', fresh')
  <2>1. InPlace(spaces, folders, Edited(NewNote(s), ops'))
    BY DEF InPlace, Edited, NewNote
  <2>. QED  BY <1>3, <1>6, <2>1 DEF CreateNote, Deferred, NoUuid
<1>7. ASSUME NEW s \in DOMAIN spaces, CreateNoteFromRemote(s)
      PROVE  Sound(spaces', folders', notes') /\ FoldersLow(folders', fresh')
  <2>1. InPlace(spaces, folders, [NewNote(s) EXCEPT !.doc = fresh', !.dirty = TRUE])
    BY DEF InPlace, NewNote
  <2>. QED  BY <1>3, <1>7, <2>1 DEF CreateNoteFromRemote, Deferred, NewUuid
<1>8. ASSUME NEW n \in DOMAIN notes, EditNote(n)
      PROVE  Sound(spaces', folders', notes') /\ FoldersLow(folders', fresh')
  <2>1. InPlace(spaces, folders, Edited(notes[n], ops'))
    BY <1>0 DEF InPlace, Edited, Note
  <2>. QED  BY <1>2, <1>8, <2>1 DEF EditNote, NoUuid
<1>9. ASSUME NEW n \in DOMAIN notes, TouchNote(n)
      PROVE  Sound(spaces', folders', notes') /\ FoldersLow(folders', fresh')
  <2>1. /\ InPlace(spaces, folders, Dirtied(notes[n]))
        /\ InPlace(spaces, folders, [Dirtied(notes[n]) EXCEPT !.fpush = FALSE])
    BY <1>0 DEF InPlace, Dirtied, Note
  <2>2. \E note : ChangeNote(n, note) /\ InPlace(spaces, folders, note)
    BY <1>9, <2>1 DEF TouchNote
  <2>. QED  BY <1>2, <1>9, <2>2 DEF TouchNote, NoUuid
<1>10. ASSUME NEW n \in DOMAIN notes, DeleteNote(n)
       PROVE  Sound(spaces', folders', notes') /\ FoldersLow(folders', fresh')
  <2>1. Housed(spaces, folders, notes')
    BY <1>0, <1>10 DEF DeleteNote, Without, Housed
  <2>. QED  BY <1>1, <1>10, <2>1 DEF DeleteNote, NoUuid
<1>11. ASSUME NEW n \in DOMAIN notes, MapNote(n)
       PROVE  Sound(spaces', folders', notes') /\ FoldersLow(folders', fresh')
  <2>1. InPlace(spaces, folders, [Dirtied(notes[n]) EXCEPT !.doc = fresh', !.push = TRUE])
    BY <1>0 DEF InPlace, Dirtied, Note
  <2>. QED  BY <1>2, <1>11, <2>1 DEF MapNote, NewUuid
<1>12. ASSUME NEW n \in DOMAIN notes, Acknowledge(n)
       PROVE  Sound(spaces', folders', notes') /\ FoldersLow(folders', fresh')
  <2>1. InPlace(spaces, folders, [Dirtied(notes[n]) EXCEPT !.push = FALSE])
    BY <1>0 DEF InPlace, Dirtied, Note
  <2>. QED  BY <1>2, <1>12, <2>1 DEF Acknowledge, NoUuid
<1>13. ASSUME NEW n \in DOMAIN notes, NEW s \in DOMAIN spaces, MoveNoteToSpace(n, s)
       PROVE  Sound(spaces', folders', notes') /\ FoldersLow(folders', fresh')
  <2>. DEFINE note == [Uprooted(notes[n], s) EXCEPT !.folder = NoFolder]
  <2>1. InPlace(spaces, folders, note)
    <3>1. note.space = s /\ note.folder = NoFolder
      BY <1>0 DEF Uprooted, Note
    <3>. HIDE DEF note
    <3>. QED  BY <3>1 DEF InPlace
  <2>2. ChangeNote(n, note) /\ fresh' = fresh
    BY <1>13 DEF MoveNoteToSpace, NoUuid
  <2>. HIDE DEF note
  <2>. QED  BY <1>2, <2>1, <2>2
<1>14. ASSUME NEW n \in DOMAIN notes, NEW f, NEW u \in BOOLEAN, SetNoteFolder(n, f, u)
       PROVE  Sound(spaces', folders', notes') /\ FoldersLow(folders', fresh')
  <2>1. InFolder(notes[n], f, u).space = notes[n].space /\ InFolder(notes[n], f, u).folder = f
    BY <1>0 DEF InFolder, Note
  <2>2. InPlace(spaces, folders, InFolder(notes[n], f, u))
    BY <1>0, <1>14, <2>1 DEF SetNoteFolder, CanSetFolder, InPlace
  <2>. QED  BY <1>2, <1>14, <2>2 DEF SetNoteFolder, NoUuid
<1>15. ASSUME NEW s \in DOMAIN spaces, NEW f \in DOMAIN folders \cup {NoFolder, fresh + 1},
              NEW n \in DOMAIN notes \cup {nextNote}, Import(s, f, n)
       PROVE  Sound(spaces', folders', notes') /\ FoldersLow(folders', fresh')
  <2>1. /\ DOMAIN notes' = DOMAIN notes \cup {n}
        /\ \A m \in DOMAIN notes \ {n} : notes'[m] = Snapshot(notes[m])
    <3>1. DOMAIN notes' = DOMAIN notes \cup {n}
      BY <1>15, ImportMakes
    <3>2. \A m \in DOMAIN notes \ {n} : notes'[m] = Snapshot(notes[m])
      BY <1>15, ImportMakes
    <3>. QED  BY <3>1, <3>2
  <2>2. notes'[n].space = s /\ notes'[n].folder = f
    <3>1. notes'[n] = Imported(s, f, ops')
      BY <1>15, ImportMakes
    <3>. QED  BY <3>1 DEF Imported, NewNote
  <2>3. \A m \in DOMAIN notes \ {n} : notes'[m].space = notes[m].space /\ notes'[m].folder = notes[m].folder
    BY <1>0, <2>1 DEF Snapshot, Note
  <2>4. /\ spaces' = spaces
        /\ f = NoFolder \/ f = fresh + 1 \/ FolderIn(folders, f, s)
        /\ fresh' = IF f = fresh + 1 THEN f ELSE fresh
        /\ folders' = IF f = fresh + 1 THEN Over(folders, Only(f, NewFolder(s, NoFolder))) ELSE folders
    BY <1>15 DEF Import
  <2>5. CASE f = fresh + 1
    <3>1. CanCreateFolder(spaces, folders, s, NoFolder)
      BY DEF CanCreateFolder
    <3>2. folders' = Over(folders, Only(fresh + 1, NewFolder(s, NoFolder))) /\ fresh' = fresh + 1
      BY <2>4, <2>5
    <3>3. /\ Acyclic(folders') /\ Settled(spaces, folders') /\ FoldersLow(folders', fresh + 1)
          /\ \A g \in DOMAIN folders : g \in DOMAIN folders' /\ folders'[g].space = folders[g].space
          /\ FolderIn(folders', fresh + 1, s)
      BY <3>1, <3>2, MoreFolders
    <3>4. \A note : InPlace(spaces, folders, note) => InPlace(spaces, folders', note)
      BY <3>3, PlacesKept
    <3>5. \A m \in DOMAIN notes : InPlace(spaces, folders', notes[m])
      BY <1>0, <3>4
    <3>6. Housed(spaces, folders', notes')
      BY <2>1, <2>2, <2>3, <2>5, <3>3, <3>5 DEF Housed, InPlace
    <3>. QED  BY <2>4, <3>2, <3>3, <3>6, SoundIs
  <2>6. CASE f # fresh + 1
    <3>1. Housed(spaces, folders, notes')
      BY <1>0, <2>1, <2>2, <2>3, <2>4, <2>6 DEF Housed, InPlace
    <3>. QED  BY <1>1, <2>4, <2>6, <3>1
  <2>. QED  BY <2>5, <2>6
<1>. QED  BY <1>5, <1>6, <1>7, <1>8, <1>9, <1>10, <1>11, <1>12, <1>13, <1>14, <1>15 DEF NoteOps

LEMMA LoadSound ==
    ASSUME NEW d, IsDisk(d), Acyclic(d.folders)
    PROVE  Sound(OpenedSpaces(d), OpenedFolders(d), OpenedNotes(d))
<1>. DEFINE kept == Without(d.folders, {f \in DOMAIN d.folders :
                                        d.folders[f].space \notin DOMAIN OpenedSpaces(d)})
            fs == OpenedFolders(d)
            sp == OpenedSpaces(d)
            ns == SeededNotes(d)
<1>1. FolderTable(d.folders) /\ NoFolder \notin DOMAIN d.folders
  BY DEF IsDisk, FolderTable, IsTable
<1>2. /\ FolderTable(kept) /\ NoFolder \notin DOMAIN kept /\ DOMAIN kept \subseteq DOMAIN d.folders
      /\ \A f \in DOMAIN kept : kept[f] = d.folders[f] /\ kept[f].space \in DOMAIN sp
  <2>1. FolderTable(kept)
    BY <1>1, WithoutTable DEF FolderTable
  <2>. QED  BY <1>1, <2>1 DEF Without
<1>3. fs = Rooted(kept)
  BY DEF OpenedFolders
<1>. HIDE DEF kept, fs
<1>4. /\ DOMAIN fs = DOMAIN kept /\ \A f \in DOMAIN kept : fs[f].space = kept[f].space
      /\ \A f \in DOMAIN kept : \/ fs[f] = kept[f] /\ FolderIn(kept, kept[f].parent, kept[f].space)
                                \/ fs[f].parent = NoFolder
  BY <1>2, <1>3, RootedIs
<1>5. Acyclic(fs)
  <2>1. Acyclic(kept)
    BY <1>1, <1>2, AcyclicKept
  <2>. QED  BY <1>2, <1>4, <2>1, AcyclicKept
<1>6. Settled(sp, fs)
  BY <1>2, <1>4 DEF Settled, InTree, FolderIn
<1>. DEFINE home(note) == IF note.space \in DOMAIN sp THEN note.space ELSE First(DOMAIN sp)
            at(note) == IF FolderIn(fs, note.folder, home(note)) THEN note.folder ELSE NoFolder
<1>7. Housed(sp, fs, OpenedNotes(d))
  <2>1. OpenedNotes(d) = [n \in DOMAIN ns |-> [ns[n] EXCEPT !.space = home(ns[n]), !.folder = at(ns[n])]]
    BY DEF OpenedNotes, fs
  <2>2. NoteTable(ns)
    BY SeededTyped
  <2>3. DOMAIN sp \in SUBSET Nat /\ (DOMAIN ns # {} => DOMAIN sp # {})
    BY OpenedSpacesTyped DEF SpaceTable, IsTable, SpaceIds
  <2>. HIDE DEF sp, ns
  <2>4. \A n \in DOMAIN ns : ns[n] \in Note
    BY <2>2, TableEntry DEF NoteTable
  <2>5. \A n \in DOMAIN ns : home(ns[n]) \in DOMAIN sp
    BY <2>3, FirstIn
  <2>6. \A n \in DOMAIN ns : at(ns[n]) = NoFolder \/ FolderIn(fs, at(ns[n]), home(ns[n]))
    OBVIOUS
  <2>. HIDE DEF home, at
  <2>7. ASSUME NEW n \in DOMAIN ns
        PROVE  OpenedNotes(d)[n].space = home(ns[n]) /\ OpenedNotes(d)[n].folder = at(ns[n])
    <3>1. OpenedNotes(d)[n] = [ns[n] EXCEPT !.space = home(ns[n]), !.folder = at(ns[n])]
      BY <2>1
    <3>. QED  BY <2>4, <3>1 DEF Note
  <2>8. DOMAIN OpenedNotes(d) = DOMAIN ns
    BY <2>1
  <2>. QED  BY <2>5, <2>6, <2>7, <2>8 DEF Housed, InPlace
<1>. QED  BY <1>5, <1>6, <1>7, SoundIs DEF fs

LEMMA FreshGrows ==
    ASSUME [Next]_vars
    PROVE  fresh' \in {fresh, fresh + 1, fresh + 2}
<1>1. ASSUME SpaceOps PROVE fresh' = fresh
  BY <1>1 DEF SpaceOps, CreateSpace, BindSpace, UnbindSpace, DeleteSpace, NoUuid
<1>2. ASSUME FolderOps PROVE fresh' \in {fresh, fresh + 1, fresh + 2}
  BY <1>2 DEF FolderOps, CreateFolder, AdoptFolder, MarkFolder, DeleteFolder, SetFolderParent, MoveFolderToSpace,
              OnlyFolders, NoUuid, NewUuid
<1>3. ASSUME NoteOps PROVE fresh' \in {fresh, fresh + 1, fresh + 2}
  BY <1>3 DEF NoteOps, CreateNoteAndSpace, CreateNote, CreateNoteFromRemote, Import, EditNote,
              TouchNote, DeleteNote, MapNote, Acknowledge, MoveNoteToSpace, SetNoteFolder, NoUuid, NewUuid
<1>4. ASSUME BlobOps PROVE fresh' \in {fresh, fresh + 1, fresh + 2}
  BY <1>4, BlobOpsChange DEF NoUuid, NewUuid
<1>5. CASE FlushNotes
  BY <1>5 DEF FlushNotes, Autosave, FlushNote, Flush, history
<1>6. CASE Writer
  BY <1>6 DEF Writer, WriteOk, WriteFails, Rest
<1>7. CASE Lifecycle
  BY <1>7 DEF Lifecycle, Close, Closed, Crash, Open, Opened, OpenAborts, OpenDeaf, OpenFails,
              FallsBack, InMemory, Started, history
<1>8. CASE UNCHANGED vars
  BY <1>8 DEF vars, history
<1>. QED  BY <1>1, <1>2, <1>3, <1>4, <1>5, <1>6, <1>7, <1>8 DEF Next

LEMMA TreesStep ==
    ASSUME Typed, Typed', CacheTrue, Trees, [Next]_vars
    PROVE  Trees'
<1>. SUFFICES ASSUME Believed'
              PROVE  /\ Sound(spaces', folders', notes') /\ FoldersLow(folders', fresh')
                     /\ \A v \in Versions("folders")' : Acyclic(v) /\ FoldersLow(v, fresh')
  BY DEF Trees
<1>1. /\ Sound(spaces, folders, notes) /\ FoldersLow(folders, fresh)
      /\ \A v \in Versions("folders") : Acyclic(v) /\ FoldersLow(v, fresh)
  BY BelievedBefore DEF Trees
<1>2. fresh' \in {fresh, fresh + 1, fresh + 2} /\ fresh \in Nat
  BY FreshGrows, FolderIds
<1>3. /\ IsDisk(disk) /\ Acyclic(disk.folders) /\ FoldersLow(disk.folders, fresh)
  <2>1. disk.folders \in Versions("folders")
    BY VersionIs
  <2>. QED  BY <1>1, <2>1 DEF Typed, TypeOK
<1>4. ASSUME NEW v, NEW K, NEW R, IsTable(v, K, R), K \subseteq Nat, FoldersLow(v, fresh) PROVE FoldersLow(v, fresh')
  BY <1>2, <1>4 DEF FoldersLow, IsTable
<1>5. Sound(spaces', folders', notes') /\ FoldersLow(folders', fresh')
  <2>0. ASSUME folders' = folders PROVE FoldersLow(folders', fresh')
    <3>1. IsTable(folders, Ids \ {NoFolder}, Folder) /\ Ids \ {NoFolder} \subseteq Nat
      BY ZeroIsId DEF Typed, TypeOK
    <3>. QED  BY <1>1, <1>4, <2>0, <3>1
  <2>1. CASE SpaceOps
    <3>1. Sound(spaces', folders', notes')
      BY <1>1, <2>1, SpaceOpsSound
    <3>2. FoldersLow(folders', fresh')
      <4>1. ASSUME NEW s \in DOMAIN spaces, DeleteSpace(s) PROVE FoldersLow(folders', fresh')
        <5>1. DOMAIN folders' \subseteq DOMAIN folders /\ fresh' = fresh
          BY <4>1 DEF DeleteSpace, OutsideSpace, Without, NoUuid
        <5>. QED  BY <1>1, <5>1 DEF FoldersLow
      <4>. QED  BY <2>0, <2>1, <4>1 DEF SpaceOps, CreateSpace, BindSpace, UnbindSpace
    <3>. QED  BY <3>1, <3>2
  <2>2. CASE FolderOps
    BY <1>1, <2>2, FolderOpsSound
  <2>3. CASE NoteOps
    BY <1>1, <2>3, NoteOpsSound
  <2>4. CASE BlobOps
    <3>1. UNCHANGED <<spaces, folders, notes>>
      BY <2>4, BlobOpsChange DEF OnlyBlobs
    <3>. QED  BY <1>1, <2>0, <3>1
  <2>5. CASE FlushNotes
    <3>1. PICK N : Flush(N)
      BY <2>5 DEF FlushNotes, Autosave, FlushNote
    <3>2. \A n \in DOMAIN notes' : /\ n \in DOMAIN notes /\ notes'[n].space = notes[n].space
                                   /\ notes'[n].folder = notes[n].folder
      <4>1. \A n \in DOMAIN notes : /\ Snapshot(notes[n]).space = notes[n].space
                                    /\ Snapshot(notes[n]).folder = notes[n].folder
        BY TablesTyped DEF Snapshot, Note
      <4>. QED  BY <3>1, <4>1 DEF Flush, Flushed
    <3>3. UNCHANGED <<spaces, folders>>
      BY <3>1 DEF Flush
    <3>4. Housed(spaces, folders, notes')
      BY <1>1, <3>2, NotesKept, SoundIs
    <3>. QED  BY <1>1, <2>0, <3>3, <3>4, SoundIs
  <2>6. CASE Writer \/ Closed \/ Opened \/ UNCHANGED vars
    <3>1. UNCHANGED <<spaces, folders, notes>>
      BY <2>6 DEF Writer, WriteOk, WriteFails, Rest, Closed, Opened, vars, db, tables
    <3>. QED  BY <1>1, <2>0, <3>1
  <2>7. CASE Close \/ Crash \/ OpenAborts
    <3>1. folders' = Nothing /\ notes' = Nothing
      BY <2>7 DEF Close, Crash, OpenAborts, NoTables
    <3>2. DOMAIN Nothing = {}
      BY DEF Nothing
    <3>. QED  BY <3>1, <3>2 DEF Sound, Acyclic, FoldersLow
  <2>8. CASE Open \/ OpenDeaf
    <3>1. /\ spaces' = OpenedSpaces(disk) /\ folders' = OpenedFolders(disk)
          /\ fresh' = fresh
      BY <2>8 DEF Open, OpenDeaf, Load, Started
    <3>2. Sound(OpenedSpaces(disk), OpenedFolders(disk), OpenedNotes(disk))
      BY <1>3, LoadSound
    <3>3. \A n \in DOMAIN notes' : /\ n \in DOMAIN OpenedNotes(disk)
                                   /\ notes'[n].space = OpenedNotes(disk)[n].space
                                   /\ notes'[n].folder = OpenedNotes(disk)[n].folder
      <4>1. \A n \in DOMAIN OpenedNotes(disk) :
                /\ Snapshot(OpenedNotes(disk)[n]).space = OpenedNotes(disk)[n].space
                /\ Snapshot(OpenedNotes(disk)[n]).folder = OpenedNotes(disk)[n].folder
        BY LoadedNote DEF Snapshot, Note
      <4>. QED  BY <2>8, <4>1 DEF Open, OpenDeaf, Load
    <3>4. Housed(spaces', folders', notes')
      <4>1. Housed(spaces', folders', OpenedNotes(disk))
        BY <3>1, <3>2, SoundIs
      <4>. QED  BY <3>3, <4>1, NotesKept
    <3>5. FoldersLow(folders', fresh')
      BY <1>3, <3>1 DEF OpenedFolders, Rooted, Without, FoldersLow
    <3>. QED  BY <3>1, <3>2, <3>4, <3>5, SoundIs
  <2>9. CASE OpenFails \/ FallsBack
    <3>1. /\ DOMAIN spaces' = {DefaultSpace} /\ DOMAIN folders' = {}
          /\ DOMAIN notes' = {WelcomeNote} /\ notes'[WelcomeNote] = NewNote(DefaultSpace)
      BY <2>9 DEF OpenFails, FallsBack, InMemory, Only, Nothing
    <3>. QED  BY <3>1 DEF Sound, Acyclic, FoldersLow, NewNote
  <2>. QED  BY <2>1, <2>2, <2>3, <2>4, <2>5, <2>6, <2>7, <2>8, <2>9 DEF Next, Lifecycle
<1>6. ASSUME NEW v \in Versions("folders")' PROVE Acyclic(v) /\ FoldersLow(v, fresh')
  <2>1. CASE v \in Versions("folders")
    <3>1. IsTable(v, Ids \ {NoFolder}, Folder) /\ Ids \ {NoFolder} \subseteq Nat
      <4>1. v = disk.folders \/ \E i \in DOMAIN queue : queue[i].table = "folders" /\ v = queue[i].value
        BY <2>1, VersionIs
      <4>2. \A i \in DOMAIN queue : queue[i] \in WriteOps
        BY DEF Typed, QueueTyped
      <4>. QED  BY <1>3, <4>1, <4>2, WriteOpIs, ZeroIsId DEF IsDisk
    <3>. QED  BY <1>1, <1>4, <2>1, <3>1
  <2>2. CASE v = Memory("folders")'
    <3>1. v = folders'
      BY <2>2 DEF Memory
    <3>. QED  BY <1>5, <3>1, SoundIs
  <2>. QED  BY <2>1, <2>2, VersionsMove
<1>. QED  BY <1>5, <1>6

LEMMA TreesHold == Spec => []Trees
<1>1. Init => Trees
  <2>. SUFFICES ASSUME Init PROVE Trees
    OBVIOUS
  <2>1. /\ Sound(spaces, folders, notes) /\ FoldersLow(folders, fresh)
    BY DEF Init, Sound, Acyclic, FoldersLow, Nothing
  <2>2. Acyclic(disk.folders) /\ FoldersLow(disk.folders, fresh) /\ DOMAIN queue = {}
    BY ProfilesAssumption DEF Init, FoldersLow
  <2>. QED  BY <2>1, <2>2 DEF Trees, Versions
<1>. QED  BY <1>1, TreesStep, TypedHolds, CacheHolds, PTL DEF Spec

-----------------------------------------------------------------------------
(* Folders stay forests but for the parents that peers gave, everything is   *)
(* in a space that exists and every note in a folder of its own space, for   *)
(* any order of moves, deletions, adoptions, crashes and starts from tables  *)
(* of different ages: no operation of the user closes a cycle or takes a     *)
(* folder apart from the parent it was put under here, whatever cycles and   *)
(* missing parents adopt_remote_folder has let in (note.rs                   *)
(* set_folder_parent, adopt_remote_folder, move_folder_to_space,             *)
(* delete_folder, finish_open).                                              *)
THEOREM ForestsStaySound == Spec => []TreeOK
<1>1. Trees => TreeOK
  BY DEF Trees, TreeOK, Believed
<1>. QED  BY <1>1, TreesHold, PTL
-----------------------------------------------------------------------------
(* DeletingIsRemembered. *)

\* A row of a note has its space (SQLite: a foreign key).
Keyed == kind = "sqlite" => \A n \in DOMAIN disk.notes : disk.notes[n].space \in DOMAIN disk.spaces

Ends(op) == op.table = "allowEmpty" /\ ~op.value
Begins(op) == op.table = "allowEmpty" /\ op.value
NoSpace(op) == op.table = "spaces" /\ DOMAIN op.value = {}
ASpace(op) == op.table = "spaces" /\ DOMAIN op.value # {}
\* The record that there may be no space ends only with a space that is made, ...
EndsWithSpace(q) == \A i \in DOMAIN q : Ends(q[i]) => i + 1 \in DOMAIN q /\ ASpace(q[i + 1])
\* ... and is on the disk before the last space goes.
RecordFirst(q, recorded) ==
    \A i \in DOMAIN q : NoSpace(q[i]) =>
        /\ \A j \in DOMAIN q : j < i /\ Ends(q[j]) =>
            \E k \in DOMAIN q : j < k /\ k < i /\ Begins(q[k])
        /\ recorded \/ \E k \in DOMAIN q : k < i /\ Begins(q[k])
\* IndexedDB has no foreign keys: what makes its disk look like a first installation is a
\* list of spaces that is still to be written.
SpaceNext ==
    kind = "idb" /\ (phase \in {"opening", "open"} \/ queue # << >>) /\ lostTables = {}
        /\ DOMAIN disk.spaces = {} /\ ~disk.allowEmpty =>
            queue # << >> /\ ASpace(queue[1])
Recorded ==
    /\ EndsWithSpace(queue)
    /\ RecordFirst(queue, disk.allowEmpty \/ "allowEmpty" \in lostTables)
    /\ SpaceNext
    /\ phase = "opening" => \A i \in DOMAIN queue : queue[i].table # "allowEmpty"

LEMMA RowsEntries ==
    ASSUME NEW K, NEW R, NEW t, NEW N, NEW v
    PROVE  /\ DOMAIN Over(t, [n \in N |-> v[n]]) = DOMAIN t \cup N
           /\ \A n \in N : Over(t, [m \in N |-> v[m]])[n] = v[n]
           /\ \A n \in DOMAIN t \ N : Over(t, [m \in N |-> v[m]])[n] = t[n]
BY DEF Over

LEMMA WriteOkIs ==
    ASSUME Typed, CacheTrue, WriteOk, IsList(Op) => kind = "sqlite" \/ Op.table \notin lostTables
    PROVE  /\ Op \in WriteOps /\ Op = queue[1] /\ 1 \in DOMAIN queue /\ queue' = Tail(queue)
           /\ \A t \in TableNames : disk'[t] = IF Op.table = t THEN Op.value ELSE disk[t]
           /\ IsList(Op) => disk'.notes = disk.notes
           /\ IsRows(Op) => disk'.notes = Over(disk.notes, Op.value)
           /\ IsGone(Op) => disk'.notes = Without(disk.notes, Op.gone)
<1>1. Op \in WriteOps /\ Op = queue[1] /\ 1 \in DOMAIN queue /\ queue' = Tail(queue) /\ queue # << >>
  <2>1. Writing /\ Rest
    BY DEF WriteOk
  <2>. QED  BY <2>1, OpIs DEF Typed, QueueTyped
<1>2. kind = "idb" /\ IsList(Op) => cache[Op.table] = disk[Op.table]
  <2>1. ASSUME kind = "idb", IsList(Op) PROVE Op.table \in TableNames \ lostTables
    BY <1>1, <2>1, WriteOpIs
  <2>. QED  BY <1>1, <2>1 DEF CacheTrue
<1>3. disk' = Applied(disk, Op)
  BY DEF WriteOk
<1>4. \A t \in TableNames : disk'[t] = IF Op.table = t THEN Op.value ELSE disk[t]
  BY <1>1, <1>2, <1>3, AppliedList
<1>5. /\ IsList(Op) => disk'.notes = disk.notes
      /\ IsRows(Op) => disk'.notes = Over(disk.notes, Op.value)
      /\ IsGone(Op) => disk'.notes = Without(disk.notes, Op.gone)
  BY <1>1, <1>2, <1>3, AppliedList
<1>. QED  BY <1>1, <1>4, <1>5

LEMMA WriteFailsIs ==
    ASSUME Typed, WriteFails
    PROVE  /\ Op \in WriteOps /\ Op = queue[1] /\ 1 \in DOMAIN queue /\ queue' = Tail(queue)
           /\ \A t \in TableNames : disk'[t] = disk[t]
           /\ \E N : /\ disk'.notes = Over(disk.notes, [n \in N |-> Op.value[n]])
                     /\ N # {} => kind = "sqlite" /\ IsRows(Op) /\ N \subseteq DOMAIN Op.value
                     /\ \A n \in N : Op.value[n].space \in DOMAIN disk.spaces
                     /\ IsRows(Op) => \A n \in DOMAIN Op.value \ N : n \in lostNotes'
<1>1. Op \in WriteOps /\ Op = queue[1] /\ 1 \in DOMAIN queue /\ queue' = Tail(queue)
  <2>1. Writing /\ Rest
    BY DEF WriteFails
  <2>. QED  BY <2>1, OpIs DEF Typed, QueueTyped
<1>2. PICK N \in Part(Op) :
        /\ disk' = IF N = {} THEN disk ELSE SomeRows(N)
        /\ IsRows(Op) => lostNotes' = lostNotes \cup (DOMAIN Op.value \ N)
  <2>1. PICK N \in Part(Op) :
          /\ disk' = IF N = {} THEN disk ELSE SomeRows(N)
          /\ lostNotes' = CASE IsRows(Op) -> lostNotes \cup (DOMAIN Op.value \ N)
                            [] IsList(Op) -> lostNotes
                            [] OTHER -> lostNotes \cup Op.gone
    BY DEF WriteFails
  <2>2. IsRows(Op) => lostNotes' = lostNotes \cup (DOMAIN Op.value \ N)
    BY <2>1 DEF IsRows, IsList
  <2>. QED  BY <2>1, <2>2
<1>3. \A t \in TableNames : disk'[t] = disk[t]
  BY <1>2, SomeRowsIs
<1>4. /\ N # {} => kind = "sqlite" /\ IsRows(Op) /\ N \subseteq DOMAIN Op.value
      /\ \A n \in N : Op.value[n].space \in DOMAIN disk.spaces
  BY <1>2 DEF Part
<1>5. disk'.notes = Over(disk.notes, [n \in N |-> Op.value[n]])
  <2>1. CASE N = {}
    <3>1. disk.notes = [n \in DOMAIN disk.notes |-> disk.notes[n]]
      BY DEF Typed, TypeOK, IsDisk, IsTable
    <3>2. Over(disk.notes, [n \in {} |-> Op.value[n]]) = [n \in DOMAIN disk.notes |-> disk.notes[n]]
      BY DEF Over
    <3>. QED  BY <1>2, <2>1, <3>1, <3>2
  <2>2. CASE N # {}
    BY <1>2, <2>2, SomeRowsIs
  <2>. QED  BY <2>1, <2>2
<1>. QED  BY <1>1, <1>2, <1>3, <1>4, <1>5

\* What a crash leaves of the row that is being written.
LEMMA CrashIs ==
    ASSUME Typed, Crash
    PROVE  /\ \A t \in TableNames : disk'[t] = disk[t]
           /\ \E N : /\ disk'.notes = Over(disk.notes, [n \in N |-> Op.value[n]])
                     /\ N # {} => kind = "sqlite"
                     /\ \A n \in N : Op.value[n].space \in DOMAIN disk.spaces
<1>1. disk' = disk \/ \E N \in Part(Op) : disk' = SomeRows(N)
  BY DEF Crash
<1>2. \A t \in TableNames : disk'[t] = disk[t]
  BY <1>1, SomeRowsIs
<1>3. CASE disk' = disk
  <2>1. disk.notes = [n \in DOMAIN disk.notes |-> disk.notes[n]]
    BY DEF Typed, TypeOK, IsDisk, IsTable
  <2>2. Over(disk.notes, [n \in {} |-> Op.value[n]]) = [n \in DOMAIN disk.notes |-> disk.notes[n]]
    BY DEF Over
  <2>. QED  BY <1>2, <1>3, <2>1, <2>2
<1>4. ASSUME NEW N \in Part(Op), disk' = SomeRows(N)
      PROVE  /\ disk'.notes = Over(disk.notes, [n \in N |-> Op.value[n]])
             /\ N # {} => kind = "sqlite"
             /\ \A n \in N : Op.value[n].space \in DOMAIN disk.spaces
  <2>1. disk'.notes = Over(disk.notes, [n \in N |-> Op.value[n]])
    BY <1>4, SomeRowsIs
  <2>. QED  BY <2>1 DEF Part
<1>. QED  BY <1>1, <1>2, <1>3, <1>4

LEMMA KeyedStep ==
    ASSUME Typed, CacheTrue, Keyed, [Next]_vars
    PROVE  Keyed'
<1>. SUFFICES ASSUME kind' = "sqlite"
              PROVE  \A n \in DOMAIN disk'.notes : disk'.notes[n].space \in DOMAIN disk'.spaces
  BY DEF Keyed
<1>0. kind = "sqlite" /\ (disk' = disk \/ WriteOk \/ WriteFails \/ Crash)
  <2>1. CASE SpaceOps \/ FolderOps \/ NoteOps \/ BlobOps \/ FlushNotes
    BY <2>1, StoreStill
  <2>2. CASE Writer
    BY <2>2 DEF Writer, WriteOk, WriteFails, Rest
  <2>3. CASE Lifecycle
    BY <2>3 DEF Lifecycle, Close, Closed, Crash, Open, Opened, OpenAborts, OpenDeaf, OpenFails, FallsBack,
                InMemory, Started
  <2>4. CASE UNCHANGED vars
    BY <2>4 DEF vars
  <2>. QED  BY <2>1, <2>2, <2>3, <2>4 DEF Next
<1>1. \A n \in DOMAIN disk.notes : disk.notes[n].space \in DOMAIN disk.spaces
  BY <1>0 DEF Keyed
<1>2. "spaces" \in TableNames
  BY DEF TableNames
<1>3. ASSUME disk'.spaces = disk.spaces, NEW N, NEW v, disk'.notes = Over(disk.notes, [n \in N |-> v[n]]),
             \A n \in N : v[n].space \in DOMAIN disk.spaces
      PROVE  \A n \in DOMAIN disk'.notes : disk'.notes[n].space \in DOMAIN disk'.spaces
  BY <1>1, <1>3 DEF Over
<1>4. CASE WriteOk
  <2>1. /\ Op \in WriteOps
        /\ disk'.spaces = IF Op.table = "spaces" THEN Op.value ELSE disk.spaces
        /\ IsList(Op) => disk'.notes = disk.notes
        /\ IsRows(Op) => disk'.notes = Over(disk.notes, Op.value)
        /\ IsGone(Op) => disk'.notes = Without(disk.notes, Op.gone)
    BY <1>0, <1>2, <1>4, WriteOkIs
  <2>2. ~Refused
    BY <1>4 DEF WriteOk
  <2>3. CASE IsList(Op)
    BY <1>0, <1>1, <2>1, <2>2, <2>3 DEF Refused
  <2>4. CASE IsRows(Op)
    <3>1. \A n \in DOMAIN Op.value : Op.value[n].space \in DOMAIN disk.spaces
      BY <1>0, <2>2, <2>4 DEF Refused
    <3>2. disk'.spaces = disk.spaces
      BY <2>1, <2>4 DEF IsRows
    <3>. QED  BY <1>1, <2>1, <2>4, <3>1, <3>2 DEF Over
  <2>5. CASE IsGone(Op)
    <3>1. disk'.spaces = disk.spaces
      BY <2>1, <2>5 DEF IsGone, IsList
    <3>. QED  BY <1>1, <2>1, <2>5, <3>1 DEF Without
  <2>. QED  BY <2>3, <2>4, <2>5 DEF IsGone
<1>5. CASE WriteFails
  <2>1. disk'.spaces = disk.spaces
    BY <1>2, <1>5, WriteFailsIs
  <2>2. PICK N : /\ disk'.notes = Over(disk.notes, [n \in N |-> Op.value[n]])
                 /\ \A n \in N : Op.value[n].space \in DOMAIN disk.spaces
    BY <1>5, WriteFailsIs
  <2>. QED  BY <1>3, <2>1, <2>2
<1>6. CASE Crash
  <2>1. disk'.spaces = disk.spaces
    BY <1>2, <1>6, CrashIs
  <2>2. PICK N : /\ disk'.notes = Over(disk.notes, [n \in N |-> Op.value[n]])
                 /\ \A n \in N : Op.value[n].space \in DOMAIN disk.spaces
    BY <1>6, CrashIs
  <2>. QED  BY <1>3, <2>1, <2>2
<1>. QED  BY <1>0, <1>1, <1>4, <1>5, <1>6

LEMMA KeyedHolds == Spec => []Keyed
<1>1. Init => Keyed
  BY ProfilesAssumption DEF Init, Keyed
<1>. QED  BY <1>1, KeyedStep, TypedHolds, CacheHolds, PTL DEF Spec

LEMMA RecordAppends ==
    ASSUME NEW q \in Seq(WriteOps), NEW s \in Seq(WriteOps), NEW recorded,
           EndsWithSpace(q), RecordFirst(q, recorded), EndsWithSpace(s),
           \A i \in DOMAIN s : NoSpace(s[i]) =>
                /\ \E k \in DOMAIN s : k < i /\ Begins(s[k])
                /\ \A j \in DOMAIN s : ~Ends(s[j])
    PROVE  EndsWithSpace(q \o s) /\ RecordFirst(q \o s, recorded)
<1>. DEFINE w == q \o s
<1>1. w \in Seq(WriteOps) /\ Joined(w, q, s)
  BY ConcatElements, ConcatPlaces
<1>. HIDE DEF w
<1>2. /\ Len(w) = Len(q) + Len(s) /\ Len(w) \in Nat /\ Len(q) \in Nat /\ Len(s) \in Nat
      /\ DOMAIN w = 1..Len(w) /\ DOMAIN q = 1..Len(q) /\ DOMAIN s = 1..Len(s)
      /\ \A j \in DOMAIN q : j \in DOMAIN w /\ w[j] = q[j]
      /\ \A j \in DOMAIN s : Len(q) + j \in DOMAIN w /\ w[Len(q) + j] = s[j]
  BY <1>1 DEF Joined
<1>3. \A i \in DOMAIN w : i \in DOMAIN q \/ (i - Len(q) \in DOMAIN s /\ w[i] = s[i - Len(q)])
  <2>1. TAKE i \in DOMAIN w
  <2>2. CASE i > Len(q)
    <3>1. i - Len(q) \in DOMAIN s /\ Len(q) + (i - Len(q)) = i
      BY <1>2, <2>2
    <3>. QED  BY <1>2, <3>1
  <2>. QED  BY <1>2, <2>2
<1>4. ASSUME NEW i \in DOMAIN w, Ends(w[i]) PROVE i + 1 \in DOMAIN w /\ ASpace(w[i + 1])
  <2>1. CASE i \in DOMAIN q
    <3>1. i + 1 \in DOMAIN q /\ ASpace(q[i + 1])
      BY <1>2, <1>4, <2>1 DEF EndsWithSpace
    <3>. QED  BY <1>2, <3>1
  <2>2. CASE i - Len(q) \in DOMAIN s /\ w[i] = s[i - Len(q)]
    <3>1. (i - Len(q)) + 1 \in DOMAIN s /\ ASpace(s[(i - Len(q)) + 1])
      BY <1>4, <2>2 DEF EndsWithSpace
    <3>2. Len(q) + ((i - Len(q)) + 1) = i + 1
      BY <1>2
    <3>. QED  BY <1>2, <3>1, <3>2
  <2>. QED  BY <1>3, <2>1, <2>2
<1>5. ASSUME NEW i \in DOMAIN w, NoSpace(w[i])
      PROVE  /\ \A j \in DOMAIN w : j < i /\ Ends(w[j]) =>
                    \E k \in DOMAIN w : j < k /\ k < i /\ Begins(w[k])
             /\ recorded \/ \E k \in DOMAIN w : k < i /\ Begins(w[k])
  <2>1. CASE i \in DOMAIN q
    <3>1. /\ \A j \in DOMAIN q : j < i /\ Ends(q[j]) =>
                \E k \in DOMAIN q : j < k /\ k < i /\ Begins(q[k])
          /\ recorded \/ \E k \in DOMAIN q : k < i /\ Begins(q[k])
      BY <1>2, <1>5, <2>1 DEF RecordFirst
    <3>2. \A j \in DOMAIN w : j < i => j \in DOMAIN q
      BY <1>2, <2>1
    <3>. QED  BY <1>2, <3>1, <3>2
  <2>2. CASE i - Len(q) \in DOMAIN s /\ w[i] = s[i - Len(q)]
    <3>1. PICK k \in DOMAIN s : k < i - Len(q) /\ Begins(s[k])
      BY <1>5, <2>2
    <3>2. Len(q) + k \in DOMAIN w /\ Len(q) + k < i /\ Begins(w[Len(q) + k])
      BY <1>2, <3>1
    <3>3. \A j \in DOMAIN w : Ends(w[j]) => j \in DOMAIN q
      BY <1>3, <1>5, <2>2
    <3>4. \A j \in DOMAIN q : j < Len(q) + k
      BY <1>2
    <3>. QED  BY <3>2, <3>3, <3>4
  <2>. QED  BY <1>3, <2>1, <2>2
<1>. QED  BY <1>4, <1>5 DEF EndsWithSpace, RecordFirst, w

LEMMA RecordTaken ==
    ASSUME NEW q \in Seq(WriteOps), q # << >>, NEW before, NEW after,
           EndsWithSpace(q), RecordFirst(q, before),
           Begins(q[1]) => after, before /\ ~Ends(q[1]) => after
    PROVE  EndsWithSpace(Tail(q)) /\ RecordFirst(Tail(q), after)
<1>. DEFINE w == Tail(q)
<1>1. w \in Seq(WriteOps) /\ Len(w) = Len(q) - 1 /\ \A i \in 1..Len(w) : w[i] = q[i + 1]
  OBVIOUS
<1>. HIDE DEF w
<1>2. /\ \A i \in DOMAIN w : i \in Nat /\ i > 0 /\ i + 1 \in DOMAIN q /\ w[i] = q[i + 1]
      /\ \A k \in DOMAIN q : k > 1 => k - 1 \in DOMAIN w /\ w[k - 1] = q[k]
      /\ \A k \in DOMAIN q : k \in Nat /\ k > 0
      /\ 1 \in DOMAIN q
  BY <1>1
<1>3. ASSUME NEW i \in DOMAIN w, Ends(w[i]) PROVE i + 1 \in DOMAIN w /\ ASpace(w[i + 1])
  <2>1. (i + 1) + 1 \in DOMAIN q /\ ASpace(q[(i + 1) + 1])
    BY <1>2, <1>3 DEF EndsWithSpace
  <2>2. ((i + 1) + 1) - 1 = i + 1 /\ (i + 1) + 1 > 1
    BY <1>2
  <2>. QED  BY <1>2, <2>1, <2>2
<1>4. ASSUME NEW i \in DOMAIN w, NoSpace(w[i])
      PROVE  /\ \A j \in DOMAIN w : j < i /\ Ends(w[j]) =>
                    \E k \in DOMAIN w : j < k /\ k < i /\ Begins(w[k])
             /\ after \/ \E k \in DOMAIN w : k < i /\ Begins(w[k])
  <2>1. i + 1 \in DOMAIN q /\ NoSpace(q[i + 1])
    BY <1>2, <1>4
  <2>2. /\ \A j \in DOMAIN q : j < i + 1 /\ Ends(q[j]) =>
                \E k \in DOMAIN q : j < k /\ k < i + 1 /\ Begins(q[k])
        /\ before \/ \E k \in DOMAIN q : k < i + 1 /\ Begins(q[k])
    BY <2>1 DEF RecordFirst
  <2>3. ASSUME NEW j \in DOMAIN w, j < i, Ends(w[j])
        PROVE  \E k \in DOMAIN w : j < k /\ k < i /\ Begins(w[k])
    <3>1. PICK k \in DOMAIN q : j + 1 < k /\ k < i + 1 /\ Begins(q[k])
      <4>1. j + 1 \in DOMAIN q /\ Ends(q[j + 1]) /\ j + 1 < i + 1
        BY <1>2, <2>3
      <4>. QED  BY <2>2, <4>1
    <3>2. k - 1 \in DOMAIN w /\ j < k - 1 /\ k - 1 < i /\ Begins(w[k - 1])
      BY <1>2, <3>1
    <3>. QED  BY <3>2
  <2>4. ASSUME NEW k \in DOMAIN q, k < i + 1, Begins(q[k]), k # 1
        PROVE  \E l \in DOMAIN w : l < i /\ Begins(w[l])
    <3>1. k - 1 \in DOMAIN w /\ k - 1 < i /\ Begins(w[k - 1])
      BY <1>2, <2>4
    <3>. QED  BY <3>1
  <2>5. after \/ \E k \in DOMAIN w : k < i /\ Begins(w[k])
    <3>1. CASE Ends(q[1])
      <4>1. PICK k \in DOMAIN q : 1 < k /\ k < i + 1 /\ Begins(q[k])
        <5>1. 1 \in DOMAIN q /\ 1 < i + 1
          BY <1>2
        <5>. QED  BY <2>2, <3>1, <5>1
      <4>. QED  BY <2>4, <4>1
    <3>2. CASE ~Ends(q[1])
      BY <2>2, <2>4, <3>2
    <3>. QED  BY <3>1, <3>2
  <2>. QED  BY <2>3, <2>5
<1>. QED  BY <1>3, <1>4 DEF EndsWithSpace, RecordFirst, w

LEMMA FlagApplied ==
    ASSUME Typed, WriteOk
    PROVE  disk'.allowEmpty = IF Op.table = "allowEmpty" THEN Op.value ELSE disk.allowEmpty
<1>1. Op \in WriteOps
  <2>1. Writing
    BY DEF WriteOk
  <2>. QED  BY <2>1, OpIs
<1>2. IsDisk(disk) /\ "allowEmpty" \in TableNames /\ disk' = Applied(disk, Op)
  BY DEF Typed, TypeOK, TableNames, WriteOk
<1>3. CASE Op.table = "allowEmpty"
  <2>1. Applied(disk, Op) = [disk EXCEPT !["allowEmpty"] = Op.value]
    BY <1>3 DEF Applied, IsList, IsRows
  <2>. QED  BY <1>2, <1>3, <2>1, DiskFields
<1>4. CASE IsList(Op) /\ Op.table # "allowEmpty"
  <2>1. Op.table \in TableNames \ {"allowEmpty"} /\ \E v : Applied(disk, Op) = [disk EXCEPT ![Op.table] = v]
    BY <1>1, <1>4, WriteOpIs DEF Applied, IsList, IsRows
  <2>. QED  BY <1>2, <1>4, <2>1, DiskFields
<1>5. CASE ~IsList(Op)
  <2>1. \E v : Applied(disk, Op) = [disk EXCEPT !.notes = v]
    BY <1>1, <1>5, WriteOpIs DEF Applied, IsList, IsRows
  <2>. QED  BY <1>2, <1>5, <2>1, DiskFields DEF IsList
<1>. QED  BY <1>3, <1>4, <1>5 DEF IsList

LEMMA RecordedStep ==
    ASSUME Typed, Typed', CacheTrue, Recorded, [Next]_vars
    PROVE  Recorded'
<1>. DEFINE recorded == disk.allowEmpty \/ "allowEmpty" \in lostTables
<1>0. /\ EndsWithSpace(queue) /\ RecordFirst(queue, recorded) /\ SpaceNext /\ queue \in Seq(WriteOps)
      /\ phase = "opening" => \A i \in DOMAIN queue : queue[i].table # "allowEmpty"
  BY DEF Recorded, Typed, QueueTyped
\* The queue grows, and the disk stays.
<1>1. ASSUME UNCHANGED <<kind, disk, lostTables>>, NEW s \in Seq(WriteOps),
             \/ queue' = queue \o s /\ phase = "open"
             \/ queue' = queue /\ (phase' = "open" => phase \in {"opening", "open"}),
             phase' # "opening",
             EndsWithSpace(s),
             \A i \in DOMAIN s : NoSpace(s[i]) =>
                /\ \E k \in DOMAIN s : k < i /\ Begins(s[k])
                /\ \A j \in DOMAIN s : ~Ends(s[j])
      PROVE  Recorded'
  <2>1. EndsWithSpace(queue') /\ RecordFirst(queue', recorded)
    BY <1>0, <1>1, RecordAppends
  <2>2. SpaceNext'
    <3>. SUFFICES ASSUME kind' = "idb", phase' \in {"opening", "open"} \/ queue' # << >>, lostTables' = {},
                         DOMAIN disk'.spaces = {}, ~disk'.allowEmpty
                  PROVE  queue' # << >> /\ ASpace(queue'[1])
      BY DEF SpaceNext
    <3>1. queue # << >> /\ ASpace(queue[1])
      BY <1>0, <1>1 DEF SpaceNext
    <3>2. CASE queue' = queue
      BY <3>1, <3>2
    <3>3. CASE queue' = queue \o s
      <4>1. Joined(queue', queue, s)
        BY <1>0, <1>1, <3>3, ConcatPlaces
      <4>2. 1 \in DOMAIN queue
        BY <1>0, <3>1
      <4>3. 1 \in DOMAIN queue' /\ queue'[1] = queue[1]
        BY <4>1, <4>2 DEF Joined
      <4>. QED  BY <3>1, <4>3
    <3>. QED  BY <1>1, <3>2, <3>3
  <2>3. recorded' = recorded
    BY <1>1
  <2>. QED  BY <1>1, <2>1, <2>2, <2>3 DEF Recorded
<1>2. CASE SpaceOps \/ FolderOps \/ NoteOps \/ BlobOps \/ FlushNotes
  <2>1. UNCHANGED <<kind, phase, disk, lostTables>> /\ phase' # "opening"
    BY <1>2, StoreStill DEF Running
  <2>2. PICK s : Sends(s)
    BY <1>2, OperationsSend
  <2>3. s \in Seq(WriteOps) /\ EndsWithSpace(s)
    BY <2>2 DEF Sends, FlagSent, EndsWithSpace, Ends, ASpace
  <2>4. \A i \in DOMAIN s : s[i].table = "allowEmpty" => s[i].value = allowEmpty'
    BY <2>2 DEF Sends, ListsSent
  <2>5. ASSUME NEW i \in DOMAIN s, NoSpace(s[i])
        PROVE  /\ \E k \in DOMAIN s : k < i /\ Begins(s[k])
               /\ \A j \in DOMAIN s : ~Ends(s[j])
    <3>1. allowEmpty' /\ \E k \in DOMAIN s : k < i /\ s[k].table = "allowEmpty"
      BY <2>2, <2>5 DEF Sends, FlagSent, NoSpace
    <3>. QED  BY <2>4, <3>1 DEF Begins, Ends
  <2>6. (queue' = queue \o s /\ phase = "open") \/ queue' = queue
    BY <2>2 DEF Sends, Send
  <2>. QED  BY <1>1, <2>1, <2>3, <2>5, <2>6
<1>3. CASE Close
  <2>. DEFINE s == IF Dirty(notes) # {} THEN <<Rows(Dirty(notes))>> ELSE << >>
  <2>1. /\ UNCHANGED <<kind, disk, lostTables>> /\ phase' # "open" /\ phase' # "opening"
        /\ (queue' = queue \o s /\ phase = "open") \/ queue' = queue
    BY <1>3 DEF Close, Send, history
  <2>2. s \in Seq(WriteOps)
    <3>1. Dirty(notes) \subseteq DOMAIN notes
      BY DEF Dirty
    <3>2. Rows(Dirty(notes)) \in WriteOps
      BY <3>1, RowsTyped
    <3>. QED  BY <3>2, ShortSeqs
  <2>3. \A i \in DOMAIN s : s[i].table = "notes"
    BY DEF Rows
  <2>. HIDE DEF s
  <2>4. EndsWithSpace(s) /\ \A i \in DOMAIN s : ~NoSpace(s[i])
    BY <2>3 DEF EndsWithSpace, Ends, NoSpace
  <2>. QED  BY <1>1, <2>1, <2>2, <2>4
<1>4. CASE Writer
  <2>1. /\ Op \in WriteOps /\ Op = queue[1] /\ queue' = Tail(queue) /\ queue # << >> /\ kind' = kind
        /\ WriteFails => \A t \in TableNames : disk'[t] = disk[t]
    <3>1. Writing /\ kind' = kind
      BY <1>4 DEF Writer, WriteOk, WriteFails, Rest
    <3>. QED  BY <1>0, <1>4, <3>1, OpIs, WriteFailsIs DEF Writing, Writer, WriteOk, WriteFails
  <2>2. "allowEmpty" \in TableNames /\ "spaces" \in TableNames
    BY DEF TableNames
  <2>3. (Begins(Op) => recorded') /\ (recorded /\ ~Ends(Op) => recorded')
    <3>1. CASE WriteOk
      <4>1. disk'.allowEmpty = IF Op.table = "allowEmpty" THEN Op.value ELSE disk.allowEmpty
        BY <3>1, FlagApplied
      <4>2. Op.table # "allowEmpty" => ("allowEmpty" \in lostTables' <=> "allowEmpty" \in lostTables)
        BY <3>1 DEF WriteOk
      <4>. QED  BY <4>1, <4>2 DEF Begins, Ends
    <3>2. CASE WriteFails
      <4>1. lostTables \subseteq lostTables' /\ (Op.table = "allowEmpty" => "allowEmpty" \in lostTables')
        BY <3>2 DEF WriteFails, IsList
      <4>2. disk'["allowEmpty"] = disk["allowEmpty"]
        BY <2>1, <2>2, <3>2
      <4>. QED  BY <4>1, <4>2 DEF Begins, Ends
    <3>. QED  BY <1>4, <3>1, <3>2 DEF Writer
  <2>4. EndsWithSpace(queue') /\ RecordFirst(queue', recorded')
    <3>1. \E r : r = recorded'
      OBVIOUS
    <3>2. PICK after : after = recorded'
      BY <3>1
    <3>3. PICK before : before = recorded
      OBVIOUS
    <3>4. EndsWithSpace(Tail(queue)) /\ RecordFirst(Tail(queue), after)
      <4>. HIDE DEF recorded
      <4>. QED  BY <1>0, <2>1, <2>3, <3>2, <3>3, RecordTaken
    <3>. QED  BY <2>1, <3>2, <3>4
  <2>5. SpaceNext'
    <3>. SUFFICES ASSUME kind = "idb", lostTables' = {}, DOMAIN disk'.spaces = {}, ~disk'.allowEmpty
                  PROVE  queue' # << >> /\ ASpace(queue'[1])
      BY <2>1 DEF SpaceNext
    <3>1. lostTables = {} /\ (WriteFails => ~IsList(Op))
      BY <1>4 DEF Writer, WriteOk, WriteFails
    <3>2. WriteOk => /\ disk'["spaces"] = IF Op.table = "spaces" THEN Op.value ELSE disk["spaces"]
                     /\ disk'["allowEmpty"] = IF Op.table = "allowEmpty" THEN Op.value ELSE disk["allowEmpty"]
      BY <2>2, <3>1, WriteOkIs
    <3>3. CASE DOMAIN disk.spaces = {} /\ ~disk.allowEmpty
      <4>1. ASpace(Op)
        BY <1>0, <2>1, <3>1, <3>3 DEF SpaceNext
      <4>2. WriteOk
        BY <1>4, <3>1, <4>1 DEF Writer, ASpace, IsList
      <4>. QED  BY <3>2, <4>1, <4>2 DEF ASpace
    <3>4. CASE ~(DOMAIN disk.spaces = {} /\ ~disk.allowEmpty)
      <4>1. WriteOk /\ (Op.table = "spaces" \/ Op.table = "allowEmpty")
        BY <1>4, <2>1, <2>2, <3>2, <3>4 DEF Writer
      <4>2. CASE Op.table = "spaces"
        <5>1. 1 \in DOMAIN queue /\ NoSpace(queue[1])
          BY <1>0, <2>1, <3>2, <4>1, <4>2 DEF NoSpace
        <5>2. recorded \/ \E k \in DOMAIN queue : k < 1 /\ Begins(queue[k])
          BY <1>0, <5>1 DEF RecordFirst
        <5>3. \A k \in DOMAIN queue : ~(k < 1)
          BY <1>0
        <5>. QED  BY <3>1, <3>2, <4>1, <4>2, <5>2, <5>3
      <4>3. CASE Op.table = "allowEmpty"
        <5>1. 1 \in DOMAIN queue /\ Ends(queue[1])
          BY <1>0, <2>1, <3>2, <4>1, <4>3 DEF Ends
        <5>2. 2 \in DOMAIN queue /\ ASpace(queue[2])
          BY <1>0, <5>1 DEF EndsWithSpace
        <5>3. queue' # << >> /\ queue'[1] = queue[2]
          <6>1. Len(queue) >= 2
            BY <1>0, <5>2
          <6>2. /\ Len(Tail(queue)) = Len(queue) - 1
                /\ \A i \in 1..Len(Tail(queue)) : Tail(queue)[i] = queue[i + 1]
            BY <1>0, <6>1
          <6>3. 1 \in 1..Len(Tail(queue))
            BY <1>0, <6>1, <6>2
          <6>4. queue'[1] = queue[2]
            BY <2>1, <6>2, <6>3
          <6>5. Len(queue') # 0
            BY <1>0, <2>1, <6>1, <6>2
          <6>. QED  BY <6>4, <6>5
        <5>. QED  BY <5>2, <5>3
      <4>. QED  BY <4>1, <4>2, <4>3
    <3>. QED  BY <3>3, <3>4
  <2>6. phase' = "opening" => \A i \in DOMAIN queue' : queue'[i].table # "allowEmpty"
    <3>1. phase' = phase
      BY <1>4 DEF Writer, WriteOk, WriteFails, Rest
    <3>2. \A i \in DOMAIN queue' : i + 1 \in DOMAIN queue /\ queue'[i] = queue[i + 1]
      BY <1>0, <2>1
    <3>. QED  BY <1>0, <3>1, <3>2
  <2>. QED  BY <2>4, <2>5, <2>6 DEF Recorded
<1>5. CASE Open
  <2>. DEFINE R == [table |-> "notes", value |-> [n \in Dirty(OpenedNotes(disk)) |-> notes'[n]]]
              l1 == Whole("spaces", spaces')
              l2 == Whole("folders", folders')
              l3 == Whole("blobs", blobs')
              lists == <<l1, l2, l3>>
              more == IF Dirty(OpenedNotes(disk)) # {} THEN <<R>> ELSE << >>
              S == {l1, l2, l3, R}
  <2>1. queue' = lists \o more /\ disk' = disk
    BY <1>5 DEF Open, Started
  <2>2. /\ l1.table = "spaces" /\ l2.table = "folders" /\ l3.table = "blobs" /\ R.table = "notes"
        /\ l1.value = OpenedSpaces(disk)
    BY <1>5 DEF Whole, Open
  <2>3. DOMAIN OpenedSpaces(disk) = {} => DOMAIN disk.spaces = {} /\ disk.allowEmpty
    BY DEF OpenedSpaces, Only
  <2>4. DOMAIN disk.spaces = {} /\ ~disk.allowEmpty => DOMAIN OpenedSpaces(disk) # {}
    BY <2>3
  <2>. HIDE DEF l1, l2, l3, R
  <2>5. l1 \in S /\ l2 \in S /\ l3 \in S /\ R \in S
    OBVIOUS
  <2>. HIDE DEF S
  <2>6. lists \in Seq(S) /\ more \in Seq(S) /\ 1 \in DOMAIN lists /\ lists[1] = l1
    BY <2>5, ShortSeqs
  <2>7. \A j \in DOMAIN lists : lists[j] = l1 \/ lists[j] = l2 \/ lists[j] = l3
    OBVIOUS
  <2>8. \A j \in DOMAIN more : more[j] = R
    OBVIOUS
  <2>. HIDE DEF lists, more
  <2>9. Joins(queue', lists, more) /\ Joined(queue', lists, more)
    BY <2>1, <2>6, ConcatElements, ConcatPlaces
  <2>10. \A i \in DOMAIN queue' : queue'[i] = l1 \/ queue'[i] = l2 \/ queue'[i] = l3 \/ queue'[i] = R
    BY <2>7, <2>8, <2>9 DEF Joins
  <2>11. 1 \in DOMAIN queue' /\ queue'[1] = l1
    BY <2>6, <2>9 DEF Joined
  <2>12. EndsWithSpace(queue')
    BY <2>2, <2>10 DEF EndsWithSpace, Ends
  <2>13. RecordFirst(queue', recorded')
    BY <2>1, <2>2, <2>3, <2>10 DEF RecordFirst, NoSpace, Ends
  <2>14. SpaceNext'
    BY <2>1, <2>2, <2>4, <2>11 DEF SpaceNext, ASpace
  <2>15. \A i \in DOMAIN queue' : queue'[i].table # "allowEmpty"
    BY <2>2, <2>10
  <2>. QED  BY <2>12, <2>13, <2>14, <2>15 DEF Recorded
<1>6. CASE Closed \/ Crash \/ OpenDeaf \/ OpenFails \/ FallsBack
  <2>1. queue' = << >> /\ phase' # "open" /\ phase' # "opening"
    BY <1>6 DEF Closed, Crash, OpenDeaf, OpenFails, FallsBack, InMemory, Started, Typed, Counted
  <2>2. DOMAIN << >> = {}
    OBVIOUS
  <2>. QED  BY <2>1, <2>2 DEF Recorded, EndsWithSpace, RecordFirst, SpaceNext
<1>7. CASE Opened
  <2>1. UNCHANGED <<kind, disk, lostTables>> /\ queue' = queue /\ phase = "opening" /\ phase' = "open"
    BY <1>7 DEF Opened
  <2>2. << >> \in Seq(WriteOps) /\ DOMAIN << >> = {}
    OBVIOUS
  <2>. QED  BY <1>1, <2>1, <2>2 DEF EndsWithSpace
\* What is given up of the queue ends no record.
<1>8. CASE OpenAborts
  <2>1. PICK sent \in 0..Len(queue) : queue' = SubSeq(queue, 1, sent)
    BY <1>8 DEF OpenAborts
  <2>2. phase = "opening" /\ phase' = "aborting" /\ kind' = "sqlite" /\ recorded' = recorded
    BY <1>8 DEF OpenAborts
  <2>3. \A i \in DOMAIN queue' : i \in 1..sent /\ i \in DOMAIN queue /\ queue'[i] = queue[i]
    BY <1>0, <2>1, PrefixIs
  <2>4. \A i \in DOMAIN queue' : queue'[i].table # "allowEmpty"
    BY <1>0, <2>2, <2>3
  <2>5. EndsWithSpace(queue')
    BY <2>4 DEF EndsWithSpace, Ends
  <2>6. ASSUME NEW i \in DOMAIN queue', NoSpace(queue'[i]) PROVE recorded
    <3>1. recorded \/ \E k \in DOMAIN queue : k < i /\ Begins(queue[k])
      BY <1>0, <2>3, <2>6 DEF RecordFirst
    <3>. QED  BY <1>0, <2>2, <3>1 DEF Begins
  <2>7. RecordFirst(queue', recorded')
    BY <2>2, <2>4, <2>6 DEF RecordFirst, Ends
  <2>. QED  BY <2>2, <2>5, <2>7 DEF Recorded, SpaceNext
<1>9. CASE UNCHANGED vars
  BY <1>0, <1>9 DEF vars, history, Recorded, SpaceNext
<1>. QED  BY <1>2, <1>3, <1>4, <1>5, <1>6, <1>7, <1>8, <1>9 DEF Next, Lifecycle

LEMMA RecordHolds == Spec => []Recorded
<1>1. Init => Recorded
  <2>. SUFFICES ASSUME Init PROVE Recorded
    OBVIOUS
  <2>1. queue = << >> /\ DOMAIN queue = {} /\ phase = "closed"
    BY DEF Init
  <2>. QED  BY <2>1 DEF Recorded, EndsWithSpace, RecordFirst, SpaceNext
<1>. QED  BY <1>1, RecordedStep, TypedHolds, CacheHolds, PTL DEF Spec

LEMMA NothingIs ==
    ASSUME NEW K, NEW R, NEW t, IsTable(t, K, R)
    PROVE  t = Nothing <=> DOMAIN t = {}
<1>1. t = [k \in DOMAIN t |-> t[k]]
  BY DEF IsTable
<1>2. ASSUME DOMAIN t = {} PROVE t = Nothing
  BY <1>1, <1>2 DEF Nothing
<1>. QED  BY <1>2 DEF Nothing

LEMMA FirstInstallIs ==
    ASSUME NEW d, IsDisk(d)
    PROVE  FirstInstall(d) <=> DOMAIN d.spaces = {} /\ DOMAIN d.notes = {} /\ ~d.allowEmpty
<1>1. d.spaces = Nothing <=> DOMAIN d.spaces = {}
  BY NothingIs DEF IsDisk
<1>2. d.notes = Nothing <=> DOMAIN d.notes = {}
  BY NothingIs DEF IsDisk
<1>. QED  BY <1>1, <1>2 DEF FirstInstall

LEMMA Remembers ==
    ASSUME Typed, Typed', CacheTrue, Keyed, Recorded, [Next]_vars,
           FirstInstall(disk'), ~FirstInstall(disk), lostTables = {}
    PROVE  Op = Whole("allowEmpty", FALSE)
<1>1. /\ DOMAIN disk'.spaces = {} /\ DOMAIN disk'.notes = {} /\ ~disk'.allowEmpty
      /\ ~(DOMAIN disk.spaces = {} /\ DOMAIN disk.notes = {} /\ ~disk.allowEmpty)
  BY FirstInstallIs DEF Typed, TypeOK
<1>2. disk' # disk
  BY DEF FirstInstall
<1>3. WriteOk \/ WriteFails \/ Crash
  <2>1. CASE SpaceOps \/ FolderOps \/ NoteOps \/ BlobOps \/ FlushNotes
    BY <1>2, <2>1, StoreStill
  <2>2. CASE Lifecycle
    BY <1>2, <2>2 DEF Lifecycle, Close, Closed, Open, Opened, OpenAborts, OpenDeaf, OpenFails, FallsBack,
                      InMemory, Started
  <2>. QED  BY <1>2, <2>1, <2>2 DEF Next, Writer, vars
<1>4. "spaces" \in TableNames /\ "allowEmpty" \in TableNames
  BY DEF TableNames
\* Rows that are put, and lists other than the spaces and the record, change nothing of it.
<1>5. ASSUME NEW N, NEW v, disk'["spaces"] = disk["spaces"], disk'["allowEmpty"] = disk["allowEmpty"],
             disk'.notes = Over(disk.notes, [n \in N |-> v[n]])
      PROVE  FALSE
  <2>1. DOMAIN disk.notes = {}
    BY <1>1, <1>5 DEF Over
  <2>. QED  BY <1>1, <1>5, <2>1
<1>6. CASE WriteFails
  <2>1. disk'["spaces"] = disk["spaces"] /\ disk'["allowEmpty"] = disk["allowEmpty"]
    BY <1>4, <1>6, WriteFailsIs
  <2>2. PICK N : disk'.notes = Over(disk.notes, [n \in N |-> Op.value[n]])
    BY <1>6, WriteFailsIs
  <2>3. \E v : disk'.notes = Over(disk.notes, [n \in N |-> v[n]])
    BY <2>2
  <2>. QED  BY <1>5, <2>1, <2>3
<1>7. CASE Crash
  <2>1. disk'["spaces"] = disk["spaces"] /\ disk'["allowEmpty"] = disk["allowEmpty"]
    BY <1>4, <1>7, CrashIs
  <2>2. PICK N : disk'.notes = Over(disk.notes, [n \in N |-> Op.value[n]])
    BY <1>7, CrashIs
  <2>3. \E v : disk'.notes = Over(disk.notes, [n \in N |-> v[n]])
    BY <2>2
  <2>. QED  BY <1>5, <2>1, <2>3
<1>8. CASE WriteOk
  <2>1. Op \in WriteOps /\ Op = queue[1] /\ 1 \in DOMAIN queue /\ queue # << >>
    <3>1. Writing
      BY <1>8 DEF WriteOk
    <3>. QED  BY <3>1, OpIs DEF Typed, QueueTyped, Writing
  <2>2. \A t \in TableNames : disk'[t] = IF Op.table = t THEN Op.value ELSE disk[t]
    BY <1>8, WriteOkIs
  <2>3. /\ IsList(Op) => disk'.notes = disk.notes
        /\ IsRows(Op) => disk'.notes = Over(disk.notes, Op.value)
        /\ IsGone(Op) => disk'.notes = Without(disk.notes, Op.gone)
    BY <1>8, WriteOkIs
  <2>4. CASE IsRows(Op)
    <3>1. disk'["spaces"] = disk["spaces"] /\ disk'["allowEmpty"] = disk["allowEmpty"]
      BY <1>4, <2>2, <2>4 DEF IsRows
    <3>2. DOMAIN disk.notes = {}
      BY <1>1, <2>3, <2>4 DEF Over
    <3>. QED  BY <1>1, <3>1, <3>2
\* Rows of notes without a space: the foreign key forbids them, or a space is written next.
  <2>5. CASE IsGone(Op)
    <3>1. disk'["spaces"] = disk["spaces"] /\ disk'["allowEmpty"] = disk["allowEmpty"]
      BY <1>4, <2>2, <2>5 DEF IsGone, IsList
    <3>2. DOMAIN disk.spaces = {} /\ ~disk.allowEmpty /\ DOMAIN disk.notes # {}
      BY <1>1, <3>1
    <3>3. kind = "idb"
      <4>1. kind \in Kinds
        BY DEF Typed, TypeOK
      <4>. QED  BY <3>2, <4>1 DEF Keyed, Kinds
    <3>4. ASpace(queue[1])
      BY <2>1, <3>2, <3>3 DEF Recorded, SpaceNext
    <3>. QED  BY <2>1, <2>5, <3>4 DEF ASpace, IsGone, IsList
  <2>6. CASE IsList(Op)
    <3>1. Op.table \in TableNames /\ Op = Whole(Op.table, Op.value)
      BY <2>1, <2>6, WriteOpIs
    <3>2. CASE Op.table = "allowEmpty"
      <4>1. Op.value = FALSE
        <5>1. Op.value \in BOOLEAN
          BY <2>1, <3>2, WriteOpIs
        <5>2. disk'["allowEmpty"] = Op.value
          BY <1>4, <2>2, <3>2
        <5>. QED  BY <1>1, <5>1, <5>2
      <4>. QED  BY <3>1, <3>2, <4>1
    <3>3. CASE Op.table = "spaces"
      <4>1. disk'["spaces"] = Op.value /\ disk'["allowEmpty"] = disk["allowEmpty"]
        BY <1>4, <2>2, <3>3
      <4>2. NoSpace(queue[1])
        BY <1>1, <2>1, <3>3, <4>1 DEF NoSpace
      <4>3. disk.allowEmpty \/ \E k \in DOMAIN queue : k < 1 /\ Begins(queue[k])
        BY <2>1, <4>2 DEF Recorded, RecordFirst
      <4>4. \A k \in DOMAIN queue : ~(k < 1)
        BY DEF Typed, QueueTyped
      <4>. QED  BY <1>1, <4>1, <4>3, <4>4
    <3>4. CASE Op.table # "allowEmpty" /\ Op.table # "spaces"
      <4>1. disk'["spaces"] = disk["spaces"] /\ disk'["allowEmpty"] = disk["allowEmpty"]
        BY <1>4, <2>2, <3>4
      <4>. QED  BY <1>1, <2>3, <2>6, <4>1
    <3>. QED  BY <3>2, <3>3, <3>4
  <2>. QED  BY <2>4, <2>5, <2>6 DEF IsGone
<1>. QED  BY <1>3, <1>6, <1>7, <1>8

-----------------------------------------------------------------------------
(* Only the end of the record that there may be no space makes a disk look   *)
(* like a first installation, and a space is written next: deleting the last *)
(* space never brings the welcome note back (note.rs delete_space,           *)
(* create_space_named, finish_open).                                         *)
THEOREM DeletionsAreRemembered == Spec => DeletingIsRemembered
<1>1. Typed /\ Typed' /\ CacheTrue /\ Keyed /\ Recorded /\ [Next]_vars =>
        [FirstInstall(disk') /\ ~FirstInstall(disk) /\ lostTables = {} => Op = Whole("allowEmpty", FALSE)]_disk
  BY Remembers
<1>. QED  BY <1>1, TypedHolds, CacheHolds, KeyedHolds, RecordHolds, PTL DEF Spec, DeletingIsRemembered
-----------------------------------------------------------------------------
(* QuietMeansSaved. *)

\* The list in memory is on the disk or on its way there, behind every other version of it.
ListSaved(t) ==
    /\ \A i \in DOMAIN queue : queue[i].table = t =>
        \/ queue[i].value = Memory(t)
        \/ \E j \in DOMAIN queue : j > i /\ queue[j].table = t /\ queue[j].value = Memory(t)
    /\ \/ t \in lostTables \/ disk[t] = Memory(t)
       \/ \E j \in DOMAIN queue : queue[j].table = t /\ queue[j].value = Memory(t)
\* So is a note that is clean, and the deletion of one that is gone.
Mentions(op, n) == (IsRows(op) /\ n \in DOMAIN op.value) \/ (IsGone(op) /\ n \in op.gone)
Right(op, n, ns) ==
    IF n \in DOMAIN ns THEN IsRows(op) /\ n \in DOMAIN op.value /\ op.value[n] = ns[n]
                       ELSE IsGone(op) /\ n \in op.gone
RightRow(rows, n, ns) ==
    IF n \in DOMAIN ns THEN n \in DOMAIN rows /\ rows[n] = ns[n] ELSE n \notin DOMAIN rows
NoteSaved(n) ==
    \/ n \in DOMAIN notes /\ notes[n].dirty
    \/ /\ \A i \in DOMAIN queue : Mentions(queue[i], n) =>
            \/ Right(queue[i], n, notes)
            \/ \E j \in DOMAIN queue : j > i /\ Right(queue[j], n, notes)
       /\ \/ n \in lostNotes \/ RightRow(disk.notes, n, notes)
          \/ \E j \in DOMAIN queue : Right(queue[j], n, notes)
AllSaved == (\A t \in TableNames : ListSaved(t)) /\ \A n \in Nat : NoteSaved(n)
\* That there is no space is recorded.
Emptied == DOMAIN spaces = {} => allowEmpty
Saved == phase \in {"opening", "open"} => Emptied /\ (kind = "sqlite" => AllSaved)

\* Where the queue q has grown by s.
Grown(q, s, b, w) ==
    /\ \A i \in DOMAIN q : i \in Nat /\ i \in DOMAIN w /\ w[i] = q[i]
    /\ \A j \in DOMAIN s : b + j \in DOMAIN w /\ w[b + j] = s[j]
    /\ \A i \in DOMAIN w : \A j \in DOMAIN s : i \in DOMAIN q => b + j > i
    /\ \A i \in DOMAIN w : i \in DOMAIN q \/ \E j \in DOMAIN s : i = b + j /\ w[i] = s[j]
    /\ \A j, k \in DOMAIN s : j > k => b + j > b + k
LEMMA GrownQueue ==
    ASSUME NEW q \in Seq(WriteOps), NEW s \in Seq(WriteOps), NEW w, w = q \o s
    PROVE  Grown(q, s, Len(q), w)
<1>1. w \in Seq(WriteOps) /\ Joined(w, q, s)
  BY ConcatElements, ConcatPlaces
<1>2. /\ Len(w) = Len(q) + Len(s) /\ Len(w) \in Nat /\ Len(q) \in Nat /\ Len(s) \in Nat
      /\ DOMAIN w = 1..Len(w) /\ DOMAIN q = 1..Len(q) /\ DOMAIN s = 1..Len(s)
      /\ \A j \in DOMAIN q : j \in DOMAIN w /\ w[j] = q[j]
      /\ \A j \in DOMAIN s : Len(q) + j \in DOMAIN w /\ w[Len(q) + j] = s[j]
  BY <1>1 DEF Joined
<1>3. \A i \in DOMAIN w : i \in DOMAIN q \/ \E j \in DOMAIN s : i = Len(q) + j /\ w[i] = s[j]
  <2>1. TAKE i \in DOMAIN w
  <2>2. CASE i > Len(q)
    <3>1. i - Len(q) \in DOMAIN s /\ Len(q) + (i - Len(q)) = i
      BY <1>2, <2>2
    <3>. QED  BY <1>2, <3>1
  <2>. QED  BY <1>2, <2>2
<1>4. \A i \in DOMAIN w : \A j \in DOMAIN s : i \in DOMAIN q => Len(q) + j > i
  BY <1>2
<1>5. \A j, k \in DOMAIN s : j > k => Len(q) + j > Len(q) + k
  BY <1>2
<1>. QED  BY <1>2, <1>3, <1>4, <1>5 DEF Grown

LEMMA ListsGrow ==
    ASSUME Typed, NEW t \in TableNames, ListSaved(t), NEW s \in Seq(WriteOps), queue' = queue \o s,
           disk'[t] = disk[t], lostTables' = lostTables,
           \A i \in DOMAIN s : s[i].table = t =>
                \/ s[i].value = Memory(t)'
                \/ \E j \in DOMAIN s : j > i /\ s[j].table = t /\ s[j].value = Memory(t)',
           Memory(t)' = Memory(t) \/ \E j \in DOMAIN s : s[j].table = t /\ s[j].value = Memory(t)'
    PROVE  ListSaved(t)'
<1>. DEFINE b == Len(queue)
            now == Memory(t)'
<1>1. /\ \A i \in DOMAIN queue : i \in Nat /\ i \in DOMAIN queue' /\ queue'[i] = queue[i]
      /\ \A j \in DOMAIN s : b + j \in DOMAIN queue' /\ queue'[b + j] = s[j]
      /\ \A i \in DOMAIN queue' : \A j \in DOMAIN s : i \in DOMAIN queue => b + j > i
      /\ \A i \in DOMAIN queue' : i \in DOMAIN queue \/ \E j \in DOMAIN s : i = b + j /\ queue'[i] = s[j]
      /\ \A j, k \in DOMAIN s : j > k => b + j > b + k
  <2>1. queue \in Seq(WriteOps)
    BY DEF Typed, QueueTyped
  <2>2. Grown(queue, s, b, queue')
    BY <2>1, GrownQueue
  <2>. HIDE DEF b
  <2>. QED  BY <2>2 DEF Grown
<1>. HIDE DEF b, now
<1>2. ASSUME NEW j \in DOMAIN s, s[j].table = t, s[j].value = now
      PROVE  /\ \A i \in DOMAIN queue : \E k \in DOMAIN queue' : k > i /\ queue'[k].table = t /\ queue'[k].value = now
             /\ \E k \in DOMAIN queue' : queue'[k].table = t /\ queue'[k].value = now
  <2>1. b + j \in DOMAIN queue' /\ queue'[b + j].table = t /\ queue'[b + j].value = now
    BY <1>1, <1>2
  <2>. QED  BY <1>1, <2>1
<1>3. ASSUME NEW i \in DOMAIN queue', queue'[i].table = t
      PROVE  \/ queue'[i].value = now
             \/ \E k \in DOMAIN queue' : k > i /\ queue'[k].table = t /\ queue'[k].value = now
  <2>1. CASE i \in DOMAIN queue
    <3>1. CASE \E j \in DOMAIN s : s[j].table = t /\ s[j].value = now
      BY <1>2, <2>1, <3>1
    <3>2. CASE now = Memory(t)
      <4>1. \/ queue[i].value = now
            \/ \E j \in DOMAIN queue : j > i /\ queue[j].table = t /\ queue[j].value = now
        BY <1>1, <1>3, <2>1, <3>2 DEF ListSaved
      <4>. QED  BY <1>1, <2>1, <4>1
    <3>. QED  BY <3>1, <3>2 DEF now
  <2>2. ASSUME NEW l \in DOMAIN s, i = b + l, queue'[i] = s[l]
        PROVE  \/ queue'[i].value = now
               \/ \E k \in DOMAIN queue' : k > i /\ queue'[k].table = t /\ queue'[k].value = now
    <3>1. \/ s[l].value = now
          \/ \E j \in DOMAIN s : j > l /\ s[j].table = t /\ s[j].value = now
      BY <1>3, <2>2 DEF now
    <3>2. ASSUME NEW j \in DOMAIN s, j > l, s[j].table = t, s[j].value = now
          PROVE  \E k \in DOMAIN queue' : k > i /\ queue'[k].table = t /\ queue'[k].value = now
      <4>1. b + j \in DOMAIN queue' /\ b + j > i /\ queue'[b + j] = s[j]
        BY <1>1, <2>2, <3>2
      <4>. QED  BY <3>2, <4>1
    <3>. QED  BY <2>2, <3>1, <3>2
  <2>. QED  BY <1>1, <2>1, <2>2
<1>4. \/ t \in lostTables' \/ disk'[t] = now
      \/ \E j \in DOMAIN queue' : queue'[j].table = t /\ queue'[j].value = now
  <2>1. CASE \E j \in DOMAIN s : s[j].table = t /\ s[j].value = now
    BY <1>2, <2>1
  <2>2. CASE now = Memory(t)
    <3>1. \/ t \in lostTables \/ disk[t] = now
          \/ \E j \in DOMAIN queue : queue[j].table = t /\ queue[j].value = now
      BY <2>2 DEF ListSaved
    <3>. QED  BY <1>1, <3>1
  <2>. QED  BY <2>1, <2>2 DEF now
<1>. QED  BY <1>3, <1>4 DEF ListSaved, now

\* All that a step writes of a note is what the note is then.
LEMMA NotesGrow ==
    ASSUME Typed, NEW n, NoteSaved(n), NEW s \in Seq(WriteOps), queue' = queue \o s,
           disk' = disk, lostNotes' = lostNotes,
           \A i \in DOMAIN s : Mentions(s[i], n) => Right(s[i], n, notes'),
           \/ n \notin DOMAIN notes /\ n \notin DOMAIN notes'
           \/ n \in DOMAIN notes /\ n \in DOMAIN notes' /\ notes'[n] = notes[n]
           \/ \E i \in DOMAIN s : Right(s[i], n, notes')
    PROVE  NoteSaved(n)'
<1>. DEFINE b == Len(queue)
            after == notes'
            w == queue'
<1>1. /\ \A i \in DOMAIN queue : i \in Nat /\ i \in DOMAIN w /\ w[i] = queue[i]
      /\ \A j \in DOMAIN s : b + j \in DOMAIN w /\ w[b + j] = s[j]
      /\ \A i \in DOMAIN w : \A j \in DOMAIN s : i \in DOMAIN queue => b + j > i
      /\ \A i \in DOMAIN w : i \in DOMAIN queue \/ \E j \in DOMAIN s : i = b + j /\ w[i] = s[j]
  <2>1. queue \in Seq(WriteOps)
    BY DEF Typed, QueueTyped
  <2>2. Grown(queue, s, b, w)
    BY <2>1, GrownQueue
  <2>. HIDE DEF b, w
  <2>. QED  BY <2>2 DEF Grown
<1>. SUFFICES ASSUME ~(n \in DOMAIN after /\ after[n].dirty)
              PROVE  /\ \A i \in DOMAIN w : Mentions(w[i], n) =>
                            \/ Right(w[i], n, after)
                            \/ \E j \in DOMAIN w : j > i /\ Right(w[j], n, after)
                     /\ \/ n \in lostNotes \/ RightRow(disk.notes, n, after)
                        \/ \E j \in DOMAIN w : Right(w[j], n, after)
  BY DEF NoteSaved
<1>. HIDE DEF b, after, w
<1>2. ASSUME NEW i \in DOMAIN queue', Mentions(w[i], n), i \notin DOMAIN queue
      PROVE  Right(w[i], n, after)
  BY <1>1, <1>2 DEF after, w
<1>3. CASE \E i \in DOMAIN s : Right(s[i], n, after)
  <2>1. PICK j \in DOMAIN s : Right(s[j], n, after)
    BY <1>3
  <2>2. b + j \in DOMAIN w /\ Right(w[b + j], n, after) /\ \A i \in DOMAIN queue : b + j > i
    BY <1>1, <2>1
  <2>. QED  BY <1>2, <2>2 DEF w
<1>4. CASE \/ n \notin DOMAIN notes /\ n \notin DOMAIN after
           \/ n \in DOMAIN notes /\ n \in DOMAIN after /\ after[n] = notes[n]
  <2>1. /\ \A op : Right(op, n, after) <=> Right(op, n, notes)
        /\ RightRow(disk.notes, n, after) <=> RightRow(disk.notes, n, notes)
    BY <1>4 DEF Right, RightRow
  <2>2. /\ \A i \in DOMAIN queue : Mentions(queue[i], n) =>
            \/ Right(queue[i], n, after)
            \/ \E j \in DOMAIN queue : j > i /\ Right(queue[j], n, after)
        /\ \/ n \in lostNotes \/ RightRow(disk.notes, n, after)
           \/ \E j \in DOMAIN queue : Right(queue[j], n, after)
    BY <1>4, <2>1 DEF NoteSaved
  <2>3. ASSUME NEW i \in DOMAIN w, Mentions(w[i], n)
        PROVE  \/ Right(w[i], n, after)
               \/ \E j \in DOMAIN w : j > i /\ Right(w[j], n, after)
    <3>1. CASE i \in DOMAIN queue
      <4>1. \/ Right(queue[i], n, after)
            \/ \E j \in DOMAIN queue : j > i /\ Right(queue[j], n, after)
        BY <1>1, <2>2, <2>3, <3>1
      <4>2. ASSUME NEW j \in DOMAIN queue, j > i, Right(queue[j], n, after)
            PROVE  \E k \in DOMAIN w : k > i /\ Right(w[k], n, after)
        <5>1. j \in DOMAIN w /\ w[j] = queue[j]
          BY <1>1
        <5>. QED  BY <4>2, <5>1
      <4>. QED  BY <1>1, <3>1, <4>1, <4>2
    <3>. QED  BY <1>2, <2>3, <3>1 DEF w
  <2>4. \/ n \in lostNotes \/ RightRow(disk.notes, n, after)
        \/ \E j \in DOMAIN w : Right(w[j], n, after)
    <3>1. ASSUME NEW j \in DOMAIN queue, Right(queue[j], n, after)
          PROVE  \E k \in DOMAIN w : Right(w[k], n, after)
      <4>1. j \in DOMAIN w /\ w[j] = queue[j]
        BY <1>1
      <4>. QED  BY <3>1, <4>1
    <3>. QED  BY <2>2, <3>1
  <2>. QED  BY <2>3, <2>4
<1>. QED  BY <1>3, <1>4 DEF after

\* The writer takes the first of the queue.
LEMMA ListsShrink ==
    ASSUME Typed, NEW t \in TableNames, ListSaved(t), Writer, kind = "sqlite", CacheTrue
    PROVE  ListSaved(t)'
<1>. DEFINE now == Memory(t)
<1>1. /\ Op \in WriteOps /\ Op = queue[1] /\ queue' = Tail(queue) /\ queue # << >>
      /\ queue \in Seq(WriteOps) /\ Memory(t)' = now
  <2>1. Writing /\ Rest /\ UNCHANGED <<spaces, folders, blobs, allowEmpty>>
    BY DEF Writer, WriteOk, WriteFails, Rest, db, tables
  <2>. QED  BY <2>1, OpIs DEF Typed, QueueTyped, Writing, Memory
<1>. HIDE DEF now
<1>2. /\ \A i \in DOMAIN queue' : i \in Nat /\ i + 1 \in DOMAIN queue /\ queue'[i] = queue[i + 1]
      /\ \A k \in DOMAIN queue : k \in Nat /\ (k # 1 => k - 1 \in DOMAIN queue' /\ queue'[k - 1] = queue[k])
      /\ 1 \in DOMAIN queue
  BY <1>1
<1>3. ASSUME NEW i \in DOMAIN queue', queue'[i].table = t
      PROVE  \/ queue'[i].value = now
             \/ \E k \in DOMAIN queue' : k > i /\ queue'[k].table = t /\ queue'[k].value = now
  <2>1. \/ queue[i + 1].value = now
        \/ \E j \in DOMAIN queue : j > i + 1 /\ queue[j].table = t /\ queue[j].value = now
    BY <1>2, <1>3 DEF ListSaved, now
  <2>2. ASSUME NEW j \in DOMAIN queue, j > i + 1, queue[j].table = t, queue[j].value = now
        PROVE  \E k \in DOMAIN queue' : k > i /\ queue'[k].table = t /\ queue'[k].value = now
    <3>1. j - 1 \in DOMAIN queue' /\ j - 1 > i /\ queue'[j - 1] = queue[j]
      BY <1>2, <2>2
    <3>. QED  BY <2>2, <3>1
  <2>. QED  BY <1>2, <2>1, <2>2
<1>4. \/ t \in lostTables' \/ disk'[t] = now
      \/ \E j \in DOMAIN queue' : queue'[j].table = t /\ queue'[j].value = now
  <2>0. ASSUME NEW j \in DOMAIN queue, j # 1, queue[j].table = t, queue[j].value = now
        PROVE  \E k \in DOMAIN queue' : queue'[k].table = t /\ queue'[k].value = now
    <3>1. j - 1 \in DOMAIN queue' /\ queue'[j - 1] = queue[j]
      BY <1>2, <2>0
    <3>. QED  BY <2>0, <3>1
  <2>1. CASE Op.table = t
    <3>1. CASE WriteFails
      <4>1. IsList(Op)
        BY <2>1 DEF IsList, TableNames
      <4>. QED  BY <2>1, <3>1, <4>1 DEF WriteFails
    <3>2. CASE WriteOk
      <4>1. disk'[t] = Op.value
        BY <2>1, <3>2, WriteOkIs
      <4>2. \/ Op.value = now
            \/ \E j \in DOMAIN queue : j > 1 /\ queue[j].table = t /\ queue[j].value = now
        BY <1>1, <1>2, <2>1 DEF ListSaved, now
      <4>. QED  BY <1>2, <2>0, <4>1, <4>2
    <3>. QED  BY <3>1, <3>2 DEF Writer
  <2>2. CASE Op.table # t
    <3>1. /\ t \in lostTables => t \in lostTables'
          /\ disk'[t] = disk[t]
      <4>1. CASE WriteOk
        <5>1. disk'[t] = disk[t]
          BY <2>2, <4>1, WriteOkIs
        <5>. QED  BY <2>2, <4>1, <5>1 DEF WriteOk
      <4>2. CASE WriteFails
        <5>1. disk'[t] = disk[t]
          BY <4>2, WriteFailsIs
        <5>. QED  BY <4>2, <5>1 DEF WriteFails
      <4>. QED  BY <4>1, <4>2 DEF Writer
    <3>2. \/ t \in lostTables \/ disk[t] = now
          \/ \E j \in DOMAIN queue : queue[j].table = t /\ queue[j].value = now
      BY DEF ListSaved, now
    <3>. QED  BY <1>1, <2>0, <2>2, <3>1, <3>2
  <2>. QED  BY <2>1, <2>2
<1>. QED  BY <1>1, <1>3, <1>4 DEF ListSaved

LEMMA NotesShrink ==
    ASSUME Typed, NEW n \in Nat, NoteSaved(n), Writer, kind = "sqlite", CacheTrue
    PROVE  NoteSaved(n)'
<1>1. /\ Op \in WriteOps /\ Op = queue[1] /\ queue' = Tail(queue) /\ queue # << >>
      /\ queue \in Seq(WriteOps) /\ notes' = notes
  <2>1. Writing /\ Rest /\ notes' = notes
    BY DEF Writer, WriteOk, WriteFails, Rest, db, tables
  <2>. QED  BY <2>1, OpIs DEF Typed, QueueTyped, Writing
<1>. SUFFICES ASSUME ~(n \in DOMAIN notes /\ notes[n].dirty)
              PROVE  /\ \A i \in DOMAIN queue' : Mentions(queue'[i], n) =>
                            \/ Right(queue'[i], n, notes)
                            \/ \E j \in DOMAIN queue' : j > i /\ Right(queue'[j], n, notes)
                     /\ \/ n \in lostNotes' \/ RightRow(disk'.notes, n, notes)
                        \/ \E j \in DOMAIN queue' : Right(queue'[j], n, notes)
  BY <1>1 DEF NoteSaved
<1>2. /\ \A i \in DOMAIN queue' : i \in Nat /\ i + 1 \in DOMAIN queue /\ queue'[i] = queue[i + 1]
      /\ \A k \in DOMAIN queue : k \in Nat /\ (k # 1 => k - 1 \in DOMAIN queue' /\ queue'[k - 1] = queue[k])
      /\ 1 \in DOMAIN queue
  BY <1>1
<1>0. /\ \A i \in DOMAIN queue : Mentions(queue[i], n) =>
            \/ Right(queue[i], n, notes)
            \/ \E j \in DOMAIN queue : j > i /\ Right(queue[j], n, notes)
      /\ \/ n \in lostNotes \/ RightRow(disk.notes, n, notes)
         \/ \E j \in DOMAIN queue : Right(queue[j], n, notes)
  BY DEF NoteSaved
<1>3. ASSUME NEW i \in DOMAIN queue', Mentions(queue'[i], n)
      PROVE  \/ Right(queue'[i], n, notes)
             \/ \E k \in DOMAIN queue' : k > i /\ Right(queue'[k], n, notes)
  <2>1. \/ Right(queue[i + 1], n, notes)
        \/ \E j \in DOMAIN queue : j > i + 1 /\ Right(queue[j], n, notes)
    BY <1>0, <1>2, <1>3
  <2>2. ASSUME NEW j \in DOMAIN queue, j > i + 1, Right(queue[j], n, notes)
        PROVE  \E k \in DOMAIN queue' : k > i /\ Right(queue'[k], n, notes)
    <3>1. j - 1 \in DOMAIN queue' /\ j - 1 > i /\ queue'[j - 1] = queue[j]
      BY <1>2, <2>2
    <3>. QED  BY <2>2, <3>1
  <2>. QED  BY <1>2, <2>1, <2>2
<1>4. ASSUME NEW j \in DOMAIN queue, j # 1, Right(queue[j], n, notes)
      PROVE  \E k \in DOMAIN queue' : Right(queue'[k], n, notes)
  <2>1. j - 1 \in DOMAIN queue' /\ queue'[j - 1] = queue[j]
    BY <1>2, <1>4
  <2>. QED  BY <1>4, <2>1
\* What is on the disk of the note, when the first of the queue was not it.
<1>5. ASSUME n \in lostNotes => n \in lostNotes', RightRow(disk.notes, n, notes) => RightRow(disk'.notes, n, notes),
             ~Right(Op, n, notes)
      PROVE  \/ n \in lostNotes' \/ RightRow(disk'.notes, n, notes)
             \/ \E j \in DOMAIN queue' : Right(queue'[j], n, notes)
  BY <1>0, <1>1, <1>4, <1>5
<1>6. CASE Mentions(Op, n)
  <2>1. Right(Op, n, notes) \/ \E k \in DOMAIN queue' : Right(queue'[k], n, notes)
    <3>1. \/ Right(queue[1], n, notes)
          \/ \E j \in DOMAIN queue : j > 1 /\ Right(queue[j], n, notes)
      BY <1>0, <1>1, <1>2, <1>6
    <3>. QED  BY <1>1, <1>4, <3>1
  <2>2. ASSUME Right(Op, n, notes) PROVE n \in lostNotes' \/ RightRow(disk'.notes, n, notes)
    <3>1. CASE WriteOk
      <4>1. /\ IsRows(Op) => disk'.notes = Over(disk.notes, Op.value)
            /\ IsGone(Op) => disk'.notes = Without(disk.notes, Op.gone)
        BY <3>1, WriteOkIs
      <4>2. CASE n \in DOMAIN notes
        BY <2>2, <4>1, <4>2 DEF Right, RightRow, Over
      <4>3. CASE n \notin DOMAIN notes
        BY <2>2, <4>1, <4>3 DEF Right, RightRow, Without
      <4>. QED  BY <4>2, <4>3
    <3>2. CASE WriteFails /\ IsRows(Op)
      <4>1. PICK N : /\ disk'.notes = Over(disk.notes, [m \in N |-> Op.value[m]])
                     /\ IsRows(Op) => \A m \in DOMAIN Op.value \ N : m \in lostNotes'
        BY <3>2, WriteFailsIs
      <4>2. n \in DOMAIN notes /\ n \in DOMAIN Op.value /\ Op.value[n] = notes[n]
        BY <2>2, <3>2 DEF Right, IsGone
      <4>3. CASE n \in N
        <5>1. n \in DOMAIN disk'.notes /\ disk'.notes[n] = Op.value[n]
          BY <4>1, <4>3 DEF Over
        <5>. QED  BY <4>2, <5>1 DEF RightRow
      <4>. QED  BY <3>2, <4>1, <4>2, <4>3
    <3>3. CASE WriteFails /\ ~IsRows(Op)
      <4>1. IsGone(Op) /\ n \in Op.gone
        BY <2>2, <3>3 DEF Right
      <4>2. lostNotes' = lostNotes \cup Op.gone
        BY <3>3, <4>1 DEF WriteFails, IsGone, IsRows, IsList
      <4>. QED  BY <4>1, <4>2
    <3>. QED  BY <3>1, <3>2, <3>3 DEF Writer
  <2>. QED  BY <1>3, <2>1, <2>2
<1>7. CASE ~Mentions(Op, n)
  <2>1. ~Right(Op, n, notes)
    BY <1>7 DEF Right, Mentions
  <2>2. /\ n \in lostNotes => n \in lostNotes'
        /\ RightRow(disk.notes, n, notes) => RightRow(disk'.notes, n, notes)
    <3>1. CASE WriteOk
      <4>1. /\ IsRows(Op) => disk'.notes = Over(disk.notes, Op.value)
            /\ IsGone(Op) => disk'.notes = Without(disk.notes, Op.gone)
            /\ IsList(Op) => disk'.notes = disk.notes
        BY <3>1, WriteOkIs
      <4>2. n \in lostNotes => n \in lostNotes'
        BY <1>7, <3>1 DEF WriteOk, Mentions
      <4>3. CASE IsRows(Op)
        BY <1>7, <4>1, <4>2, <4>3 DEF Mentions, RightRow, Over
      <4>4. CASE IsGone(Op)
        BY <1>7, <4>1, <4>2, <4>4 DEF Mentions, RightRow, Without
      <4>. QED  BY <4>1, <4>2, <4>3, <4>4 DEF IsGone
    <3>2. CASE WriteFails
      <4>1. PICK N : /\ disk'.notes = Over(disk.notes, [m \in N |-> Op.value[m]])
                     /\ N # {} => IsRows(Op) /\ N \subseteq DOMAIN Op.value
        BY <3>2, WriteFailsIs
      <4>2. n \notin N
        BY <1>7, <4>1 DEF Mentions
      <4>3. /\ n \in DOMAIN disk'.notes <=> n \in DOMAIN disk.notes
            /\ n \in DOMAIN disk.notes => disk'.notes[n] = disk.notes[n]
        BY <4>1, <4>2 DEF Over
      <4>4. n \in lostNotes => n \in lostNotes'
        BY <3>2 DEF WriteFails, IsRows, IsList
      <4>. QED  BY <4>3, <4>4 DEF RightRow
    <3>. QED  BY <3>1, <3>2 DEF Writer
  <2>. QED  BY <1>3, <1>5, <2>1, <2>2
<1>. QED  BY <1>6, <1>7

LEMMA OperationsSaved ==
    ASSUME Typed, Typed', AllSaved, phase = "open",
           SpaceOps \/ FolderOps \/ NoteOps \/ BlobOps \/ FlushNotes
    PROVE  AllSaved'
<1>1. disk' = disk /\ lostTables' = lostTables /\ lostNotes' = lostNotes
  BY StoreStill
<1>2. PICK s : Sends(s)
  BY OperationsSend
<1>3. s \in Seq(WriteOps) /\ queue' = queue \o s
  BY <1>2 DEF Sends, Send
<1>4. ASSUME NEW t \in TableNames PROVE ListSaved(t)'
  <2>1. \A i \in DOMAIN s : s[i].table = t =>
            \/ s[i].value = Memory(t)'
            \/ \E j \in DOMAIN s : j > i /\ s[j].table = t /\ s[j].value = Memory(t)'
    BY <1>2 DEF Sends, ListsSent, Memory, TableNames, Whole
  <2>2. Memory(t)' = Memory(t) \/ \E j \in DOMAIN s : s[j].table = t /\ s[j].value = Memory(t)'
    BY <1>2 DEF Sends, ListsSent, Memory, TableNames, Whole
  <2>3. ListSaved(t) /\ disk'[t] = disk[t]
    BY <1>1 DEF AllSaved
  <2>. QED  BY <1>1, <1>3, <2>1, <2>2, <2>3, ListsGrow
<1>5. ASSUME NEW n \in Nat PROVE NoteSaved(n)'
  <2>1. CASE n \in DOMAIN notes' /\ notes'[n].dirty
    BY <2>1 DEF NoteSaved
  <2>2. CASE ~(n \in DOMAIN notes' /\ notes'[n].dirty)
    <3>. DEFINE after == notes'
    <3>1. n \in DOMAIN after => Snapshot(after[n]) = after[n]
      <4>0. IsTable(notes', Nat, Note)
        BY DEF Typed, TypeOK
      <4>1. \A m \in DOMAIN notes' : notes'[m] \in Note
        BY <4>0, TableEntry
      <4>. QED  BY <2>2, <4>1, SnapshotIs
    <3>2. RowsOf(s, after) /\ \A i \in DOMAIN s : IsGone(s[i]) => \A m \in s[i].gone : m \notin DOMAIN after
      BY <1>2 DEF Sends, NotesSent
    <3>3. /\ n \in DOMAIN after =>
                \/ n \in DOMAIN notes /\ after[n] = notes[n]
                \/ \E i \in DOMAIN s : IsRows(s[i]) /\ n \in DOMAIN s[i].value
          /\ n \in DOMAIN notes /\ n \notin DOMAIN after =>
                \E i \in DOMAIN s : IsGone(s[i]) /\ n \in s[i].gone
      BY <1>2, <2>2 DEF Sends, NotesSent
    <3>. HIDE DEF after
    <3>4. \A i \in DOMAIN s : Mentions(s[i], n) => Right(s[i], n, after)
      BY <3>1, <3>2 DEF Mentions, Right, RowsOf
    <3>5. \/ n \notin DOMAIN notes /\ n \notin DOMAIN after
          \/ n \in DOMAIN notes /\ n \in DOMAIN after /\ after[n] = notes[n]
          \/ \E i \in DOMAIN s : Right(s[i], n, after)
      BY <3>3, <3>4 DEF Mentions
    <3>6. NoteSaved(n)
      BY DEF AllSaved
    <3>. QED  BY <1>1, <1>3, <3>4, <3>5, <3>6, NotesGrow DEF after
  <2>. QED  BY <2>1, <2>2
<1>. QED  BY <1>4, <1>5 DEF AllSaved

LEMMA OpenSaved ==
    ASSUME Typed, Typed', Open
    PROVE  AllSaved'
<1>. DEFINE loaded == OpenedNotes(disk)
            R == [table |-> "notes", value |-> [n \in Dirty(loaded) |-> notes'[n]]]
            l1 == Whole("spaces", spaces')
            l2 == Whole("folders", folders')
            l3 == Whole("blobs", blobs')
            lists == <<l1, l2, l3>>
            more == IF Dirty(loaded) # {} THEN <<R>> ELSE << >>
            S == {l1, l2, l3, R}
<1>1. /\ queue' = lists \o more /\ disk' = disk /\ allowEmpty' = disk["allowEmpty"]
      /\ lostNotes' = Repaired(disk)
  BY DEF Open, Started
<1>2. /\ l1.table = "spaces" /\ l2.table = "folders" /\ l3.table = "blobs" /\ R.table = "notes"
      /\ l1.value = spaces' /\ l2.value = folders' /\ l3.value = blobs'
      /\ R.value = [n \in Dirty(loaded) |-> notes'[n]] /\ IsRows(R)
  BY DEF Whole, IsRows
<1>. HIDE DEF l1, l2, l3, R
<1>3. l1 \in S /\ l2 \in S /\ l3 \in S /\ R \in S
  OBVIOUS
<1>. HIDE DEF S
<1>4. lists \in Seq(S) /\ more \in Seq(S)
  BY <1>3, ShortSeqs
<1>5. \A j \in DOMAIN lists : lists[j] = l1 \/ lists[j] = l2 \/ lists[j] = l3
  OBVIOUS
<1>6. /\ \E j \in DOMAIN lists : lists[j] = l1
      /\ \E j \in DOMAIN lists : lists[j] = l2
      /\ \E j \in DOMAIN lists : lists[j] = l3
  <2>1. 1 \in DOMAIN lists /\ 2 \in DOMAIN lists /\ 3 \in DOMAIN lists
    OBVIOUS
  <2>2. lists[1] = l1 /\ lists[2] = l2 /\ lists[3] = l3
    OBVIOUS
  <2>. HIDE DEF lists
  <2>. QED  BY <2>1, <2>2
<1>7. \A j \in DOMAIN more : more[j] = R
  OBVIOUS
<1>8. Dirty(loaded) # {} => \E j \in DOMAIN more : more[j] = R
  <2>. SUFFICES ASSUME Dirty(loaded) # {} PROVE 1 \in DOMAIN more /\ more[1] = R
    OBVIOUS
  <2>. QED  OBVIOUS
<1>. HIDE DEF lists, more
<1>9. Joins(queue', lists, more)
  BY <1>1, <1>4, ConcatElements
<1>10. /\ \A i \in DOMAIN queue' : queue'[i] = l1 \/ queue'[i] = l2 \/ queue'[i] = l3 \/ queue'[i] = R
       /\ \E i \in DOMAIN queue' : queue'[i] = l1
       /\ \E i \in DOMAIN queue' : queue'[i] = l2
       /\ \E i \in DOMAIN queue' : queue'[i] = l3
       /\ Dirty(loaded) # {} => \E i \in DOMAIN queue' : queue'[i] = R
  BY <1>5, <1>6, <1>7, <1>8, <1>9 DEF Joins
<1>11. ASSUME NEW t \in TableNames PROVE ListSaved(t)'
  <2>. DEFINE now == Memory(t)'
  <2>1. /\ t = "spaces" => now = l1.value
        /\ t = "folders" => now = l2.value
        /\ t = "blobs" => now = l3.value
        /\ t = "allowEmpty" => now = disk'[t]
    BY <1>1, <1>2 DEF Memory
  <2>. HIDE DEF now
  <2>2. \A i \in DOMAIN queue' : queue'[i].table = t => queue'[i].value = now
    BY <1>2, <1>10, <2>1 DEF TableNames
  <2>3. disk'[t] = now \/ \E j \in DOMAIN queue' : queue'[j].table = t /\ queue'[j].value = now
    BY <1>2, <1>10, <2>1 DEF TableNames
  <2>. QED  BY <2>2, <2>3 DEF ListSaved, now
<1>12. ASSUME NEW n \in Nat PROVE NoteSaved(n)'
  <2>. DEFINE after == notes'
              w == queue'
  <2>1. DOMAIN after = DOMAIN loaded /\ \A m \in DOMAIN after : after[m] = Snapshot(loaded[m])
    BY OpenSends
  <2>2. \A m \in DOMAIN loaded : loaded[m] \in Note
    BY LoadTyped, TableEntry DEF NoteTable
  <2>3. \A m \in DOMAIN loaded : loaded[m].dirty \/ after[m] = loaded[m]
    BY <2>1, <2>2, SnapshotIs
  <2>4. Dirty(loaded) = {m \in DOMAIN loaded : loaded[m].dirty}
    BY DEF Dirty
  <2>5. n \notin Repaired(disk) =>
            /\ n \in DOMAIN loaded => n \in DOMAIN disk.notes /\ loaded[n] = disk.notes[n]
            /\ n \notin DOMAIN loaded => n \notin DOMAIN disk.notes
    <3>1. DOMAIN loaded = DOMAIN SeededNotes(disk)
      BY DEF OpenedNotes
    <3>2. DOMAIN disk.notes \subseteq DOMAIN SeededNotes(disk)
      BY DEF SeededNotes
    <3>. QED  BY <3>1, <3>2 DEF Repaired
  <2>. HIDE DEF after, loaded, w
  <2>6. n \in Dirty(loaded) => Right(R, n, after)
    BY <1>2, <2>1, <2>4 DEF Right, after
  <2>7. \A i \in DOMAIN w : Mentions(w[i], n) => Right(w[i], n, after)
    <3>1. ASSUME NEW i \in DOMAIN w, Mentions(w[i], n) PROVE w[i] = R /\ n \in Dirty(loaded)
      BY <1>2, <1>10, <3>1 DEF Mentions, IsGone, IsRows, IsList, w
    <3>. QED  BY <2>6, <3>1
  <2>8. \/ n \in Repaired(disk) \/ RightRow(disk'.notes, n, after)
        \/ \E j \in DOMAIN w : Right(w[j], n, after)
    <3>1. CASE n \in Dirty(loaded)
      BY <1>10, <2>6, <3>1 DEF w
    <3>2. CASE n \notin Dirty(loaded)
      BY <1>1, <2>1, <2>3, <2>4, <2>5, <3>2 DEF RightRow
    <3>. QED  BY <3>1, <3>2
  <2>. QED  BY <1>1, <2>7, <2>8 DEF NoteSaved, after, w
<1>. QED  BY <1>11, <1>12 DEF AllSaved

LEMMA EmptiedStep ==
    ASSUME Typed, phase \in {"opening", "open"} => Emptied, [Next]_vars
    PROVE  phase' \in {"opening", "open"} => Emptied'
<1>. SUFFICES ASSUME phase' \in {"opening", "open"} PROVE Emptied'
  OBVIOUS
<1>1. ASSUME spaces' = spaces, allowEmpty' = allowEmpty, phase \in {"opening", "open"} PROVE Emptied'
  BY <1>1 DEF Emptied
<1>2. ASSUME DOMAIN spaces' # {} PROVE Emptied'
  BY <1>2 DEF Emptied
<1>3. CASE SpaceOps
  <2>1. ASSUME CreateSpace PROVE Emptied'
    BY <1>2, <2>1 DEF CreateSpace, Over, Only
  <2>2. ASSUME NEW x \in DOMAIN spaces, BindSpace(x) \/ UnbindSpace(x) PROVE Emptied'
    BY <1>2, <2>2 DEF BindSpace, UnbindSpace, Rebound
  <2>3. ASSUME NEW x \in DOMAIN spaces, DeleteSpace(x) PROVE Emptied'
    BY <2>3 DEF DeleteSpace, Without, Emptied
  <2>. QED  BY <1>3, <2>1, <2>2, <2>3 DEF SpaceOps
<1>4. CASE FolderOps \/ BlobOps \/ FlushNotes
  <2>1. phase \in {"opening", "open"}
    BY <1>4, StoreStill
  <2>2. spaces' = spaces /\ allowEmpty' = allowEmpty
    <3>1. CASE FolderOps
      BY <3>1 DEF FolderOps, CreateFolder, AdoptFolder, MarkFolder, DeleteFolder, SetFolderParent,
                  MoveFolderToSpace, OnlyFolders
    <3>2. CASE BlobOps
      BY <3>2, BlobOpsChange DEF OnlyBlobs
    <3>3. CASE FlushNotes
      BY <3>3 DEF FlushNotes, Autosave, FlushNote, Flush
    <3>. QED  BY <1>4, <3>1, <3>2, <3>3
  <2>. QED  BY <1>1, <2>1, <2>2
<1>5. CASE NoteOps
  <2>1. phase \in {"opening", "open"}
    BY <1>5, StoreStill
  <2>2. CASE CreateNoteAndSpace
    BY <1>2, <2>2 DEF CreateNoteAndSpace, Only
  <2>3. CASE ~CreateNoteAndSpace
    <3>1. spaces' = spaces /\ allowEmpty' = allowEmpty
      BY <1>5, <2>3 DEF NoteOps, CreateNote, CreateNoteFromRemote, Import, EditNote, TouchNote, DeleteNote,
                        MapNote, Acknowledge, MoveNoteToSpace, SetNoteFolder, ChangeNote, Deferred
    <3>. QED  BY <1>1, <2>1, <3>1
  <2>. QED  BY <2>2, <2>3
<1>6. CASE Writer
  BY <1>1, <1>6 DEF Writer, WriteOk, WriteFails, Rest, db, tables
<1>7. CASE Open
  <2>1. DOMAIN OpenedSpaces(disk) = {} => disk.allowEmpty
    BY DEF OpenedSpaces, Only
  <2>. QED  BY <1>7, <2>1 DEF Open, Emptied
<1>8. CASE Close \/ Closed \/ Crash \/ OpenDeaf \/ OpenFails \/ OpenAborts \/ FallsBack
  BY <1>8 DEF Close, Closed, Crash, OpenDeaf, OpenFails, OpenAborts, FallsBack, InMemory
<1>9. CASE Opened \/ UNCHANGED vars
  BY <1>1, <1>9 DEF Opened, vars, db, tables
<1>. QED  BY <1>3, <1>4, <1>5, <1>6, <1>7, <1>8, <1>9 DEF Next, Lifecycle

LEMMA SavedStep ==
    ASSUME Typed, Typed', CacheTrue, Saved, [Next]_vars
    PROVE  Saved'
<1>1. phase' \in {"opening", "open"} => Emptied'
  BY EmptiedStep DEF Saved
<1>. SUFFICES ASSUME phase' \in {"opening", "open"}, kind' = "sqlite" PROVE AllSaved'
  BY <1>1 DEF Saved
<1>2. CASE SpaceOps \/ FolderOps \/ NoteOps \/ BlobOps \/ FlushNotes
  <2>1. AllSaved /\ phase = "open"
    BY <1>2, StoreStill DEF Saved, Running
  <2>. QED  BY <1>2, <2>1, OperationsSaved
<1>3. CASE Writer
  <2>1. AllSaved /\ kind = "sqlite"
    BY <1>3 DEF Writer, WriteOk, WriteFails, Rest, Saved
  <2>2. \A t \in TableNames : ListSaved(t)'
    BY <1>3, <2>1, ListsShrink DEF AllSaved
  <2>3. \A n \in Nat : NoteSaved(n)'
    BY <1>3, <2>1, NotesShrink DEF AllSaved
  <2>. QED  BY <2>2, <2>3 DEF AllSaved
<1>4. CASE Open
  BY <1>4, OpenSaved
<1>5. CASE Close \/ Closed \/ Crash \/ OpenDeaf \/ OpenFails \/ OpenAborts \/ FallsBack
  BY <1>5 DEF Close, Closed, Crash, OpenDeaf, OpenFails, OpenAborts, FallsBack, InMemory
<1>6. CASE Opened \/ UNCHANGED vars
  <2>1. AllSaved
    BY <1>6 DEF Opened, vars, Saved
  <2>2. ASSUME NEW t \in TableNames PROVE ListSaved(t)'
    BY <1>6, <2>1 DEF AllSaved, ListSaved, Memory, Opened, vars, db, tables, history
  <2>3. ASSUME NEW n \in Nat PROVE NoteSaved(n)'
    BY <1>6, <2>1 DEF AllSaved, NoteSaved, Opened, vars, db, tables, history
  <2>. QED  BY <2>2, <2>3 DEF AllSaved
<1>. QED  BY <1>2, <1>3, <1>4, <1>5, <1>6 DEF Next, Lifecycle

LEMMA SavedHolds == Spec => []Saved
<1>1. Init => Saved
  BY DEF Init, Saved
<1>. QED  BY <1>1, SavedStep, TypedHolds, CacheHolds, PTL DEF Spec

\* A start from the lists in memory finds them, and the notes of the disk as they are there.
LEMMA StartFinds ==
    ASSUME NEW d, IsDisk(d), NEW sp, NEW fs, NEW ns, d.spaces = sp, d.folders = fs,
           NoteTable(ns), DOMAIN sp = {} => DOMAIN d.notes = {} /\ d.allowEmpty,
           Settled(sp, fs), Housed(sp, fs, ns)
    PROVE  /\ OpenedSpaces(d) = sp /\ OpenedFolders(d) = Rooted(fs)
           /\ \A n \in DOMAIN ns : RightRow(d.notes, n, ns) => OpenedNotes(d)[n] = ns[n]
<1>1. OpenedSpaces(d) = sp
  BY DEF OpenedSpaces, SeededNotes
<1>2. FolderTable(fs)
  BY DEF IsDisk, FolderTable
<1>3. OpenedFolders(d) = Rooted(fs)
  <2>1. {f \in DOMAIN fs : fs[f].space \notin DOMAIN sp} = {}
    BY DEF Settled, InTree
  <2>2. fs = [f \in DOMAIN fs |-> fs[f]]
    BY <1>2 DEF FolderTable, IsTable
  <2>3. Without(fs, {}) = fs
    BY <2>2 DEF Without
  <2>. QED  BY <1>1, <2>1, <2>3 DEF OpenedFolders
<1>4. \A f, s : FolderIn(Rooted(fs), f, s) <=> FolderIn(fs, f, s)
  BY <1>2, RootedIs DEF FolderIn
<1>5. ASSUME NEW n \in DOMAIN ns, RightRow(d.notes, n, ns) PROVE OpenedNotes(d)[n] = ns[n]
  <2>. DEFINE note == ns[n]
  <2>1. n \in DOMAIN d.notes /\ d.notes[n] = note
    BY <1>5 DEF RightRow
  <2>2. SeededNotes(d) = d.notes
    BY <2>1 DEF SeededNotes
  <2>3. note \in Note
    BY <1>5, TableEntry DEF NoteTable
  <2>4. note.space \in DOMAIN sp /\ (note.folder = NoFolder \/ FolderIn(fs, note.folder, note.space))
    BY <1>5 DEF Housed, InPlace
  <2>. HIDE DEF note
  <2>. DEFINE home == IF note.space \in DOMAIN sp THEN note.space ELSE First(DOMAIN sp)
              at == IF FolderIn(Rooted(fs), note.folder, home) THEN note.folder ELSE NoFolder
  <2>5. OpenedNotes(d)[n] = [note EXCEPT !.space = home, !.folder = at]
    BY <1>1, <1>3, <2>1, <2>2 DEF OpenedNotes
  <2>6. home = note.space /\ at = note.folder
    BY <1>4, <2>4
  <2>. HIDE DEF home, at
  <2>7. [note EXCEPT !.space = home, !.folder = at] = note
    BY <2>3, <2>6 DEF Note
  <2>. QED  BY <2>5, <2>7 DEF note
<1>. QED  BY <1>1, <1>3, <1>5

LEMMA SavedIsQuiet ==
    ASSUME Typed, Keyed, Trees, Saved
    PROVE  QuietMeansSaved
<1>. SUFFICES ASSUME kind = "sqlite", phase = "open", queue = << >>, lostTables = {}
              PROVE  /\ OpenedSpaces(disk) = spaces /\ OpenedFolders(disk) = Rooted(folders)
                     /\ OpenedBlobs(disk) = Without(blobs, {b \in DOMAIN blobs : blobs[b].space \notin DOMAIN spaces})
                     /\ disk.allowEmpty = allowEmpty
                     /\ \A n \in DOMAIN notes :
                            ~notes[n].dirty /\ n \notin lostNotes => OpenedNotes(disk)[n] = notes[n]
                     /\ DOMAIN disk.notes \subseteq DOMAIN notes \cup lostNotes
  BY DEF QuietMeansSaved
<1>1. DOMAIN queue = {} /\ AllSaved /\ Emptied
  BY DEF Saved
<1>2. \A t \in TableNames : disk[t] = Memory(t)
  BY <1>1 DEF AllSaved, ListSaved
<1>3. /\ disk["spaces"] = spaces /\ disk["folders"] = folders /\ disk["blobs"] = blobs
      /\ disk["allowEmpty"] = allowEmpty
  BY <1>2 DEF TableNames, Memory
<1>4. Settled(spaces, folders) /\ Housed(spaces, folders, notes)
  BY SoundIs DEF Trees, Believed
<1>5. IsDisk(disk) /\ NoteTable(notes)
  BY TablesTyped DEF Typed, TypeOK
<1>6. DOMAIN spaces = {} => DOMAIN disk.notes = {} /\ disk.allowEmpty
  BY <1>1, <1>3 DEF Emptied, Keyed
<1>7. OpenedSpaces(disk) = spaces /\ OpenedFolders(disk) = Rooted(folders)
  BY <1>3, <1>4, <1>5, <1>6, StartFinds
<1>8. \A n \in DOMAIN notes : RightRow(disk.notes, n, notes) => OpenedNotes(disk)[n] = notes[n]
  BY <1>3, <1>4, <1>5, <1>6, StartFinds
<1>9. OpenedBlobs(disk) = Without(blobs, {b \in DOMAIN blobs : blobs[b].space \notin DOMAIN spaces})
  BY <1>3, <1>7 DEF OpenedBlobs
<1>10. \A n \in Nat : \/ n \in DOMAIN notes /\ notes[n].dirty
                      \/ n \in lostNotes \/ RightRow(disk.notes, n, notes)
  BY <1>1 DEF AllSaved, NoteSaved
<1>11. DOMAIN disk.notes \subseteq Nat /\ DOMAIN notes \subseteq Nat
  BY <1>5 DEF IsDisk, NoteTable, IsTable
<1>12. DOMAIN disk.notes \subseteq DOMAIN notes \cup lostNotes
  BY <1>10, <1>11 DEF RightRow
<1>. QED  BY <1>3, <1>7, <1>8, <1>9, <1>10, <1>11, <1>12

-----------------------------------------------------------------------------
(* Once the queue is drained and no list has failed since its last write, a  *)
(* start finds what the user sees: the lists as they are in memory (without  *)
(* the parents peers gave that lead nowhere), every clean note whose row did *)
(* not fail, and nothing of what was deleted (note.rs persist_spaces,        *)
(* flush_note, persist_note_deletions, finish_open).                         *)
THEOREM QuietIsSaved == Spec => []QuietMeansSaved
BY SavedIsQuiet, TypedHolds, KeyedHolds, TreesHold, SavedHolds, PTL
=====
