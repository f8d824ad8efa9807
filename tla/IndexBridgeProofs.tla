------------------------- MODULE IndexBridgeProofs --------------------------
(***************************************************************************)
(* What holds of the bridges around the index of a space (src/sync/app.rs) *)
(* for any devices, folders, notes, images, names and situations, any      *)
(* bounds on what the users do, and connections and programs that end.     *)
(*                                                                         *)
(* An event changes one device, and the invariants are about one device    *)
(* and what it shares: each has a form for a database x, a bridge b and an *)
(* engine e, with the shared part as a parameter, and lemmas that say what *)
(* the functions of the model (what a pass adopts, what it writes, what    *)
(* the engine queues) make of it.                                          *)
(***************************************************************************)
EXTENDS IndexBridge, TLAPS, FiniteSetTheorems, WellFoundedInduction

-----------------------------------------------------------------------------
(* The invariants.  The parameters stand for the shared part:              *)
(*   n   the length of the log                                             *)
(*   U   folders, notes and images that have existed                       *)
(*   K   images that are stored or that a user has deleted                 *)
(*   R   whether the server refuses the space                              *)
(*   P   whether the space is still to be pushed                           *)

\* What is listed has existed, for an id is given once; what is listed is
\* stored or was deleted; and the name is one that a user gave.
IdsOf(u, U) ==
    /\ \A f \in FolderIds : FolderKey(f) \in DOMAIN u /\ u[FolderKey(f)].value # None => f \in U
    /\ \A i \in ImageIds : ImageKey(i) \in DOMAIN u /\ u[ImageKey(i)].value # None => i \in U
ListsKept(u, K) ==
    \A i \in ImageIds : ImageKey(i) \in DOMAIN u /\ u[ImageKey(i)].value # None => i \in K
NotPlaceholder(u) == NameKey \in DOMAIN u => u[NameKey].value # Placeholder
UpdateGood(u, U, K) == IsUpdate(u) /\ IdsOf(u, U) /\ ListsKept(u, K) /\ NotPlaceholder(u)
DocGood(u, U, K) == UpdateGood(u, U, K) /\ DOMAIN u = Keys

\* The database: what need not be uploaded is stored or was deleted.
DbGood(x, U, K) ==
    /\ IsDb(x)
    /\ DOMAIN x.folders \subseteq U /\ DOMAIN x.images \subseteq U
    /\ \A i \in DOMAIN x.images : x.images[i].push \/ i \in K
    /\ x.space = "absent" => DOMAIN x.folders = {} /\ DOMAIN x.notes = {} /\ DOMAIN x.images = {}

Tables == {"spaces", "folders", "images"}
BridgeFields == {"has", "replica", "live", "author", "titles", "removedFolders",
                 "removedImages", "joining", "peeked", "known", "pushing", "peeking",
                 "refused", "creating", "dirty", "moved", "due", "uploading", "failed", "tries"}
BridgeGood(b, U, K) ==
    /\ DOMAIN b = BridgeFields
    /\ DocGood(b.replica, U, K) /\ IsTable(b.titles, NoteIds, Names \cup {None})
    /\ b.removedFolders \subseteq FolderIds \cap U /\ b.removedImages \subseteq ImageIds \cap U
    /\ b.joining \in {"no", "asked", "hung"} /\ b.known \in Names \cup {None}
    /\ b.moved \subseteq Tables
    /\ IsTable(b.creating, NoteIds, {"asked", "made", "failed"})
    /\ b.uploading \subseteq ImageIds /\ b.failed \subseteq ImageIds
    /\ b.tries \in [ImageIds -> Nat] /\ \A i \in ImageIds : b.tries[i] < MaxAttempts

\* The engine: an upload that succeeded is stored, or was deleted.
EngineFields == {"up", "knows", "open", "opening", "client", "seen", "target", "out", "lost",
                 "idle", "refusal", "destroyed", "wire", "waiting", "results", "fetching"}
Answers == ImageIds \X {"stored", "error", "big"}
AnswersGood(s, K) ==
    s \in Seq(Answers) /\ \A j \in 1..Len(s) : s[j][2] = "stored" => s[j][1] \in K
EngineGood(e, n, U, K) ==
    /\ DOMAIN e = EngineFields
    /\ e.client \in Clients /\ e.lost \in BOOLEAN
    /\ UpdateGood(e.out, U, K) /\ AnswersGood(e.results, K)
    /\ e.seen \in 0..n /\ e.target \in 0..n
    /\ e.wire \in [ImageIds -> Nat] /\ e.waiting \subseteq ImageIds /\ e.fetching \subseteq ImageIds

\* What waits to be removed is not there.
Pending(x, b) ==
    b.removedFolders \cap DOMAIN x.folders = {} /\ b.removedImages \cap DOMAIN x.images = {}
\* A device that writes the name of the space has it from its user or from the index.
Named(x, b) ==
    /\ b.pushing => x.space = "local" /\ x.name \in Names
    /\ b.author /\ x.space = "mapped" => x.name # Placeholder
    /\ b.author /\ x.space = "absent" => b.known # None
\* Before the push nobody has the space.
Unpushed(x, b, P) ==
    P => /\ x.space # "mapped" /\ ~b.pushing /\ b.joining = "no"
         /\ x.space = "local" => x.name \in Names
\* A space that the server refuses never exists, so nobody but its owner has it.
Refused(x, b, e, R) ==
    /\ b.refused \/ e.refusal => R
    /\ R => /\ ~e.destroyed /\ (b.refused => x.space # "mapped")
            /\ x.space = "absent" => b.joining # "asked"
            /\ x.space # "mapped" => Mapped(x) = {}
            /\ x.space = "local" /\ ~b.refused => DOMAIN b.creating = {}

Device(x, b, e, n, U, K, R, P) ==
    /\ DbGood(x, U, K) /\ BridgeGood(b, U, K) /\ EngineGood(e, n, U, K)
    /\ Pending(x, b) /\ Named(x, b) /\ Unpushed(x, b, P) /\ Refused(x, b, e, R)

ToPush == "push" \in start.kinds /\ NameKey \notin DOMAIN intents
\* Once the space is gone nothing is stored any more.
Kept == (IF server.exists \/ ToPush THEN server.stored ELSE ImageIds) \cup deleted
Logged(log, U, K) ==
    /\ log \in Seq({log[j] : j \in DOMAIN log})
    /\ \A j \in DOMAIN log : log[j].lost \in BOOLEAN /\ UpdateGood(log[j].update, U, K)
ServerGood ==
    /\ DOMAIN server = {"exists", "refuses", "log", "stored"}
    /\ server.exists \in BOOLEAN /\ server.refuses \in BOOLEAN /\ server.stored \subseteq ImageIds
    /\ server.exists => ~server.refuses /\ ~ToPush
    /\ Logged(server.log, used, Kept)
StartGood ==
    /\ DOMAIN start = {"kinds", "ops", "drops", "restarts", "late", "big"}
    /\ start.kinds \subseteq Kinds /\ start.ops \in Nat /\ start.drops \in Nat
    /\ start.restarts \in Nat /\ start.late \in BOOLEAN /\ start.big \subseteq ImageIds
HistoryGood ==
    /\ used \subseteq FolderIds \cup NoteIds \cup ImageIds
    /\ deleted \subseteq FolderIds \cup NoteIds \cup ImageIds
    /\ DOMAIN intents \subseteq Keys /\ \A k \in DOMAIN intents : intents[k].by \subseteq Devices
Good(d) == Device(db[d], bridge[d], engine[d], Len(server.log), used, Kept, server.refuses, ToPush)
IInv ==
    /\ DOMAIN db = Devices /\ DOMAIN bridge = Devices /\ DOMAIN engine = Devices
    /\ ServerGood /\ StartGood /\ clients \subseteq Clients /\ HistoryGood
    /\ \A d \in Devices : Good(d)

-----------------------------------------------------------------------------
(* Numbers and sequences. *)

LEMMA LeastNat ==
    ASSUME NEW T \in SUBSET Nat, T # {}
    PROVE  \E n \in T : \A m \in T : n <= m
<1>. DEFINE R == OpToRel(<, Nat)
<1>1. IsWellFoundedOn(R, Nat)
  BY NatLessThanWellFounded
<1>2. PICK n \in T : \A m \in T : ~(<<m, n>> \in R)
  <2>. HIDE DEF R
  <2>. QED  BY <1>1, WFMin
<1>3. \A m \in T : ~(m < n)
  BY <1>2 DEF OpToRel
<1>. QED  BY <1>3

\* What is appended to a sequence of anything.
LEMMA AppendIs ==
    ASSUME NEW s, s \in Seq({s[i] : i \in DOMAIN s}), NEW v
    PROVE  LET t == Append(s, v)
           IN  /\ t \in Seq({t[i] : i \in DOMAIN t})
               /\ Len(s) \in Nat /\ DOMAIN s = 1..Len(s) /\ Len(t) = Len(s) + 1
               /\ DOMAIN t = 1..Len(t)
               /\ \A i \in 1..Len(s) : t[i] = s[i]
               /\ t[Len(t)] = v
<1>. DEFINE S == {s[i] : i \in DOMAIN s} \cup {v}
            t == Append(s, v)
<1>1. s \in Seq(S) /\ t \in Seq(S) /\ Len(s) \in Nat /\ DOMAIN s = 1..Len(s)
  OBVIOUS
<1>2. /\ Len(t) = Len(s) + 1 /\ \A i \in 1..Len(s) : t[i] = s[i]
      /\ t[Len(t)] = v /\ DOMAIN t = 1..Len(t)
  BY <1>1
<1>3. t \in Seq({t[i] : i \in DOMAIN t})
  <2>. HIDE DEF S, t
  <2>1. t \in [1..Len(t) -> {t[i] : i \in DOMAIN t}] /\ Len(t) \in Nat
    BY <1>1, <1>2
  <2>. QED  BY <2>1
<1>. QED  BY <1>1, <1>2, <1>3

-----------------------------------------------------------------------------
(* Keys, items and updates. *)

LEMMA KeysAre ==
    /\ NameKey \in Keys /\ NameKey[1] = "name" /\ Values(NameKey) = Titles
    /\ \A n \in NoteIds :
        /\ NoteKey(n) \in Keys /\ NoteKey(n)[1] = "note" /\ NoteKey(n)[2] = n
        /\ Values(NoteKey(n)) = Names \cup {None}
        /\ AssignKey(n) \in Keys /\ AssignKey(n)[1] = "assign" /\ AssignKey(n)[2] = n
        /\ Values(AssignKey(n)) = FolderIds \cup {None}
    /\ \A f \in FolderIds :
        /\ FolderKey(f) \in Keys /\ FolderKey(f)[1] = "folder" /\ FolderKey(f)[2] = f
        /\ Values(FolderKey(f)) = Names \cup {None}
        /\ ParentKey(f) \in Keys /\ ParentKey(f)[1] = "parent" /\ ParentKey(f)[2] = f
        /\ Values(ParentKey(f)) = FolderIds \cup {None}
    /\ \A i \in ImageIds :
        /\ ImageKey(i) \in Keys /\ ImageKey(i)[1] = "image" /\ ImageKey(i)[2] = i
        /\ Values(ImageKey(i)) = Names \cup {None}
BY DEF Keys, NameKey, NoteKey, AssignKey, FolderKey, ParentKey, ImageKey, Values

LEMMA NothingIs ==
    /\ DOMAIN Nothing = {} /\ \A U, K : UpdateGood(Nothing, U, K)
    /\ \A ids, rows : IsTable(Nothing, ids, rows)
BY DEF Nothing, UpdateGood, IsUpdate, NotPlaceholder, IdsOf, ListsKept, IsTable

LEMMA EmptyDocIs ==
    \A U, K : DocGood(EmptyDoc, U, K)
<1>1. \A k \in Keys : None \in Values(k)
  BY DEF Values, Titles
<1>2. \A k \in Keys : EmptyDoc[k] = [path |-> << >>, value |-> None] /\ EmptyDoc[k].value = None
  BY DEF EmptyDoc
<1>3. DOMAIN EmptyDoc = Keys
  BY DEF EmptyDoc
<1>4. << >> \in Seq(Nat)
  OBVIOUS
<1>5. IsUpdate(EmptyDoc)
  <2>1. \A k \in Keys : EmptyDoc[k] \in [path : Seq(Nat), value : Values(k)]
    <3>1. SUFFICES ASSUME NEW k \in Keys PROVE EmptyDoc[k] \in [path : Seq(Nat), value : Values(k)]
      OBVIOUS
    <3>2. \A p \in Seq(Nat), v \in Values(k) :
            [path |-> p, value |-> v] \in [path : Seq(Nat), value : Values(k)]
      OBVIOUS
    <3>3. [path |-> << >>, value |-> None] \in [path : Seq(Nat), value : Values(k)]
      BY <1>1, <1>4, <3>2, Zenon
    <3>. QED  BY <1>2, <3>3, Zenon
  <2>. QED  BY <2>1, <1>3 DEF IsUpdate
<1>6. NotPlaceholder(EmptyDoc)
  BY <1>2, <1>3, NamesAssumption DEF NotPlaceholder
<1>7. \A U : IdsOf(EmptyDoc, U) /\ ListsKept(EmptyDoc, U)
  BY <1>2, <1>3, KeysAre DEF IdsOf, ListsKept
<1>. QED  BY <1>3, <1>5, <1>6, <1>7 DEF DocGood, UpdateGood

LEMMA ApplyIs ==
    ASSUME NEW u, NEW v
    PROVE  LET w == Apply(u, v)
           IN  /\ DOMAIN w = DOMAIN u \cup DOMAIN v
               /\ \A k \in DOMAIN w : \/ k \in DOMAIN u /\ w[k] = u[k]
                                      \/ k \in DOMAIN v /\ w[k] = v[k]
<1>1. \A r, s : Merged(r, s) = r \/ Merged(r, s) = s
  BY DEF Merged
<1>. HIDE DEF Merged
<1>. QED  BY <1>1 DEF Apply

LEMMA Applied ==
    ASSUME NEW U, NEW K, NEW u, NEW v, UpdateGood(u, U, K), UpdateGood(v, U, K)
    PROVE  UpdateGood(Apply(u, v), U, K) /\ (DocGood(u, U, K) => DocGood(Apply(u, v), U, K))
<1>. DEFINE w == Apply(u, v)
<1>1. /\ DOMAIN w = DOMAIN u \cup DOMAIN v
      /\ \A k \in DOMAIN w : \/ k \in DOMAIN u /\ w[k] = u[k]
                             \/ k \in DOMAIN v /\ w[k] = v[k]
  BY ApplyIs
<1>. HIDE DEF w
<1>2. IsUpdate(w)
  BY <1>1 DEF UpdateGood, IsUpdate
<1>3. DOMAIN u = Keys => DOMAIN w = Keys
  BY <1>1 DEF UpdateGood, IsUpdate
<1>4. NotPlaceholder(w)
  BY <1>1 DEF UpdateGood, NotPlaceholder
<1>5. IdsOf(w, U)
  BY <1>1 DEF UpdateGood, IdsOf
<1>6. ListsKept(w, K)
  BY <1>1 DEF UpdateGood, ListsKept
<1>. QED  BY <1>2, <1>3, <1>4, <1>5, <1>6 DEF w, UpdateGood, DocGood

\* What was true of two sets is true of greater ones.
LEMMA Greater ==
    ASSUME NEW u, NEW U, NEW V, U \subseteq V, NEW K, NEW L, K \subseteq L, UpdateGood(u, U, K)
    PROVE  UpdateGood(u, V, L)
BY DEF UpdateGood, IdsOf, ListsKept

-----------------------------------------------------------------------------
(* What a log makes of an empty document. *)

Folds(f, log, n) ==
    f = [i \in 0..n |-> IF i = 0 THEN EmptyDoc ELSE Apply(f[i - 1], log[i].update)]

LEMMA FoldExists ==
    ASSUME NEW log, Len(log) \in Nat
    PROVE  \E f : Folds(f, log, Len(log))
<1>. DEFINE T == {n \in Nat : ~\E f : Folds(f, log, n)}
<1>1. SUFFICES ASSUME T # {} PROVE FALSE
  OBVIOUS
<1>2. PICK n \in T : \A m \in T : n <= m
  BY <1>1, LeastNat
<1>3. CASE n = 0
  <2>. DEFINE f == [i \in 0..0 |-> EmptyDoc]
  <2>1. Folds(f, log, 0)
    BY DEF Folds
  <2>. QED  BY <1>2, <1>3, <2>1
<1>4. CASE n # 0
  <2>1. n - 1 \in Nat /\ n - 1 \notin T
    BY <1>2, <1>4
  <2>2. PICK g : Folds(g, log, n - 1)
    BY <2>1
  <2>. DEFINE f == [i \in 0..n |-> IF i = n THEN Apply(g[n - 1], log[n].update) ELSE g[i]]
  <2>3. \A i \in 0..(n - 1) : g[i] = IF i = 0 THEN EmptyDoc ELSE Apply(g[i - 1], log[i].update)
    BY <2>1, <2>2 DEF Folds
  <2>4. \A i \in 0..n : f[i] = IF i = 0 THEN EmptyDoc ELSE Apply(f[i - 1], log[i].update)
    BY <1>4, <2>1, <2>3
  <2>5. Folds(f, log, n)
    <3>1. f = [i \in 0..n |-> f[i]]
      OBVIOUS
    <3>. HIDE DEF f
    <3>. QED  BY <2>4, <3>1 DEF Folds
  <2>. QED  BY <1>2, <2>5
<1>. QED  BY <1>3, <1>4

LEMMA DocOfIs ==
    ASSUME NEW log, Len(log) \in Nat
    PROVE  \E f : Folds(f, log, Len(log)) /\ DocOf(log) = f[Len(log)]
<1>. DEFINE f == CHOOSE g : Folds(g, log, Len(log))
<1>1. Folds(f, log, Len(log))
  BY FoldExists
<1>2. DocOf(log) = f[Len(log)]
  BY DEF DocOf, Folds
<1>. QED  BY <1>1, <1>2

\* What holds of the empty document, and still holds when an update of the log
\* is applied, holds of what the log makes: S is the documents it holds of.
LEMMA DocOfIn ==
    ASSUME NEW log, Len(log) \in Nat, NEW S, EmptyDoc \in S,
           \A u \in S : \A i \in 1..Len(log) : Apply(u, log[i].update) \in S
    PROVE  DocOf(log) \in S
<1>1. PICK f : Folds(f, log, Len(log)) /\ DocOf(log) = f[Len(log)]
  BY DocOfIs
<1>2. \A i \in 0..Len(log) : f[i] = IF i = 0 THEN EmptyDoc ELSE Apply(f[i - 1], log[i].update)
  BY <1>1 DEF Folds
<1>. DEFINE T == {n \in 0..Len(log) : f[n] \notin S}
<1>3. T = {}
  <2>1. SUFFICES ASSUME T # {} PROVE FALSE
    OBVIOUS
  <2>2. PICK n \in T : \A m \in T : n <= m
    <3>1. T \subseteq Nat
      OBVIOUS
    <3>. QED  BY <2>1, <3>1, LeastNat
  <2>3. n # 0
    BY <1>2, <2>2
  <2>4. n - 1 \in 0..Len(log) /\ f[n - 1] \in S
    BY <2>2, <2>3
  <2>. QED  BY <1>2, <2>2, <2>3, <2>4
<1>. QED  BY <1>1, <1>3

LEMMA DocOfGood ==
    ASSUME NEW log, Len(log) \in Nat, NEW U, NEW K,
           \A i \in 1..Len(log) : UpdateGood(log[i].update, U, K)
    PROVE  DocGood(DocOf(log), U, K)
<1>. DEFINE All == Names \cup Titles \cup FolderIds \cup {None}
            S == {u \in [Keys -> [path : Seq(Nat), value : All]] : DocGood(u, U, K)}
<1>1. ASSUME NEW u, DocGood(u, U, K), u = [k \in Keys |-> u[k]]
      PROVE  u \in S
  <2>1. \A k : Values(k) \subseteq All
    BY DEF Values
  <2>2. ASSUME NEW k \in Keys PROVE u[k] \in [path : Seq(Nat), value : All]
    <3>1. u[k] \in [path : Seq(Nat), value : Values(k)]
      BY <1>1 DEF DocGood, UpdateGood, IsUpdate
    <3>. HIDE DEF All
    <3>. QED  BY <2>1, <3>1
  <2>. HIDE DEF All
  <2>. QED  BY <1>1, <2>2
<1>2. EmptyDoc \in S
  <2>1. EmptyDoc = [k \in Keys |-> EmptyDoc[k]]
    BY DEF EmptyDoc
  <2>. HIDE DEF S
  <2>. QED  BY <1>1, <2>1, EmptyDocIs
<1>3. ASSUME NEW u \in S, NEW i \in 1..Len(log) PROVE Apply(u, log[i].update) \in S
  <2>1. DocGood(Apply(u, log[i].update), U, K)
    BY Applied DEF DocGood
  <2>2. Apply(u, log[i].update) = [k \in Keys |-> Apply(u, log[i].update)[k]]
    <3>1. DOMAIN u \cup DOMAIN log[i].update = Keys
      BY DEF DocGood, UpdateGood, IsUpdate
    <3>. QED  BY <3>1 DEF Apply
  <2>. HIDE DEF S
  <2>. QED  BY <1>1, <2>1, <2>2
<1>4. DocOf(log) \in S
  <2>. HIDE DEF S
  <2>. QED  BY <1>2, <1>3, DocOfIn
<1>. QED  BY <1>4

-----------------------------------------------------------------------------
(* Tables and databases. *)

LEMMA OverIs ==
    ASSUME NEW f, NEW g
    PROVE  /\ DOMAIN Over(f, g) = DOMAIN f \cup DOMAIN g
           /\ \A k \in DOMAIN g : Over(f, g)[k] = g[k]
           /\ \A k \in DOMAIN f \ DOMAIN g : Over(f, g)[k] = f[k]
BY DEF Over

LEMMA OverTable ==
    ASSUME NEW f, NEW g, NEW ids, NEW rows, IsTable(f, ids, rows), IsTable(g, ids, rows)
    PROVE  IsTable(Over(f, g), ids, rows)
<1>. DEFINE h == Over(f, g)
<1>1. DOMAIN h = DOMAIN f \cup DOMAIN g /\ \A i \in DOMAIN h : h[i] = f[i] \/ h[i] = g[i]
  BY DEF Over
<1>2. \A i \in DOMAIN h : i \in DOMAIN g \/ (i \in DOMAIN f /\ h[i] = f[i])
  BY DEF Over
<1>3. \A i \in DOMAIN g : h[i] = g[i]
  BY DEF Over
<1>. HIDE DEF h
<1>4. IsTable(h, ids, rows)
  BY <1>1, <1>2, <1>3 DEF IsTable
<1>. QED  BY <1>4 DEF h

LEMMA WithoutTable ==
    ASSUME NEW f, NEW X, NEW ids, NEW rows, IsTable(f, ids, rows)
    PROVE  IsTable(Without(f, X), ids, rows) /\ DOMAIN Without(f, X) = DOMAIN f \ X
BY DEF Without, IsTable

LEMMA OneIs ==
    ASSUME NEW k, NEW v
    PROVE  DOMAIN Only(k, v) = {k} /\ Only(k, v)[k] = v
BY DEF Only

LEMMA RowsAre ==
    ASSUME NEW x, IsDb(x)
    PROVE  /\ DOMAIN x = {"space", "name", "folders", "notes", "images"} /\ x.name \in Titles
           /\ DOMAIN x.folders \subseteq FolderIds /\ DOMAIN x.notes \subseteq NoteIds
           /\ DOMAIN x.images \subseteq ImageIds
           /\ \A f \in DOMAIN x.folders :
                /\ x.folders[f] \in Folder
                /\ x.folders[f].name \in Names /\ x.folders[f].parent \in FolderIds \cup {None}
                /\ x.folders[f].push \in BOOLEAN
           /\ \A n \in DOMAIN x.notes :
                /\ x.notes[n] \in Note
                /\ x.notes[n].title \in Names /\ x.notes[n].folder \in FolderIds \cup {None}
                /\ x.notes[n].push \in BOOLEAN /\ x.notes[n].mapped \in BOOLEAN
           /\ \A i \in DOMAIN x.images :
                /\ x.images[i] \in Image
                /\ x.images[i].name \in Names /\ x.images[i].push \in BOOLEAN
                /\ x.images[i].bytes \in BOOLEAN
<1>1. \A r \in Folder : r.name \in Names /\ r.parent \in FolderIds \cup {None} /\ r.push \in BOOLEAN
  BY DEF Folder
<1>2. \A r \in Note : /\ r.title \in Names /\ r.folder \in FolderIds \cup {None}
                      /\ r.push \in BOOLEAN /\ r.mapped \in BOOLEAN
  BY DEF Note
<1>3. \A r \in Image : r.name \in Names /\ r.push \in BOOLEAN /\ r.bytes \in BOOLEAN
  BY DEF Image
<1>. QED  BY <1>1, <1>2, <1>3 DEF IsDb, IsTable

\* What a document says under a key.
LEMMA ValueIs ==
    ASSUME NEW U, NEW K, NEW doc, DocGood(doc, U, K), NEW k \in Keys
    PROVE  doc[k].value \in Values(k) /\ doc[k].path \in Seq(Nat)
BY DEF DocGood, UpdateGood, IsUpdate

-----------------------------------------------------------------------------
(* What a pass writes. *)

IsWant(w) == DOMAIN w \subseteq Keys /\ \A k \in DOMAIN w : w[k] \in Values(k)

LEMMA UpdateIs ==
    ASSUME NEW doc, IsUpdate(doc), DOMAIN doc = Keys, NEW w, IsWant(w), NEW c \in Nat
    PROVE  LET u == Update(doc, w, c)
           IN  /\ IsUpdate(u) /\ DOMAIN u \subseteq DOMAIN w
               /\ \A k \in DOMAIN u : u[k].value = w[k]
<1>. DEFINE u == Update(doc, w, c)
<1>1. DOMAIN u \subseteq DOMAIN w
  BY DEF Update
<1>2. ASSUME NEW k \in DOMAIN u
      PROVE  u[k] \in [path : Seq(Nat), value : Values(k)] /\ u[k].value = w[k]
  <2>1. k \in Keys /\ w[k] \in Values(k) /\ k \in DOMAIN doc
    BY <1>1, <1>2 DEF IsWant
  <2>2. doc[k] \in [path : Seq(Nat), value : Values(k)]
    BY <2>1 DEF IsUpdate
  <2>3. u[k] = IF w[k] = None THEN [doc[k] EXCEPT !.value = None]
               ELSE [path |-> Append(doc[k].path, c), value |-> w[k]]
    BY <1>2 DEF Update
  <2>4. CASE w[k] = None
    BY <2>1, <2>2, <2>3, <2>4
  <2>5. CASE w[k] # None
    <3>1. doc[k].path \in Seq(Nat)
      BY <2>2
    <3>2. Append(doc[k].path, c) \in Seq(Nat)
      BY <3>1
    <3>. QED  BY <2>1, <2>3, <2>5, <3>2
  <2>. QED  BY <2>4, <2>5
<1>3. IsUpdate(u)
  <2>. HIDE DEF u
  <2>. QED  BY <1>1, <1>2 DEF IsUpdate, IsWant
<1>. HIDE DEF u
<1>. QED  BY <1>1, <1>2, <1>3 DEF u

LEMMA TitleWantsAre ==
    ASSUME NEW x, IsDb(x), NEW titles
    PROVE  LET w == TitleWants(x, titles)
           IN  IsWant(w) /\ \A k \in DOMAIN w : k[1] = "note"
<1>. DEFINE w == TitleWants(x, titles)
<1>1. ASSUME NEW k \in DOMAIN w
      PROVE  k \in Keys /\ k[1] = "note" /\ w[k] \in Values(k)
  <2>1. PICK n \in DOMAIN titles \cap DOMAIN x.notes : k = NoteKey(n)
    BY <1>1 DEF TitleWants
  <2>2. n \in NoteIds /\ x.notes[n].title \in Names
    BY <2>1, RowsAre
  <2>3. w[k] = x.notes[k[2]].title
    BY <1>1 DEF TitleWants
  <2>. HIDE DEF w
  <2>. QED  BY <2>1, <2>2, <2>3, KeysAre
<1>. HIDE DEF w
<1>2. IsWant(w) /\ \A k \in DOMAIN w : k[1] = "note"
  BY <1>1 DEF IsWant
<1>. QED  BY <1>2 DEF w

LEMMA NameWantsAre ==
    ASSUME NEW x, IsDb(x)
    PROVE  LET w == NameWants(x)
           IN  IsWant(w) /\ DOMAIN w = {NameKey} /\ w[NameKey] = x.name
<1>1. DOMAIN NameWants(x) = {NameKey} /\ NameWants(x)[NameKey] = x.name
  BY OneIs DEF NameWants
<1>2. x.name \in Titles
  BY RowsAre
<1>. QED  BY <1>1, <1>2, KeysAre DEF IsWant

LEMMA FolderWantsAre ==
    ASSUME NEW x, IsDb(x), NEW docs \in SUBSET NoteIds, NEW removed \in SUBSET FolderIds
    PROVE  LET w == FolderWants(x, docs, removed)
           IN  /\ IsWant(w)
               /\ \A k \in DOMAIN w : k[1] \in {"folder", "parent", "assign"}
               /\ \A k \in DOMAIN w : k[1] = "folder" /\ w[k] # None => k[2] \in DOMAIN x.folders
<1>. DEFINE w == FolderWants(x, docs, removed)
            ids == removed \cup DOMAIN x.folders
            value(f, field) == IF f \in DOMAIN x.folders THEN x.folders[f][field] ELSE None
            home(n) == IF n \in DOMAIN x.notes THEN x.notes[n].folder ELSE None
<1>1. DOMAIN w = {FolderKey(f) : f \in ids} \cup {ParentKey(f) : f \in ids}
                     \cup {AssignKey(n) : n \in docs}
  BY DEF FolderWants
<1>2. \A k \in DOMAIN w : w[k] = CASE k[1] = "folder" -> value(k[2], "name")
                                   [] k[1] = "parent" -> value(k[2], "parent")
                                   [] k[1] = "assign" -> home(k[2])
  BY DEF FolderWants
<1>. HIDE DEF w
<1>3. /\ ids \subseteq FolderIds
      /\ \A f : value(f, "name") \in Names \cup {None} /\ value(f, "parent") \in FolderIds \cup {None}
      /\ \A n : home(n) \in FolderIds \cup {None}
      /\ \A f : value(f, "name") # None => f \in DOMAIN x.folders
  BY RowsAre
<1>. HIDE DEF ids, value, home
<1>4. ASSUME NEW k \in DOMAIN w
      PROVE  /\ k \in Keys /\ k[1] \in {"folder", "parent", "assign"} /\ w[k] \in Values(k)
             /\ k[1] = "folder" /\ w[k] # None => k[2] \in DOMAIN x.folders
  <2>1. CASE k \in {FolderKey(f) : f \in ids}
    <3>1. PICK f \in ids : k = FolderKey(f)
      BY <2>1
    <3>2. w[k] = value(f, "name")
      BY <1>2, <1>3, <3>1, KeysAre
    <3>. QED  BY <1>3, <3>1, <3>2, KeysAre
  <2>2. CASE k \in {ParentKey(f) : f \in ids}
    <3>1. PICK f \in ids : k = ParentKey(f)
      BY <2>2
    <3>2. w[k] = value(f, "parent")
      BY <1>2, <1>3, <3>1, KeysAre
    <3>. QED  BY <1>3, <3>1, <3>2, KeysAre
  <2>3. CASE k \in {AssignKey(n) : n \in docs}
    <3>1. PICK n \in docs : k = AssignKey(n)
      BY <2>3
    <3>2. w[k] = home(n)
      BY <1>2, <3>1, KeysAre
    <3>. QED  BY <1>3, <3>1, <3>2, KeysAre
  <2>. QED  BY <1>1, <2>1, <2>2, <2>3
<1>5. /\ IsWant(w) /\ \A k \in DOMAIN w : k[1] \in {"folder", "parent", "assign"}
      /\ \A k \in DOMAIN w : k[1] = "folder" /\ w[k] # None => k[2] \in DOMAIN x.folders
  BY <1>4 DEF IsWant
<1>. QED  BY <1>5 DEF w

LEMMA ImageWantsAre ==
    ASSUME NEW x, IsDb(x), NEW removed \in SUBSET ImageIds
    PROVE  LET w == ImageWants(x, removed)
           IN  /\ IsWant(w) /\ \A k \in DOMAIN w : k[1] = "image"
               /\ \A k \in DOMAIN w : w[k] # None =>
                    k[2] \in DOMAIN x.images /\ ~x.images[k[2]].push
<1>. DEFINE w == ImageWants(x, removed)
            stored == {b \in DOMAIN x.images : ~x.images[b].push}
<1>1. DOMAIN w = {ImageKey(b) : b \in removed \cup stored}
  BY DEF ImageWants
<1>2. \A k \in DOMAIN w : w[k] = IF k[2] \in stored THEN x.images[k[2]].name ELSE None
  BY DEF ImageWants
<1>. HIDE DEF w
<1>3. ASSUME NEW k \in DOMAIN w
      PROVE  /\ k \in Keys /\ k[1] = "image" /\ w[k] \in Values(k)
             /\ w[k] # None => k[2] \in DOMAIN x.images /\ ~x.images[k[2]].push
  <2>1. PICK i \in removed \cup stored : k = ImageKey(i)
    BY <1>1
  <2>2. i \in ImageIds /\ (i \in stored => x.images[i].name \in Names)
    BY RowsAre
  <2>. QED  BY <1>2, <2>1, <2>2, KeysAre
<1>4. /\ IsWant(w) /\ \A k \in DOMAIN w : k[1] = "image"
      /\ \A k \in DOMAIN w : w[k] # None => k[2] \in DOMAIN x.images /\ ~x.images[k[2]].push
  BY <1>3 DEF IsWant
<1>. QED  BY <1>4 DEF w

LEMMA WantedIs ==
    ASSUME NEW x, IsDb(x), NEW b, NEW U, NEW K, BridgeGood(b, U, K)
    PROVE  LET w == Wanted(x, b)
           IN  /\ IsWant(w)
               /\ NameKey \in DOMAIN w => b.author /\ x.space = "mapped" /\ w[NameKey] = x.name
               /\ \A f \in FolderIds : FolderKey(f) \in DOMAIN w /\ w[FolderKey(f)] # None
                                            => f \in DOMAIN x.folders
               /\ \A i \in ImageIds : ImageKey(i) \in DOMAIN w /\ w[ImageKey(i)] # None
                                            => i \in DOMAIN x.images /\ ~x.images[i].push
<1>. DEFINE gate(table) == x.space = "mapped" /\ Gate(b, table)
            part(on, want) == IF on THEN want ELSE Nothing
            T == TitleWants(x, b.titles)
            N == part(gate("spaces") /\ MayName(b), NameWants(x))
            F == part(gate("folders"), FolderWants(x, DOMAIN b.titles, b.removedFolders))
            I == part(gate("images"), ImageWants(x, b.removedImages))
            w == Over(Over(T, N), Over(F, I))
<1>1. Wanted(x, b) = w
  BY DEF Wanted
<1>2. DOMAIN b.titles \in SUBSET NoteIds /\ b.removedFolders \in SUBSET FolderIds
      /\ b.removedImages \in SUBSET ImageIds
  BY DEF BridgeGood, IsTable
<1>3. IsWant(Nothing) /\ DOMAIN Nothing = {}
  BY NothingIs DEF IsWant
<1>4. IsWant(T) /\ \A k \in DOMAIN T : k[1] = "note"
  BY TitleWantsAre
<1>5. /\ IsWant(N) /\ DOMAIN N \subseteq {NameKey}
      /\ NameKey \in DOMAIN N => b.author /\ x.space = "mapped" /\ N[NameKey] = x.name
  BY <1>3, NameWantsAre DEF MayName
<1>6. /\ IsWant(F) /\ \A k \in DOMAIN F : k[1] \in {"folder", "parent", "assign"}
      /\ \A k \in DOMAIN F : k[1] = "folder" /\ F[k] # None => k[2] \in DOMAIN x.folders
  BY <1>2, <1>3, FolderWantsAre
<1>7. /\ IsWant(I) /\ \A k \in DOMAIN I : k[1] = "image"
      /\ \A k \in DOMAIN I : I[k] # None => k[2] \in DOMAIN x.images /\ ~x.images[k[2]].push
  BY <1>2, <1>3, ImageWantsAre
<1>. HIDE DEF T, N, F, I
<1>8. /\ DOMAIN w = DOMAIN T \cup DOMAIN N \cup DOMAIN F \cup DOMAIN I
      /\ \A k \in DOMAIN w :
            \/ k \in DOMAIN T /\ w[k] = T[k]
            \/ k \in DOMAIN N /\ w[k] = N[k]
            \/ k \in DOMAIN F /\ w[k] = F[k]
            \/ k \in DOMAIN I /\ w[k] = I[k]
  BY DEF Over
<1>. HIDE DEF w
<1>9. IsWant(w)
  BY <1>4, <1>5, <1>6, <1>7, <1>8 DEF IsWant
<1>10. NameKey \in DOMAIN w => b.author /\ x.space = "mapped" /\ w[NameKey] = x.name
  BY <1>4, <1>5, <1>6, <1>7, <1>8, KeysAre
<1>11. ASSUME NEW f \in FolderIds, FolderKey(f) \in DOMAIN w, w[FolderKey(f)] # None
       PROVE  f \in DOMAIN x.folders
  BY <1>4, <1>5, <1>6, <1>7, <1>8, <1>11, KeysAre
<1>12. ASSUME NEW i \in ImageIds, ImageKey(i) \in DOMAIN w, w[ImageKey(i)] # None
       PROVE  i \in DOMAIN x.images /\ ~x.images[i].push
  BY <1>4, <1>5, <1>6, <1>7, <1>8, <1>12, KeysAre
<1>. QED  BY <1>1, <1>9, <1>10, <1>11, <1>12

LEMMA UpdateMadeGood ==
    ASSUME NEW U, NEW K, NEW doc, DocGood(doc, U, K), NEW w, IsWant(w), NEW c \in Clients,
           NameKey \in DOMAIN w => w[NameKey] # Placeholder,
           \A f \in FolderIds : FolderKey(f) \in DOMAIN w /\ w[FolderKey(f)] # None => f \in U,
           \A i \in ImageIds : ImageKey(i) \in DOMAIN w /\ w[ImageKey(i)] # None
                                    => i \in U /\ i \in K
    PROVE  UpdateGood(Update(doc, w, c), U, K)
<1>. DEFINE u == Update(doc, w, c)
<1>1. c \in Nat
  BY ClientsAssumption
<1>2. /\ IsUpdate(u) /\ DOMAIN u \subseteq DOMAIN w
      /\ \A k \in DOMAIN u : u[k].value = w[k]
  BY <1>1, UpdateIs DEF DocGood, UpdateGood
<1>. HIDE DEF u
<1>3. IdsOf(u, U) /\ ListsKept(u, K)
  BY <1>2 DEF IdsOf, ListsKept
<1>4. NotPlaceholder(u)
  BY <1>2 DEF NotPlaceholder
<1>. QED  BY <1>2, <1>3, <1>4 DEF UpdateGood, u

\* What a pass writes lists what is in the database, images only if they do not
\* wait to be uploaded, and the name only of a device that has read it.
LEMMA WrittenGood ==
    ASSUME NEW U, NEW K, NEW x, DbGood(x, U, K), NEW b, BridgeGood(b, U, K), Named(x, b),
           NEW e, e.client \in Clients
    PROVE  UpdateGood(Written(x, b, e), U, K)
<1>. DEFINE w == Wanted(x, b)
<1>1. /\ IsWant(w)
      /\ NameKey \in DOMAIN w => b.author /\ x.space = "mapped" /\ w[NameKey] = x.name
      /\ \A f \in FolderIds : FolderKey(f) \in DOMAIN w /\ w[FolderKey(f)] # None
                                   => f \in DOMAIN x.folders
      /\ \A i \in ImageIds : ImageKey(i) \in DOMAIN w /\ w[ImageKey(i)] # None
                                   => i \in DOMAIN x.images /\ ~x.images[i].push
  BY WantedIs DEF DbGood
<1>. HIDE DEF w
<1>2. NameKey \in DOMAIN w => w[NameKey] # Placeholder
  BY <1>1 DEF Named
<1>3. /\ \A f \in FolderIds : FolderKey(f) \in DOMAIN w /\ w[FolderKey(f)] # None => f \in U
      /\ \A i \in ImageIds : ImageKey(i) \in DOMAIN w /\ w[ImageKey(i)] # None
                                   => i \in U /\ i \in K
  BY <1>1 DEF DbGood
<1>4. DocGood(b.replica, U, K)
  BY DEF BridgeGood
<1>5. UpdateGood(Update(b.replica, w, e.client), U, K)
  BY <1>1, <1>2, <1>3, <1>4, UpdateMadeGood
<1>. QED  BY <1>5, NothingIs DEF Written, w

LEMMA NameUpdateGood ==
    ASSUME NEW U, NEW K, NEW doc, DocGood(doc, U, K), NEW x, IsDb(x), x.name # Placeholder,
           NEW c \in Clients
    PROVE  UpdateGood(Update(doc, NameWants(x), c), U, K)
<1>. DEFINE w == NameWants(x)
<1>1. IsWant(w) /\ DOMAIN w = {NameKey} /\ w[NameKey] = x.name
  BY NameWantsAre
<1>. HIDE DEF w
<1>2. /\ \A f \in FolderIds : FolderKey(f) \notin DOMAIN w
      /\ \A i \in ImageIds : ImageKey(i) \notin DOMAIN w
  BY <1>1 DEF NameKey, FolderKey, ImageKey
<1>3. UpdateGood(Update(doc, w, c), U, K)
  BY <1>1, <1>2, UpdateMadeGood
<1>. QED  BY <1>3 DEF w

-----------------------------------------------------------------------------
(* The engine. *)

\* The log is read up to some place, not before the one it was read to.
LEMMA PastIn ==
    ASSUME NEW e, NEW log, Len(log) \in Nat, NEW seen \in 0..Len(log)
    PROVE  Past(e, seen, log) \in seen..Len(log)
<1>. DEFINE Skips(j) == log[j].from = e.client \/ log[j].lost
            Ends(i) == i < Len(log) => log[i + 1].from # e.client /\ ~log[i + 1].lost
            T == {i \in seen..Len(log) : Ends(i)}
<1>1. Len(log) \in T
  OBVIOUS
<1>2. T \in SUBSET Nat
  OBVIOUS
<1>3. PICK i \in T : \A j \in T : i <= j
  <2>. HIDE DEF T
  <2>. QED  BY <1>1, <1>2, LeastNat
<1>4. \A j \in (seen + 1)..i : Skips(j)
  <2>1. SUFFICES ASSUME NEW j \in (seen + 1)..i PROVE Skips(j)
    OBVIOUS
  <2>2. j - 1 \in seen..Len(log) /\ j - 1 < i /\ (j - 1) + 1 = j
    BY <1>3
  <2>3. ~Ends(j - 1)
    <3>1. j - 1 \notin T
      <4>. HIDE DEF T
      <4>1. i \in Nat
        BY <1>2, <1>3
      <4>. QED  BY <1>3, <2>2, <4>1
    <3>. QED  BY <2>2, <3>1
  <2>. QED  BY <2>2, <2>3
<1>5. \E k \in seen..Len(log) :
        /\ \A j \in (seen + 1)..k : log[j].from = e.client \/ log[j].lost
        /\ k < Len(log) => log[k + 1].from # e.client /\ ~log[k + 1].lost
  BY <1>3, <1>4
<1>. QED  BY <1>5 DEF Past

LEMMA GoodEngine ==
    ASSUME NEW e, NEW n \in Nat, NEW U, NEW K, EngineGood(e, n, U, K), NEW f,
           DOMAIN f = DOMAIN e, f.client = e.client, f.lost = e.lost, UpdateGood(f.out, U, K),
           AnswersGood(f.results, K), f.seen \in 0..n, f.target \in 0..n,
           f.wire \in [ImageIds -> Nat], f.waiting \subseteq ImageIds, f.fetching \subseteq ImageIds
    PROVE  EngineGood(f, n, U, K)
BY DEF EngineGood

LEMMA QueuedGood ==
    ASSUME NEW e, NEW n \in Nat, NEW U, NEW K, EngineGood(e, n, U, K),
           NEW u, UpdateGood(u, U, K)
    PROVE  LET f == Queued(e, u)
           IN  EngineGood(f, n, U, K) /\ f.refusal = e.refusal /\ f.destroyed = e.destroyed
<1>1. UpdateGood(Apply(e.out, u), U, K)
  BY Applied DEF EngineGood
<1>2. CASE Queued(e, u) = e
  BY <1>2
<1>3. CASE Queued(e, u) = [e EXCEPT !.out = Apply(e.out, u)]
  BY <1>1, <1>3 DEF EngineGood, EngineFields
<1>4. CASE Queued(e, u) = [e EXCEPT !.lost = TRUE]
  BY <1>4 DEF EngineGood, EngineFields
<1>. QED  BY <1>2, <1>3, <1>4 DEF Queued

LEMMA SeqOfSet ==
    ASSUME NEW S, IsFiniteSet(S)
    PROVE  SetToSeq(S) \in Seq(S)
<1>1. Cardinality(S) \in Nat
  BY FS_CardinalityType
<1>2. \E f \in [1..Cardinality(S) -> S] : IsInjective(f)
  BY FS_NatBijection, FS_CountingElements DEF IsInjective, ExistsBijection, Bijection, Injection
<1>3. SetToSeq(S) \in [1..Cardinality(S) -> S]
  BY <1>2 DEF SetToSeq
<1>. QED  BY <1>1, <1>3

LEMMA ResultsGood ==
    ASSUME NEW e, NEW n \in Nat, NEW U, NEW K, EngineGood(e, n, U, K),
           NEW B \in SUBSET ImageIds, NEW r \in {"stored", "error", "big"},
           r = "stored" => B \subseteq K
    PROVE  LET f == Results(e, B, r)
           IN  /\ EngineGood(f, n, U, K)
               /\ f.refusal = e.refusal /\ f.destroyed = e.destroyed
               /\ f.waiting = e.waiting /\ f.wire = e.wire
<1>. DEFINE S == {<<i, r>> : i \in B}
            t == SetToSeq(S)
            f == Results(e, B, r)
<1>1. IsFiniteSet(S)
  <2>1. IsFiniteSet({r})
    BY FS_Singleton
  <2>2. IsFiniteSet(ImageIds \X {r})
    BY <2>1, ImagesAssumption, FS_Product
  <2>3. S \subseteq ImageIds \X {r}
    OBVIOUS
  <2>. QED  BY <2>2, <2>3, FS_Subset
<1>2. t \in Seq(S)
  <2>. HIDE DEF S
  <2>. QED  BY <1>1, SeqOfSet
<1>3. f = [e EXCEPT !.results = e.results \o t]
  BY DEF Results
<1>. HIDE DEF t, f
<1>4. AnswersGood(e.results \o t, K)
  <2>1. t \in Seq(Answers)
    <3>1. S \subseteq Answers
      BY DEF Answers
    <3>. HIDE DEF S
    <3>. QED  BY <1>2, <3>1
  <2>2. e.results \in Seq(Answers)
    BY DEF EngineGood, AnswersGood
  <2>3. e.results \o t \in Seq(Answers)
    BY <2>1, <2>2
  <2>4. ASSUME NEW j \in 1..Len(e.results \o t), (e.results \o t)[j][2] = "stored"
        PROVE  (e.results \o t)[j][1] \in K
    <3>1. CASE j \in 1..Len(e.results)
      <4>1. (e.results \o t)[j] = e.results[j]
        BY <2>1, <2>2, <3>1
      <4>. QED  BY <2>4, <3>1, <4>1 DEF EngineGood, AnswersGood
    <3>2. CASE j \notin 1..Len(e.results)
      <4>1. (e.results \o t)[j] = t[j - Len(e.results)] /\ j - Len(e.results) \in 1..Len(t)
        BY <2>1, <2>2, <2>4, <3>2
      <4>2. t[j - Len(e.results)] \in S
        <5>. HIDE DEF S
        <5>. QED  BY <1>2, <4>1
      <4>3. PICK i \in B : (e.results \o t)[j] = <<i, r>>
        BY <4>1, <4>2
      <4>. QED  BY <2>4, <4>3
    <3>. QED  BY <3>1, <3>2
  <2>. QED  BY <2>3, <2>4 DEF AnswersGood
<1>5. EngineGood(f, n, U, K)
  BY <1>3, <1>4 DEF EngineGood, EngineFields
<1>6. /\ f.refusal = e.refusal /\ f.destroyed = e.destroyed
      /\ f.waiting = e.waiting /\ f.wire = e.wire
  BY <1>3 DEF EngineGood, EngineFields
<1>. QED  BY <1>5, <1>6 DEF f

LEMMA PutGood ==
    ASSUME NEW e, NEW n \in Nat, NEW U, NEW K, EngineGood(e, n, U, K), NEW B \in SUBSET ImageIds
    PROVE  LET f == Put(e, B)
           IN  EngineGood(f, n, U, K) /\ f.refusal = e.refusal /\ f.destroyed = e.destroyed
<1>. DEFINE now == Sent(e, B)
            big == IF e.knows THEN B \cap start.big ELSE {}
            rest == (B \ (now \cup big)) \cup (now \cap e.waiting)
            told1 == Results(e, big, "big")
            told == Results(told1, rest, "error")
            f == [told EXCEPT !.waiting = @ \cup now,
                              !.wire = [i \in ImageIds |-> IF i \in now THEN @[i] + 1 ELSE @[i]]]
<1>1. Put(e, B) = f
  BY DEF Put
<1>2. now \in SUBSET ImageIds /\ big \in SUBSET ImageIds /\ rest \in SUBSET ImageIds
  BY DEF Sent
<1>. HIDE DEF now, big, rest
<1>3. /\ EngineGood(told1, n, U, K)
      /\ told1.refusal = e.refusal /\ told1.destroyed = e.destroyed
  BY <1>2, ResultsGood
<1>. HIDE DEF told1
<1>4. /\ EngineGood(told, n, U, K)
      /\ told.refusal = e.refusal /\ told.destroyed = e.destroyed
  BY <1>2, <1>3, ResultsGood
<1>. HIDE DEF told
<1>5. told.wire \in [ImageIds -> Nat] /\ told.waiting \subseteq ImageIds /\ DOMAIN told = EngineFields
  BY <1>4 DEF EngineGood
<1>6. /\ DOMAIN f = EngineFields /\ f.waiting = told.waiting \cup now
      /\ f.wire = [i \in ImageIds |-> IF i \in now THEN told.wire[i] + 1 ELSE told.wire[i]]
      /\ f.refusal = told.refusal /\ f.destroyed = told.destroyed
      /\ f.client = told.client /\ f.lost = told.lost /\ f.out = told.out /\ f.results = told.results
      /\ f.seen = told.seen /\ f.target = told.target /\ f.fetching = told.fetching
  BY <1>5 DEF EngineFields
<1>. HIDE DEF f
<1>7. f.wire \in [ImageIds -> Nat]
  BY <1>5, <1>6
<1>8. EngineGood(f, n, U, K)
  BY <1>2, <1>4, <1>6, <1>7 DEF EngineGood
<1>. QED  BY <1>1, <1>4, <1>6, <1>8

LEMMA ForgottenGood ==
    ASSUME NEW e, NEW n \in Nat, NEW U, NEW K, EngineGood(e, n, U, K), NEW m \in Nat
    PROVE  LET f == Forgotten(e)
           IN  EngineGood(f, m, U, K) /\ f.refusal = e.refusal /\ f.destroyed = e.destroyed
<1>. DEFINE told == Results(e, e.waiting, "error")
            f == Forgotten(e)
<1>1. /\ EngineGood(told, n, U, K)
      /\ told.refusal = e.refusal /\ told.destroyed = e.destroyed
  <2>1. e.waiting \in SUBSET ImageIds
    BY DEF EngineGood
  <2>. QED  BY <2>1, ResultsGood
<1>. HIDE DEF told
<1>2. f = [told EXCEPT !.knows = FALSE, !.open = FALSE, !.opening = FALSE, !.seen = 0,
                       !.target = 0, !.out = Nothing, !.waiting = {}, !.fetching = {}]
  BY DEF Forgotten, told
<1>. HIDE DEF f
<1>3. /\ DOMAIN f = EngineFields /\ f.waiting = {} /\ f.fetching = {} /\ f.out = Nothing
      /\ f.seen = 0 /\ f.target = 0 /\ f.client = told.client /\ f.lost = told.lost
      /\ f.results = told.results
      /\ f.wire = told.wire /\ f.refusal = told.refusal /\ f.destroyed = told.destroyed
  BY <1>1, <1>2 DEF EngineGood, EngineFields
<1>4. EngineGood(f, m, U, K)
  BY <1>1, <1>3, NothingIs DEF EngineGood
<1>. QED  BY <1>1, <1>3, <1>4 DEF f

LEMMA OpenedGood ==
    ASSUME NEW e, NEW U, NEW K, Len(server.log) \in Nat, EngineGood(e, Len(server.log), U, K)
    PROVE  LET f == Opened(e)
               g == AskOpen(e)
           IN  /\ EngineGood(f, Len(server.log), U, K)
               /\ f.refusal = e.refusal /\ f.destroyed = e.destroyed
               /\ EngineGood(g, Len(server.log), U, K)
               /\ g.refusal = e.refusal /\ g.destroyed = e.destroyed
<1>. DEFINE f == Opened(e)
            g == AskOpen(e)
<1>1. Past(e, 0, server.log) \in 0..Len(server.log)
  BY PastIn
<1>2. \/ f = e
      \/ f = [e EXCEPT !.open = TRUE, !.opening = FALSE, !.seen = Past(e, 0, server.log),
                       !.target = Len(server.log)]
  BY DEF Opened
<1>. HIDE DEF f
<1>3. /\ EngineGood(f, Len(server.log), U, K)
      /\ f.refusal = e.refusal /\ f.destroyed = e.destroyed
  <2>1. CASE f = e
    BY <2>1
  <2>2. CASE f # e
    <3>1. /\ DOMAIN f = EngineFields /\ f.seen = Past(e, 0, server.log)
          /\ f.target = Len(server.log) /\ f.client = e.client /\ f.lost = e.lost
          /\ f.out = e.out
          /\ f.results = e.results /\ f.wire = e.wire /\ f.waiting = e.waiting
          /\ f.fetching = e.fetching /\ f.refusal = e.refusal /\ f.destroyed = e.destroyed
      BY <1>2, <2>2 DEF EngineGood, EngineFields
    <3>2. f.target \in 0..Len(server.log)
      BY <3>1
    <3>. QED  BY <1>1, <3>1, <3>2 DEF EngineGood
  <2>. QED  BY <2>1, <2>2
<1>4. g = [e EXCEPT !.opening = TRUE] \/ g = f
  BY DEF AskOpen, f
<1>. HIDE DEF g
<1>5. /\ EngineGood(g, Len(server.log), U, K)
      /\ g.refusal = e.refusal /\ g.destroyed = e.destroyed
  BY <1>3, <1>4 DEF EngineGood, EngineFields
<1>. QED  BY <1>3, <1>5 DEF f, g

-----------------------------------------------------------------------------
(* The database. *)

LEMMA SetFolders ==
    ASSUME NEW x, IsDb(x), NEW v, IsTable(v, FolderIds, Folder), NEW y, y = [x EXCEPT !.folders = v]
    PROVE  /\ IsDb(y) /\ y.folders = v /\ y.notes = x.notes /\ y.images = x.images
           /\ y.space = x.space /\ y.name = x.name
BY DEF IsDb

LEMMA SetNotes ==
    ASSUME NEW x, IsDb(x), NEW v, IsTable(v, NoteIds, Note), NEW y, y = [x EXCEPT !.notes = v]
    PROVE  /\ IsDb(y) /\ y.notes = v /\ y.folders = x.folders /\ y.images = x.images
           /\ y.space = x.space /\ y.name = x.name
BY DEF IsDb

LEMMA SetImages ==
    ASSUME NEW x, IsDb(x), NEW v, IsTable(v, ImageIds, Image), NEW y, y = [x EXCEPT !.images = v]
    PROVE  /\ IsDb(y) /\ y.images = v /\ y.folders = x.folders /\ y.notes = x.notes
           /\ y.space = x.space /\ y.name = x.name
BY DEF IsDb

LEMMA SetName ==
    ASSUME NEW x, IsDb(x), NEW v, v \in Titles, NEW y, y = [x EXCEPT !.name = v]
    PROVE  /\ IsDb(y) /\ y.name = v /\ y.folders = x.folders /\ y.notes = x.notes
           /\ y.images = x.images /\ y.space = x.space
BY DEF IsDb

LEMMA SetSpace ==
    ASSUME NEW x, IsDb(x), NEW v, v \in {"absent", "local", "mapped"}, NEW y, y = [x EXCEPT !.space = v]
    PROVE  /\ IsDb(y) /\ y.space = v /\ y.folders = x.folders /\ y.notes = x.notes
           /\ y.images = x.images /\ y.name = x.name
BY DEF IsDb

LEMMA FoldersDeletedIs ==
    ASSUME NEW x, IsDb(x), NEW F
    PROVE  LET y == FoldersDeleted(x, F)
           IN  /\ IsDb(y) /\ y.space = x.space /\ y.name = x.name /\ y.images = x.images
               /\ DOMAIN y.folders = DOMAIN x.folders \ UNION {Subtree(x.folders, f) : f \in F}
               /\ DOMAIN y.notes = DOMAIN x.notes /\ Mapped(y) = Mapped(x)
<1>. DEFINE gone == UNION {Subtree(x.folders, f) : f \in F}
            N == [n \in DOMAIN x.notes |->
                    IF x.notes[n].folder \in gone
                    THEN [x.notes[n] EXCEPT !.folder = None, !.push = TRUE] ELSE x.notes[n]]
            z == [x EXCEPT !.folders = Without(x.folders, gone)]
            y == [z EXCEPT !.notes = N]
<1>1. FoldersDeleted(x, F) = y
  <2>1. FoldersDeleted(x, F) = [x EXCEPT !.folders = Without(x.folders, gone), !.notes = N]
    BY DEF FoldersDeleted
  <2>. HIDE DEF gone, N
  <2>. QED  BY <2>1 DEF IsDb
<1>. HIDE DEF gone
<1>2. /\ IsTable(Without(x.folders, gone), FolderIds, Folder)
      /\ DOMAIN Without(x.folders, gone) = DOMAIN x.folders \ gone
  BY WithoutTable DEF IsDb
<1>3. /\ IsDb(z) /\ z.folders = Without(x.folders, gone) /\ z.notes = x.notes
      /\ z.images = x.images /\ z.space = x.space /\ z.name = x.name
  <2>1. z = [x EXCEPT !.folders = Without(x.folders, gone)]
    OBVIOUS
  <2>. HIDE DEF z
  <2>. QED  BY <1>2, <2>1, SetFolders
<1>4. /\ IsTable(N, NoteIds, Note)
      /\ \A n \in DOMAIN x.notes : N[n].mapped = x.notes[n].mapped
  <2>1. ASSUME NEW n \in DOMAIN x.notes
        PROVE  N[n] \in Note /\ N[n].mapped = x.notes[n].mapped
    <3>1. x.notes[n] \in Note
      BY RowsAre
    <3>. QED  BY <3>1 DEF Note
  <2>2. DOMAIN N = DOMAIN x.notes /\ DOMAIN N \subseteq NoteIds
    BY RowsAre
  <2>. HIDE DEF N
  <2>. QED  BY <2>1, <2>2 DEF IsTable
<1>5. DOMAIN N = DOMAIN x.notes
  OBVIOUS
<1>. HIDE DEF N, z
<1>6. /\ IsDb(y) /\ y.notes = N /\ y.folders = z.folders
      /\ y.images = z.images /\ y.space = z.space /\ y.name = z.name
  <2>1. y = [z EXCEPT !.notes = N]
    OBVIOUS
  <2>. HIDE DEF y
  <2>. QED  BY <1>3, <1>4, <2>1, SetNotes
<1>. HIDE DEF y
<1>7. Mapped(y) = Mapped(x)
  BY <1>4, <1>5, <1>6 DEF Mapped
<1>. QED  BY <1>1, <1>2, <1>3, <1>5, <1>6, <1>7 DEF gone

\* What the database shows of a document is well-typed.
LEMMA NameAdoptedIs ==
    ASSUME NEW U, NEW K, NEW doc, DocGood(doc, U, K), NEW x, DbGood(x, U, K)
    PROVE  LET y == NameAdopted(x, doc)
           IN  /\ DbGood(y, U, K) /\ y.space = x.space
               /\ y.folders = x.folders /\ y.images = x.images /\ y.notes = x.notes
               /\ IF doc[NameKey].value = None THEN y.name = x.name ELSE y.name = doc[NameKey].value
<1>. DEFINE y == NameAdopted(x, doc)
<1>1. doc[NameKey].value \in Titles
  BY ValueIs, KeysAre
<1>2. CASE doc[NameKey].value = None
  BY <1>2 DEF NameAdopted
<1>3. CASE doc[NameKey].value # None
  <2>1. y = [x EXCEPT !.name = doc[NameKey].value]
    BY <1>3 DEF NameAdopted
  <2>2. /\ IsDb(y) /\ y.name = doc[NameKey].value /\ y.folders = x.folders
        /\ y.images = x.images /\ y.space = x.space /\ y.notes = x.notes
    <3>. HIDE DEF y
    <3>. QED  BY <1>1, <2>1, SetName DEF DbGood
  <2>. HIDE DEF y
  <2>3. DbGood(y, U, K)
    BY <2>2 DEF DbGood
  <2>. QED  BY <1>3, <2>2, <2>3 DEF y
<1>. QED  BY <1>2, <1>3

LEMMA NotesAdoptedIs ==
    ASSUME NEW U, NEW K, NEW doc, DocGood(doc, U, K), NEW x, DbGood(x, U, K),
           x.space # "absent", NEW titles
    PROVE  LET y == NotesAdopted(x, titles, doc)
           IN  /\ DbGood(y, U, K) /\ y.space = x.space /\ y.name = x.name
               /\ y.folders = x.folders /\ y.images = x.images
<1>. DEFINE fresh == {n \in NoteIds : NoteIsNew(x, titles, doc, n)}
            note(n) == [title |-> doc[NoteKey(n)].value, folder |-> None, push |-> FALSE,
                        mapped |-> TRUE]
            N == [n \in DOMAIN x.notes \cup fresh |->
                    CASE n \in fresh -> note(n)
                      [] TitleIsNews(x, titles, doc, n) ->
                            [x.notes[n] EXCEPT !.title = doc[NoteKey(n)].value]
                      [] OTHER -> x.notes[n]]
            y == NotesAdopted(x, titles, doc)
<1>1. y = [x EXCEPT !.notes = N]
  BY DEF NotesAdopted
<1>2. \A n \in NoteIds : doc[NoteKey(n)].value \in Names \cup {None}
  BY ValueIs, KeysAre
<1>3. DOMAIN N = DOMAIN x.notes \cup fresh /\ DOMAIN x.notes \subseteq NoteIds /\ fresh \subseteq NoteIds
  BY RowsAre DEF DbGood
<1>4. ASSUME NEW n \in DOMAIN x.notes \cup fresh PROVE N[n] \in Note
  <2>1. CASE n \in fresh
    <3>1. N[n] = [title |-> doc[NoteKey(n)].value, folder |-> None, push |-> FALSE,
                  mapped |-> TRUE]
      <4>1. ~TitleIsNews(x, titles, doc, n)
        BY <2>1 DEF NoteIsNew, TitleIsNews
      <4>. QED  BY <1>4, <2>1, <4>1
    <3>2. doc[NoteKey(n)].value \in Names
      BY <1>2, <2>1 DEF NoteIsNew
    <3>. HIDE DEF N
    <3>. QED  BY <3>1, <3>2 DEF Note
  <2>2. CASE n \notin fresh /\ TitleIsNews(x, titles, doc, n)
    <3>1. N[n] = [x.notes[n] EXCEPT !.title = doc[NoteKey(n)].value] /\ n \in DOMAIN x.notes
      BY <1>4, <2>2
    <3>2. doc[NoteKey(n)].value \in Names
      BY <1>2, <1>3, <1>4, <2>2 DEF TitleIsNews
    <3>3. x.notes[n] \in Note
      BY <3>1, RowsAre DEF DbGood
    <3>. QED  BY <3>1, <3>2, <3>3 DEF Note
  <2>3. CASE n \notin fresh /\ ~TitleIsNews(x, titles, doc, n)
    <3>1. N[n] = x.notes[n] /\ n \in DOMAIN x.notes
      BY <1>4, <2>3
    <3>. QED  BY <3>1, RowsAre DEF DbGood
  <2>. QED  BY <2>1, <2>2, <2>3
<1>. HIDE DEF N, fresh
<1>5. IsTable(N, NoteIds, Note)
  BY <1>3, <1>4 DEF IsTable
<1>6. /\ IsDb(y) /\ y.folders = x.folders /\ y.images = x.images
      /\ y.space = x.space /\ y.name = x.name
  <2>. HIDE DEF y
  <2>. QED  BY <1>1, <1>5, SetNotes DEF DbGood
<1>. HIDE DEF y
<1>7. DbGood(y, U, K)
  BY <1>6 DEF DbGood
<1>. QED  BY <1>6, <1>7 DEF y

LEMMA FoldersAdoptedIs ==
    ASSUME NEW U, NEW K, NEW doc, DocGood(doc, U, K), NEW x, DbGood(x, U, K),
           x.space # "absent", NEW removed
    PROVE  LET y == FoldersAdopted(x, doc, removed)
           IN  /\ DbGood(y, U, K) /\ y.space = x.space /\ y.name = x.name
               /\ y.images = x.images /\ y.notes = x.notes
               /\ removed \cap DOMAIN x.folders = {} => removed \cap DOMAIN y.folders = {}
<1>. DEFINE listed == Listed(doc, "folder", FolderIds) \ removed
            parent(f) == LET p == doc[ParentKey(f)].value
                         IN  IF p \in listed \ {f} THEN p ELSE None
            keep(f) == f \in DOMAIN x.folders /\ x.folders[f].push
            F == [f \in DOMAIN x.folders \cup listed |->
                    IF f \notin listed \/ keep(f) THEN x.folders[f]
                    ELSE [name |-> doc[FolderKey(f)].value, parent |-> parent(f), push |-> FALSE]]
            y == FoldersAdopted(x, doc, removed)
<1>1. y = [x EXCEPT !.folders = F]
  BY DEF FoldersAdopted
<1>2. \A f \in FolderIds : f \in listed <=> f \notin removed /\ doc[FolderKey(f)].value # None
  BY DEF Listed, FolderKey
<1>3. listed \subseteq FolderIds /\ \A f : parent(f) \in FolderIds \cup {None}
  BY DEF Listed
<1>4. DOMAIN F = DOMAIN x.folders \cup listed /\ DOMAIN x.folders \subseteq FolderIds
  BY RowsAre DEF DbGood
<1>5. ASSUME NEW f \in DOMAIN x.folders \cup listed PROVE F[f] \in Folder
  <2>1. CASE f \notin listed \/ keep(f)
    <3>1. F[f] = x.folders[f] /\ f \in DOMAIN x.folders
      BY <1>5, <2>1
    <3>. QED  BY <3>1, RowsAre DEF DbGood
  <2>2. CASE ~(f \notin listed \/ keep(f))
    <3>1. F[f] = [name |-> doc[FolderKey(f)].value, parent |-> parent(f), push |-> FALSE]
      BY <1>5, <2>2
    <3>2. doc[FolderKey(f)].value \in Names
      <4>1. f \in FolderIds /\ doc[FolderKey(f)].value # None
        BY <1>2, <1>3, <2>2
      <4>. QED  BY <4>1, ValueIs, KeysAre
    <3>. HIDE DEF parent, F
    <3>. QED  BY <1>3, <3>1, <3>2 DEF Folder
  <2>. QED  BY <2>1, <2>2
<1>6. listed \subseteq U /\ listed \cap removed = {}
  <2>1. \A f \in FolderIds : f \in listed => f \in U
    BY <1>2, KeysAre DEF DocGood, UpdateGood, IdsOf
  <2>. QED  BY <1>3, <2>1
<1>. HIDE DEF F, listed
<1>7. IsTable(F, FolderIds, Folder)
  BY <1>3, <1>4, <1>5 DEF IsTable
<1>8. /\ IsDb(y) /\ y.folders = F /\ y.images = x.images /\ y.notes = x.notes
      /\ y.space = x.space /\ y.name = x.name
  <2>. HIDE DEF y
  <2>. QED  BY <1>1, <1>7, SetFolders DEF DbGood
<1>. HIDE DEF y
<1>9. DbGood(y, U, K)
  BY <1>4, <1>6, <1>8 DEF DbGood
<1>. QED  BY <1>4, <1>6, <1>8, <1>9 DEF y

LEMMA NotesFiledIs ==
    ASSUME NEW U, NEW K, NEW doc, DocGood(doc, U, K), NEW x, DbGood(x, U, K),
           x.space # "absent", NEW docs
    PROVE  LET y == NotesFiled(x, docs, doc)
           IN  /\ DbGood(y, U, K) /\ y.space = x.space /\ y.name = x.name
               /\ y.folders = x.folders /\ y.images = x.images
<1>. DEFINE home(n) == LET f == doc[AssignKey(n)].value
                       IN  IF f \in DOMAIN x.folders THEN f ELSE None
            N == [n \in DOMAIN x.notes |-> IF n \in docs /\ ~x.notes[n].push
                                           THEN [x.notes[n] EXCEPT !.folder = home(n)]
                                           ELSE x.notes[n]]
            y == NotesFiled(x, docs, doc)
<1>1. y = [x EXCEPT !.notes = N]
  BY DEF NotesFiled
<1>2. \A n : home(n) \in FolderIds \cup {None}
  BY RowsAre DEF DbGood
<1>3. DOMAIN N = DOMAIN x.notes /\ DOMAIN x.notes \subseteq NoteIds
  BY RowsAre DEF DbGood
<1>4. ASSUME NEW n \in DOMAIN x.notes PROVE N[n] \in Note
  <2>1. x.notes[n] \in Note
    BY RowsAre DEF DbGood
  <2>2. N[n] = x.notes[n] \/ N[n] = [x.notes[n] EXCEPT !.folder = home(n)]
    OBVIOUS
  <2>. HIDE DEF N, home
  <2>. QED  BY <1>2, <2>1, <2>2 DEF Note
<1>. HIDE DEF N
<1>5. IsTable(N, NoteIds, Note)
  BY <1>3, <1>4 DEF IsTable
<1>6. /\ IsDb(y) /\ y.folders = x.folders /\ y.images = x.images
      /\ y.space = x.space /\ y.name = x.name
  <2>. HIDE DEF y
  <2>. QED  BY <1>1, <1>5, SetNotes DEF DbGood
<1>. HIDE DEF y
<1>7. DbGood(y, U, K)
  BY <1>6 DEF DbGood
<1>. QED  BY <1>6, <1>7 DEF y

LEMMA ImagesAdoptedIs ==
    ASSUME NEW U, NEW K, NEW doc, DocGood(doc, U, K), NEW x, DbGood(x, U, K),
           x.space # "absent", NEW removed
    PROVE  LET y == ImagesAdopted(x, doc, removed)
           IN  /\ DbGood(y, U, K) /\ y.space = x.space /\ y.name = x.name
               /\ y.folders = x.folders /\ y.notes = x.notes
               /\ removed \cap DOMAIN x.images = {} => removed \cap DOMAIN y.images = {}
<1>. DEFINE listed == Listed(doc, "image", ImageIds)
            stale == {i \in DOMAIN x.images : ~x.images[i].push} \ listed
            fresh == [name |-> None, push |-> FALSE, bytes |-> FALSE]
            known(i) == IF i \in DOMAIN x.images THEN x.images[i] ELSE fresh
            I == [i \in (DOMAIN x.images \ stale) \cup (listed \ removed) |->
                    IF i \in listed \ removed
                    THEN [known(i) EXCEPT !.name = doc[ImageKey(i)].value] ELSE x.images[i]]
            y == ImagesAdopted(x, doc, removed)
<1>1. y = [x EXCEPT !.images = I]
  BY DEF ImagesAdopted
<1>2. listed \subseteq ImageIds /\ \A i \in listed : doc[ImageKey(i)].value \in Names
  <2>1. \A i \in ImageIds : doc[ImageKey(i)].value \in Names \cup {None}
    BY ValueIs, KeysAre
  <2>. QED  BY <2>1 DEF Listed, ImageKey
<1>3. \A i \in listed : i \in U /\ i \in K
  <2>1. \A i \in listed : i \in ImageIds /\ doc[ImageKey(i)].value # None
    BY <1>2, NamesAssumption
  <2>. QED  BY <2>1, KeysAre DEF DocGood, UpdateGood, IdsOf, ListsKept
<1>4. DOMAIN I = (DOMAIN x.images \ stale) \cup (listed \ removed)
  OBVIOUS
<1>5. ASSUME NEW i \in DOMAIN I PROVE I[i] \in Image /\ (I[i].push \/ i \in K)
  <2>1. CASE i \in listed \ removed
    <3>1. CASE i \in DOMAIN x.images
      <4>1. I[i] = [x.images[i] EXCEPT !.name = doc[ImageKey(i)].value]
        BY <1>5, <2>1, <3>1
      <4>2. x.images[i] \in Image
        BY <3>1, RowsAre DEF DbGood
      <4>. HIDE DEF I, listed
      <4>. QED  BY <1>2, <1>3, <2>1, <4>1, <4>2 DEF Image
    <3>2. CASE i \notin DOMAIN x.images
      <4>1. I[i] = [name |-> doc[ImageKey(i)].value, push |-> FALSE, bytes |-> FALSE]
        BY <1>5, <2>1, <3>2
      <4>. HIDE DEF I, listed
      <4>. QED  BY <1>2, <1>3, <2>1, <4>1 DEF Image
    <3>. QED  BY <3>1, <3>2
  <2>2. CASE i \notin listed \ removed
    <3>1. I[i] = x.images[i] /\ i \in DOMAIN x.images
      BY <1>5, <2>2
    <3>. QED  BY <3>1, RowsAre DEF DbGood
  <2>. QED  BY <2>1, <2>2
<1>6. DOMAIN I \subseteq ImageIds /\ DOMAIN I \subseteq U
  BY <1>2, <1>3, <1>4, RowsAre DEF DbGood
<1>7. removed \cap DOMAIN x.images = {} => removed \cap DOMAIN I = {}
  BY <1>4
<1>. HIDE DEF I
<1>8. IsTable(I, ImageIds, Image)
  BY <1>5, <1>6 DEF IsTable
<1>9. /\ IsDb(y) /\ y.images = I /\ y.folders = x.folders /\ y.notes = x.notes
      /\ y.space = x.space /\ y.name = x.name
  <2>. HIDE DEF y
  <2>. QED  BY <1>1, <1>8, SetImages DEF DbGood
<1>. HIDE DEF y
<1>10. DbGood(y, U, K)
  BY <1>5, <1>6, <1>9 DEF DbGood
<1>. QED  BY <1>7, <1>9, <1>10 DEF y

-----------------------------------------------------------------------------
(* A pass: what the database and the bridge become. *)

LEMMA TitlesSeenTable ==
    ASSUME NEW U, NEW K, NEW doc, DocGood(doc, U, K), NEW x, NEW titles,
           IsTable(titles, NoteIds, Names \cup {None})
    PROVE  IsTable(TitlesSeen(x, titles, doc), NoteIds, Names \cup {None})
<1>. DEFINE seen == {n \in NoteIds : NoteIsNew(x, titles, doc, n)
                        \/ (n \in DOMAIN titles /\ TitleIsNews(x, titles, doc, n))}
            T == [n \in seen |-> doc[NoteKey(n)].value]
<1>1. \A n \in NoteIds : doc[NoteKey(n)].value \in Names \cup {None}
  BY ValueIs, KeysAre
<1>2. IsTable(T, NoteIds, Names \cup {None})
  BY <1>1 DEF IsTable
<1>. HIDE DEF T
<1>3. IsTable(Over(titles, T), NoteIds, Names \cup {None})
  BY <1>2, OverTable
<1>. QED  BY <1>3 DEF TitlesSeen, T

LEMMA AdoptedIs ==
    ASSUME NEW U, NEW K, NEW x, DbGood(x, U, K), x.space # "absent",
           NEW b, BridgeGood(b, U, K), Pending(x, b)
    PROVE  LET y == Adopted(x, b)
           IN  /\ DbGood(y, U, K) /\ y.space = x.space /\ Pending(y, b)
               /\ IF b.replica[NameKey].value = None THEN y.name = x.name
                  ELSE y.name = b.replica[NameKey].value
               /\ ~b.live => y.images = x.images
               /\ b.live => \E z : /\ IsDb(z) /\ z.images = x.images
                                  /\ y = ImagesAdopted(z, b.replica, b.removedImages)
<1>. DEFINE doc == b.replica
            y1 == NameAdopted(x, doc)
            y2 == NotesAdopted(y1, b.titles, doc)
            y3 == FoldersAdopted(y2, doc, b.removedFolders)
            y4 == IF b.live THEN FoldersDeleted(y3, StaleFolders(y3, doc)) ELSE y3
            docs == DOMAIN TitlesSeen(x, b.titles, doc)
            y5 == NotesFiled(y4, docs, doc)
            y6 == IF b.live THEN ImagesAdopted(y5, doc, b.removedImages) ELSE y5
            Pictured(y) ==
                /\ ~b.live => y.images = x.images
                /\ b.live => \E z : /\ IsDb(z) /\ z.images = x.images
                                   /\ y = ImagesAdopted(z, doc, b.removedImages)
            NameIs(y) == IF doc[NameKey].value = None THEN y.name = x.name
                        ELSE y.name = doc[NameKey].value
<1>1. Adopted(x, b) = y6
  BY DEF Adopted
<1>2. DocGood(doc, U, K)
  BY DEF BridgeGood
<1>3. /\ DbGood(y1, U, K) /\ y1.space = x.space /\ NameIs(y1)
      /\ y1.folders = x.folders /\ y1.images = x.images
  BY <1>2, NameAdoptedIs
<1>. HIDE DEF y1
<1>4. /\ DbGood(y2, U, K) /\ y2.space = x.space /\ NameIs(y2)
      /\ y2.folders = x.folders /\ y2.images = x.images
  <2>1. y1.space # "absent"
    BY <1>3
  <2>2. /\ DbGood(y2, U, K) /\ y2.space = y1.space /\ y2.name = y1.name
        /\ y2.folders = y1.folders /\ y2.images = y1.images
    BY <1>2, <1>3, <2>1, NotesAdoptedIs
  <2>. HIDE DEF y2
  <2>. QED  BY <1>3, <2>2
<1>. HIDE DEF y2
<1>5. /\ DbGood(y3, U, K) /\ y3.space = x.space /\ NameIs(y3) /\ y3.images = x.images
      /\ b.removedFolders \cap DOMAIN y3.folders = {}
  <2>1. y2.space # "absent"
    BY <1>4
  <2>2. /\ DbGood(y3, U, K) /\ y3.space = y2.space /\ y3.name = y2.name
        /\ y3.images = y2.images
        /\ b.removedFolders \cap DOMAIN y2.folders = {} => b.removedFolders \cap DOMAIN y3.folders = {}
    BY <1>2, <1>4, <2>1, FoldersAdoptedIs
  <2>. HIDE DEF y3
  <2>. QED  BY <1>4, <2>2 DEF Pending
<1>. HIDE DEF y3
<1>6. /\ DbGood(y4, U, K) /\ y4.space = x.space /\ NameIs(y4) /\ y4.images = x.images
      /\ b.removedFolders \cap DOMAIN y4.folders = {}
  <2>1. CASE ~b.live
    BY <1>5, <2>1
  <2>2. CASE b.live
    <3>1. y4 = FoldersDeleted(y3, StaleFolders(y3, doc))
      BY <2>2
    <3>2. /\ IsDb(y4) /\ y4.space = y3.space /\ y4.name = y3.name /\ y4.images = y3.images
          /\ DOMAIN y4.folders \subseteq DOMAIN y3.folders
      BY <1>5, <3>1, FoldersDeletedIs DEF DbGood
    <3>. HIDE DEF y4
    <3>3. DbGood(y4, U, K)
      BY <1>5, <3>2 DEF DbGood
    <3>. QED  BY <1>5, <3>2, <3>3
  <2>. QED  BY <2>1, <2>2
<1>. HIDE DEF y4
<1>7. /\ DbGood(y5, U, K) /\ y5.space = x.space /\ NameIs(y5) /\ y5.images = x.images
      /\ b.removedFolders \cap DOMAIN y5.folders = {}
  <2>1. y4.space # "absent"
    BY <1>6
  <2>2. /\ DbGood(y5, U, K) /\ y5.space = y4.space /\ y5.name = y4.name
        /\ y5.folders = y4.folders /\ y5.images = y4.images
    BY <1>2, <1>6, <2>1, NotesFiledIs
  <2>. HIDE DEF y5
  <2>. QED  BY <1>6, <2>2
<1>. HIDE DEF y5
<1>8. /\ DbGood(y6, U, K) /\ y6.space = x.space /\ NameIs(y6) /\ Pending(y6, b)
      /\ Pictured(y6)
  <2>0. y5.space # "absent" /\ Pending(y5, b)
    BY <1>7 DEF Pending
  <2>1. CASE ~b.live
    BY <1>7, <2>0, <2>1
  <2>2. CASE b.live
    <3>1. y6 = ImagesAdopted(y5, doc, b.removedImages)
      BY <2>2
    <3>2. /\ DbGood(y6, U, K) /\ y6.space = y5.space /\ y6.name = y5.name
          /\ y6.folders = y5.folders
          /\ b.removedImages \cap DOMAIN y5.images = {} => b.removedImages \cap DOMAIN y6.images = {}
      BY <1>2, <1>7, <2>0, <3>1, ImagesAdoptedIs
    <3>3. Pictured(y6)
      <4>1. IsDb(y5) /\ y5.images = x.images
        BY <1>7 DEF DbGood
      <4>. HIDE DEF y6
      <4>. QED  BY <2>2, <3>1, <4>1
    <3>. HIDE DEF y6, Pictured
    <3>. QED  BY <1>7, <2>0, <3>2, <3>3 DEF Pending
  <2>. QED  BY <2>1, <2>2
<1>. HIDE DEF y6
<1>9. Pictured(Adopted(x, b))
  <2>. HIDE DEF Pictured
  <2>. QED  BY <1>1, <1>8
<1>. QED  BY <1>1, <1>8, <1>9

\* What makes a bridge good, but for the fields that are as they were.
LEMMA GoodBridge ==
    ASSUME NEW U, NEW K, NEW b, BridgeGood(b, U, K), NEW c, DOMAIN c = DOMAIN b,
           c.replica = b.replica \/ DocGood(c.replica, U, K),
           c.titles = b.titles \/ IsTable(c.titles, NoteIds, Names \cup {None}),
           c.removedFolders \subseteq b.removedFolders, c.removedImages \subseteq b.removedImages,
           c.joining \in {"no", "asked", "hung"}, c.known \in Names \cup {None},
           c.moved \subseteq Tables,
           c.creating = b.creating \/ IsTable(c.creating, NoteIds, {"asked", "made", "failed"}),
           c.uploading \subseteq ImageIds, c.failed \subseteq ImageIds, c.tries = b.tries
    PROVE  BridgeGood(c, U, K)
BY DEF BridgeGood

LEMMA CreatingTable ==
    ASSUME NEW U, NEW K, NEW x, IsDb(x), NEW b, BridgeGood(b, U, K)
    PROVE  LET c == Creating(x, b)
           IN  /\ BridgeGood(c, U, K)
               /\ \A f \in BridgeFields \ {"creating"} : c[f] = b[f]
<1>. DEFINE C == [n \in DOMAIN x.notes \ Mapped(x) |-> "asked"]
            c == Creating(x, b)
<1>1. IsTable(C, NoteIds, {"asked", "made", "failed"})
  BY RowsAre DEF IsTable
<1>. HIDE DEF C
<1>2. IsTable(Over(C, b.creating), NoteIds, {"asked", "made", "failed"})
  BY <1>1, OverTable DEF BridgeGood
<1>3. c = [b EXCEPT !.creating = Over(C, b.creating)]
  BY DEF Creating, C
<1>. HIDE DEF c
<1>4. BridgeGood(c, U, K)
  BY <1>2, <1>3 DEF BridgeGood, BridgeFields
<1>5. \A f \in BridgeFields \ {"creating"} : c[f] = b[f]
  BY <1>3 DEF BridgeGood
<1>. QED  BY <1>4, <1>5 DEF c

-----------------------------------------------------------------------------
(* A device after a step. *)

LEMMA EngineSwap ==
    ASSUME NEW x, NEW b, NEW e, NEW n, NEW U, NEW K, NEW R, NEW P,
           Device(x, b, e, n, U, K, R, P), NEW f, EngineGood(f, n, U, K),
           f.refusal = e.refusal \/ ~f.refusal, f.destroyed = e.destroyed \/ ~f.destroyed
    PROVE  Device(x, b, f, n, U, K, R, P)
<1>1. Refused(x, b, f, R)
  BY DEF Device, Refused
<1>. QED  BY <1>1 DEF Device

LEMMA BridgeSwap ==
    ASSUME NEW x, NEW b, NEW e, NEW n, NEW U, NEW K, NEW R, NEW P,
           Device(x, b, e, n, U, K, R, P), NEW c, BridgeGood(c, U, K),
           c.removedFolders \subseteq b.removedFolders, c.removedImages \subseteq b.removedImages,
           c.pushing = b.pushing \/ ~c.pushing, c.author = b.author \/ ~c.author,
           c.known = b.known \/ ~c.author, c.refused = b.refused,
           \/ c.joining = b.joining \/ c.joining = "no" \/ x.space = "mapped"
           \/ c.joining = "hung" /\ b.joining = "asked",
           DOMAIN c.creating \subseteq DOMAIN b.creating \/ x.space = "mapped"
    PROVE  Device(x, c, e, n, U, K, R, P)
<1>1. Pending(x, c)
  BY DEF Device, Pending
<1>2. Named(x, c)
  BY DEF Device, Named
<1>3. Unpushed(x, c, P)
  BY DEF Device, Unpushed
<1>4. Refused(x, c, e, R)
  BY DEF Device, Refused
<1>. QED  BY <1>1, <1>2, <1>3, <1>4 DEF Device

\* Whether the pump that follows has something to do is nothing to the invariants.
LEMMA DueSwap ==
    ASSUME NEW x, NEW b, NEW e, NEW n, NEW U, NEW K, NEW R, NEW P,
           Device(x, b, e, n, U, K, R, P), NEW v
    PROVE  Device(x, [b EXCEPT !.due = v], e, n, U, K, R, P)
<1>. DEFINE c == [b EXCEPT !.due = v]
<1>1. DOMAIN c = DOMAIN b /\ \A f \in BridgeFields \ {"due"} : c[f] = b[f]
  BY DEF Device, BridgeGood
<1>2. /\ c.replica = b.replica /\ c.titles = b.titles /\ c.removedFolders = b.removedFolders
      /\ c.removedImages = b.removedImages /\ c.joining = b.joining /\ c.known = b.known
      /\ c.moved = b.moved /\ c.creating = b.creating /\ c.uploading = b.uploading
      /\ c.failed = b.failed /\ c.tries = b.tries /\ c.author = b.author
      /\ c.pushing = b.pushing /\ c.refused = b.refused
  BY DEF Device, BridgeGood, BridgeFields
<1>. HIDE DEF c
<1>3. BridgeGood(c, U, K)
  BY <1>1, <1>2 DEF Device, BridgeGood
<1>4. Device(x, c, e, n, U, K, R, P)
  BY <1>2, <1>3, BridgeSwap
<1>. QED  BY <1>4 DEF c

LEMMA InboundIs ==
    ASSUME NEW x, NEW b, NEW e, NEW n \in Nat, NEW U, NEW K, NEW R, NEW P,
           Device(x, b, e, n, U, K, R, P)
    PROVE  LET y == InboundDb(x, b)
               c == InboundBridge(x, b)
           IN  /\ Device(y, c, InboundEngine(x, b, e), n, U, K, R, P)
               /\ c.joining = b.joining /\ c.has = b.has /\ y.space = x.space
<1>. DEFINE y == InboundDb(x, b)
            c == InboundBridge(x, b)
            f == InboundEngine(x, b, e)
            name == b.replica[NameKey].value
<1>1. name \in Names \cup {None}
  <2>1. name \in Titles
    BY ValueIs, KeysAre DEF Device, BridgeGood
  <2>2. name # Placeholder
    BY KeysAre DEF Device, BridgeGood, DocGood, UpdateGood, NotPlaceholder
  <2>. QED  BY <2>1, <2>2 DEF Titles
<1>2. CASE ~b.has
  <2>1. y = x /\ f = e
    BY <1>2 DEF InboundDb, InboundEngine
  <2>2. c = b
    BY <1>2 DEF InboundBridge
  <2>. QED  BY <2>1, <2>2
<1>3. CASE b.has /\ x.space # "mapped"
  <2>1. y = x /\ f = e
    BY <1>3 DEF InboundDb, InboundEngine
  <2>. DEFINE seen == [b EXCEPT !.author = @ \/ name # None]
  <2>2. c = [seen EXCEPT !.known = IF name = None THEN @ ELSE name]
    BY <1>3 DEF InboundBridge
  <2>. HIDE DEF name, y, f
  <2>3. DOMAIN b = BridgeFields
    BY DEF Device, BridgeGood
  <2>4. /\ c.author = (b.author \/ name # None)
        /\ c.known = (IF name = None THEN b.known ELSE name)
        /\ c.replica = b.replica /\ c.titles = b.titles /\ c.removedFolders = b.removedFolders
        /\ c.removedImages = b.removedImages /\ c.joining = b.joining
        /\ c.moved = b.moved /\ c.creating = b.creating /\ c.uploading = b.uploading
        /\ c.failed = b.failed /\ c.tries = b.tries
        /\ c.pushing = b.pushing /\ c.refused = b.refused /\ c.has = b.has
        /\ DOMAIN c = BridgeFields
    BY <2>2, <2>3 DEF BridgeFields
  <2>. HIDE DEF c
  <2>5. BridgeGood(c, U, K)
    BY <1>1, <2>4 DEF Device, BridgeGood
  <2>6. Named(x, c)
    BY <1>3, <2>4 DEF Device, Named
  <2>7. Pending(x, c) /\ Unpushed(x, c, P) /\ Refused(x, c, e, R)
    BY <2>4 DEF Device, Pending, Unpushed, Refused
  <2>8. Device(x, c, e, n, U, K, R, P)
    BY <2>5, <2>6, <2>7 DEF Device
  <2>. QED  BY <2>1, <2>4, <2>8 DEF c, y, f
<1>4. CASE b.has /\ x.space = "mapped"
  <2>. DEFINE tables == (IF y.name # x.name THEN {"spaces"} ELSE {})
                  \cup (IF y.folders # x.folders \/ \E m \in DOMAIN x.notes :
                                y.notes[m].folder # x.notes[m].folder THEN {"folders"} ELSE {})
                  \cup (IF y.images # x.images THEN {"images"} ELSE {})
              seen == [b EXCEPT !.author = @ \/ name # None]
              T == TitlesSeen(x, b.titles, b.replica)
  <2>1. y = Adopted(x, b)
    BY <1>4 DEF InboundDb
  <2>2. /\ DbGood(y, U, K) /\ y.space = "mapped" /\ Pending(y, b)
        /\ IF name = None THEN y.name = x.name ELSE y.name = name
    BY <1>4, <2>1, AdoptedIs DEF Device
  <2>3. c = [Moves(seen, tables) EXCEPT !.titles = TitlesSeen(x, @, b.replica)]
    BY <1>4, <2>1 DEF InboundBridge
  <2>4. IsTable(T, NoteIds, Names \cup {None})
    BY TitlesSeenTable DEF Device, BridgeGood
  <2>5. tables \subseteq Tables
    BY DEF Tables
  <2>. HIDE DEF name, y, tables, T
  <2>6. DOMAIN b = BridgeFields
    BY DEF Device, BridgeGood
  <2>7. /\ c.author = (b.author \/ name # None) /\ c.titles = T
        /\ c.moved = b.moved \cup tables
        /\ c.replica = b.replica /\ c.known = b.known /\ c.removedFolders = b.removedFolders
        /\ c.removedImages = b.removedImages /\ c.joining = b.joining
        /\ c.creating = b.creating /\ c.uploading = b.uploading
        /\ c.failed = b.failed /\ c.tries = b.tries
        /\ c.pushing = b.pushing /\ c.refused = b.refused /\ c.has = b.has
        /\ DOMAIN c = BridgeFields
    BY <2>3, <2>6 DEF BridgeFields, Moves, T
  <2>. HIDE DEF c
  <2>8. BridgeGood(c, U, K)
    BY <2>4, <2>5, <2>7 DEF Device, BridgeGood
  <2>9. Named(y, c)
    BY <1>1, <1>4, <2>2, <2>7, NamesAssumption DEF Device, Named
  <2>10. Pending(y, c)
    BY <2>2, <2>7 DEF Pending
  <2>11. Unpushed(y, c, P) /\ Refused(y, c, e, R)
    BY <1>4, <2>2, <2>7 DEF Device, Unpushed, Refused
  <2>12. Device(y, c, e, n, U, K, R, P)
    BY <2>2, <2>8, <2>9, <2>10, <2>11 DEF Device
  <2>13. EngineGood(f, n, U, K) /\ f.refusal = e.refusal /\ f.destroyed = e.destroyed
    <3>. DEFINE z == Adopted(x, b)
                wanted == {i \in DOMAIN z.images : ~z.images[i].bytes}
                              \cap Listed(b.replica, "image", ImageIds)
    <3>1. f = e \/ f = [e EXCEPT !.fetching = @ \cup wanted]
      BY DEF InboundEngine
    <3>2. wanted \subseteq ImageIds
      BY DEF Listed
    <3>. HIDE DEF wanted, f
    <3>3. EngineGood(e, n, U, K)
      BY DEF Device
    <3>. QED  BY <3>1, <3>2, <3>3 DEF EngineGood, EngineFields
  <2>. HIDE DEF f
  <2>14. Device(y, c, f, n, U, K, R, P)
    BY <2>12, <2>13, EngineSwap
  <2>. QED  BY <1>4, <2>2, <2>7, <2>14 DEF c, y, f
<1>. QED  BY <1>2, <1>3, <1>4

LEMMA ReconciledIs ==
    ASSUME NEW x, NEW b, NEW e, NEW n \in Nat, NEW U, NEW K, NEW R, NEW P,
           Device(x, b, e, n, U, K, R, P)
    PROVE  LET u == Written(x, b, e)
           IN  Device(x, [Passed(x, b, u) EXCEPT !.due = FALSE], Put(Queued(e, u), Reship(x, b)),
                      n, U, K, R, P)
<1>. DEFINE u == Written(x, b, e)
            asked == IF x.space = "mapped" THEN Creating(x, b) ELSE b
            ship == Reship(x, b)
            T == WrittenTitles(x, b.titles)
            c == Passed(x, b, u)
            f == Put(Queued(e, u), ship)
<1>1. UpdateGood(u, U, K)
  BY WrittenGood DEF Device, EngineGood
<1>2. ship \in SUBSET ImageIds
  BY RowsAre DEF Reship, Device, DbGood
<1>3. IsTable(T, NoteIds, Names \cup {None})
  <2>1. \A m \in DOMAIN T : m \in DOMAIN b.titles /\ (T[m] = b.titles[m] \/ T[m] \in Names)
    BY RowsAre DEF WrittenTitles, Device, DbGood
  <2>2. DOMAIN T = DOMAIN b.titles /\ IsTable(b.titles, NoteIds, Names \cup {None})
    BY DEF WrittenTitles, Device, BridgeGood
  <2>. HIDE DEF T
  <2>. QED  BY <2>1, <2>2 DEF IsTable
<1>4. /\ BridgeGood(asked, U, K)
      /\ \A g \in BridgeFields \ {"creating"} : asked[g] = b[g]
      /\ DOMAIN asked.creating = DOMAIN b.creating \/ x.space = "mapped"
  BY CreatingTable DEF Device, DbGood
<1>5. DocGood(Apply(b.replica, u), U, K)
  BY <1>1, Applied DEF Device, BridgeGood, DocGood
<1>. HIDE DEF u, ship, T, asked
<1>6. c = [asked EXCEPT
              !.replica = Apply(@, u), !.moved = {}, !.dirty = FALSE,
              !.titles = WrittenTitles(x, @),
              !.removedFolders = IF Gate(b, "folders") THEN {} ELSE @,
              !.removedImages = IF Gate(b, "images") THEN {} ELSE @,
              !.uploading = @ \cup ship]
  BY DEF Passed, asked, ship
<1>7. DOMAIN asked = BridgeFields
  BY <1>4 DEF BridgeGood
<1>8. /\ c.replica = Apply(b.replica, u) /\ c.titles = T /\ c.moved = {}
      /\ c.removedFolders \subseteq b.removedFolders /\ c.removedImages \subseteq b.removedImages
      /\ c.uploading = b.uploading \cup ship /\ c.creating = asked.creating
      /\ c.joining = b.joining /\ c.known = b.known /\ c.failed = b.failed /\ c.tries = b.tries
      /\ c.author = b.author /\ c.pushing = b.pushing /\ c.refused = b.refused
      /\ DOMAIN c = BridgeFields
  BY <1>4, <1>6, <1>7 DEF BridgeFields, T
<1>. HIDE DEF c
<1>9. BridgeGood(b, U, K)
  BY DEF Device
<1>10. BridgeGood(c, U, K)
  BY <1>2, <1>3, <1>4, <1>5, <1>8, <1>9 DEF BridgeGood
<1>11. Device(x, c, e, n, U, K, R, P)
  BY <1>4, <1>8, <1>10, BridgeSwap
<1>12. Device(x, [c EXCEPT !.due = FALSE], e, n, U, K, R, P)
  BY <1>11, DueSwap
<1>13. /\ EngineGood(Queued(e, u), n, U, K)
       /\ Queued(e, u).refusal = e.refusal /\ Queued(e, u).destroyed = e.destroyed
  BY <1>1, QueuedGood DEF Device
<1>14. EngineGood(f, n, U, K) /\ f.refusal = e.refusal /\ f.destroyed = e.destroyed
  BY <1>2, <1>13, PutGood
<1>. HIDE DEF f
<1>15. Device(x, [c EXCEPT !.due = FALSE], f, n, U, K, R, P)
  BY <1>12, <1>14, EngineSwap
<1>. QED  BY <1>15 DEF c, f, u, ship

-----------------------------------------------------------------------------
(* Steps. *)

LEMMA LogIs ==
    ASSUME IInv
    PROVE  /\ Len(server.log) \in Nat /\ DOMAIN server.log = 1..Len(server.log)
           /\ \A j \in 1..Len(server.log) : UpdateGood(server.log[j].update, used, Kept)
<1>1. server.log \in Seq({server.log[j] : j \in DOMAIN server.log})
  BY DEF IInv, ServerGood, Logged
<1>2. Len(server.log) \in Nat /\ DOMAIN server.log = 1..Len(server.log)
  BY <1>1
<1>. QED  BY <1>2 DEF IInv, ServerGood, Logged

\* More ids, more images and a longer log are no harm.
LEMMA Longer ==
    ASSUME NEW x, NEW b, NEW e, NEW n \in Nat, NEW U, NEW K, NEW R, NEW P,
           Device(x, b, e, n, U, K, R, P),
           NEW m \in Nat, n <= m, NEW V, U \subseteq V, NEW L, K \subseteq L, NEW Q, Q => P
    PROVE  Device(x, b, e, m, V, L, R, Q)
<1>1. DbGood(x, V, L)
  BY DEF Device, DbGood
<1>2. \A u : UpdateGood(u, U, K) => UpdateGood(u, V, L)
  BY Greater
<1>3. BridgeGood(b, V, L)
  BY <1>2 DEF Device, BridgeGood, DocGood
<1>4. EngineGood(e, m, V, L)
  <2>1. e.seen \in 0..m /\ e.target \in 0..m
    BY DEF Device, EngineGood
  <2>2. AnswersGood(e.results, L)
    BY DEF Device, EngineGood, AnswersGood
  <2>. QED  BY <1>2, <2>1, <2>2 DEF Device, EngineGood
<1>5. Unpushed(x, b, Q)
  BY DEF Device, Unpushed
<1>. QED  BY <1>1, <1>3, <1>4, <1>5 DEF Device

LEMMA LoggedLonger ==
    ASSUME NEW log, NEW U, NEW K, Logged(log, U, K), NEW V, U \subseteq V, NEW L, K \subseteq L
    PROVE  Logged(log, V, L)
BY Greater DEF Logged

\* What a step may spend of the bounds.
Spends ==
    \/ start' = start
    \/ start.ops > 0 /\ start' = [start EXCEPT !.ops = @ - 1]
    \/ start.drops > 0 /\ start' = [start EXCEPT !.drops = @ - 1]
    \/ start.restarts > 0 /\ start' = [start EXCEPT !.restarts = @ - 1]

LEMMA Spent ==
    ASSUME StartGood, Spends
    PROVE  StartGood' /\ start'.kinds = start.kinds
<1>1. CASE start' = start
  BY <1>1 DEF StartGood
<1>2. CASE start.ops > 0 /\ start' = [start EXCEPT !.ops = @ - 1]
  BY <1>2 DEF StartGood
<1>3. CASE start.drops > 0 /\ start' = [start EXCEPT !.drops = @ - 1]
  BY <1>3 DEF StartGood
<1>4. CASE start.restarts > 0 /\ start' = [start EXCEPT !.restarts = @ - 1]
  BY <1>4 DEF StartGood
<1>. QED  BY <1>1, <1>2, <1>3, <1>4 DEF Spends

\* What a step makes of one device, and that a device is as it should be.
Sets(d, x, b, e) ==
    /\ DOMAIN db' = Devices /\ DOMAIN bridge' = Devices /\ DOMAIN engine' = Devices
    /\ db'[d] = x /\ bridge'[d] = b /\ engine'[d] = e
    /\ \A m \in Devices \ {d} : db'[m] = db[m] /\ bridge'[m] = bridge[m] /\ engine'[m] = engine[m]
Fits(x, b, e) ==
    Device(x, b, e, Len(server.log), used, Kept, server.refuses, ToPush)

LEMMA ChangesIs ==
    ASSUME IInv, NEW d \in Devices, NEW x, NEW b, NEW e, Changes(d, x, b, e)
    PROVE  Sets(d, x, b, e)
BY DEF IInv, Changes, Sets

\* The step of one device.
LEMMA DeviceSteps ==
    ASSUME IInv, NEW d \in Devices, NEW x, NEW b, NEW e, Sets(d, x, b, e),
           Spends, clients' \subseteq Clients, HistoryGood', ServerGood',
           used \subseteq used', Kept \subseteq Kept', ToPush' => ToPush,
           server'.refuses = server.refuses, Len(server.log) <= Len(server'.log),
           Len(server'.log) \in Nat,
           Device(x, b, e, Len(server'.log), used', Kept', server.refuses, ToPush')
    PROVE  IInv'
<1>1. /\ DOMAIN db' = Devices /\ DOMAIN bridge' = Devices /\ DOMAIN engine' = Devices
      /\ db'[d] = x /\ bridge'[d] = b /\ engine'[d] = e
      /\ \A m \in Devices \ {d} : db'[m] = db[m] /\ bridge'[m] = bridge[m] /\ engine'[m] = engine[m]
  BY DEF Sets
<1>2. StartGood'
  BY Spent DEF IInv
<1>3. ASSUME NEW m \in Devices PROVE Good(m)'
  <2>1. CASE m = d
    BY <1>1, <2>1 DEF Good
  <2>2. CASE m # d
    <3>1. Device(db[m], bridge[m], engine[m], Len(server.log), used, Kept, server.refuses, ToPush)
      BY DEF IInv, Good
    <3>2. Len(server.log) \in Nat
      BY LogIs
    <3>3. Device(db[m], bridge[m], engine[m], Len(server'.log), used', Kept', server.refuses, ToPush')
      BY <3>1, <3>2, Longer
    <3>. QED  BY <1>1, <2>2, <3>3 DEF Good
  <2>. QED  BY <2>1, <2>2
<1>. QED  BY <1>1, <1>2, <1>3 DEF IInv

\* A step that leaves the server and the history as they are.
LEMMA QuietSteps ==
    ASSUME IInv, NEW d \in Devices, NEW x, NEW b, NEW e, Sets(d, x, b, e),
           UNCHANGED <<server, history>>, Spends, clients' \subseteq Clients, Fits(x, b, e)
    PROVE  IInv'
<1>1. start'.kinds = start.kinds
  BY Spent DEF IInv
<1>2. ToPush' = ToPush /\ Kept' = Kept /\ used' = used /\ server' = server
  BY <1>1 DEF ToPush, Kept, history
<1>3. HistoryGood' /\ ServerGood'
  BY <1>1, <1>2 DEF IInv, HistoryGood, ServerGood, history, ToPush
<1>4. Device(x, b, e, Len(server'.log), used', Kept', server.refuses, ToPush')
  BY <1>2 DEF Fits
<1>. QED  BY <1>2, <1>3, <1>4, LogIs, DeviceSteps

LEMMA HandledSteps ==
    ASSUME IInv, NEW d \in Devices, NEW x, NEW b, NEW e, Handled(d, x, b, e),
           UNCHANGED <<server, history>>, Spends, UNCHANGED clients, Fits(x, b, e)
    PROVE  IInv'
<1>. DEFINE v == Works(x, b, e)
            c == [b EXCEPT !.due = v]
<1>1. Changes(d, x, c, e)
  BY DEF Handled
<1>. HIDE DEF v
<1>2. Fits(x, c, e)
  BY DueSwap DEF Fits
<1>3. clients' \subseteq Clients
  BY DEF IInv
<1>. HIDE DEF c
<1>4. Sets(d, x, c, e)
  BY <1>1, ChangesIs
<1>. QED  BY <1>2, <1>3, <1>4, QuietSteps

LEMMA GoodIs ==
    ASSUME IInv, NEW d \in Devices
    PROVE  /\ Fits(db[d], bridge[d], engine[d]) /\ Len(server.log) \in Nat
           /\ DbGood(db[d], used, Kept) /\ BridgeGood(bridge[d], used, Kept)
           /\ EngineGood(engine[d], Len(server.log), used, Kept)
           /\ DOMAIN db[d] = {"space", "name", "folders", "notes", "images"}
           /\ DOMAIN bridge[d] = BridgeFields /\ DOMAIN engine[d] = EngineFields
<1>1. Fits(db[d], bridge[d], engine[d]) /\ Len(server.log) \in Nat
  BY LogIs DEF IInv, Good, Fits
<1>2. /\ DbGood(db[d], used, Kept) /\ BridgeGood(bridge[d], used, Kept)
      /\ EngineGood(engine[d], Len(server.log), used, Kept)
  BY <1>1 DEF Fits, Device
<1>. QED  BY <1>1, <1>2 DEF DbGood, IsDb, BridgeGood, EngineGood

\* A bridge and an engine that have come to differ in what the event sets.
LEMMA BridgeFits ==
    ASSUME NEW x, NEW b, NEW e, Fits(x, b, e), NEW c, BridgeGood(c, used, Kept),
           c.removedFolders \subseteq b.removedFolders, c.removedImages \subseteq b.removedImages,
           c.pushing = b.pushing \/ ~c.pushing, c.author = b.author \/ ~c.author,
           c.known = b.known \/ ~c.author, c.refused = b.refused,
           \/ c.joining = b.joining \/ c.joining = "no" \/ x.space = "mapped"
           \/ c.joining = "hung" /\ b.joining = "asked",
           DOMAIN c.creating \subseteq DOMAIN b.creating \/ x.space = "mapped"
    PROVE  Fits(x, c, e)
BY BridgeSwap DEF Fits

LEMMA EngineFits ==
    ASSUME NEW x, NEW b, NEW e, Fits(x, b, e), NEW f,
           EngineGood(f, Len(server.log), used, Kept),
           f.refusal = e.refusal \/ ~f.refusal, f.destroyed = e.destroyed \/ ~f.destroyed
    PROVE  Fits(x, b, f)
BY EngineSwap DEF Fits

LEMMA InboundSteps ==
    ASSUME IInv, NEW d \in Devices, NEW x, NEW b, NEW e, Inbound(d, x, b, e),
           UNCHANGED <<server, history>>, Spends, UNCHANGED clients, Fits(x, b, e)
    PROVE  IInv'
<1>. DEFINE y == InboundDb(x, b)
            c == InboundBridge(x, b)
            f == InboundEngine(x, b, e)
<1>1. Handled(d, y, c, f)
  BY DEF Inbound
<1>2. Len(server.log) \in Nat
  BY LogIs
<1>3. Fits(y, c, f)
  BY <1>2, InboundIs DEF Fits
<1>. HIDE DEF y, c, f
<1>. QED  BY <1>1, <1>3, HandledSteps

-----------------------------------------------------------------------------
(* The events, one by one. *)

LEMMA ConnectSteps ==
    ASSUME IInv, NEW d \in Devices, Connect(d)
    PROVE  IInv'
<1>. DEFINE x == db[d]
            b == bridge[d]
            e == engine[d]
            c == [b EXCEPT !.joining = IF x.space = "mapped" /\ @ = "no" THEN "asked" ELSE @]
            f == [e EXCEPT !.up = TRUE, !.target = IF e.open THEN Len(server.log) ELSE 0]
<1>1. Handled(d, x, c, f) /\ UNCHANGED <<server, history>> /\ Spends /\ UNCHANGED clients
  BY DEF Connect, Quietly, Spends
<1>2. /\ Fits(x, b, e) /\ BridgeGood(b, used, Kept) /\ EngineGood(e, Len(server.log), used, Kept)
      /\ DOMAIN b = BridgeFields /\ DOMAIN e = EngineFields /\ Len(server.log) \in Nat
  BY GoodIs
<1>3. /\ c.joining = (IF x.space = "mapped" /\ b.joining = "no" THEN "asked" ELSE b.joining)
      /\ c.replica = b.replica /\ c.titles = b.titles /\ c.removedFolders = b.removedFolders
      /\ c.removedImages = b.removedImages /\ c.known = b.known /\ c.moved = b.moved
      /\ c.creating = b.creating /\ c.uploading = b.uploading /\ c.failed = b.failed
      /\ c.tries = b.tries /\ c.author = b.author /\ c.pushing = b.pushing
      /\ c.refused = b.refused /\ DOMAIN c = BridgeFields
  BY <1>2 DEF BridgeFields
<1>4. /\ f.target = (IF e.open THEN Len(server.log) ELSE 0) /\ f.client = e.client
      /\ f.lost = e.lost /\ f.seen = e.seen /\ f.out = e.out /\ f.wire = e.wire
      /\ f.waiting = e.waiting /\ f.results = e.results /\ f.fetching = e.fetching
      /\ f.refusal = e.refusal /\ f.destroyed = e.destroyed /\ DOMAIN f = EngineFields
  BY <1>2 DEF EngineFields
<1>. HIDE DEF c, f
<1>5. BridgeGood(c, used, Kept)
  BY <1>2, <1>3 DEF BridgeGood
<1>6. Fits(x, c, e)
  BY <1>2, <1>3, <1>5, BridgeFits
<1>7. EngineGood(f, Len(server.log), used, Kept)
  BY <1>2, <1>4 DEF EngineGood
<1>8. Fits(x, c, f)
  BY <1>4, <1>6, <1>7, EngineFits
<1>. QED  BY <1>1, <1>8, HandledSteps

LEMMA DisconnectSteps ==
    ASSUME IInv, NEW d \in Devices, Disconnect(d)
    PROVE  IInv'
<1>. DEFINE x == db[d]
            b == bridge[d]
            e == engine[d]
            lost == [e EXCEPT !.up = FALSE, !.waiting = {}, !.fetching = {},
                              !.wire = [i \in ImageIds |-> 0]]
            failed == [n \in DOMAIN b.creating |->
                          IF b.creating[n] = "asked" THEN "failed" ELSE b.creating[n]]
            c == [b EXCEPT
                !.live = FALSE, !.peeking = @ /\ e.knows,
                !.joining = IF @ = "asked" /\ ~e.knows THEN "hung" ELSE @,
                !.creating = [n \in DOMAIN @ |-> IF @[n] = "asked" THEN "failed" ELSE @[n]]]
            f == Results(lost, e.waiting, "error")
<1>1. /\ Handled(d, x, c, f) /\ UNCHANGED <<server, history>> /\ Spends /\ UNCHANGED clients
  BY DEF Disconnect, Spends
<1>2. /\ Fits(x, b, e) /\ BridgeGood(b, used, Kept) /\ EngineGood(e, Len(server.log), used, Kept)
      /\ DOMAIN b = BridgeFields /\ DOMAIN e = EngineFields /\ Len(server.log) \in Nat
  BY GoodIs
<1>3. IsTable(failed, NoteIds, {"asked", "made", "failed"}) /\ DOMAIN failed = DOMAIN b.creating
  BY <1>2 DEF BridgeGood, IsTable
<1>4. /\ c.joining = (IF b.joining = "asked" /\ ~e.knows THEN "hung" ELSE b.joining)
      /\ c.creating = failed /\ c.replica = b.replica /\ c.titles = b.titles
      /\ c.removedFolders = b.removedFolders /\ c.removedImages = b.removedImages
      /\ c.known = b.known /\ c.moved = b.moved /\ c.uploading = b.uploading
      /\ c.failed = b.failed /\ c.tries = b.tries /\ c.author = b.author /\ c.pushing = b.pushing
      /\ c.refused = b.refused /\ DOMAIN c = BridgeFields
  BY <1>2 DEF BridgeFields
<1>. HIDE DEF c, failed
<1>5. BridgeGood(c, used, Kept)
  BY <1>2, <1>3, <1>4 DEF BridgeGood
<1>6. Fits(x, c, e)
  BY <1>2, <1>3, <1>4, <1>5, BridgeFits
<1>7. /\ lost.wire = [i \in ImageIds |-> 0] /\ lost.waiting = {} /\ lost.fetching = {}
      /\ lost.client = e.client /\ lost.lost = e.lost /\ lost.seen = e.seen
      /\ lost.target = e.target /\ lost.out = e.out /\ lost.results = e.results
      /\ lost.refusal = e.refusal /\ lost.destroyed = e.destroyed /\ DOMAIN lost = EngineFields
  BY <1>2 DEF EngineFields
<1>. HIDE DEF lost
<1>8. EngineGood(lost, Len(server.log), used, Kept)
  BY <1>2, <1>7 DEF EngineGood
<1>9. e.waiting \in SUBSET ImageIds
  BY <1>2 DEF EngineGood
<1>10. /\ EngineGood(f, Len(server.log), used, Kept)
       /\ f.refusal = e.refusal /\ f.destroyed = e.destroyed
  BY <1>2, <1>7, <1>8, <1>9, ResultsGood
<1>. HIDE DEF f
<1>11. Fits(x, c, f)
  BY <1>6, <1>10, EngineFits
<1>. QED  BY <1>1, <1>11, HandledSteps

LEMMA DeliverSteps ==
    ASSUME IInv, NEW d \in Devices, Deliver(d)
    PROVE  IInv'
<1>. DEFINE x == db[d]
            b == bridge[d]
            e == engine[d]
            update == server.log[e.seen + 1].update
            read == Past(e, e.seen + 1, server.log)
            c == [b EXCEPT !.replica = Apply(@, update)]
            f == [e EXCEPT !.seen = Past(e, @ + 1, server.log)]
<1>1. Inbound(d, x, c, f) /\ UNCHANGED <<server, history>> /\ Spends /\ UNCHANGED clients
  BY DEF Deliver, Quietly, Spends
<1>2. /\ Fits(x, b, e) /\ BridgeGood(b, used, Kept) /\ EngineGood(e, Len(server.log), used, Kept)
      /\ DOMAIN b = BridgeFields /\ DOMAIN e = EngineFields /\ Len(server.log) \in Nat
  BY GoodIs
<1>9. e.seen + 1 \in 1..Len(server.log)
  BY <1>2 DEF Deliver, EngineGood
<1>10. DocGood(Apply(b.replica, update), used, Kept)
  BY <1>2, <1>9, LogIs, Applied DEF BridgeGood, DocGood
<1>11. read \in 0..Len(server.log)
  BY <1>2, <1>9, PastIn
<1>. HIDE DEF update, read
<1>3. /\ c.replica = Apply(b.replica, update) /\ c.titles = b.titles
      /\ c.removedFolders = b.removedFolders /\ c.removedImages = b.removedImages
      /\ c.joining = b.joining /\ c.known = b.known /\ c.moved = b.moved
      /\ c.creating = b.creating /\ c.uploading = b.uploading /\ c.failed = b.failed
      /\ c.tries = b.tries /\ c.author = b.author /\ c.pushing = b.pushing
      /\ c.refused = b.refused /\ DOMAIN c = BridgeFields
  BY <1>2 DEF BridgeFields
<1>4. /\ f.seen = read /\ f.client = e.client /\ f.lost = e.lost /\ f.target = e.target
      /\ f.out = e.out /\ f.wire = e.wire /\ f.waiting = e.waiting /\ f.results = e.results
      /\ f.fetching = e.fetching /\ f.refusal = e.refusal /\ f.destroyed = e.destroyed
      /\ DOMAIN f = EngineFields
  BY <1>2 DEF EngineFields, read
<1>. HIDE DEF c, f
<1>5. BridgeGood(c, used, Kept)
  BY <1>2, <1>3, <1>10 DEF BridgeGood
<1>6. Fits(x, c, e)
  BY <1>2, <1>3, <1>5, BridgeFits
<1>7. EngineGood(f, Len(server.log), used, Kept)
  BY <1>2, <1>4, <1>11 DEF EngineGood
<1>8. Fits(x, c, f)
  BY <1>4, <1>6, <1>7, EngineFits
<1>. QED  BY <1>1, <1>8, InboundSteps

LEMMA SyncedSteps ==
    ASSUME IInv, NEW d \in Devices, Synced(d)
    PROVE  IInv'
<1>. DEFINE x == db[d]
            b == bridge[d]
            e == engine[d]
            c == [b EXCEPT !.live = TRUE, !.dirty = TRUE]
            f == e
<1>1. Inbound(d, x, c, f) /\ UNCHANGED <<server, history>> /\ Spends /\ UNCHANGED clients
  BY DEF Synced, Quietly, Spends
<1>2. /\ Fits(x, b, e) /\ BridgeGood(b, used, Kept) /\ EngineGood(e, Len(server.log), used, Kept)
      /\ DOMAIN b = BridgeFields /\ DOMAIN e = EngineFields /\ Len(server.log) \in Nat
  BY GoodIs
<1>3. /\ c.replica = b.replica /\ c.titles = b.titles /\ c.removedFolders = b.removedFolders
      /\ c.removedImages = b.removedImages /\ c.joining = b.joining /\ c.known = b.known
      /\ c.moved = b.moved /\ c.creating = b.creating /\ c.uploading = b.uploading
      /\ c.failed = b.failed /\ c.tries = b.tries /\ c.author = b.author /\ c.pushing = b.pushing
      /\ c.refused = b.refused /\ DOMAIN c = BridgeFields
  BY <1>2 DEF BridgeFields
<1>. HIDE DEF c, f
<1>5. BridgeGood(c, used, Kept)
  BY <1>2, <1>3 DEF BridgeGood
<1>6. Fits(x, c, e)
  BY <1>2, <1>3, <1>5, BridgeFits
<1>8. Fits(x, c, f)
  BY <1>6 DEF f
<1>. QED  BY <1>1, <1>8, InboundSteps

LEMMA ReconcileSteps ==
    ASSUME IInv, NEW d \in Devices, Reconcile(d)
    PROVE  IInv'
<1>. DEFINE x == db[d]
            b == bridge[d]
            u == Written(x, b, engine[d])
            c == [Passed(x, b, u) EXCEPT !.due = FALSE]
            f == Put(Queued(engine[d], u), Reship(x, b))
<1>1. Changes(d, x, c, f) /\ UNCHANGED <<server, history>> /\ Spends /\ UNCHANGED clients
  BY DEF Reconcile, Spends
<1>2. Fits(x, b, engine[d]) /\ Len(server.log) \in Nat
  BY GoodIs
<1>3. Fits(x, c, f)
  BY <1>2, ReconciledIs DEF Fits
<1>. HIDE DEF c, f
<1>4. Sets(d, x, c, f) /\ clients' \subseteq Clients
  BY <1>1, ChangesIs DEF IInv
<1>. QED  BY <1>1, <1>3, <1>4, QuietSteps

\* What is read of a log that has grown.
LEMMA PastGood ==
    ASSUME NEW e, NEW n \in Nat, NEW U, NEW K, EngineGood(e, n, U, K),
           NEW log, Len(log) \in Nat, n <= Len(log)
    PROVE  LET f == [e EXCEPT !.seen = Past(e, @, log)]
           IN  /\ EngineGood(f, Len(log), U, K)
               /\ f.refusal = e.refusal /\ f.destroyed = e.destroyed /\ f.client = e.client
<1>. DEFINE read == Past(e, e.seen, log)
            f == [e EXCEPT !.seen = Past(e, @, log)]
<1>1. e.seen \in 0..Len(log) /\ e.target \in 0..Len(log)
  BY DEF EngineGood
<1>2. read \in 0..Len(log)
  BY <1>1, PastIn
<1>. HIDE DEF read
<1>3. /\ f.seen = read /\ f.client = e.client /\ f.lost = e.lost /\ f.target = e.target
      /\ f.out = e.out /\ f.wire = e.wire /\ f.waiting = e.waiting /\ f.results = e.results
      /\ f.fetching = e.fetching /\ f.refusal = e.refusal /\ f.destroyed = e.destroyed
      /\ DOMAIN f = EngineFields
  BY DEF EngineGood, EngineFields, read
<1>. HIDE DEF f
<1>4. EngineGood(f, Len(log), U, K)
  BY <1>1, <1>2, <1>3 DEF EngineGood
<1>. QED  BY <1>3, <1>4 DEF f

LEMMA PushSteps ==
    ASSUME IInv, NEW d \in Devices, Push(d)
    PROVE  IInv'
<1>. DEFINE e == engine[d]
            entry == [from |-> e.client, update |-> e.out, lost |-> e.lost]
            log == Append(server.log, entry)
            n == Len(server.log)
            read(m) == [engine[m] EXCEPT !.seen = Past(engine[m], @, log)]
            sent == [e EXCEPT !.out = Nothing, !.idle = TRUE, !.seen = Past(e, @, log)]
<1>1. /\ server' = [server EXCEPT !.log = log]
      /\ engine' = [m \in Devices |-> IF m = d THEN sent ELSE read(m)]
      /\ UNCHANGED <<db, bridge, start, clients, used, deleted, intents>> /\ server.exists
  BY DEF Push, Quietly, history
<1>2. ServerGood /\ n \in Nat /\ Logged(server.log, used, Kept)
  BY LogIs DEF IInv, ServerGood
<1>3. /\ log \in Seq({log[j] : j \in DOMAIN log})
      /\ Len(log) = n + 1 /\ DOMAIN log = 1..Len(log) /\ DOMAIN server.log = 1..n
      /\ \A j \in 1..n : log[j] = server.log[j]
      /\ log[Len(log)] = entry
  <2>. DEFINE s == server.log
              t == Append(s, entry)
  <2>1. s \in Seq({s[j] : j \in DOMAIN s})
    BY <1>2 DEF Logged
  <2>2. log = t /\ n = Len(s) /\ s = server.log
    OBVIOUS
  <2>. HIDE DEF entry, s, log, n
  <2>3. /\ t \in Seq({t[j] : j \in DOMAIN t})
        /\ Len(s) \in Nat /\ DOMAIN s = 1..Len(s) /\ Len(t) = Len(s) + 1
        /\ DOMAIN t = 1..Len(t) /\ \A j \in 1..Len(s) : t[j] = s[j]
        /\ t[Len(t)] = entry
    BY <2>1, AppendIs
  <2>. HIDE DEF t
  <2>. QED  BY <2>2, <2>3
<1>4. e.lost \in BOOLEAN /\ UpdateGood(e.out, used, Kept)
  BY GoodIs DEF EngineGood
<1>. HIDE DEF log, n, sent, read
<1>5. Logged(log, used, Kept)
  <2>1. \A j \in DOMAIN log : j \in 1..n \/ j = Len(log)
    BY <1>2, <1>3
  <2>2. \A j \in 1..n : log[j].lost \in BOOLEAN /\ UpdateGood(log[j].update, used, Kept)
    BY <1>2, <1>3 DEF Logged
  <2>3. entry.lost = e.lost /\ entry.update = e.out
    OBVIOUS
  <2>. HIDE DEF entry
  <2>4. log[Len(log)].lost \in BOOLEAN /\ UpdateGood(log[Len(log)].update, used, Kept)
    BY <1>3, <1>4, <2>3
  <2>5. \A j \in DOMAIN log : log[j].lost \in BOOLEAN /\ UpdateGood(log[j].update, used, Kept)
    BY <2>1, <2>2, <2>4
  <2>. QED  BY <1>3, <2>5 DEF Logged
<1>6. /\ server'.exists = server.exists /\ server'.refuses = server.refuses
      /\ server'.stored = server.stored /\ server'.log = log
      /\ DOMAIN server' = DOMAIN server
  BY <1>1, <1>2 DEF ServerGood
<1>7. ToPush' = ToPush /\ Kept' = Kept /\ used' = used
  BY <1>1, <1>6 DEF ToPush, Kept
<1>8. ServerGood'
  BY <1>2, <1>5, <1>6, <1>7 DEF ServerGood
<1>9. ASSUME NEW m \in Devices PROVE Good(m)'
  <2>1. Device(db[m], bridge[m], engine[m], n, used, Kept, server.refuses, ToPush)
    BY DEF IInv, Good, n
  <2>2. Device(db[m], bridge[m], engine[m], Len(log), used, Kept, server.refuses, ToPush)
    BY <1>2, <1>3, <2>1, Longer
  <2>3. /\ EngineGood(read(m), Len(log), used, Kept)
        /\ read(m).refusal = engine[m].refusal /\ read(m).destroyed = engine[m].destroyed
        /\ DOMAIN read(m) = EngineFields
    <3>1. EngineGood(engine[m], n, used, Kept)
      BY <2>1 DEF Device
    <3>2. n <= Len(log) /\ Len(log) \in Nat
      BY <1>2, <1>3
    <3>3. /\ EngineGood(read(m), Len(log), used, Kept)
          /\ read(m).refusal = engine[m].refusal /\ read(m).destroyed = engine[m].destroyed
      BY <1>2, <3>1, <3>2, PastGood DEF read
    <3>. QED  BY <3>3 DEF EngineGood
  <2>4. CASE m = d
    <3>1. /\ DOMAIN sent = EngineFields /\ sent.out = Nothing
          /\ \A g \in EngineFields \ {"out", "idle"} : sent[g] = read(d)[g]
      <4>1. DOMAIN e = EngineFields
        BY <2>1, <2>4 DEF Device, EngineGood
      <4>. DEFINE past == Past(e, e.seen, log)
      <4>2. /\ sent = [e EXCEPT !.out = Nothing, !.idle = TRUE, !.seen = past]
            /\ read(d) = [e EXCEPT !.seen = past]
        BY DEF sent, read
      <4>. HIDE DEF past, e
      <4>. QED  BY <4>1, <4>2 DEF EngineFields
    <3>2. EngineGood(sent, Len(log), used, Kept)
      BY <2>3, <2>4, <3>1, NothingIs DEF EngineGood, EngineFields
    <3>3. sent.refusal = e.refusal /\ sent.destroyed = e.destroyed
      BY <2>3, <2>4, <3>1 DEF EngineFields
    <3>4. Device(db[m], bridge[m], sent, Len(log), used, Kept, server.refuses, ToPush)
      BY <2>2, <2>4, <3>2, <3>3, EngineSwap
    <3>. QED  BY <1>1, <1>6, <1>7, <2>4, <3>4 DEF Good
  <2>5. CASE m # d
    <3>1. Device(db[m], bridge[m], read(m), Len(log), used, Kept, server.refuses, ToPush)
      BY <2>2, <2>3, EngineSwap
    <3>. QED  BY <1>1, <1>6, <1>7, <2>5, <3>1 DEF Good
  <2>. QED  BY <2>4, <2>5
<1>. QED  BY <1>1, <1>8, <1>9 DEF IInv, StartGood, HistoryGood

\* The database has changed in what neither keeps something from being removed
\* nor makes a document.
LEMMA DbFits ==
    ASSUME NEW x, NEW b, NEW e, Fits(x, b, e), NEW y, DbGood(y, used, Kept),
           y.space = x.space, y.name = x.name \/ y.name \in Names,
           DOMAIN y.folders \subseteq DOMAIN x.folders, DOMAIN y.images \subseteq DOMAIN x.images,
           Mapped(y) \subseteq Mapped(x)
    PROVE  Fits(y, b, e)
<1>1. Pending(y, b)
  BY DEF Fits, Device, Pending
<1>2. Named(y, b)
  BY NamesAssumption DEF Fits, Device, Named
<1>3. Unpushed(y, b, ToPush)
  BY DEF Fits, Device, Unpushed
<1>4. Refused(y, b, e, server.refuses)
  BY DEF Fits, Device, Refused
<1>. QED  BY <1>1, <1>2, <1>3, <1>4 DEF Fits, Device

\* Only the engine of a device changes.
LEMMA EngineSteps1 ==
    ASSUME IInv, NEW d \in Devices, NEW f, engine' = [engine EXCEPT ![d] = f],
           UNCHANGED <<db, bridge, server>>, Quietly, Fits(db[d], bridge[d], f)
    PROVE  IInv'
<1>1. Sets(d, db[d], bridge[d], f)
  BY DEF IInv, Sets
<1>2. UNCHANGED <<server, history>> /\ Spends /\ clients' \subseteq Clients
  BY DEF Quietly, Spends, IInv
<1>. QED  BY <1>1, <1>2, QuietSteps

LEMMA IdleSteps ==
    ASSUME IInv, NEW d \in Devices, Idle(d)
    PROVE  IInv'
<1>. DEFINE x == db[d]
            b == bridge[d]
            e == engine[d]
            doc == b.replica
            acked(g) == /\ doc[FolderKey(g)].value = x.folders[g].name
                        /\ doc[ParentKey(g)].value = x.folders[g].parent
            there(m) == m \in DOMAIN b.titles /\ doc[AssignKey(m)].value = x.notes[m].folder
            folders == [g \in DOMAIN x.folders |-> [x.folders[g] EXCEPT !.push = @ /\ ~acked(g)]]
            notes == [m \in DOMAIN x.notes |-> [x.notes[m] EXCEPT !.push = @ /\ ~there(m)]]
            y == [x EXCEPT !.folders = folders, !.notes = notes]
            f == [e EXCEPT !.idle = FALSE]
<1>1. /\ Handled(d, y, b, f) \/ Handled(d, x, b, f)
      /\ UNCHANGED <<server, history>> /\ Spends /\ UNCHANGED clients
  BY DEF Idle, Quietly, Spends
<1>2. /\ Fits(x, b, e) /\ DbGood(x, used, Kept) /\ BridgeGood(b, used, Kept)
      /\ EngineGood(e, Len(server.log), used, Kept) /\ Len(server.log) \in Nat
      /\ DOMAIN x = {"space", "name", "folders", "notes", "images"}
      /\ DOMAIN b = BridgeFields /\ DOMAIN e = EngineFields
  BY GoodIs
<1>3. /\ f.client = e.client /\ f.lost = e.lost /\ f.seen = e.seen /\ f.target = e.target
      /\ f.out = e.out /\ f.wire = e.wire /\ f.waiting = e.waiting /\ f.results = e.results
      /\ f.fetching = e.fetching /\ f.refusal = e.refusal /\ f.destroyed = e.destroyed
      /\ DOMAIN f = EngineFields
  BY <1>2 DEF EngineFields
<1>4. EngineGood(f, Len(server.log), used, Kept)
  BY <1>2, <1>3 DEF EngineGood
<1>5. Fits(x, b, f)
  BY <1>2, <1>3, <1>4, EngineFits
<1>. HIDE DEF f
<1>6. IsTable(folders, FolderIds, Folder) /\ DOMAIN folders = DOMAIN x.folders
  <2>1. ASSUME NEW g \in DOMAIN x.folders PROVE folders[g] \in Folder
    <3>. DEFINE p == x.folders[g].push /\ ~acked(g)
    <3>1. p \in BOOLEAN /\ folders[g] = [x.folders[g] EXCEPT !.push = p]
      OBVIOUS
    <3>2. x.folders[g] \in Folder
      BY <1>2, RowsAre DEF DbGood
    <3>. HIDE DEF p, folders
    <3>. QED  BY <3>1, <3>2 DEF Folder
  <2>. QED  BY <1>2, <2>1, RowsAre DEF DbGood, IsTable
<1>7. /\ IsTable(notes, NoteIds, Note) /\ DOMAIN notes = DOMAIN x.notes
      /\ \A m \in DOMAIN notes : notes[m].mapped = x.notes[m].mapped
  <2>1. ASSUME NEW m \in DOMAIN x.notes
        PROVE  notes[m] \in Note /\ notes[m].mapped = x.notes[m].mapped
    <3>. DEFINE p == x.notes[m].push /\ ~there(m)
    <3>1. p \in BOOLEAN /\ notes[m] = [x.notes[m] EXCEPT !.push = p]
      OBVIOUS
    <3>2. x.notes[m] \in Note
      BY <1>2, RowsAre DEF DbGood
    <3>. HIDE DEF p, notes
    <3>. QED  BY <3>1, <3>2 DEF Note
  <2>. QED  BY <1>2, <2>1, RowsAre DEF DbGood, IsTable
<1>. HIDE DEF folders, notes
<1>8. /\ y.folders = folders /\ y.notes = notes /\ y.space = x.space /\ y.name = x.name
      /\ y.images = x.images /\ DOMAIN y = {"space", "name", "folders", "notes", "images"}
  BY <1>2
<1>. HIDE DEF y
<1>9. DbGood(y, used, Kept)
  BY <1>2, <1>6, <1>7, <1>8 DEF DbGood, IsDb
<1>10. Mapped(y) = Mapped(x)
  BY <1>7, <1>8 DEF Mapped
<1>11. Fits(y, b, f)
  BY <1>5, <1>6, <1>8, <1>9, <1>10, DbFits
<1>. QED  BY <1>1, <1>5, <1>11, HandledSteps

LEMMA OpenIndexSteps ==
    ASSUME IInv, NEW d \in Devices, OpenIndex(d)
    PROVE  IInv'
<1>. DEFINE x == db[d]
            b == bridge[d]
            e == engine[d]
            f == IF e.knows THEN Opened(e) ELSE [e EXCEPT !.opening = FALSE]
<1>1. engine' = [engine EXCEPT ![d] = f] /\ UNCHANGED <<db, bridge, server>> /\ Quietly
  BY DEF OpenIndex, IInv
<1>2. /\ Fits(x, b, e) /\ DbGood(x, used, Kept) /\ BridgeGood(b, used, Kept)
      /\ EngineGood(e, Len(server.log), used, Kept) /\ Len(server.log) \in Nat
      /\ DOMAIN x = {"space", "name", "folders", "notes", "images"}
      /\ DOMAIN b = BridgeFields /\ DOMAIN e = EngineFields
  BY GoodIs
<1>3. /\ EngineGood(f, Len(server.log), used, Kept)
      /\ f.refusal = e.refusal /\ f.destroyed = e.destroyed
  <2>1. CASE e.knows
    BY <1>2, <2>1, OpenedGood
  <2>2. CASE ~e.knows
    <3>1. /\ f.client = e.client /\ f.lost = e.lost /\ f.seen = e.seen /\ f.target = e.target
          /\ f.out = e.out /\ f.wire = e.wire /\ f.waiting = e.waiting /\ f.results = e.results
          /\ f.fetching = e.fetching /\ f.refusal = e.refusal /\ f.destroyed = e.destroyed
          /\ DOMAIN f = EngineFields
      BY <1>2, <2>2 DEF EngineFields
    <3>. HIDE DEF f
    <3>. QED  BY <1>2, <3>1 DEF EngineGood
  <2>. QED  BY <2>1, <2>2
<1>. HIDE DEF f
<1>4. Fits(x, b, f)
  BY <1>2, <1>3, EngineFits
<1>. QED  BY <1>1, <1>4, EngineSteps1

LEMMA RefuseSteps ==
    ASSUME IInv, NEW d \in Devices, Refuse(d)
    PROVE  IInv'
<1>. DEFINE x == db[d]
            b == bridge[d]
            e == engine[d]
            f == [Forgotten(e) EXCEPT !.refusal = TRUE]
<1>1. /\ engine' = [engine EXCEPT ![d] = f] /\ UNCHANGED <<db, bridge, server>> /\ Quietly
      /\ server.refuses
  BY DEF Refuse, IInv
<1>2. /\ Fits(x, b, e) /\ DbGood(x, used, Kept) /\ BridgeGood(b, used, Kept)
      /\ EngineGood(e, Len(server.log), used, Kept) /\ Len(server.log) \in Nat
      /\ DOMAIN x = {"space", "name", "folders", "notes", "images"}
      /\ DOMAIN b = BridgeFields /\ DOMAIN e = EngineFields
  BY GoodIs
<1>3. /\ EngineGood(Forgotten(e), Len(server.log), used, Kept)
      /\ Forgotten(e).destroyed = e.destroyed
  BY <1>2, ForgottenGood
<1>4. /\ DOMAIN f = EngineFields /\ f.destroyed = e.destroyed
      /\ \A g \in EngineFields \ {"refusal"} : f[g] = Forgotten(e)[g]
  BY <1>3 DEF EngineGood, EngineFields
<1>. HIDE DEF f
<1>5. EngineGood(f, Len(server.log), used, Kept)
  BY <1>3, <1>4 DEF EngineGood, EngineFields
<1>6. Refused(x, b, f, server.refuses)
  BY <1>1, <1>2, <1>4 DEF Fits, Device, Refused
<1>7. Fits(x, b, f)
  BY <1>2, <1>5, <1>6 DEF Fits, Device
<1>. QED  BY <1>1, <1>7, EngineSteps1

LEMMA SpacePushedSteps ==
    ASSUME IInv, NEW d \in Devices, SpacePushed(d)
    PROVE  IInv'
<1>. DEFINE x == db[d]
            b == bridge[d]
            e == engine[d]
            y == [x EXCEPT !.space = "mapped"]
            quit == [b EXCEPT !.pushing = FALSE]
            update == Update(b.replica, NameWants(y), e.client)
            bound == [quit EXCEPT !.has = TRUE, !.author = TRUE, !.replica = Apply(@, update)]
            c == Moves(Creating(y, bound), {"spaces"})
            f == Queued(e, update)
<1>1. /\ b.pushing
      /\ \/ Counts(quit) /\ Handled(d, y, c, f)
         \/ ~Counts(quit) /\ Handled(d, x, quit, e)
      /\ UNCHANGED <<server, history>> /\ Spends /\ UNCHANGED clients
  BY DEF SpacePushed, Quietly, Spends
<1>2. /\ Fits(x, b, e) /\ DbGood(x, used, Kept) /\ BridgeGood(b, used, Kept)
      /\ EngineGood(e, Len(server.log), used, Kept) /\ Len(server.log) \in Nat
      /\ DOMAIN x = {"space", "name", "folders", "notes", "images"}
      /\ DOMAIN b = BridgeFields /\ DOMAIN e = EngineFields
  BY GoodIs
<1>3. x.space = "local" /\ x.name \in Names
  BY <1>1, <1>2 DEF Fits, Device, Named
<1>4. /\ quit.pushing = FALSE /\ quit.replica = b.replica /\ quit.titles = b.titles
      /\ quit.removedFolders = b.removedFolders /\ quit.removedImages = b.removedImages
      /\ quit.joining = b.joining /\ quit.known = b.known /\ quit.moved = b.moved
      /\ quit.creating = b.creating /\ quit.uploading = b.uploading /\ quit.failed = b.failed
      /\ quit.tries = b.tries /\ quit.author = b.author /\ quit.refused = b.refused
      /\ quit.has = b.has /\ DOMAIN quit = BridgeFields
  BY <1>2 DEF BridgeFields
<1>. HIDE DEF quit
<1>5. BridgeGood(quit, used, Kept)
  BY <1>2, <1>4 DEF BridgeGood
<1>6. Fits(x, quit, e)
  BY <1>2, <1>4, <1>5, BridgeFits
<1>7. CASE ~Counts(quit) /\ Handled(d, x, quit, e)
  BY <1>1, <1>6, <1>7, HandledSteps
<1>8. CASE Counts(quit) /\ Handled(d, y, c, f)
  <2>1. /\ y.space = "mapped" /\ y.name = x.name /\ y.folders = x.folders /\ y.notes = x.notes
        /\ y.images = x.images /\ DOMAIN y = {"space", "name", "folders", "notes", "images"}
    BY <1>2
  <2>. HIDE DEF y
  <2>2. DbGood(y, used, Kept) /\ y.name # Placeholder /\ Mapped(y) = Mapped(x)
    BY <1>2, <1>3, <2>1, NamesAssumption DEF DbGood, IsDb, Mapped
  <2>3. UpdateGood(update, used, Kept)
    <3>1. e.client \in Clients /\ DocGood(b.replica, used, Kept) /\ IsDb(y)
      BY <1>2, <2>2 DEF EngineGood, BridgeGood, DbGood
    <3>. QED  BY <2>2, <3>1, NameUpdateGood
  <2>4. DocGood(Apply(b.replica, update), used, Kept)
    BY <1>2, <2>3, Applied DEF BridgeGood, DocGood
  <2>5. /\ bound.replica = Apply(b.replica, update) /\ bound.author = TRUE
        /\ bound.titles = quit.titles /\ bound.removedFolders = quit.removedFolders
        /\ bound.removedImages = quit.removedImages /\ bound.joining = quit.joining
        /\ bound.known = quit.known /\ bound.moved = quit.moved /\ bound.creating = quit.creating
        /\ bound.uploading = quit.uploading /\ bound.failed = quit.failed
        /\ bound.tries = quit.tries /\ bound.pushing = quit.pushing
        /\ bound.refused = quit.refused /\ DOMAIN bound = BridgeFields
    BY <1>4 DEF BridgeFields
  <2>. HIDE DEF bound, update
  <2>6. BridgeGood(bound, used, Kept)
    BY <1>5, <2>4, <2>5 DEF BridgeGood
  <2>. DEFINE asked == Creating(y, bound)
  <2>7. /\ BridgeGood(asked, used, Kept)
        /\ \A g \in BridgeFields \ {"creating"} : asked[g] = bound[g]
    BY <2>2, <2>6, CreatingTable DEF DbGood
  <2>. HIDE DEF asked
  <2>8. c = [asked EXCEPT !.moved = @ \cup {"spaces"}]
    BY DEF Moves, asked
  <2>. HIDE DEF c
  <2>9. DOMAIN asked = BridgeFields
    BY <2>7 DEF BridgeGood
  <2>10. /\ DOMAIN c = BridgeFields /\ c.moved = asked.moved \cup {"spaces"}
         /\ \A g \in BridgeFields \ {"moved"} : c[g] = asked[g]
    BY <2>8, <2>9 DEF BridgeFields
  <2>11. BridgeGood(c, used, Kept)
    BY <2>7, <2>10 DEF BridgeGood, BridgeFields, Tables
  <2>12. /\ c.removedFolders = b.removedFolders /\ c.removedImages = b.removedImages
         /\ c.joining = b.joining /\ ~c.pushing /\ c.refused = b.refused
    BY <1>4, <2>5, <2>7, <2>10 DEF BridgeFields
  <2>13. ~b.refused
    BY <1>4, <1>8 DEF Counts
  <2>14. Pending(y, c) /\ Named(y, c)
    BY <1>2, <1>3, <2>1, <2>2, <2>12 DEF Fits, Device, Pending, Named
  <2>15. Unpushed(y, c, ToPush)
    BY <1>1, <1>2 DEF Fits, Device, Unpushed
  <2>16. Refused(y, c, e, server.refuses)
    BY <1>2, <2>1, <2>12, <2>13 DEF Fits, Device, Refused
  <2>17. Fits(y, c, e)
    BY <1>2, <2>2, <2>11, <2>14, <2>15, <2>16 DEF Fits, Device
  <2>18. /\ EngineGood(f, Len(server.log), used, Kept)
         /\ f.refusal = e.refusal /\ f.destroyed = e.destroyed
    BY <1>2, <2>3, QueuedGood
  <2>. HIDE DEF f
  <2>19. Fits(y, c, f)
    BY <2>17, <2>18, EngineFits
  <2>. QED  BY <1>1, <1>8, <2>19, HandledSteps
<1>. QED  BY <1>1, <1>7, <1>8

LEMMA MappedRow ==
    ASSUME NEW r \in Note, NEW p \in BOOLEAN
    PROVE  [r EXCEPT !.mapped = p] \in Note /\ [r EXCEPT !.mapped = p].mapped = p
BY DEF Note

\* Only the bridge of a device changes.
LEMMA BridgeSteps1 ==
    ASSUME IInv, NEW d \in Devices, NEW c, bridge' = [bridge EXCEPT ![d] = c],
           UNCHANGED <<db, engine, server, history, clients>>, Spends,
           Fits(db[d], c, engine[d])
    PROVE  IInv'
<1>1. Sets(d, db[d], c, engine[d])
  BY DEF IInv, Sets
<1>2. UNCHANGED <<server, history>> /\ clients' \subseteq Clients
  BY DEF IInv
<1>. QED  BY <1>1, <1>2, QuietSteps

\* Documents that the bridge has registered.
LEMMA RegisteredFits ==
    ASSUME NEW x, NEW b, NEW e, Fits(x, b, e), NEW N \in SUBSET NoteIds
    PROVE  Fits(x, Registered(b, N), e)
<1>. DEFINE T == [n \in N |-> None]
            c == Registered(b, N)
<1>1. BridgeGood(b, used, Kept) /\ DOMAIN b = BridgeFields
  BY DEF Fits, Device, BridgeGood
<1>2. c = [b EXCEPT !.titles = Over(T, @)]
  BY DEF Registered
<1>3. IsTable(T, NoteIds, Names \cup {None})
  BY DEF IsTable
<1>. HIDE DEF T, c
<1>4. IsTable(Over(T, b.titles), NoteIds, Names \cup {None})
  BY <1>1, <1>3, OverTable DEF BridgeGood
<1>5. /\ c.titles = Over(T, b.titles) /\ c.replica = b.replica
      /\ c.removedFolders = b.removedFolders /\ c.removedImages = b.removedImages
      /\ c.joining = b.joining /\ c.known = b.known /\ c.moved = b.moved
      /\ c.creating = b.creating /\ c.uploading = b.uploading /\ c.failed = b.failed
      /\ c.tries = b.tries /\ c.author = b.author /\ c.pushing = b.pushing
      /\ c.refused = b.refused /\ DOMAIN c = BridgeFields
  BY <1>1, <1>2 DEF BridgeFields
<1>6. BridgeGood(c, used, Kept)
  BY <1>1, <1>4, <1>5 DEF BridgeGood
<1>7. Fits(x, c, e)
  BY <1>5, <1>6, BridgeFits
<1>. QED  BY <1>7 DEF c

LEMMA MakeDocSteps ==
    ASSUME IInv, NEW d \in Devices, NEW n \in DOMAIN bridge[d].creating, MakeDoc(d, n)
    PROVE  IInv'
<1>. DEFINE x == db[d]
            b == bridge[d]
            e == engine[d]
            r == IF e.knows /\ e.up THEN "made" ELSE "failed"
            asked == [b.creating EXCEPT ![n] = r]
            c == [b EXCEPT !.creating[n] = r]
<1>1. /\ bridge' = [bridge EXCEPT ![d] = c] /\ Spends
      /\ UNCHANGED <<db, engine, server, history, clients>>
  BY DEF MakeDoc, IInv, Quietly, Spends
<1>2. /\ Fits(x, b, e) /\ DbGood(x, used, Kept) /\ BridgeGood(b, used, Kept)
      /\ EngineGood(e, Len(server.log), used, Kept) /\ Len(server.log) \in Nat
      /\ DOMAIN x = {"space", "name", "folders", "notes", "images"}
      /\ DOMAIN b = BridgeFields /\ DOMAIN e = EngineFields
  BY GoodIs
<1>3. IsTable(asked, NoteIds, {"asked", "made", "failed"}) /\ DOMAIN asked = DOMAIN b.creating
  BY <1>2 DEF BridgeGood, IsTable
<1>. HIDE DEF asked, r
<1>4. /\ c.creating = asked /\ c.replica = b.replica /\ c.titles = b.titles
      /\ c.removedFolders = b.removedFolders /\ c.removedImages = b.removedImages
      /\ c.joining = b.joining /\ c.known = b.known /\ c.moved = b.moved
      /\ c.uploading = b.uploading /\ c.failed = b.failed /\ c.tries = b.tries
      /\ c.author = b.author /\ c.pushing = b.pushing /\ c.refused = b.refused
      /\ DOMAIN c = BridgeFields
  BY <1>2 DEF BridgeFields, asked
<1>. HIDE DEF c
<1>5. BridgeGood(c, used, Kept)
  BY <1>2, <1>3, <1>4 DEF BridgeGood
<1>6. Fits(x, c, e)
  BY <1>2, <1>3, <1>4, <1>5, BridgeFits
<1>. QED  BY <1>1, <1>6, BridgeSteps1

LEMMA DocCreatedSteps ==
    ASSUME IInv, NEW d \in Devices, NEW n \in DOMAIN bridge[d].creating, DocCreated(d, n)
    PROVE  IInv'
<1>. DEFINE x == db[d]
            b == bridge[d]
            e == engine[d]
            c == [b EXCEPT !.creating = Without(@, {n})]
            y == IF n \in DOMAIN x.notes THEN [x EXCEPT !.notes[n].mapped = TRUE] ELSE x
<1>1. /\ \/ Counts(c) /\ Handled(d, y, Registered(c, {n}), e)
         \/ Handled(d, x, c, e)
      /\ UNCHANGED <<server, history>> /\ Spends /\ UNCHANGED clients
  BY DEF DocCreated, Quietly, Spends
<1>2. /\ Fits(x, b, e) /\ DbGood(x, used, Kept) /\ BridgeGood(b, used, Kept)
      /\ EngineGood(e, Len(server.log), used, Kept) /\ Len(server.log) \in Nat
      /\ DOMAIN x = {"space", "name", "folders", "notes", "images"}
      /\ DOMAIN b = BridgeFields /\ DOMAIN e = EngineFields
  BY GoodIs
<1>3. /\ IsTable(Without(b.creating, {n}), NoteIds, {"asked", "made", "failed"})
      /\ DOMAIN Without(b.creating, {n}) \subseteq DOMAIN b.creating /\ n \in NoteIds
  <2>1. IsTable(b.creating, NoteIds, {"asked", "made", "failed"})
    BY <1>2 DEF BridgeGood
  <2>2. n \in NoteIds
    BY <2>1 DEF IsTable
  <2>3. /\ IsTable(Without(b.creating, {n}), NoteIds, {"asked", "made", "failed"})
        /\ DOMAIN Without(b.creating, {n}) = DOMAIN b.creating \ {n}
    <3>. DEFINE rows == {"asked", "made", "failed"}
    <3>. HIDE DEF rows
    <3>1. IsTable(b.creating, NoteIds, rows)
      BY <2>1 DEF rows
    <3>2. IsTable(Without(b.creating, {n}), NoteIds, rows)
      BY <3>1, WithoutTable
    <3>3. DOMAIN Without(b.creating, {n}) = DOMAIN b.creating \ {n}
      BY <3>1, WithoutTable
    <3>. QED  BY <3>2, <3>3 DEF rows
  <2>. QED  BY <2>2, <2>3
<1>4. /\ c.creating = Without(b.creating, {n}) /\ c.replica = b.replica /\ c.titles = b.titles
      /\ c.removedFolders = b.removedFolders /\ c.removedImages = b.removedImages
      /\ c.joining = b.joining /\ c.known = b.known /\ c.moved = b.moved
      /\ c.uploading = b.uploading /\ c.failed = b.failed /\ c.tries = b.tries
      /\ c.author = b.author /\ c.pushing = b.pushing /\ c.refused = b.refused
      /\ DOMAIN c = BridgeFields
  BY <1>2 DEF BridgeFields
<1>. HIDE DEF c
<1>5. BridgeGood(c, used, Kept)
  BY <1>2, <1>3, <1>4 DEF BridgeGood
<1>6. Fits(x, c, e)
  BY <1>2, <1>3, <1>4, <1>5, BridgeFits
<1>7. ASSUME Counts(c) PROVE Fits(y, c, e)
  <2>1. CASE n \notin DOMAIN x.notes
    BY <1>6, <2>1
  <2>2. CASE n \in DOMAIN x.notes
    <3>. DEFINE r == [x.notes[n] EXCEPT !.mapped = TRUE]
                N == [x.notes EXCEPT ![n] = r]
    <3>1. r \in Note
      BY <1>2, <2>2, RowsAre, MappedRow DEF DbGood
    <3>. HIDE DEF r
    <3>2. IsTable(N, NoteIds, Note) /\ DOMAIN N = DOMAIN x.notes
      BY <1>2, <3>1 DEF DbGood, IsDb, IsTable
    <3>3. y = [x EXCEPT !.notes = N]
      BY <1>2, <2>2 DEF r
    <3>. HIDE DEF N, y
    <3>4. /\ IsDb(y) /\ y.notes = N /\ y.folders = x.folders /\ y.images = x.images
          /\ y.space = x.space /\ y.name = x.name
      BY <1>2, <3>2, <3>3, SetNotes DEF DbGood
    <3>5. DbGood(y, used, Kept)
      BY <1>2, <3>2, <3>4 DEF DbGood
    <3>6. x.space # "absent"
      BY <1>2, <2>2 DEF DbGood
    <3>7. ~b.refused
      BY <1>4, <1>7 DEF Counts
    <3>8. server.refuses => x.space = "mapped"
      BY <1>2, <3>6, <3>7 DEF Fits, Device, Refused, DbGood, IsDb
    <3>9. Refused(y, c, e, server.refuses)
      BY <1>6, <3>4, <3>8 DEF Fits, Device, Refused
    <3>10. Pending(y, c) /\ Named(y, c) /\ Unpushed(y, c, ToPush)
      BY <1>6, <3>4 DEF Fits, Device, Pending, Named, Unpushed
    <3>. QED  BY <1>6, <3>5, <3>9, <3>10 DEF Fits, Device
  <2>. QED  BY <2>1, <2>2
<1>. HIDE DEF y
<1>8. CASE Counts(c) /\ Handled(d, y, Registered(c, {n}), e)
  <2>1. {n} \in SUBSET NoteIds
    BY <1>3
  <2>2. Fits(y, Registered(c, {n}), e)
    BY <1>7, <1>8, <2>1, RegisteredFits
  <2>. QED  BY <1>1, <1>8, <2>2, HandledSteps
<1>9. CASE Handled(d, x, c, e)
  BY <1>1, <1>6, <1>9, HandledSteps
<1>. QED  BY <1>1, <1>8, <1>9

\* The engine comes to know the space, and opens the index at once or later.
LEMMA JoinedFits ==
    ASSUME NEW x, NEW b, NEW e, Fits(x, b, e), Len(server.log) \in Nat
    PROVE  Fits(x, b, AskOpen([e EXCEPT !.knows = TRUE]))
<1>. DEFINE g == [e EXCEPT !.knows = TRUE]
            f == AskOpen(g)
<1>1. EngineGood(e, Len(server.log), used, Kept) /\ DOMAIN e = EngineFields
  BY DEF Fits, Device, EngineGood
<1>2. /\ g.client = e.client /\ g.lost = e.lost /\ g.seen = e.seen /\ g.target = e.target
      /\ g.out = e.out /\ g.wire = e.wire /\ g.waiting = e.waiting /\ g.results = e.results
      /\ g.fetching = e.fetching /\ g.refusal = e.refusal /\ g.destroyed = e.destroyed
      /\ DOMAIN g = EngineFields
  BY <1>1 DEF EngineFields
<1>. HIDE DEF g
<1>3. EngineGood(g, Len(server.log), used, Kept)
  BY <1>1, <1>2 DEF EngineGood
<1>4. /\ EngineGood(f, Len(server.log), used, Kept)
      /\ f.refusal = g.refusal /\ f.destroyed = g.destroyed
  BY <1>3, OpenedGood
<1>. HIDE DEF f
<1>5. Fits(x, b, f)
  BY <1>2, <1>4, EngineFits
<1>. QED  BY <1>5 DEF f, g

LEMMA SpaceJoinedSteps ==
    ASSUME IInv, NEW d \in Devices, SpaceJoined(d)
    PROVE  IInv'
<1>. DEFINE x == db[d]
            b == bridge[d]
            e == engine[d]
            quit == [b EXCEPT !.joining = "no", !.peeking = FALSE]
            m == Mirror(d)
            tables == IF m # x THEN {"spaces"} ELSE {}
            has == Moves([quit EXCEPT !.has = TRUE], tables)
            f == AskOpen([e EXCEPT !.knows = TRUE])
            y == InboundDb(m, has)
            c == InboundBridge(m, has)
            g == InboundEngine(m, has, f)
<1>1. /\ b.joining = "asked"
      /\ \/ Joinable(e) /\ Handled(d, y, Registered(c, Mapped(y)), g)
         \/ Handled(d, x, quit, e)
      /\ UNCHANGED <<server, history>> /\ Spends /\ UNCHANGED clients
  BY DEF SpaceJoined, Quietly, Spends
<1>2. /\ Fits(x, b, e) /\ DbGood(x, used, Kept) /\ BridgeGood(b, used, Kept)
      /\ EngineGood(e, Len(server.log), used, Kept) /\ Len(server.log) \in Nat
      /\ DOMAIN x = {"space", "name", "folders", "notes", "images"}
      /\ DOMAIN b = BridgeFields /\ DOMAIN e = EngineFields
  BY GoodIs
<1>3. /\ quit.joining = "no" /\ quit.replica = b.replica /\ quit.titles = b.titles
      /\ quit.removedFolders = b.removedFolders /\ quit.removedImages = b.removedImages
      /\ quit.known = b.known /\ quit.moved = b.moved /\ quit.creating = b.creating
      /\ quit.uploading = b.uploading /\ quit.failed = b.failed /\ quit.tries = b.tries
      /\ quit.author = b.author /\ quit.pushing = b.pushing /\ quit.refused = b.refused
      /\ DOMAIN quit = BridgeFields
  BY <1>2 DEF BridgeFields
<1>. HIDE DEF quit
<1>4. BridgeGood(quit, used, Kept)
  BY <1>2, <1>3 DEF BridgeGood
<1>5. Fits(x, quit, e)
  BY <1>2, <1>3, <1>4, BridgeFits
<1>6. CASE Handled(d, x, quit, e)
  BY <1>1, <1>5, <1>6, HandledSteps
<1>7. CASE Joinable(e) /\ Handled(d, y, Registered(c, Mapped(y)), g)
  <2>1. ~ToPush /\ (server.refuses => x.space # "absent")
    BY <1>1, <1>2 DEF Fits, Device, Unpushed, Refused
  <2>. DEFINE name == IF b.known = None THEN Placeholder ELSE b.known
  <2>3. /\ DbGood(m, used, Kept) /\ m.folders = x.folders /\ m.images = x.images
        /\ m.space # "absent" /\ Mapped(m) = Mapped(x) /\ m.notes = x.notes
        /\ IF x.space = "absent" THEN m.space = "mapped" /\ m.name = name ELSE m = x
    <3>1. CASE x.space # "absent"
      BY <1>2, <3>1 DEF Mirror
    <3>2. CASE x.space = "absent"
      <4>1. name \in Titles
        BY <1>2 DEF BridgeGood, Titles
      <4>. HIDE DEF name
      <4>2. m = [x EXCEPT !.space = "mapped", !.name = name]
        BY <3>2 DEF Mirror, name
      <4>3. /\ m.space = "mapped" /\ m.name = name /\ m.folders = x.folders /\ m.notes = x.notes
            /\ m.images = x.images /\ DOMAIN m = {"space", "name", "folders", "notes", "images"}
        BY <1>2, <4>2
      <4>. HIDE DEF m
      <4>. QED  BY <1>2, <3>2, <4>1, <4>3 DEF DbGood, IsDb, Mapped
    <3>. QED  BY <3>1, <3>2
  <2>4. Named(m, quit)
    <3>1. quit.author => (x.space = "absent" => b.known \in Names)
      BY <1>2, <1>3 DEF Fits, Device, Named, BridgeGood
    <3>. QED  BY <1>3, <1>5, <2>3, <3>1, NamesAssumption DEF Fits, Device, Named
  <2>5. Pending(m, quit) /\ Unpushed(m, quit, ToPush)
    BY <1>5, <2>1, <2>3 DEF Fits, Device, Pending, Unpushed
  <2>6. Refused(m, quit, e, server.refuses)
    BY <1>5, <2>1, <2>3 DEF Fits, Device, Refused
  <2>7. Fits(m, quit, e)
    BY <1>5, <2>3, <2>4, <2>5, <2>6 DEF Fits, Device
  <2>8. tables \subseteq {"spaces"}
    OBVIOUS
  <2>. HIDE DEF m, tables
  <2>9. /\ has.moved = quit.moved \cup tables /\ has.replica = quit.replica
        /\ has.titles = quit.titles /\ has.removedFolders = quit.removedFolders
        /\ has.removedImages = quit.removedImages /\ has.joining = quit.joining
        /\ has.known = quit.known /\ has.creating = quit.creating
        /\ has.uploading = quit.uploading /\ has.failed = quit.failed /\ has.tries = quit.tries
        /\ has.author = quit.author /\ has.pushing = quit.pushing /\ has.refused = quit.refused
        /\ DOMAIN has = BridgeFields
    BY <1>3 DEF BridgeFields, Moves
  <2>. HIDE DEF has
  <2>10. BridgeGood(has, used, Kept)
    BY <1>4, <2>8, <2>9 DEF BridgeGood, Tables
  <2>11. Fits(m, has, e)
    BY <2>7, <2>9, <2>10, BridgeFits
  <2>12. Fits(m, has, f)
    BY <1>2, <2>11, JoinedFits
  <2>. HIDE DEF f
  <2>13. Fits(y, c, g)
    BY <1>2, <2>12, InboundIs DEF Fits
  <2>. HIDE DEF y, c, g
  <2>14. Mapped(y) \in SUBSET NoteIds
    BY <2>13, RowsAre DEF Fits, Device, DbGood, Mapped
  <2>15. Fits(y, Registered(c, Mapped(y)), g)
    BY <2>13, <2>14, RegisteredFits
  <2>. QED  BY <1>1, <1>7, <2>15, HandledSteps
<1>. QED  BY <1>1, <1>6, <1>7

LEMMA SpacePeekedSteps ==
    ASSUME IInv, NEW d \in Devices, SpacePeeked(d)
    PROVE  IInv'
<1>. DEFINE x == db[d]
            b == bridge[d]
            e == engine[d]
            quit == [b EXCEPT !.peeking = FALSE]
            has == [quit EXCEPT !.has = TRUE]
            f == AskOpen([e EXCEPT !.knows = TRUE])
<1>1. /\ Inbound(d, x, has, f) \/ Handled(d, x, quit, e)
      /\ UNCHANGED <<server, history>> /\ Spends /\ UNCHANGED clients
  BY DEF SpacePeeked, Quietly, Spends
<1>2. /\ Fits(x, b, e) /\ DbGood(x, used, Kept) /\ BridgeGood(b, used, Kept)
      /\ EngineGood(e, Len(server.log), used, Kept) /\ Len(server.log) \in Nat
      /\ DOMAIN x = {"space", "name", "folders", "notes", "images"}
      /\ DOMAIN b = BridgeFields /\ DOMAIN e = EngineFields
  BY GoodIs
<1>3. /\ quit.replica = b.replica /\ quit.titles = b.titles
      /\ quit.removedFolders = b.removedFolders /\ quit.removedImages = b.removedImages
      /\ quit.joining = b.joining /\ quit.known = b.known /\ quit.moved = b.moved
      /\ quit.creating = b.creating /\ quit.uploading = b.uploading /\ quit.failed = b.failed
      /\ quit.tries = b.tries /\ quit.author = b.author /\ quit.pushing = b.pushing
      /\ quit.refused = b.refused /\ DOMAIN quit = BridgeFields
  BY <1>2 DEF BridgeFields
<1>4. /\ has.replica = b.replica /\ has.titles = b.titles /\ has.removedFolders = b.removedFolders
      /\ has.removedImages = b.removedImages /\ has.joining = b.joining /\ has.known = b.known
      /\ has.moved = b.moved /\ has.creating = b.creating /\ has.uploading = b.uploading
      /\ has.failed = b.failed /\ has.tries = b.tries /\ has.author = b.author
      /\ has.pushing = b.pushing /\ has.refused = b.refused /\ DOMAIN has = BridgeFields
  BY <1>2 DEF BridgeFields
<1>. HIDE DEF quit, has
<1>5. BridgeGood(quit, used, Kept) /\ BridgeGood(has, used, Kept)
  BY <1>2, <1>3, <1>4 DEF BridgeGood
<1>6. Fits(x, quit, e)
  BY <1>2, <1>3, <1>5, BridgeFits
<1>7. Fits(x, has, e)
  BY <1>2, <1>4, <1>5, BridgeFits
<1>8. Fits(x, has, f)
  BY <1>2, <1>7, JoinedFits
<1>. HIDE DEF f
<1>9. CASE Inbound(d, x, has, f)
  BY <1>1, <1>8, <1>9, InboundSteps
<1>10. CASE Handled(d, x, quit, e)
  BY <1>1, <1>6, <1>10, HandledSteps
<1>. QED  BY <1>1, <1>9, <1>10

\* The local copy of a space that is no longer on the server.
LEMMA UnmappedIs ==
    ASSUME NEW x, DbGood(x, used, Kept), x.space = "mapped"
    PROVE  LET y == Unmapped(x)
           IN  /\ DbGood(y, used, Kept) /\ y.space = "local" /\ Mapped(y) = {}
               /\ y.folders = x.folders /\ y.images = x.images /\ y.name = x.name
<1>. DEFINE N == [n \in DOMAIN x.notes |-> [x.notes[n] EXCEPT !.mapped = FALSE]]
            y == Unmapped(x)
<1>1. IsTable(N, NoteIds, Note) /\ \A n \in DOMAIN N : N[n].mapped = FALSE
  <2>1. ASSUME NEW n \in DOMAIN x.notes PROVE N[n] \in Note /\ N[n].mapped = FALSE
    BY RowsAre, MappedRow DEF DbGood
  <2>. QED  BY <2>1, RowsAre DEF DbGood, IsTable
<1>2. y = [x EXCEPT !.space = "local", !.notes = N]
  BY DEF Unmapped
<1>. HIDE DEF N, y
<1>3. /\ y.space = "local" /\ y.notes = N /\ y.name = x.name /\ y.folders = x.folders
      /\ y.images = x.images /\ DOMAIN y = {"space", "name", "folders", "notes", "images"}
  BY <1>2 DEF DbGood, IsDb
<1>4. DbGood(y, used, Kept)
  BY <1>1, <1>3 DEF DbGood, IsDb
<1>. QED  BY <1>1, <1>3, <1>4 DEF y, Mapped

LEMMA SpaceRejectedSteps ==
    ASSUME IInv, NEW d \in Devices, SpaceRejected(d)
    PROVE  IInv'
<1>. DEFINE x == db[d]
            b == bridge[d]
            e == engine[d]
            gone == [b EXCEPT !.refused = TRUE, !.has = FALSE, !.replica = EmptyDoc,
                        !.live = FALSE, !.author = FALSE, !.titles = Nothing,
                        !.known = None, !.peeked = FALSE]
            f == [e EXCEPT !.refusal = FALSE]
            y == Unmapped(x)
            c == Moves([gone EXCEPT !.pushing = FALSE], {"spaces"})
<1>1. /\ \/ x.space = "mapped" /\ Handled(d, y, c, f)
         \/ x.space # "mapped" /\ Handled(d, x, gone, f)
      /\ UNCHANGED <<server, history>> /\ Spends /\ UNCHANGED clients
      /\ e.refusal
  BY DEF SpaceRejected, Quietly, Spends
<1>2. /\ Fits(x, b, e) /\ DbGood(x, used, Kept) /\ BridgeGood(b, used, Kept)
      /\ EngineGood(e, Len(server.log), used, Kept) /\ Len(server.log) \in Nat
      /\ DOMAIN x = {"space", "name", "folders", "notes", "images"}
      /\ DOMAIN b = BridgeFields /\ DOMAIN e = EngineFields
  BY GoodIs
<1>3. /\ f.refusal = FALSE /\ f.client = e.client /\ f.lost = e.lost /\ f.seen = e.seen
      /\ f.target = e.target /\ f.out = e.out /\ f.wire = e.wire /\ f.waiting = e.waiting
      /\ f.results = e.results /\ f.fetching = e.fetching /\ f.destroyed = e.destroyed
      /\ DOMAIN f = EngineFields
  BY <1>2 DEF EngineFields
<1>. HIDE DEF f
<1>4. EngineGood(f, Len(server.log), used, Kept)
  BY <1>2, <1>3 DEF EngineGood
<1>5. /\ gone.replica = EmptyDoc /\ gone.titles = Nothing /\ gone.known = None
      /\ gone.author = FALSE /\ gone.refused = TRUE /\ gone.removedFolders = b.removedFolders
      /\ gone.removedImages = b.removedImages /\ gone.joining = b.joining /\ gone.moved = b.moved
      /\ gone.creating = b.creating /\ gone.uploading = b.uploading /\ gone.failed = b.failed
      /\ gone.tries = b.tries /\ gone.pushing = b.pushing /\ DOMAIN gone = BridgeFields
  BY <1>2 DEF BridgeFields
<1>. HIDE DEF gone
<1>6. BridgeGood(gone, used, Kept)
  BY <1>2, <1>5, EmptyDocIs, NothingIs DEF BridgeGood
<1>7. /\ c.moved = gone.moved \cup {"spaces"} /\ c.pushing = FALSE /\ c.replica = gone.replica
      /\ c.titles = gone.titles /\ c.removedFolders = gone.removedFolders
      /\ c.removedImages = gone.removedImages /\ c.joining = gone.joining /\ c.known = gone.known
      /\ c.creating = gone.creating /\ c.uploading = gone.uploading /\ c.failed = gone.failed
      /\ c.tries = gone.tries /\ c.author = gone.author /\ c.refused = gone.refused
      /\ DOMAIN c = BridgeFields
  BY <1>5 DEF BridgeFields, Moves
<1>. HIDE DEF c
<1>8. BridgeGood(c, used, Kept)
  BY <1>6, <1>7 DEF BridgeGood, Tables
<1>9. server.refuses
  BY <1>1, <1>2 DEF Fits, Device, Refused
<1>10. CASE x.space # "mapped" /\ Handled(d, x, gone, f)
  <2>1. Pending(x, gone) /\ Named(x, gone) /\ Unpushed(x, gone, ToPush)
    BY <1>2, <1>5 DEF Fits, Device, Pending, Named, Unpushed
  <2>2. Refused(x, gone, f, server.refuses)
    BY <1>2, <1>3, <1>5, <1>9, <1>10 DEF Fits, Device, Refused
  <2>3. Fits(x, gone, f)
    BY <1>2, <1>4, <1>6, <2>1, <2>2 DEF Fits, Device
  <2>. QED  BY <1>1, <1>10, <2>3, HandledSteps
<1>11. CASE x.space = "mapped" /\ Handled(d, y, c, f)
  <2>1. /\ DbGood(y, used, Kept) /\ y.space = "local" /\ Mapped(y) = {}
        /\ y.folders = x.folders /\ y.images = x.images /\ y.name = x.name
    BY <1>2, <1>11, UnmappedIs
  <2>. HIDE DEF y
  <2>2. Pending(y, c) /\ Named(y, c) /\ Unpushed(y, c, ToPush)
    BY <1>2, <1>5, <1>7, <1>11, <2>1 DEF Fits, Device, Pending, Named, Unpushed
  <2>3. Refused(y, c, f, server.refuses)
    BY <1>2, <1>3, <1>5, <1>7, <1>9, <2>1 DEF Fits, Device, Refused
  <2>4. Fits(y, c, f)
    BY <1>4, <1>8, <2>1, <2>2, <2>3 DEF Fits, Device
  <2>. QED  BY <1>1, <1>11, <2>4, HandledSteps
<1>. QED  BY <1>1, <1>10, <1>11

\* What is left of the bridge when the space is dropped.
LEMMA DroppedIs ==
    ASSUME NEW b, BridgeGood(b, used, Kept)
    PROVE  LET c == Dropped(b)
           IN  /\ BridgeGood(c, used, Kept)
               /\ c.replica = EmptyDoc /\ c.titles = Nothing /\ c.removedFolders = {}
               /\ c.removedImages = {} /\ c.joining = "no" /\ c.known = None /\ c.author = FALSE
               /\ c.moved = b.moved /\ c.creating = b.creating /\ c.uploading = b.uploading
               /\ c.failed = b.failed /\ c.tries = b.tries /\ c.pushing = b.pushing
               /\ c.refused = b.refused /\ DOMAIN c = BridgeFields
<1>. DEFINE c == Dropped(b)
<1>1. DOMAIN b = BridgeFields
  BY DEF BridgeGood
<1>2. /\ DOMAIN NoRuntime \subseteq BridgeFields
      /\ DOMAIN NoRuntime = {"has", "replica", "live", "author", "titles", "removedFolders",
                            "removedImages", "joining", "peeked", "known"}
      /\ NoRuntime.replica = EmptyDoc /\ NoRuntime.titles = Nothing /\ NoRuntime.author = FALSE
      /\ NoRuntime.removedFolders = {} /\ NoRuntime.removedImages = {}
      /\ NoRuntime.joining = "no" /\ NoRuntime.known = None
  BY DEF NoRuntime, BridgeFields
<1>3. /\ DOMAIN c = BridgeFields /\ \A g \in DOMAIN NoRuntime : c[g] = NoRuntime[g]
      /\ \A g \in BridgeFields \ DOMAIN NoRuntime : c[g] = b[g]
  <2>1. c = Over(b, NoRuntime)
    BY DEF Dropped
  <2>. HIDE DEF c
  <2>2. /\ DOMAIN c = DOMAIN b \cup DOMAIN NoRuntime
        /\ \A g \in DOMAIN NoRuntime : c[g] = NoRuntime[g]
        /\ \A g \in DOMAIN b \ DOMAIN NoRuntime : c[g] = b[g]
    <3>. DEFINE g0 == NoRuntime
    <3>. HIDE DEF g0
    <3>1. /\ DOMAIN Over(b, g0) = DOMAIN b \cup DOMAIN g0
          /\ \A g \in DOMAIN g0 : Over(b, g0)[g] = g0[g]
          /\ \A g \in DOMAIN b \ DOMAIN g0 : Over(b, g0)[g] = b[g]
      BY OverIs
    <3>2. c = Over(b, g0)
      BY <2>1 DEF g0
    <3>. QED  BY <3>1, <3>2 DEF g0
  <2>. QED  BY <1>1, <1>2, <2>2
<1>4. /\ c.replica = EmptyDoc /\ c.titles = Nothing /\ c.removedFolders = {}
      /\ c.removedImages = {} /\ c.joining = "no" /\ c.known = None /\ c.author = FALSE
      /\ c.moved = b.moved /\ c.creating = b.creating /\ c.uploading = b.uploading
      /\ c.failed = b.failed /\ c.tries = b.tries /\ c.pushing = b.pushing
      /\ c.refused = b.refused /\ DOMAIN c = BridgeFields
  BY <1>2, <1>3 DEF BridgeFields
<1>. HIDE DEF c
<1>5. BridgeGood(c, used, Kept)
  BY <1>4, EmptyDocIs, NothingIs DEF BridgeGood
<1>. QED  BY <1>4, <1>5 DEF c

LEMMA SpaceDeletedSteps ==
    ASSUME IInv, NEW d \in Devices, SpaceDeleted(d)
    PROVE  IInv'
<1>. DEFINE x == db[d]
            b == bridge[d]
            e == engine[d]
            drop == Dropped(b)
            f == [e EXCEPT !.destroyed = FALSE]
            y == Unmapped(x)
            c == Moves(drop, {"spaces"})
<1>1. /\ \/ x.space = "mapped" /\ Handled(d, y, c, f)
         \/ x.space # "mapped" /\ Handled(d, x, drop, f)
      /\ UNCHANGED <<server, history>> /\ Spends /\ UNCHANGED clients
      /\ e.destroyed
  BY DEF SpaceDeleted, Quietly, Spends
<1>2. /\ Fits(x, b, e) /\ DbGood(x, used, Kept) /\ BridgeGood(b, used, Kept)
      /\ EngineGood(e, Len(server.log), used, Kept) /\ Len(server.log) \in Nat
      /\ DOMAIN x = {"space", "name", "folders", "notes", "images"}
      /\ DOMAIN b = BridgeFields /\ DOMAIN e = EngineFields
  BY GoodIs
<1>3. /\ f.destroyed = FALSE /\ f.client = e.client /\ f.lost = e.lost /\ f.seen = e.seen
      /\ f.target = e.target /\ f.out = e.out /\ f.wire = e.wire /\ f.waiting = e.waiting
      /\ f.results = e.results /\ f.fetching = e.fetching /\ f.refusal = e.refusal
      /\ DOMAIN f = EngineFields
  BY <1>2 DEF EngineFields
<1>. HIDE DEF f
<1>4. EngineGood(f, Len(server.log), used, Kept)
  BY <1>2, <1>3 DEF EngineGood
<1>5. Fits(x, b, f)
  BY <1>2, <1>3, <1>4, EngineFits
<1>6. /\ BridgeGood(drop, used, Kept)
      /\ drop.replica = EmptyDoc /\ drop.titles = Nothing /\ drop.removedFolders = {}
      /\ drop.removedImages = {} /\ drop.joining = "no" /\ drop.known = None
      /\ drop.author = FALSE /\ drop.moved = b.moved /\ drop.creating = b.creating
      /\ drop.uploading = b.uploading /\ drop.failed = b.failed /\ drop.tries = b.tries
      /\ drop.pushing = b.pushing /\ drop.refused = b.refused /\ DOMAIN drop = BridgeFields
  BY <1>2, DroppedIs
<1>. HIDE DEF drop
<1>7. Fits(x, drop, f)
  BY <1>5, <1>6, BridgeFits
<1>8. /\ c.moved = drop.moved \cup {"spaces"} /\ c.replica = drop.replica
      /\ c.titles = drop.titles /\ c.removedFolders = drop.removedFolders
      /\ c.removedImages = drop.removedImages /\ c.joining = drop.joining /\ c.known = drop.known
      /\ c.creating = drop.creating /\ c.uploading = drop.uploading /\ c.failed = drop.failed
      /\ c.tries = drop.tries /\ c.author = drop.author /\ c.pushing = drop.pushing
      /\ c.refused = drop.refused /\ DOMAIN c = BridgeFields
  BY <1>6 DEF BridgeFields, Moves
<1>. HIDE DEF c
<1>9. BridgeGood(c, used, Kept)
  BY <1>6, <1>8 DEF BridgeGood, Tables
<1>10. Fits(x, c, f)
  BY <1>7, <1>8, <1>9, BridgeFits
<1>11. CASE x.space # "mapped" /\ Handled(d, x, drop, f)
  BY <1>1, <1>7, <1>11, HandledSteps
<1>12. CASE x.space = "mapped" /\ Handled(d, y, c, f)
  <2>1. /\ DbGood(y, used, Kept) /\ y.space = "local" /\ Mapped(y) = {}
        /\ y.folders = x.folders /\ y.images = x.images /\ y.name = x.name
    BY <1>2, <1>12, UnmappedIs
  <2>. HIDE DEF y
  <2>2. Pending(y, c) /\ Named(y, c) /\ Unpushed(y, c, ToPush)
    BY <1>6, <1>8, <1>10, <1>12, <2>1 DEF Fits, Device, Pending, Named, Unpushed
  <2>3. ~server.refuses
    BY <1>1, <1>2 DEF Fits, Device, Refused
  <2>4. Refused(y, c, f, server.refuses)
    BY <1>10, <2>3 DEF Fits, Device, Refused
  <2>5. Fits(y, c, f)
    BY <1>10, <2>1, <2>2, <2>4 DEF Fits, Device
  <2>. QED  BY <1>1, <1>12, <2>5, HandledSteps
<1>. QED  BY <1>1, <1>11, <1>12

-----------------------------------------------------------------------------
(* The events of images. *)

LEMMA StoreImageSteps ==
    ASSUME IInv, NEW d \in Devices, NEW i \in ImageIds, StoreImage(d, i)
    PROVE  IInv'
<1>. DEFINE x == db[d]
            b == bridge[d]
            e == engine[d]
            g == [e EXCEPT !.wire[i] = @ - 1, !.waiting = @ \ {i}]
            f == IF i \in e.waiting THEN Results(g, {i}, "stored") ELSE g
            n == Len(server.log)
            K == Kept \cup {i}
<1>1. /\ engine' = [engine EXCEPT ![d] = f] /\ server' = [server EXCEPT !.stored = @ \cup {i}]
      /\ UNCHANGED <<db, bridge, start, clients, used, deleted, intents>>
      /\ e.wire[i] > 0 /\ server.exists
  BY DEF StoreImage, IInv, Quietly, history
<1>2. /\ Fits(x, b, e) /\ DbGood(x, used, Kept) /\ BridgeGood(b, used, Kept)
      /\ EngineGood(e, Len(server.log), used, Kept) /\ Len(server.log) \in Nat
      /\ DOMAIN x = {"space", "name", "folders", "notes", "images"}
      /\ DOMAIN b = BridgeFields /\ DOMAIN e = EngineFields
  BY GoodIs
<1>3. Device(x, b, e, n, used, K, server.refuses, ToPush)
  <2>1. Device(x, b, e, n, used, Kept, server.refuses, ToPush) /\ n \in Nat
    BY <1>2 DEF Fits
  <2>. QED  BY <2>1, Longer
<1>. DEFINE wired == [e.wire EXCEPT ![i] = @ - 1]
<1>4. wired \in [ImageIds -> Nat]
  BY <1>1, <1>2 DEF EngineGood
<1>. HIDE DEF wired
<1>5. /\ g.wire = wired /\ g.waiting = e.waiting \ {i} /\ g.client = e.client /\ g.lost = e.lost
      /\ g.seen = e.seen /\ g.target = e.target /\ g.out = e.out /\ g.results = e.results
      /\ g.fetching = e.fetching /\ g.refusal = e.refusal /\ g.destroyed = e.destroyed
      /\ DOMAIN g = EngineFields
  BY <1>2 DEF EngineFields, wired
<1>. HIDE DEF g
<1>6. EngineGood(g, n, used, K)
  BY <1>3, <1>4, <1>5 DEF Device, EngineGood
<1>7. EngineGood(f, n, used, K) /\ f.refusal = e.refusal /\ f.destroyed = e.destroyed
  <2>1. CASE i \in e.waiting
    <3>1. {i} \in SUBSET ImageIds /\ {i} \subseteq K /\ n \in Nat
      BY <1>2
    <3>2. /\ EngineGood(Results(g, {i}, "stored"), n, used, K)
          /\ Results(g, {i}, "stored").refusal = g.refusal
          /\ Results(g, {i}, "stored").destroyed = g.destroyed
      BY <1>6, <3>1, ResultsGood
    <3>. QED  BY <1>5, <2>1, <3>2
  <2>2. CASE i \notin e.waiting
    BY <1>5, <1>6, <2>2
  <2>. QED  BY <2>1, <2>2
<1>. HIDE DEF f
<1>8. Device(x, b, f, n, used, K, server.refuses, ToPush)
  BY <1>3, <1>7, EngineSwap
<1>9. /\ server'.exists = server.exists /\ server'.refuses = server.refuses
      /\ server'.stored = server.stored \cup {i} /\ server'.log = server.log
      /\ DOMAIN server' = DOMAIN server
  BY <1>1 DEF IInv, ServerGood
<1>10. ToPush' = ToPush /\ Kept' = K /\ used' = used
  BY <1>1, <1>9 DEF ToPush, Kept
<1>11. ServerGood'
  <2>1. Logged(server.log, used, K)
    BY LoggedLonger DEF IInv, ServerGood
  <2>. QED  BY <1>9, <1>10, <2>1 DEF IInv, ServerGood
<1>12. HistoryGood' /\ Spends /\ clients' \subseteq Clients
  BY <1>1 DEF IInv, HistoryGood, Spends
<1>13. Sets(d, x, b, f)
  BY <1>1 DEF IInv, Sets
<1>14. Device(x, b, f, Len(server'.log), used', Kept', server.refuses, ToPush')
  BY <1>8, <1>9, <1>10
<1>15. /\ used \subseteq used' /\ Kept \subseteq Kept' /\ (ToPush' => ToPush)
       /\ server'.refuses = server.refuses /\ Len(server'.log) \in Nat
       /\ Len(server.log) <= Len(server'.log)
  BY <1>2, <1>9, <1>10
<1>. HIDE DEF f, K, x, b
<1>. QED  BY <1>11, <1>12, <1>13, <1>14, <1>15, DeviceSteps

\* An image of the database changes.
LEMMA ImageRow ==
    ASSUME NEW x, NEW U, NEW K, DbGood(x, U, K), NEW i \in DOMAIN x.images, NEW r \in Image,
           r.push \/ i \in K, NEW y, y = [x EXCEPT !.images[i] = r]
    PROVE  /\ DbGood(y, U, K) /\ y.space = x.space /\ y.name = x.name
           /\ y.folders = x.folders /\ y.notes = x.notes /\ DOMAIN y.images = DOMAIN x.images
<1>. DEFINE I == [x.images EXCEPT ![i] = r]
<1>1. IsTable(I, ImageIds, Image) /\ DOMAIN I = DOMAIN x.images
  BY DEF DbGood, IsDb, IsTable
<1>2. \A j \in DOMAIN I : I[j].push \/ j \in K
  BY DEF DbGood
<1>3. y = [x EXCEPT !.images = I]
  BY DEF DbGood, IsDb
<1>. HIDE DEF I
<1>4. /\ y.images = I /\ y.space = x.space /\ y.name = x.name /\ y.folders = x.folders
      /\ y.notes = x.notes /\ DOMAIN y = {"space", "name", "folders", "notes", "images"}
  BY <1>3 DEF DbGood, IsDb
<1>. QED  BY <1>1, <1>2, <1>4 DEF DbGood, IsDb

LEMMA BlobUploadedSteps ==
    ASSUME IInv, NEW d \in Devices, BlobUploaded(d)
    PROVE  IInv'
<1>. DEFINE x == db[d]
            b == bridge[d]
            e == engine[d]
            i == Head(e.results)[1]
            result == Head(e.results)[2]
            f == [e EXCEPT !.results = Tail(@)]
            quit == [b EXCEPT !.uploading = @ \ {i}]
            again == [quit EXCEPT !.tries[i] = @ + 1]
            failed == [quit EXCEPT !.failed = @ \cup {i}, !.tries[i] = 0]
            flagged == i \in DOMAIN x.images /\ x.images[i].push
            y == IF flagged THEN [x EXCEPT !.images[i].push = FALSE] ELSE x
            tables == IF flagged THEN {"images"} ELSE {}
            c == Moves([quit EXCEPT !.failed = @ \ {i}, !.tries[i] = 0], tables)
<1>1. /\ e.results # << >>
      /\ \/ result = "stored" /\ Handled(d, y, c, f)
         \/ Handled(d, x, failed, f)
         \/ result # "big" /\ quit.tries[i] + 1 < MaxAttempts /\ Handled(d, x, again, f)
      /\ UNCHANGED <<server, history>> /\ Spends /\ UNCHANGED clients
  <2>. DEFINE others == UNCHANGED <<server, history>> /\ Spends /\ UNCHANGED clients
  <2>1. e.results # << >> /\ others
    BY DEF BlobUploaded, Quietly, Spends
  <2>2. \/ result = "stored" /\ Handled(d, y, c, f)
        \/ result # "stored" /\ GivenUp(result, quit.tries[i]) /\ Handled(d, x, failed, f)
        \/ result # "stored" /\ ~GivenUp(result, quit.tries[i]) /\ Handled(d, x, again, f)
    BY DEF BlobUploaded
  <2>3. ~GivenUp(result, quit.tries[i]) => result # "big" /\ ~(quit.tries[i] + 1 >= MaxAttempts)
    BY DEF GivenUp
  <2>4. quit.tries = b.tries
    BY GoodIs DEF BridgeFields
  <2>5. i \in ImageIds
    <3>1. e.results \in Seq(Answers)
      BY GoodIs DEF EngineGood, AnswersGood
    <3>2. Head(e.results) \in Answers
      BY <2>1, <3>1
    <3>. QED  BY <3>2 DEF Answers
  <2>6. quit.tries[i] \in Nat /\ MaxAttempts \in Nat
    BY <2>4, <2>5, GoodIs, AttemptsAssumption DEF BridgeGood
  <2>. HIDE DEF i, result, f, quit, again, failed, y, c
  <2>7. ~(quit.tries[i] + 1 >= MaxAttempts) => quit.tries[i] + 1 < MaxAttempts
    BY <2>6
  <2>. QED  BY <2>1, <2>2, <2>3, <2>7
<1>2. /\ Fits(x, b, e) /\ DbGood(x, used, Kept) /\ BridgeGood(b, used, Kept)
      /\ EngineGood(e, Len(server.log), used, Kept) /\ Len(server.log) \in Nat
      /\ DOMAIN x = {"space", "name", "folders", "notes", "images"}
      /\ DOMAIN b = BridgeFields /\ DOMAIN e = EngineFields
  BY GoodIs
<1>3. /\ AnswersGood(Tail(e.results), Kept) /\ i \in ImageIds
      /\ result = "stored" => i \in Kept
  <2>. DEFINE s == e.results
              t == Tail(s)
  <2>1. s \in Seq(Answers) /\ \A j \in 1..Len(s) : s[j][2] = "stored" => s[j][1] \in Kept
    BY <1>2 DEF EngineGood, AnswersGood
  <2>7. s # << >>
    BY <1>1
  <2>. HIDE DEF s
  <2>2. Len(s) \in Nat /\ Len(s) >= 1 /\ Head(s) = s[1] /\ s[1] \in Answers
    BY <2>1, <2>7
  <2>3. t \in Seq(Answers) /\ Len(t) = Len(s) - 1 /\ \A j \in 1..Len(t) : t[j] = s[j + 1]
    BY <2>1, <2>7
  <2>4. \A j \in 1..Len(t) : j + 1 \in 1..Len(s)
    BY <2>2, <2>3
  <2>. HIDE DEF t
  <2>5. AnswersGood(t, Kept)
    BY <2>1, <2>3, <2>4 DEF AnswersGood
  <2>6. i = s[1][1] /\ result = s[1][2] /\ s[1][1] \in ImageIds
    BY <2>2 DEF s, Answers
  <2>. QED  BY <2>1, <2>2, <2>5, <2>6 DEF s, t
<1>. HIDE DEF i, result
<1>4. /\ f.results = Tail(e.results) /\ f.client = e.client /\ f.lost = e.lost /\ f.seen = e.seen
      /\ f.target = e.target /\ f.out = e.out /\ f.wire = e.wire /\ f.waiting = e.waiting
      /\ f.fetching = e.fetching /\ f.refusal = e.refusal /\ f.destroyed = e.destroyed
      /\ DOMAIN f = EngineFields
  BY <1>2 DEF EngineFields
<1>. HIDE DEF f
<1>5. EngineGood(f, Len(server.log), used, Kept)
  BY <1>2, <1>3, <1>4 DEF EngineGood
<1>6. Fits(x, b, f)
  BY <1>2, <1>4, <1>5, EngineFits
<1>7. /\ quit.uploading = b.uploading \ {i} /\ quit.replica = b.replica /\ quit.titles = b.titles
      /\ quit.removedFolders = b.removedFolders /\ quit.removedImages = b.removedImages
      /\ quit.joining = b.joining /\ quit.known = b.known /\ quit.moved = b.moved
      /\ quit.creating = b.creating /\ quit.failed = b.failed /\ quit.tries = b.tries
      /\ quit.author = b.author /\ quit.pushing = b.pushing /\ quit.refused = b.refused
      /\ DOMAIN quit = BridgeFields
  BY <1>2 DEF BridgeFields
<1>. HIDE DEF quit
<1>8. BridgeGood(quit, used, Kept)
  BY <1>2, <1>7 DEF BridgeGood
<1>. DEFINE zeroed == [quit.tries EXCEPT ![i] = 0]
<1>9. zeroed \in [ImageIds -> Nat] /\ \A j \in ImageIds : zeroed[j] < MaxAttempts
  <2>1. /\ quit.tries \in [ImageIds -> Nat]
        /\ \A j \in ImageIds : quit.tries[j] < MaxAttempts
    BY <1>8 DEF BridgeGood
  <2>2. 0 < MaxAttempts
    BY AttemptsAssumption
  <2>. QED  BY <1>3, <2>1, <2>2
<1>. HIDE DEF zeroed
<1>10. CASE Handled(d, x, failed, f)
  <2>1. /\ failed.failed = quit.failed \cup {i} /\ failed.tries = zeroed
        /\ failed.replica = quit.replica /\ failed.titles = quit.titles
        /\ failed.removedFolders = quit.removedFolders
        /\ failed.removedImages = quit.removedImages /\ failed.joining = quit.joining
        /\ failed.known = quit.known /\ failed.moved = quit.moved
        /\ failed.creating = quit.creating /\ failed.uploading = quit.uploading
        /\ failed.author = quit.author /\ failed.pushing = quit.pushing
        /\ failed.refused = quit.refused /\ DOMAIN failed = BridgeFields
    BY <1>7 DEF BridgeFields, zeroed
  <2>. HIDE DEF failed
  <2>2. BridgeGood(failed, used, Kept)
    BY <1>3, <1>8, <1>9, <2>1 DEF BridgeGood
  <2>3. Fits(x, failed, f)
    BY <1>6, <1>7, <2>1, <2>2, BridgeFits
  <2>. QED  BY <1>1, <1>10, <2>3, HandledSteps
<1>11. CASE quit.tries[i] + 1 < MaxAttempts /\ Handled(d, x, again, f)
  <2>. DEFINE more == [quit.tries EXCEPT ![i] = @ + 1]
  <2>1. more \in [ImageIds -> Nat] /\ \A j \in ImageIds : more[j] < MaxAttempts
    <3>1. /\ quit.tries \in [ImageIds -> Nat]
          /\ \A j \in ImageIds : quit.tries[j] < MaxAttempts
      BY <1>8 DEF BridgeGood
    <3>2. quit.tries[i] + 1 \in Nat
      BY <1>3, <3>1
    <3>. QED  BY <1>3, <1>11, <3>1, <3>2
  <2>. HIDE DEF more
  <2>2. /\ again.tries = more /\ again.replica = quit.replica /\ again.titles = quit.titles
        /\ again.removedFolders = quit.removedFolders /\ again.removedImages = quit.removedImages
        /\ again.joining = quit.joining /\ again.known = quit.known /\ again.moved = quit.moved
        /\ again.creating = quit.creating /\ again.uploading = quit.uploading
        /\ again.failed = quit.failed /\ again.author = quit.author
        /\ again.pushing = quit.pushing /\ again.refused = quit.refused
        /\ DOMAIN again = BridgeFields
    BY <1>7 DEF BridgeFields, more
  <2>. HIDE DEF again
  <2>3. BridgeGood(again, used, Kept)
    BY <1>8, <2>1, <2>2 DEF BridgeGood
  <2>4. Fits(x, again, f)
    BY <1>6, <1>7, <2>2, <2>3, BridgeFits
  <2>. QED  BY <1>1, <1>11, <2>4, HandledSteps
<1>12. CASE result = "stored" /\ Handled(d, y, c, f)
  <2>1. Fits(y, b, f)
    <3>1. CASE ~flagged
      BY <1>6, <3>1
    <3>2. CASE flagged
      <4>. DEFINE r == [x.images[i] EXCEPT !.push = FALSE]
      <4>1. x.images[i] \in Image /\ i \in DOMAIN x.images
        BY <1>2, <3>2, RowsAre DEF DbGood
      <4>2. r \in Image
        BY <4>1 DEF Image
      <4>3. y = [x EXCEPT !.images[i] = r]
        BY <3>2
      <4>. HIDE DEF r, y, flagged
      <4>4. i \in Kept
        BY <1>3, <1>12
      <4>5. /\ DbGood(y, used, Kept) /\ y.space = x.space /\ y.name = x.name
            /\ y.folders = x.folders /\ y.notes = x.notes /\ DOMAIN y.images = DOMAIN x.images
        BY <1>2, <4>1, <4>2, <4>3, <4>4, ImageRow
      <4>6. Mapped(y) = Mapped(x)
        BY <4>5 DEF Mapped
      <4>. QED  BY <1>6, <4>5, <4>6, DbFits
    <3>. QED  BY <3>1, <3>2
  <2>. HIDE DEF y
  <2>2. tables \subseteq {"images"}
    OBVIOUS
  <2>. HIDE DEF tables, flagged
  <2>3. /\ c.moved = quit.moved \cup tables /\ c.failed = quit.failed \ {i} /\ c.tries = zeroed
        /\ c.replica = quit.replica /\ c.titles = quit.titles
        /\ c.removedFolders = quit.removedFolders /\ c.removedImages = quit.removedImages
        /\ c.joining = quit.joining /\ c.known = quit.known /\ c.creating = quit.creating
        /\ c.uploading = quit.uploading /\ c.author = quit.author /\ c.pushing = quit.pushing
        /\ c.refused = quit.refused /\ DOMAIN c = BridgeFields
    BY <1>7 DEF BridgeFields, Moves, zeroed
  <2>. HIDE DEF c
  <2>4. BridgeGood(c, used, Kept)
    BY <1>8, <1>9, <2>2, <2>3 DEF BridgeGood, Tables
  <2>5. Fits(y, c, f)
    BY <1>7, <2>1, <2>3, <2>4, BridgeFits
  <2>. QED  BY <1>1, <1>12, <2>5, HandledSteps
<1>. QED  BY <1>1, <1>10, <1>11, <1>12

LEMMA BlobFetchedSteps ==
    ASSUME IInv, NEW d \in Devices, NEW i \in ImageIds, BlobFetched(d, i)
    PROVE  IInv'
<1>. DEFINE x == db[d]
            b == bridge[d]
            e == engine[d]
            f == [e EXCEPT !.fetching = @ \ {i}]
            y == [x EXCEPT !.images[i].bytes = TRUE]
            c == Moves(b, {"images"})
<1>1. /\ \/ i \in DOMAIN x.images /\ Handled(d, y, c, f)
         \/ Handled(d, x, b, f)
      /\ UNCHANGED <<server, history>> /\ Spends /\ UNCHANGED clients
  BY DEF BlobFetched, Quietly, Spends
<1>2. /\ Fits(x, b, e) /\ DbGood(x, used, Kept) /\ BridgeGood(b, used, Kept)
      /\ EngineGood(e, Len(server.log), used, Kept) /\ Len(server.log) \in Nat
      /\ DOMAIN x = {"space", "name", "folders", "notes", "images"}
      /\ DOMAIN b = BridgeFields /\ DOMAIN e = EngineFields
  BY GoodIs
<1>3. /\ f.fetching = e.fetching \ {i} /\ f.client = e.client /\ f.lost = e.lost
      /\ f.seen = e.seen /\ f.target = e.target /\ f.out = e.out /\ f.wire = e.wire
      /\ f.waiting = e.waiting /\ f.results = e.results /\ f.refusal = e.refusal
      /\ f.destroyed = e.destroyed /\ DOMAIN f = EngineFields
  BY <1>2 DEF EngineFields
<1>. HIDE DEF f
<1>4. EngineGood(f, Len(server.log), used, Kept)
  BY <1>2, <1>3 DEF EngineGood
<1>5. Fits(x, b, f)
  BY <1>2, <1>3, <1>4, EngineFits
<1>6. CASE Handled(d, x, b, f)
  BY <1>1, <1>5, <1>6, HandledSteps
<1>7. CASE i \in DOMAIN x.images /\ Handled(d, y, c, f)
  <2>. DEFINE r == [x.images[i] EXCEPT !.bytes = TRUE]
  <2>1. x.images[i] \in Image /\ (x.images[i].push \/ i \in Kept)
    BY <1>2, <1>7, RowsAre DEF DbGood
  <2>2. r \in Image /\ r.push = x.images[i].push
    BY <2>1 DEF Image
  <2>3. y = [x EXCEPT !.images[i] = r]
    OBVIOUS
  <2>. HIDE DEF r, y
  <2>4. /\ DbGood(y, used, Kept) /\ y.space = x.space /\ y.name = x.name
        /\ y.folders = x.folders /\ y.notes = x.notes /\ DOMAIN y.images = DOMAIN x.images
    BY <1>2, <1>7, <2>1, <2>2, <2>3, ImageRow
  <2>5. Mapped(y) = Mapped(x)
    BY <2>4 DEF Mapped
  <2>6. Fits(y, b, f)
    BY <1>5, <2>4, <2>5, DbFits
  <2>7. /\ c.moved = b.moved \cup {"images"} /\ c.replica = b.replica /\ c.titles = b.titles
        /\ c.removedFolders = b.removedFolders /\ c.removedImages = b.removedImages
        /\ c.joining = b.joining /\ c.known = b.known /\ c.creating = b.creating
        /\ c.uploading = b.uploading /\ c.failed = b.failed /\ c.tries = b.tries
        /\ c.author = b.author /\ c.pushing = b.pushing /\ c.refused = b.refused
        /\ DOMAIN c = BridgeFields
    BY <1>2 DEF BridgeFields, Moves
  <2>. HIDE DEF c
  <2>8. BridgeGood(c, used, Kept)
    BY <1>2, <2>7 DEF BridgeGood, Tables
  <2>9. Fits(y, c, f)
    BY <2>6, <2>7, <2>8, BridgeFits
  <2>. QED  BY <1>1, <1>7, <2>9, HandledSteps
<1>. QED  BY <1>1, <1>6, <1>7

-----------------------------------------------------------------------------
(* What the users do. *)

Ids == FolderIds \cup NoteIds \cup ImageIds

\* A device that fits still does when ids come to have existed or to be deleted.
Grown(x, b, e, gone, fresh) ==
    Device(x, b, e, Len(server.log), used \cup fresh, Kept \cup gone, server.refuses, ToPush)

LEMMA IntendsIs ==
    ASSUME HistoryGood, NEW d \in Devices, NEW items, DOMAIN items \subseteq Keys,
           NEW gone \in SUBSET Ids, NEW fresh \in SUBSET Ids, Intends(d, items, gone, fresh)
    PROVE  /\ HistoryGood' /\ used' = used \cup fresh /\ deleted' = deleted \cup gone
           /\ DOMAIN intents' = DOMAIN intents \cup DOMAIN items
<1>. DEFINE by(k) == {d} \cup (IF k \in DOMAIN intents THEN intents[k].by ELSE {})
            rows == [k \in DOMAIN items |-> [by |-> by(k), value |-> items[k]]]
<1>1. used' = used \cup fresh /\ deleted' = deleted \cup gone /\ intents' = Over(intents, rows)
  BY DEF Intends
<1>2. \A k \in DOMAIN rows : rows[k].by \subseteq Devices
  BY DEF HistoryGood
<1>3. DOMAIN rows = DOMAIN items
  OBVIOUS
<1>. HIDE DEF rows
<1>4. /\ DOMAIN intents' = DOMAIN intents \cup DOMAIN items
      /\ \A k \in DOMAIN rows : intents'[k] = rows[k]
      /\ \A k \in DOMAIN intents \ DOMAIN rows : intents'[k] = intents[k]
  <2>1. /\ DOMAIN Over(intents, rows) = DOMAIN intents \cup DOMAIN rows
        /\ \A k \in DOMAIN rows : Over(intents, rows)[k] = rows[k]
        /\ \A k \in DOMAIN intents \ DOMAIN rows : Over(intents, rows)[k] = intents[k]
    BY DEF Over
  <2>. QED  BY <1>1, <1>3, <2>1
<1>5. \A k \in DOMAIN intents' : intents'[k].by \subseteq Devices
  BY <1>2, <1>3, <1>4 DEF HistoryGood
<1>6. HistoryGood'
  BY <1>1, <1>4, <1>5 DEF HistoryGood, Ids
<1>. QED  BY <1>1, <1>4, <1>6

\* A user acts, and the server keeps what it has but for images that are deleted.
LEMMA UserActs ==
    ASSUME IInv, NEW d \in Devices, NEW kind, Acts(d, kind),
           NEW items, DOMAIN items \subseteq Keys, NEW gone \in SUBSET Ids,
           NEW fresh \in SUBSET Ids, Intends(d, items, gone, fresh),
           NEW x, NEW b, NEW e, Changes(d, x, b, e), Grown(x, b, e, gone, fresh),
           DOMAIN server' = DOMAIN server, server'.exists = server.exists,
           server'.refuses = server.refuses, server'.log = server.log,
           server'.stored \subseteq ImageIds, server.stored \subseteq server'.stored \cup gone
    PROVE  IInv'
<1>1. Spends /\ clients' \subseteq Clients /\ start'.kinds = start.kinds
  <2>1. Spends /\ clients' = clients
    BY DEF Acts, Spends
  <2>. QED  BY <2>1, Spent DEF IInv
<1>2. /\ HistoryGood' /\ used' = used \cup fresh /\ deleted' = deleted \cup gone
      /\ DOMAIN intents' = DOMAIN intents \cup DOMAIN items
  BY IntendsIs DEF IInv
<1>3. ToPush' => ToPush
  BY <1>1, <1>2 DEF ToPush
<1>4. Kept \cup gone \subseteq Kept'
  BY <1>2, <1>3 DEF Kept, IInv, ServerGood
<1>5. ServerGood'
  <2>1. Logged(server.log, used', Kept')
    <3>1. Logged(server.log, used, Kept) /\ used \subseteq used' /\ Kept \subseteq Kept'
      BY <1>2, <1>4 DEF IInv, ServerGood
    <3>. QED  BY <3>1, LoggedLonger
  <2>2. server'.exists => ~server'.refuses /\ ~ToPush'
    BY <1>3 DEF IInv, ServerGood
  <2>3. /\ DOMAIN server' = {"exists", "refuses", "log", "stored"}
        /\ server'.exists \in BOOLEAN /\ server'.refuses \in BOOLEAN
    BY DEF IInv, ServerGood
  <2>. QED  BY <2>1, <2>2, <2>3 DEF ServerGood
<1>6. Len(server.log) \in Nat
  BY LogIs
<1>7. Device(x, b, e, Len(server'.log), used', Kept', server.refuses, ToPush')
  <2>1. Device(x, b, e, Len(server.log), used \cup fresh, Kept \cup gone, server.refuses, ToPush)
    BY DEF Grown
  <2>2. Device(x, b, e, Len(server.log), used', Kept', server.refuses, ToPush')
    BY <1>2, <1>3, <1>4, <1>6, <2>1, Longer
  <2>. QED  BY <2>2
<1>8. /\ used \subseteq used' /\ Kept \subseteq Kept' /\ Len(server'.log) \in Nat
      /\ Len(server.log) <= Len(server'.log)
  BY <1>2, <1>4, <1>6
<1>9. Sets(d, x, b, e)
  BY ChangesIs
<1>. QED  BY <1>1, <1>2, <1>3, <1>5, <1>7, <1>8, <1>9, DeviceSteps

LEMMA GrownIs ==
    ASSUME IInv, NEW d \in Devices, NEW gone, NEW fresh
    PROVE  /\ Grown(db[d], bridge[d], engine[d], gone, fresh) /\ Len(server.log) \in Nat
           /\ DbGood(db[d], used \cup fresh, Kept \cup gone)
           /\ BridgeGood(bridge[d], used \cup fresh, Kept \cup gone)
           /\ EngineGood(engine[d], Len(server.log), used \cup fresh, Kept \cup gone)
           /\ Pending(db[d], bridge[d])
           /\ DOMAIN db[d] = {"space", "name", "folders", "notes", "images"}
           /\ DOMAIN bridge[d] = BridgeFields /\ DOMAIN engine[d] = EngineFields
<1>. DEFINE x == db[d]
            b == bridge[d]
            e == engine[d]
            n == Len(server.log)
            U == used \cup fresh
            K == Kept \cup gone
<1>1. Device(x, b, e, n, used, Kept, server.refuses, ToPush) /\ n \in Nat
  BY GoodIs DEF Fits
<1>2. n <= n /\ used \subseteq U /\ Kept \subseteq K
  BY <1>1
<1>. HIDE DEF x, b, e, n, U, K
<1>3. Device(x, b, e, n, U, K, server.refuses, ToPush)
  BY <1>1, <1>2, Longer
<1>4. /\ DbGood(x, U, K) /\ BridgeGood(b, U, K) /\ EngineGood(e, n, U, K) /\ Pending(x, b)
  BY <1>3 DEF Device
<1>. QED  BY <1>1, <1>3, <1>4, GoodIs DEF Grown, x, b, e, n, U, K

\* The database has changed, and revisions have moved.
LEMMA DbGrown ==
    ASSUME NEW x, NEW b, NEW e, NEW gone, NEW fresh, Grown(x, b, e, gone, fresh),
           NEW y, DbGood(y, used \cup fresh, Kept \cup gone), Pending(y, b),
           y.space = x.space, y.name = x.name \/ y.name \in Names, Mapped(y) \subseteq Mapped(x)
    PROVE  Grown(y, b, e, gone, fresh)
<1>1. Named(y, b)
  BY NamesAssumption DEF Grown, Device, Named
<1>2. Unpushed(y, b, ToPush)
  BY DEF Grown, Device, Unpushed
<1>3. Refused(y, b, e, server.refuses)
  BY DEF Grown, Device, Refused
<1>. QED  BY <1>1, <1>2, <1>3 DEF Grown, Device

LEMMA MovesGrown ==
    ASSUME NEW x, NEW b, NEW e, NEW gone, NEW fresh, Grown(x, b, e, gone, fresh),
           NEW tables \in SUBSET Tables
    PROVE  Grown(x, Moves(b, tables), e, gone, fresh)
<1>. DEFINE c == Moves(b, tables)
            U == used \cup fresh
            K == Kept \cup gone
<1>1. BridgeGood(b, U, K) /\ DOMAIN b = BridgeFields
  BY DEF Grown, Device, BridgeGood
<1>2. /\ c.moved = b.moved \cup tables /\ c.replica = b.replica /\ c.titles = b.titles
      /\ c.removedFolders = b.removedFolders /\ c.removedImages = b.removedImages
      /\ c.joining = b.joining /\ c.known = b.known /\ c.creating = b.creating
      /\ c.uploading = b.uploading /\ c.failed = b.failed /\ c.tries = b.tries
      /\ c.author = b.author /\ c.pushing = b.pushing /\ c.refused = b.refused
      /\ DOMAIN c = BridgeFields
  BY <1>1 DEF BridgeFields, Moves
<1>. HIDE DEF c
<1>3. BridgeGood(c, U, K)
  BY <1>1, <1>2 DEF BridgeGood
<1>4. Grown(x, c, e, gone, fresh)
  BY <1>2, <1>3, BridgeSwap DEF Grown
<1>. QED  BY <1>4 DEF c

\* An operation on the database of a device.
LEMMA LocalSteps ==
    ASSUME IInv, NEW d \in Devices, NEW kind, Acts(d, kind),
           NEW items, DOMAIN items \subseteq Keys, NEW gone \in SUBSET Ids,
           NEW fresh \in SUBSET Ids, Intends(d, items, gone, fresh),
           NEW tables \in SUBSET Tables, NEW y, Local(d, y, tables),
           DbGood(y, used \cup fresh, Kept \cup gone), Pending(y, bridge[d]),
           y.space = db[d].space, y.name = db[d].name \/ y.name \in Names,
           Mapped(y) \subseteq Mapped(db[d])
    PROVE  IInv'
<1>1. Grown(db[d], bridge[d], engine[d], gone, fresh)
  BY GrownIs
<1>2. Grown(y, bridge[d], engine[d], gone, fresh)
  BY <1>1, DbGrown
<1>3. Grown(y, Moves(bridge[d], tables), engine[d], gone, fresh)
  BY <1>2, MovesGrown
<1>4. Changes(d, y, Moves(bridge[d], tables), engine[d]) /\ server' = server
  BY DEF Local
<1>5. server.stored \subseteq ImageIds
  BY DEF IInv, ServerGood
<1>. QED  BY <1>3, <1>4, <1>5, UserActs

LEMMA NotesPut ==
    ASSUME NEW x, NEW U, NEW K, DbGood(x, U, K), x.space # "absent",
           NEW v, IsTable(v, NoteIds, Note)
    PROVE  LET y == [x EXCEPT !.notes = v]
           IN  /\ DbGood(y, U, K) /\ y.space = x.space /\ y.name = x.name
               /\ y.folders = x.folders /\ y.images = x.images /\ y.notes = v
<1>. DEFINE y == [x EXCEPT !.notes = v]
<1>1. /\ y.notes = v /\ y.space = x.space /\ y.name = x.name /\ y.folders = x.folders
      /\ y.images = x.images /\ DOMAIN y = {"space", "name", "folders", "notes", "images"}
  BY DEF DbGood, IsDb
<1>. HIDE DEF y
<1>2. DbGood(y, U, K)
  BY <1>1 DEF DbGood, IsDb
<1>. QED  BY <1>1, <1>2 DEF y

LEMMA FoldersPut ==
    ASSUME NEW x, NEW U, NEW K, DbGood(x, U, K), x.space # "absent",
           NEW v, IsTable(v, FolderIds, Folder), DOMAIN v \subseteq U
    PROVE  LET y == [x EXCEPT !.folders = v]
           IN  /\ DbGood(y, U, K) /\ y.space = x.space /\ y.name = x.name
               /\ y.folders = v /\ y.images = x.images /\ y.notes = x.notes
<1>. DEFINE y == [x EXCEPT !.folders = v]
<1>1. /\ y.folders = v /\ y.space = x.space /\ y.name = x.name /\ y.notes = x.notes
      /\ y.images = x.images /\ DOMAIN y = {"space", "name", "folders", "notes", "images"}
  BY DEF DbGood, IsDb
<1>. HIDE DEF y
<1>2. DbGood(y, U, K)
  BY <1>1 DEF DbGood, IsDb
<1>. QED  BY <1>1, <1>2 DEF y

LEMMA ImagesPut ==
    ASSUME NEW x, NEW U, NEW K, DbGood(x, U, K), x.space # "absent",
           NEW v, IsTable(v, ImageIds, Image), DOMAIN v \subseteq U,
           \A i \in DOMAIN v : v[i].push \/ i \in K
    PROVE  LET y == [x EXCEPT !.images = v]
           IN  /\ DbGood(y, U, K) /\ y.space = x.space /\ y.name = x.name
               /\ y.folders = x.folders /\ y.images = v /\ y.notes = x.notes
<1>. DEFINE y == [x EXCEPT !.images = v]
<1>1. /\ y.images = v /\ y.space = x.space /\ y.name = x.name /\ y.folders = x.folders
      /\ y.notes = x.notes /\ DOMAIN y = {"space", "name", "folders", "notes", "images"}
  BY DEF DbGood, IsDb
<1>. HIDE DEF y
<1>2. DbGood(y, U, K)
  BY <1>1 DEF DbGood, IsDb
<1>. QED  BY <1>1, <1>2 DEF y

LEMMA RenameSpaceSteps ==
    ASSUME IInv, NEW d \in Devices, NEW name \in Names, RenameSpace(d, name)
    PROVE  IInv'
<1>. DEFINE x == db[d]
            b == bridge[d]
            y == [x EXCEPT !.name = name]
            items == Only(NameKey, name)
            gone == {}
            fresh == {}
            tables == {"spaces"}
            U == used \cup fresh
            K == Kept \cup gone
<1>1. /\ Acts(d, "rename space") /\ Local(d, y, tables) /\ Intends(d, items, gone, fresh)
      /\ x.space # "absent"
  BY DEF RenameSpace
<1>2. /\ DbGood(x, U, K) /\ Pending(x, b) /\ BridgeGood(b, U, K) /\ BridgeGood(b, used, Kept)
      /\ DOMAIN x = {"space", "name", "folders", "notes", "images"}
  BY GrownIs, GoodIs
<1>3. gone \in SUBSET Ids /\ fresh \in SUBSET Ids /\ tables \in SUBSET Tables
  BY <1>2, RowsAre DEF Ids, Tables, DbGood
<1>4. /\ DbGood(y, U, K) /\ Pending(y, b) /\ y.space = x.space
      /\ y.name \in Names /\ Mapped(y) \subseteq Mapped(x)
  <2>1. /\ y.name = name /\ y.space = x.space /\ y.folders = x.folders /\ y.notes = x.notes
        /\ y.images = x.images /\ DOMAIN y = {"space", "name", "folders", "notes", "images"}
    BY <1>2
  <2>. HIDE DEF y
  <2>. QED  BY <1>2, <2>1 DEF DbGood, IsDb, Titles, Pending, Mapped
<1>5. DOMAIN items \subseteq Keys
  <2>1. NameKey \in Keys
    BY KeysAre
  <2>2. DOMAIN items = {NameKey}
    BY OneIs
  <2>. QED  BY <2>1, <2>2
<1>. HIDE DEF y, items, gone, fresh, tables
<1>. QED  BY <1>1, <1>2, <1>3, <1>4, <1>5, LocalSteps

LEMMA AddNoteSteps ==
    ASSUME IInv, NEW d \in Devices, NEW n \in NoteIds, NEW title \in Names, AddNote(d, n, title)
    PROVE  IInv'
<1>. DEFINE x == db[d]
            b == bridge[d]
            y == [x EXCEPT !.notes = Over(@, Only(n,
                    [title |-> title, folder |-> None, push |-> FALSE, mapped |-> FALSE]))]
            items == Only(NoteKey(n), title)
            gone == {}
            fresh == {n}
            tables == {}
            U == used \cup fresh
            K == Kept \cup gone
<1>1. /\ Acts(d, "add note") /\ Local(d, y, tables) /\ Intends(d, items, gone, fresh)
      /\ x.space # "absent"
  BY DEF AddNote
<1>2. /\ DbGood(x, U, K) /\ Pending(x, b) /\ BridgeGood(b, U, K) /\ BridgeGood(b, used, Kept)
      /\ DOMAIN x = {"space", "name", "folders", "notes", "images"}
  BY GrownIs, GoodIs
<1>3. gone \in SUBSET Ids /\ fresh \in SUBSET Ids /\ tables \in SUBSET Tables
  BY <1>2, RowsAre DEF Ids, Tables, DbGood
<1>4. /\ DbGood(y, U, K) /\ Pending(y, b) /\ y.space = x.space
      /\ y.name = x.name /\ Mapped(y) \subseteq Mapped(x)
  <2>. DEFINE r == [title |-> title, folder |-> None, push |-> FALSE, mapped |-> FALSE]
              v == Over(x.notes, Only(n, r))
  <2>1. r \in Note /\ r.mapped = FALSE
    BY DEF Note
  <2>. HIDE DEF r
  <2>2. IsTable(x.notes, NoteIds, Note)
    BY <1>2 DEF DbGood, IsDb
  <2>10. DOMAIN Only(n, r) = {n} /\ Only(n, r)[n] = r
    BY OneIs
  <2>3. IsTable(Only(n, r), NoteIds, Note)
    BY <2>1, <2>10 DEF IsTable
  <2>4. IsTable(v, NoteIds, Note)
    BY <2>2, <2>3, OverTable
  <2>5. DOMAIN v = DOMAIN x.notes \cup {n} /\ v[n] = r /\ \A m \in DOMAIN x.notes \ {n} : v[m] = x.notes[m]
    <3>. DEFINE g == Only(n, r)
    <3>. HIDE DEF g
    <3>1. /\ DOMAIN Over(x.notes, g) = DOMAIN x.notes \cup DOMAIN g
          /\ \A m \in DOMAIN g : Over(x.notes, g)[m] = g[m]
          /\ \A m \in DOMAIN x.notes \ DOMAIN g : Over(x.notes, g)[m] = x.notes[m]
      BY OverIs
    <3>2. v = Over(x.notes, g) /\ DOMAIN g = {n} /\ g[n] = r
      BY <2>10 DEF g
    <3>. HIDE DEF v
    <3>. QED  BY <3>1, <3>2
  <2>. HIDE DEF v
  <2>6. y = [x EXCEPT !.notes = v]
    BY DEF v, r
  <2>. HIDE DEF y
  <2>7. /\ DbGood(y, U, K) /\ y.space = x.space /\ y.name = x.name
        /\ y.folders = x.folders /\ y.images = x.images /\ y.notes = v
    BY <1>1, <1>2, <2>4, <2>6, NotesPut
  <2>. QED  BY <1>2, <2>1, <2>5, <2>7 DEF Pending, Mapped
<1>5. DOMAIN items \subseteq Keys
  <2>1. NoteKey(n) \in Keys
    BY KeysAre
  <2>2. DOMAIN items = {NoteKey(n)}
    BY OneIs
  <2>. QED  BY <2>1, <2>2
<1>. HIDE DEF y, items, gone, fresh, tables
<1>. QED  BY <1>1, <1>2, <1>3, <1>4, <1>5, LocalSteps

LEMMA RenameNoteSteps ==
    ASSUME IInv, NEW d \in Devices, NEW n \in NoteIds, NEW title \in Names, RenameNote(d, n, title)
    PROVE  IInv'
<1>. DEFINE x == db[d]
            b == bridge[d]
            y == [x EXCEPT !.notes[n].title = title]
            items == Only(NoteKey(n), title)
            gone == {}
            fresh == {}
            tables == {}
            U == used \cup fresh
            K == Kept \cup gone
<1>1. /\ Acts(d, "rename note") /\ Local(d, y, tables) /\ Intends(d, items, gone, fresh)
      /\ n \in DOMAIN x.notes
  BY DEF RenameNote
<1>2. /\ DbGood(x, U, K) /\ Pending(x, b) /\ BridgeGood(b, U, K) /\ BridgeGood(b, used, Kept)
      /\ DOMAIN x = {"space", "name", "folders", "notes", "images"}
  BY GrownIs, GoodIs
<1>3. gone \in SUBSET Ids /\ fresh \in SUBSET Ids /\ tables \in SUBSET Tables
  BY <1>2, RowsAre DEF Ids, Tables, DbGood
<1>4. /\ DbGood(y, U, K) /\ Pending(y, b) /\ y.space = x.space
      /\ y.name = x.name /\ Mapped(y) \subseteq Mapped(x)
  <2>. DEFINE r == [x.notes[n] EXCEPT !.title = title]
              v == [x.notes EXCEPT ![n] = r]
  <2>1. x.notes[n] \in Note /\ x.space # "absent"
    BY <1>1, <1>2, RowsAre DEF DbGood
  <2>2. r \in Note /\ r.mapped = x.notes[n].mapped
    BY <1>1, <2>1 DEF Note
  <2>3. y = [x EXCEPT !.notes = v]
    BY <1>1, <1>2
  <2>. HIDE DEF r, y
  <2>4. IsTable(v, NoteIds, Note) /\ DOMAIN v = DOMAIN x.notes /\ v[n].mapped = x.notes[n].mapped
    BY <1>1, <1>2, <2>2 DEF DbGood, IsDb, IsTable
  <2>5. \A k \in DOMAIN v \ {n} : v[k] = x.notes[k]
    OBVIOUS
  <2>. HIDE DEF v
  <2>6. /\ DbGood(y, U, K) /\ y.space = x.space /\ y.name = x.name
        /\ y.folders = x.folders /\ y.images = x.images /\ y.notes = v
    BY <1>2, <2>1, <2>3, <2>4, NotesPut DEF DbGood
  <2>. QED  BY <1>2, <2>4, <2>5, <2>6 DEF Pending, Mapped
<1>5. DOMAIN items \subseteq Keys
  <2>1. NoteKey(n) \in Keys
    BY KeysAre
  <2>2. DOMAIN items = {NoteKey(n)}
    BY OneIs
  <2>. QED  BY <2>1, <2>2
<1>. HIDE DEF y, items, gone, fresh, tables
<1>. QED  BY <1>1, <1>2, <1>3, <1>4, <1>5, LocalSteps

LEMMA DeleteNoteSteps ==
    ASSUME IInv, NEW d \in Devices, NEW n \in NoteIds, DeleteNote(d, n)
    PROVE  IInv'
<1>. DEFINE x == db[d]
            b == bridge[d]
            y == [x EXCEPT !.notes = Without(@, {n})]
            items == Nothing
            gone == {n}
            fresh == {}
            tables == {}
            U == used \cup fresh
            K == Kept \cup gone
<1>1. /\ Acts(d, "delete note") /\ Local(d, y, tables) /\ Intends(d, items, gone, fresh)
      /\ n \in DOMAIN x.notes
  BY DEF DeleteNote
<1>2. /\ DbGood(x, U, K) /\ Pending(x, b) /\ BridgeGood(b, U, K) /\ BridgeGood(b, used, Kept)
      /\ DOMAIN x = {"space", "name", "folders", "notes", "images"}
  BY GrownIs, GoodIs
<1>3. gone \in SUBSET Ids /\ fresh \in SUBSET Ids /\ tables \in SUBSET Tables
  BY <1>2, RowsAre DEF Ids, Tables, DbGood
<1>4. /\ DbGood(y, U, K) /\ Pending(y, b) /\ y.space = x.space
      /\ y.name = x.name /\ Mapped(y) \subseteq Mapped(x)
  <2>. DEFINE v == Without(x.notes, {n})
  <2>1. IsTable(x.notes, NoteIds, Note) /\ x.space # "absent"
    BY <1>1, <1>2 DEF DbGood, IsDb
  <2>2. IsTable(v, NoteIds, Note) /\ DOMAIN v = DOMAIN x.notes \ {n}
    BY <2>1, WithoutTable
  <2>3. \A m \in DOMAIN v : v[m] = x.notes[m]
    BY DEF Without
  <2>. HIDE DEF v
  <2>4. y = [x EXCEPT !.notes = v]
    BY DEF v
  <2>. HIDE DEF y
  <2>5. /\ DbGood(y, U, K) /\ y.space = x.space /\ y.name = x.name
        /\ y.folders = x.folders /\ y.images = x.images /\ y.notes = v
    BY <1>2, <2>1, <2>2, <2>4, NotesPut
  <2>. QED  BY <1>2, <2>2, <2>3, <2>5 DEF Pending, Mapped
<1>5. DOMAIN items \subseteq Keys
  BY NothingIs
<1>. HIDE DEF y, items, gone, fresh, tables
<1>. QED  BY <1>1, <1>2, <1>3, <1>4, <1>5, LocalSteps

LEMMA FileNoteSteps ==
    ASSUME IInv, NEW d \in Devices, NEW n \in NoteIds, NEW f \in FolderIds \cup {None}, FileNote(d, n, f)
    PROVE  IInv'
<1>. DEFINE x == db[d]
            b == bridge[d]
            y == [x EXCEPT !.notes[n].folder = f, !.notes[n].push = TRUE]
            items == Only(AssignKey(n), f)
            gone == {}
            fresh == {}
            tables == {"folders"}
            U == used \cup fresh
            K == Kept \cup gone
<1>1. /\ Acts(d, "file note") /\ Local(d, y, tables) /\ Intends(d, items, gone, fresh)
      /\ n \in DOMAIN x.notes
  BY DEF FileNote
<1>2. /\ DbGood(x, U, K) /\ Pending(x, b) /\ BridgeGood(b, U, K) /\ BridgeGood(b, used, Kept)
      /\ DOMAIN x = {"space", "name", "folders", "notes", "images"}
  BY GrownIs, GoodIs
<1>3. gone \in SUBSET Ids /\ fresh \in SUBSET Ids /\ tables \in SUBSET Tables
  BY <1>2, RowsAre DEF Ids, Tables, DbGood
<1>4. /\ DbGood(y, U, K) /\ Pending(y, b) /\ y.space = x.space
      /\ y.name = x.name /\ Mapped(y) \subseteq Mapped(x)
  <2>. DEFINE r == [x.notes[n] EXCEPT !.folder = f, !.push = TRUE]
              v == [x.notes EXCEPT ![n] = r]
  <2>1. x.notes[n] \in Note /\ x.space # "absent"
    BY <1>1, <1>2, RowsAre DEF DbGood
  <2>2. r \in Note /\ r.mapped = x.notes[n].mapped
    BY <1>1, <2>1 DEF Note
  <2>3. y = [x EXCEPT !.notes = v]
    BY <1>1, <1>2
  <2>. HIDE DEF r, y
  <2>4. IsTable(v, NoteIds, Note) /\ DOMAIN v = DOMAIN x.notes /\ v[n].mapped = x.notes[n].mapped
    BY <1>1, <1>2, <2>2 DEF DbGood, IsDb, IsTable
  <2>5. \A k \in DOMAIN v \ {n} : v[k] = x.notes[k]
    OBVIOUS
  <2>. HIDE DEF v
  <2>6. /\ DbGood(y, U, K) /\ y.space = x.space /\ y.name = x.name
        /\ y.folders = x.folders /\ y.images = x.images /\ y.notes = v
    BY <1>2, <2>1, <2>3, <2>4, NotesPut DEF DbGood
  <2>. QED  BY <1>2, <2>4, <2>5, <2>6 DEF Pending, Mapped
<1>5. DOMAIN items \subseteq Keys
  <2>1. AssignKey(n) \in Keys
    BY KeysAre
  <2>2. DOMAIN items = {AssignKey(n)}
    BY OneIs
  <2>. QED  BY <2>1, <2>2
<1>. HIDE DEF y, items, gone, fresh, tables
<1>. QED  BY <1>1, <1>2, <1>3, <1>4, <1>5, LocalSteps

LEMMA AddFolderSteps ==
    ASSUME IInv, NEW d \in Devices, NEW f \in FolderIds, NEW name \in Names, NEW parent \in FolderIds \cup {None}, AddFolder(d, f, name, parent)
    PROVE  IInv'
<1>. DEFINE x == db[d]
            b == bridge[d]
            y == [x EXCEPT !.folders =
                    Over(@, Only(f, [name |-> name, parent |-> parent, push |-> TRUE]))]
            items == Over(Only(FolderKey(f), name), Only(ParentKey(f), parent))
            gone == {}
            fresh == {f}
            tables == {"folders"}
            U == used \cup fresh
            K == Kept \cup gone
<1>1. /\ Acts(d, "add folder") /\ Local(d, y, tables) /\ Intends(d, items, gone, fresh)
      /\ x.space # "absent" /\ f \notin used
  BY DEF AddFolder
<1>2. /\ DbGood(x, U, K) /\ Pending(x, b) /\ BridgeGood(b, U, K) /\ BridgeGood(b, used, Kept)
      /\ DOMAIN x = {"space", "name", "folders", "notes", "images"}
  BY GrownIs, GoodIs
<1>3. gone \in SUBSET Ids /\ fresh \in SUBSET Ids /\ tables \in SUBSET Tables
  BY <1>2, RowsAre DEF Ids, Tables, DbGood
<1>4. /\ DbGood(y, U, K) /\ Pending(y, b) /\ y.space = x.space
      /\ y.name = x.name /\ Mapped(y) \subseteq Mapped(x)
  <2>. DEFINE r == [name |-> name, parent |-> parent, push |-> TRUE]
              v == Over(x.folders, Only(f, r))
  <2>1. r \in Folder
    BY DEF Folder
  <2>. HIDE DEF r
  <2>2. IsTable(x.folders, FolderIds, Folder) /\ DOMAIN x.folders \subseteq U
    BY <1>2 DEF DbGood, IsDb
  <2>10. DOMAIN Only(f, r) = {f} /\ Only(f, r)[f] = r
    BY OneIs
  <2>3. IsTable(Only(f, r), FolderIds, Folder)
    BY <2>1, <2>10 DEF IsTable
  <2>4. IsTable(v, FolderIds, Folder)
    BY <2>2, <2>3, OverTable
  <2>5. DOMAIN v = DOMAIN x.folders \cup {f}
    <3>. DEFINE g == Only(f, r)
    <3>. HIDE DEF g
    <3>1. /\ DOMAIN Over(x.folders, g) = DOMAIN x.folders \cup DOMAIN g
          /\ \A m \in DOMAIN g : Over(x.folders, g)[m] = g[m]
          /\ \A m \in DOMAIN x.folders \ DOMAIN g : Over(x.folders, g)[m] = x.folders[m]
      BY OverIs
    <3>2. v = Over(x.folders, g) /\ DOMAIN g = {f} /\ g[f] = r
      BY <2>10 DEF g
    <3>. HIDE DEF v
    <3>. QED  BY <3>1, <3>2
  <2>. HIDE DEF v
  <2>6. y = [x EXCEPT !.folders = v]
    BY DEF v, r
  <2>. HIDE DEF y
  <2>7. DOMAIN v \subseteq U
    BY <2>2, <2>5
  <2>8. /\ DbGood(y, U, K) /\ y.space = x.space /\ y.name = x.name
        /\ y.folders = v /\ y.images = x.images /\ y.notes = x.notes
    BY <1>1, <1>2, <2>4, <2>6, <2>7, FoldersPut
  <2>9. f \notin b.removedFolders
    BY <1>1, <1>2 DEF BridgeGood
  <2>. QED  BY <1>2, <2>5, <2>8, <2>9 DEF Pending, Mapped
<1>5. DOMAIN items \subseteq Keys
  <2>1. FolderKey(f) \in Keys /\ ParentKey(f) \in Keys
    BY KeysAre
  <2>2. DOMAIN Only(FolderKey(f), name) = {FolderKey(f)}
    BY OneIs
  <2>3. DOMAIN Only(ParentKey(f), parent) = {ParentKey(f)}
    BY OneIs
  <2>4. DOMAIN items = DOMAIN Only(FolderKey(f), name) \cup DOMAIN Only(ParentKey(f), parent)
    BY OverIs
  <2>. HIDE DEF items
  <2>. QED  BY <2>1, <2>2, <2>3, <2>4
<1>. HIDE DEF y, items, gone, fresh, tables
<1>. QED  BY <1>1, <1>2, <1>3, <1>4, <1>5, LocalSteps

LEMMA RenameFolderSteps ==
    ASSUME IInv, NEW d \in Devices, NEW f \in FolderIds, NEW name \in Names, RenameFolder(d, f, name)
    PROVE  IInv'
<1>. DEFINE x == db[d]
            b == bridge[d]
            y == [x EXCEPT !.folders[f].name = name, !.folders[f].push = TRUE]
            items == Only(FolderKey(f), name)
            gone == {}
            fresh == {}
            tables == {"folders"}
            U == used \cup fresh
            K == Kept \cup gone
<1>1. /\ Acts(d, "rename folder") /\ Local(d, y, tables) /\ Intends(d, items, gone, fresh)
      /\ f \in DOMAIN x.folders
  BY DEF RenameFolder
<1>2. /\ DbGood(x, U, K) /\ Pending(x, b) /\ BridgeGood(b, U, K) /\ BridgeGood(b, used, Kept)
      /\ DOMAIN x = {"space", "name", "folders", "notes", "images"}
  BY GrownIs, GoodIs
<1>3. gone \in SUBSET Ids /\ fresh \in SUBSET Ids /\ tables \in SUBSET Tables
  BY <1>2, RowsAre DEF Ids, Tables, DbGood
<1>4. /\ DbGood(y, U, K) /\ Pending(y, b) /\ y.space = x.space
      /\ y.name = x.name /\ Mapped(y) \subseteq Mapped(x)
  <2>. DEFINE r == [x.folders[f] EXCEPT !.name = name, !.push = TRUE]
              v == [x.folders EXCEPT ![f] = r]
  <2>1. x.folders[f] \in Folder /\ x.space # "absent"
    BY <1>1, <1>2, RowsAre DEF DbGood
  <2>2. r \in Folder
    BY <1>1, <2>1 DEF Folder
  <2>3. y = [x EXCEPT !.folders = v]
    BY <1>1, <1>2
  <2>. HIDE DEF r, y
  <2>4. IsTable(v, FolderIds, Folder) /\ DOMAIN v = DOMAIN x.folders
    BY <1>1, <1>2, <2>2 DEF DbGood, IsDb, IsTable
  <2>5. \A k \in DOMAIN v \ {f} : v[k] = x.folders[k]
    OBVIOUS
  <2>. HIDE DEF v
  <2>6. /\ DbGood(y, U, K) /\ y.space = x.space /\ y.name = x.name
        /\ y.folders = v /\ y.images = x.images /\ y.notes = x.notes
    BY <1>2, <2>1, <2>3, <2>4, FoldersPut DEF DbGood
  <2>. QED  BY <1>2, <2>4, <2>5, <2>6 DEF Pending, Mapped
<1>5. DOMAIN items \subseteq Keys
  <2>1. FolderKey(f) \in Keys
    BY KeysAre
  <2>2. DOMAIN items = {FolderKey(f)}
    BY OneIs
  <2>. QED  BY <2>1, <2>2
<1>. HIDE DEF y, items, gone, fresh, tables
<1>. QED  BY <1>1, <1>2, <1>3, <1>4, <1>5, LocalSteps

LEMMA MoveFolderSteps ==
    ASSUME IInv, NEW d \in Devices, NEW f \in FolderIds, NEW parent \in FolderIds \cup {None}, MoveFolder(d, f, parent)
    PROVE  IInv'
<1>. DEFINE x == db[d]
            b == bridge[d]
            y == [x EXCEPT !.folders[f].parent = parent, !.folders[f].push = TRUE]
            items == Only(ParentKey(f), parent)
            gone == {}
            fresh == {}
            tables == {"folders"}
            U == used \cup fresh
            K == Kept \cup gone
<1>1. /\ Acts(d, "move folder") /\ Local(d, y, tables) /\ Intends(d, items, gone, fresh)
      /\ f \in DOMAIN x.folders
  BY DEF MoveFolder
<1>2. /\ DbGood(x, U, K) /\ Pending(x, b) /\ BridgeGood(b, U, K) /\ BridgeGood(b, used, Kept)
      /\ DOMAIN x = {"space", "name", "folders", "notes", "images"}
  BY GrownIs, GoodIs
<1>3. gone \in SUBSET Ids /\ fresh \in SUBSET Ids /\ tables \in SUBSET Tables
  BY <1>2, RowsAre DEF Ids, Tables, DbGood
<1>4. /\ DbGood(y, U, K) /\ Pending(y, b) /\ y.space = x.space
      /\ y.name = x.name /\ Mapped(y) \subseteq Mapped(x)
  <2>. DEFINE r == [x.folders[f] EXCEPT !.parent = parent, !.push = TRUE]
              v == [x.folders EXCEPT ![f] = r]
  <2>1. x.folders[f] \in Folder /\ x.space # "absent"
    BY <1>1, <1>2, RowsAre DEF DbGood
  <2>2. r \in Folder
    BY <1>1, <2>1 DEF Folder
  <2>3. y = [x EXCEPT !.folders = v]
    BY <1>1, <1>2
  <2>. HIDE DEF r, y
  <2>4. IsTable(v, FolderIds, Folder) /\ DOMAIN v = DOMAIN x.folders
    BY <1>1, <1>2, <2>2 DEF DbGood, IsDb, IsTable
  <2>5. \A k \in DOMAIN v \ {f} : v[k] = x.folders[k]
    OBVIOUS
  <2>. HIDE DEF v
  <2>6. /\ DbGood(y, U, K) /\ y.space = x.space /\ y.name = x.name
        /\ y.folders = v /\ y.images = x.images /\ y.notes = x.notes
    BY <1>2, <2>1, <2>3, <2>4, FoldersPut DEF DbGood
  <2>. QED  BY <1>2, <2>4, <2>5, <2>6 DEF Pending, Mapped
<1>5. DOMAIN items \subseteq Keys
  <2>1. ParentKey(f) \in Keys
    BY KeysAre
  <2>2. DOMAIN items = {ParentKey(f)}
    BY OneIs
  <2>. QED  BY <2>1, <2>2
<1>. HIDE DEF y, items, gone, fresh, tables
<1>. QED  BY <1>1, <1>2, <1>3, <1>4, <1>5, LocalSteps

LEMMA RenameImageSteps ==
    ASSUME IInv, NEW d \in Devices, NEW i \in ImageIds, NEW name \in Names, RenameImage(d, i, name)
    PROVE  IInv'
<1>. DEFINE x == db[d]
            b == bridge[d]
            y == [x EXCEPT !.images[i].name = name, !.images[i].push = TRUE]
            items == Only(ImageKey(i), name)
            gone == {}
            fresh == {}
            tables == {"images"}
            U == used \cup fresh
            K == Kept \cup gone
<1>1. /\ Acts(d, "rename image") /\ Local(d, y, tables) /\ Intends(d, items, gone, fresh)
      /\ i \in DOMAIN x.images
  BY DEF RenameImage
<1>2. /\ DbGood(x, U, K) /\ Pending(x, b) /\ BridgeGood(b, U, K) /\ BridgeGood(b, used, Kept)
      /\ DOMAIN x = {"space", "name", "folders", "notes", "images"}
  BY GrownIs, GoodIs
<1>3. gone \in SUBSET Ids /\ fresh \in SUBSET Ids /\ tables \in SUBSET Tables
  BY <1>2, RowsAre DEF Ids, Tables, DbGood
<1>4. /\ DbGood(y, U, K) /\ Pending(y, b) /\ y.space = x.space
      /\ y.name = x.name /\ Mapped(y) \subseteq Mapped(x)
  <2>. DEFINE r == [x.images[i] EXCEPT !.name = name, !.push = TRUE]
              v == [x.images EXCEPT ![i] = r]
  <2>1. x.images[i] \in Image /\ x.space # "absent"
    BY <1>1, <1>2, RowsAre DEF DbGood
  <2>2. r \in Image /\ r.push
    BY <1>1, <2>1 DEF Image
  <2>3. y = [x EXCEPT !.images = v]
    BY <1>1, <1>2
  <2>. HIDE DEF r, y
  <2>4. IsTable(v, ImageIds, Image) /\ DOMAIN v = DOMAIN x.images /\ v[i].push
    BY <1>1, <1>2, <2>2 DEF DbGood, IsDb, IsTable
  <2>5. \A k \in DOMAIN v \ {i} : v[k] = x.images[k]
    OBVIOUS
  <2>. HIDE DEF v
  <2>6. /\ DbGood(y, U, K) /\ y.space = x.space /\ y.name = x.name
        /\ y.folders = x.folders /\ y.images = v /\ y.notes = x.notes
    BY <1>2, <2>1, <2>3, <2>4, <2>5, ImagesPut DEF DbGood
  <2>. QED  BY <1>2, <2>4, <2>5, <2>6 DEF Pending, Mapped
<1>5. DOMAIN items \subseteq Keys
  <2>1. ImageKey(i) \in Keys
    BY KeysAre
  <2>2. DOMAIN items = {ImageKey(i)}
    BY OneIs
  <2>. QED  BY <2>1, <2>2
<1>. HIDE DEF y, items, gone, fresh, tables
<1>. QED  BY <1>1, <1>2, <1>3, <1>4, <1>5, LocalSteps

\* What is to be removed from the index is no longer in the database.
LEMMA RemovalGrown ==
    ASSUME NEW x, NEW b, NEW e, NEW gone, NEW fresh, Grown(x, b, e, gone, fresh),
           NEW c, BridgeGood(c, used \cup fresh, Kept \cup gone), Pending(x, c),
           \A g \in BridgeFields \ {"removedFolders", "removedImages", "dirty"} : c[g] = b[g]
    PROVE  Grown(x, c, e, gone, fresh)
<1>1. /\ c.joining = b.joining /\ c.known = b.known /\ c.creating = b.creating
      /\ c.author = b.author /\ c.pushing = b.pushing /\ c.refused = b.refused
  BY DEF BridgeFields
<1>2. Named(x, c) /\ Unpushed(x, c, ToPush) /\ Refused(x, c, e, server.refuses)
  BY <1>1 DEF Grown, Device, Named, Unpushed, Refused
<1>. QED  BY <1>2 DEF Grown, Device

LEMMA DeleteFolderSteps ==
    ASSUME IInv, NEW d \in Devices, NEW f \in FolderIds, DeleteFolder(d, f)
    PROVE  IInv'
<1>. DEFINE x == db[d]
            b == bridge[d]
            e == engine[d]
            gone == Subtree(x.folders, f)
            fresh == {}
            removed == b.removedFolders \cup Removes(x, f)
            queued == IF x.space = "mapped"
                      THEN [b EXCEPT !.removedFolders = @ \cup Removes(x, f), !.dirty = TRUE] ELSE b
            y == FoldersDeleted(x, {f})
            items == [k \in {FolderKey(g) : g \in gone} \cup {AssignKey(n) : n \in
                            {m \in DOMAIN x.notes : x.notes[m].folder \in gone}} |-> None]
            U == used \cup fresh
            K == Kept \cup gone
<1>1. /\ Acts(d, "delete folder") /\ f \in DOMAIN x.folders
      /\ Changes(d, y, Moves(queued, {"folders"}), e)
      /\ Intends(d, items, gone, fresh) /\ server' = server
  BY DEF DeleteFolder
<1>2. /\ Grown(x, b, e, gone, fresh) /\ DbGood(x, U, K) /\ BridgeGood(b, U, K) /\ Pending(x, b)
      /\ EngineGood(e, Len(server.log), U, K) /\ Len(server.log) \in Nat
      /\ DOMAIN x = {"space", "name", "folders", "notes", "images"}
      /\ DOMAIN b = BridgeFields /\ DOMAIN e = EngineFields
  BY GrownIs
<1>3. gone \subseteq DOMAIN x.folders /\ gone \subseteq FolderIds \cap U
  BY <1>2, RowsAre DEF Subtree, DbGood
<1>4. DOMAIN items \subseteq Keys
  BY <1>2, <1>3, RowsAre, KeysAre DEF DbGood
<1>5. /\ IsDb(y) /\ y.space = x.space /\ y.name = x.name /\ y.images = x.images
      /\ DOMAIN y.folders = DOMAIN x.folders \ gone
      /\ DOMAIN y.notes = DOMAIN x.notes /\ Mapped(y) = Mapped(x)
  <2>1. UNION {Subtree(x.folders, g) : g \in {f}} = gone
    OBVIOUS
  <2>. HIDE DEF gone
  <2>2. IsDb(x)
    BY <1>2 DEF DbGood
  <2>. QED  BY <2>1, <2>2, FoldersDeletedIs
<1>6. Removes(x, f) = gone
  BY DEF Removes
<1>. HIDE DEF y, items, gone, fresh
<1>7. DbGood(y, U, K)
  BY <1>2, <1>5 DEF DbGood
<1>8. Pending(y, b)
  BY <1>2, <1>5 DEF Pending
<1>9. Grown(y, b, e, gone, fresh)
  BY <1>2, <1>5, <1>7, <1>8, DbGrown
<1>10. Grown(y, queued, e, gone, fresh)
  <2>1. CASE x.space # "mapped"
    BY <1>9, <2>1
  <2>2. CASE x.space = "mapped"
    <3>1. queued = [b EXCEPT !.removedFolders = removed, !.dirty = TRUE]
      BY <1>2, <2>2 DEF BridgeFields
    <3>2. removed = b.removedFolders \cup gone
      BY <1>6
    <3>. HIDE DEF queued, removed
    <3>3. /\ queued.removedFolders = removed /\ queued.replica = b.replica
          /\ queued.titles = b.titles /\ queued.removedImages = b.removedImages
          /\ queued.joining = b.joining /\ queued.known = b.known /\ queued.moved = b.moved
          /\ queued.creating = b.creating /\ queued.uploading = b.uploading
          /\ queued.failed = b.failed /\ queued.tries = b.tries /\ queued.author = b.author
          /\ queued.pushing = b.pushing /\ queued.refused = b.refused
          /\ DOMAIN queued = BridgeFields
      BY <1>2, <3>1 DEF BridgeFields
    <3>4. BridgeGood(queued, U, K)
      BY <1>2, <1>3, <3>2, <3>3 DEF BridgeGood
    <3>5. Pending(y, queued)
      BY <1>5, <1>8, <3>2, <3>3 DEF Pending
    <3>6. \A g \in BridgeFields \ {"removedFolders", "removedImages", "dirty"} : queued[g] = b[g]
      BY <1>2, <3>1 DEF BridgeFields
    <3>. QED  BY <1>9, <3>4, <3>5, <3>6, RemovalGrown
  <2>. QED  BY <2>1, <2>2
<1>. HIDE DEF queued
<1>11. Grown(y, Moves(queued, {"folders"}), e, gone, fresh)
  BY <1>10, MovesGrown DEF Tables
<1>12. gone \in SUBSET Ids /\ fresh \in SUBSET Ids
  BY <1>3 DEF Ids, fresh
<1>13. server.stored \subseteq ImageIds
  BY DEF IInv, ServerGood
<1>. QED  BY <1>1, <1>4, <1>11, <1>12, <1>13, UserActs

LEMMA DeleteImageSteps ==
    ASSUME IInv, NEW d \in Devices, NEW i \in ImageIds, DeleteImage(d, i)
    PROVE  IInv'
<1>. DEFINE x == db[d]
            b == bridge[d]
            e == engine[d]
            gone == {i}
            fresh == {}
            told == x.space = "mapped" /\ e.up
            answered == IF i \in e.waiting THEN Results(e, {i}, "stored") ELSE e
            f == IF told THEN [answered EXCEPT !.wire[i] = 0, !.waiting = @ \ {i}] ELSE e
            queued == IF x.space = "mapped"
                      THEN [b EXCEPT !.removedImages = @ \cup {i}, !.dirty = TRUE] ELSE b
            y == [x EXCEPT !.images = Without(@, {i})]
            items == Nothing
            U == used \cup fresh
            K == Kept \cup gone
            n == Len(server.log)
<1>1. /\ Acts(d, "delete image") /\ i \in DOMAIN x.images
      /\ Changes(d, y, Moves(queued, {"images"}), f)
      /\ server' = IF told THEN [server EXCEPT !.stored = @ \ {i}] ELSE server
      /\ Intends(d, items, gone, fresh)
  BY DEF DeleteImage
<1>2. /\ Grown(x, b, e, gone, fresh) /\ DbGood(x, U, K) /\ BridgeGood(b, U, K) /\ Pending(x, b)
      /\ EngineGood(e, Len(server.log), U, K) /\ Len(server.log) \in Nat
      /\ DOMAIN x = {"space", "name", "folders", "notes", "images"}
      /\ DOMAIN b = BridgeFields /\ DOMAIN e = EngineFields
  BY GrownIs
<1>3. gone \in SUBSET Ids /\ fresh \in SUBSET Ids /\ DOMAIN items \subseteq Keys
  BY NothingIs DEF Ids
<1>4. i \in U /\ i \in K
  BY <1>1, <1>2 DEF DbGood
<1>5. /\ DbGood(y, U, K) /\ y.space = x.space /\ y.name = x.name /\ Mapped(y) = Mapped(x)
      /\ DOMAIN y.folders = DOMAIN x.folders /\ DOMAIN y.images = DOMAIN x.images \ {i}
  <2>. DEFINE v == Without(x.images, {i})
  <2>1. IsTable(x.images, ImageIds, Image) /\ x.space # "absent"
    BY <1>1, <1>2 DEF DbGood, IsDb
  <2>2. IsTable(v, ImageIds, Image) /\ DOMAIN v = DOMAIN x.images \ {i}
    BY <2>1, WithoutTable
  <2>3. \A j \in DOMAIN v : v[j] = x.images[j]
    BY DEF Without
  <2>. HIDE DEF v
  <2>4. y = [x EXCEPT !.images = v]
    BY DEF v
  <2>. HIDE DEF y
  <2>5. DOMAIN v \subseteq U /\ \A j \in DOMAIN v : v[j].push \/ j \in K
    BY <1>2, <2>2, <2>3 DEF DbGood
  <2>6. /\ DbGood(y, U, K) /\ y.space = x.space /\ y.name = x.name
        /\ y.folders = x.folders /\ y.images = v /\ y.notes = x.notes
    BY <1>2, <2>1, <2>2, <2>4, <2>5, ImagesPut
  <2>. QED  BY <2>2, <2>6 DEF Mapped
<1>. HIDE DEF y, items, fresh
<1>6. Pending(y, b)
  BY <1>2, <1>5 DEF Pending
<1>7. Grown(y, b, e, gone, fresh)
  BY <1>2, <1>5, <1>6, DbGrown
<1>8. Grown(y, queued, e, gone, fresh)
  <2>1. CASE x.space # "mapped"
    BY <1>7, <2>1
  <2>2. CASE x.space = "mapped"
    <3>1. queued = [b EXCEPT !.removedImages = @ \cup {i}, !.dirty = TRUE]
      BY <2>2
    <3>. HIDE DEF queued
    <3>2. /\ queued.removedImages = b.removedImages \cup {i} /\ queued.replica = b.replica
          /\ queued.titles = b.titles /\ queued.removedFolders = b.removedFolders
          /\ queued.joining = b.joining /\ queued.known = b.known /\ queued.moved = b.moved
          /\ queued.creating = b.creating /\ queued.uploading = b.uploading
          /\ queued.failed = b.failed /\ queued.tries = b.tries /\ queued.author = b.author
          /\ queued.pushing = b.pushing /\ queued.refused = b.refused
          /\ DOMAIN queued = BridgeFields
      BY <1>2, <3>1 DEF BridgeFields
    <3>3. BridgeGood(queued, U, K)
      BY <1>2, <1>4, <3>2 DEF BridgeGood
    <3>4. Pending(y, queued)
      BY <1>5, <1>6, <3>2 DEF Pending
    <3>5. \A g \in BridgeFields \ {"removedFolders", "removedImages", "dirty"} : queued[g] = b[g]
      BY <1>2, <3>1 DEF BridgeFields
    <3>. QED  BY <1>7, <3>3, <3>4, <3>5, RemovalGrown
  <2>. QED  BY <2>1, <2>2
<1>. HIDE DEF queued
<1>9. Grown(y, Moves(queued, {"images"}), e, gone, fresh)
  BY <1>8, MovesGrown DEF Tables
<1>10. EngineGood(f, n, U, K) /\ f.refusal = e.refusal /\ f.destroyed = e.destroyed
  <2>1. CASE ~told
    BY <1>2, <2>1
  <2>2. CASE told
    <3>1. /\ EngineGood(answered, n, U, K)
          /\ answered.refusal = e.refusal /\ answered.destroyed = e.destroyed
      <4>1. CASE i \notin e.waiting
        BY <1>2, <4>1
      <4>2. CASE i \in e.waiting
        <5>1. {i} \in SUBSET ImageIds /\ {i} \subseteq K
          BY <1>4
        <5>2. /\ EngineGood(Results(e, {i}, "stored"), n, U, K)
              /\ Results(e, {i}, "stored").refusal = e.refusal
              /\ Results(e, {i}, "stored").destroyed = e.destroyed
          BY <1>2, <5>1, ResultsGood
        <5>. QED  BY <4>2, <5>2
      <4>. QED  BY <4>1, <4>2
    <3>. DEFINE wired == [answered.wire EXCEPT ![i] = 0]
    <3>. HIDE DEF answered
    <3>2. wired \in [ImageIds -> Nat] /\ DOMAIN answered = EngineFields
      BY <3>1 DEF EngineGood
    <3>. HIDE DEF wired
    <3>3. f = [answered EXCEPT !.wire = wired, !.waiting = @ \ {i}]
      BY <2>2, <3>2 DEF EngineFields, wired
    <3>. HIDE DEF f
    <3>4. /\ f.wire = wired /\ f.waiting = answered.waiting \ {i} /\ f.client = answered.client
          /\ f.lost = answered.lost /\ f.seen = answered.seen /\ f.target = answered.target
          /\ f.out = answered.out /\ f.results = answered.results
          /\ f.fetching = answered.fetching /\ f.refusal = answered.refusal
          /\ f.destroyed = answered.destroyed /\ DOMAIN f = EngineFields
      BY <3>2, <3>3 DEF EngineFields
    <3>5. EngineGood(f, n, U, K)
      BY <3>1, <3>2, <3>4 DEF EngineGood
    <3>. QED  BY <3>1, <3>4, <3>5
  <2>. QED  BY <2>1, <2>2
<1>. HIDE DEF f
<1>11. Grown(y, Moves(queued, {"images"}), f, gone, fresh)
  BY <1>9, <1>10, EngineSwap DEF Grown
<1>12. /\ DOMAIN server' = DOMAIN server /\ server'.exists = server.exists
       /\ server'.refuses = server.refuses /\ server'.log = server.log
       /\ server'.stored \subseteq ImageIds /\ server.stored \subseteq server'.stored \cup gone
  BY <1>1 DEF IInv, ServerGood
<1>. HIDE DEF gone, told
<1>. QED  BY <1>1, <1>3, <1>11, <1>12, UserActs

LEMMA PasteImageSteps ==
    ASSUME IInv, NEW d \in Devices, NEW i \in ImageIds, NEW name \in Names, PasteImage(d, i, name)
    PROVE  IInv'
<1>. DEFINE x == db[d]
            b == bridge[d]
            e == engine[d]
            gone == {}
            fresh == {i}
            r == [name |-> name, push |-> TRUE, bytes |-> TRUE]
            filled == [x EXCEPT !.images[i].bytes = TRUE]
            added == [x EXCEPT !.images = Over(@, Only(i, r))]
            y == IF i \in used THEN filled ELSE added
            up == IF x.space = "mapped" /\ y.images[i].push THEN {i} ELSE {}
            f == Put(e, up)
            items == Only(ImageKey(i), name)
            U == used \cup fresh
            K == Kept \cup gone
            n == Len(server.log)
<1>1. /\ Acts(d, "paste") /\ x.space # "absent" /\ (i \in used => i \in DOMAIN x.images)
      /\ Changes(d, y, Moves(b, {"images"}), f)
      /\ Intends(d, items, gone, fresh) /\ server' = server
  BY DEF PasteImage
<1>2. /\ Grown(x, b, e, gone, fresh) /\ DbGood(x, U, K) /\ BridgeGood(b, U, K) /\ Pending(x, b)
      /\ EngineGood(e, Len(server.log), U, K) /\ Len(server.log) \in Nat
      /\ DOMAIN x = {"space", "name", "folders", "notes", "images"}
      /\ DOMAIN b = BridgeFields /\ DOMAIN e = EngineFields
  BY GrownIs
<1>3. gone \in SUBSET Ids /\ fresh \in SUBSET Ids
  BY DEF Ids
<1>4. DOMAIN items \subseteq Keys
  <2>1. ImageKey(i) \in Keys
    BY KeysAre
  <2>2. DOMAIN items = {ImageKey(i)}
    BY OneIs
  <2>. QED  BY <2>1, <2>2
<1>5. /\ DbGood(y, U, K) /\ y.space = x.space /\ y.name = x.name /\ Mapped(y) = Mapped(x)
      /\ Pending(y, b)
  <2>1. CASE i \in used
    <3>. DEFINE v == [x.images[i] EXCEPT !.bytes = TRUE]
    <3>1. x.images[i] \in Image /\ (x.images[i].push \/ i \in K)
      BY <1>1, <1>2, <2>1, RowsAre DEF DbGood
    <3>2. v \in Image /\ v.push = x.images[i].push
      BY <3>1 DEF Image
    <3>3. y = [x EXCEPT !.images[i] = v] /\ i \in DOMAIN x.images
      BY <1>1, <2>1
    <3>. HIDE DEF v, y
    <3>4. /\ DbGood(y, U, K) /\ y.space = x.space /\ y.name = x.name
          /\ y.folders = x.folders /\ y.notes = x.notes /\ DOMAIN y.images = DOMAIN x.images
      BY <1>2, <3>1, <3>2, <3>3, ImageRow
    <3>. QED  BY <1>2, <3>4 DEF Mapped, Pending
  <2>2. CASE i \notin used
    <3>. DEFINE v == Over(x.images, Only(i, r))
    <3>1. r \in Image /\ r.push
      BY DEF Image
    <3>. HIDE DEF r
    <3>2. DOMAIN Only(i, r) = {i} /\ Only(i, r)[i] = r
      BY OneIs
    <3>3. IsTable(x.images, ImageIds, Image) /\ IsTable(Only(i, r), ImageIds, Image)
      BY <1>2, <3>1, <3>2 DEF DbGood, IsDb, IsTable
    <3>4. IsTable(v, ImageIds, Image)
      BY <3>3, OverTable
    <3>5. DOMAIN v = DOMAIN x.images \cup {i} /\ v[i] = r /\ \A j \in DOMAIN x.images \ {i} : v[j] = x.images[j]
      <4>. DEFINE g == Only(i, r)
      <4>. HIDE DEF g
      <4>1. /\ DOMAIN Over(x.images, g) = DOMAIN x.images \cup DOMAIN g
            /\ \A m \in DOMAIN g : Over(x.images, g)[m] = g[m]
            /\ \A m \in DOMAIN x.images \ DOMAIN g : Over(x.images, g)[m] = x.images[m]
        BY OverIs
      <4>2. v = Over(x.images, g) /\ DOMAIN g = {i} /\ g[i] = r
        BY <3>2 DEF g
      <4>. HIDE DEF v
      <4>. QED  BY <4>1, <4>2
    <3>6. y = [x EXCEPT !.images = v]
      BY <2>2
    <3>. HIDE DEF v, y
    <3>7. DOMAIN v \subseteq U /\ \A j \in DOMAIN v : v[j].push \/ j \in K
      BY <1>2, <3>1, <3>5 DEF DbGood
    <3>8. /\ DbGood(y, U, K) /\ y.space = x.space /\ y.name = x.name
          /\ y.folders = x.folders /\ y.images = v /\ y.notes = x.notes
      BY <1>1, <1>2, <3>4, <3>6, <3>7, ImagesPut
    <3>9. i \notin b.removedImages
      BY <2>2, GoodIs DEF BridgeGood
    <3>. QED  BY <1>2, <3>5, <3>8, <3>9 DEF Mapped, Pending
  <2>. QED  BY <2>1, <2>2
<1>6. up \in SUBSET ImageIds
  OBVIOUS
<1>. HIDE DEF y, up, items, gone, fresh
<1>7. EngineGood(f, n, U, K) /\ f.refusal = e.refusal /\ f.destroyed = e.destroyed
  BY <1>2, <1>6, PutGood
<1>. HIDE DEF f
<1>8. Grown(y, b, e, gone, fresh)
  BY <1>2, <1>5, DbGrown
<1>9. Grown(y, Moves(b, {"images"}), e, gone, fresh)
  BY <1>8, MovesGrown DEF Tables
<1>10. Grown(y, Moves(b, {"images"}), f, gone, fresh)
  BY <1>7, <1>9, EngineSwap DEF Grown
<1>11. server.stored \subseteq ImageIds
  BY DEF IInv, ServerGood
<1>. QED  BY <1>1, <1>3, <1>4, <1>10, <1>11, UserActs

LEMMA PushSpaceSteps ==
    ASSUME IInv, NEW d \in Devices, PushSpace(d)
    PROVE  IInv'
<1>. DEFINE x == db[d]
            b == bridge[d]
            e == engine[d]
            made == [e EXCEPT !.knows = TRUE, !.open = TRUE, !.seen = 0, !.target = 0]
            f == IF e.up THEN made ELSE e
            c == [b EXCEPT !.pushing = e.up]
            items == Only(NameKey, x.name)
            n == Len(server.log)
<1>1. /\ Acts(d, "push") /\ x.space = "local" /\ ~server.exists /\ NameKey \notin DOMAIN intents
      /\ Changes(d, x, c, f)
      /\ server' = [server EXCEPT !.exists = e.up /\ ~server.refuses]
      /\ Intends(d, items, {}, {})
  BY DEF PushSpace
<1>2. /\ Fits(x, b, e) /\ DbGood(x, used, Kept) /\ BridgeGood(b, used, Kept)
      /\ EngineGood(e, Len(server.log), used, Kept) /\ Len(server.log) \in Nat
      /\ DOMAIN x = {"space", "name", "folders", "notes", "images"}
      /\ DOMAIN b = BridgeFields /\ DOMAIN e = EngineFields
  BY GoodIs
<1>3. ToPush
  BY <1>1 DEF Acts, ToPush
<1>4. Spends /\ clients' \subseteq Clients
  BY <1>1 DEF Acts, Spends, IInv
<1>5. DOMAIN items = {NameKey} /\ NameKey \in Keys
  BY OneIs, KeysAre
<1>6. /\ HistoryGood' /\ used' = used /\ deleted' = deleted
      /\ DOMAIN intents' = DOMAIN intents \cup DOMAIN items
  <2>1. HistoryGood /\ DOMAIN items \subseteq Keys /\ {} \in SUBSET Ids
    BY <1>5 DEF IInv
  <2>. HIDE DEF items
  <2>2. /\ HistoryGood' /\ used' = used \cup {} /\ deleted' = deleted \cup {}
        /\ DOMAIN intents' = DOMAIN intents \cup DOMAIN items
    BY <1>1, <2>1, IntendsIs
  <2>. QED  BY <2>2
<1>7. ~ToPush'
  BY <1>5, <1>6 DEF ToPush
<1>8. /\ DOMAIN server' = DOMAIN server /\ server'.exists \in BOOLEAN
      /\ server'.exists => ~server.refuses
      /\ server'.refuses = server.refuses /\ server'.log = server.log
      /\ server'.stored = server.stored
  BY <1>1 DEF IInv, ServerGood
<1>9. Kept \subseteq Kept'
  BY <1>3, <1>6, <1>8 DEF Kept, IInv, ServerGood
<1>10. ServerGood'
  <2>1. Logged(server.log, used', Kept')
    <3>1. Logged(server.log, used, Kept) /\ used \subseteq used'
      BY <1>6 DEF IInv, ServerGood
    <3>. QED  BY <1>9, <3>1, LoggedLonger
  <2>. QED  BY <1>7, <1>8, <2>1 DEF ServerGood, IInv
<1>11. EngineGood(f, n, used, Kept) /\ f.refusal = e.refusal /\ f.destroyed = e.destroyed
  <2>1. CASE ~e.up
    BY <1>2, <2>1
  <2>2. CASE e.up
    <3>1. /\ f.seen = 0 /\ f.target = 0 /\ f.client = e.client /\ f.lost = e.lost /\ f.out = e.out
          /\ f.wire = e.wire /\ f.waiting = e.waiting /\ f.results = e.results
          /\ f.fetching = e.fetching /\ f.refusal = e.refusal /\ f.destroyed = e.destroyed
          /\ DOMAIN f = EngineFields
      BY <1>2, <2>2 DEF EngineFields
    <3>. HIDE DEF f
    <3>2. EngineGood(f, n, used, Kept)
      BY <1>2, <3>1 DEF EngineGood
    <3>. QED  BY <3>1, <3>2
  <2>. QED  BY <2>1, <2>2
<1>. HIDE DEF f
<1>12. Fits(x, b, f)
  BY <1>2, <1>11, EngineFits
<1>13. /\ c.pushing = e.up /\ c.replica = b.replica /\ c.titles = b.titles
      /\ c.removedFolders = b.removedFolders /\ c.removedImages = b.removedImages
      /\ c.joining = b.joining /\ c.known = b.known /\ c.moved = b.moved
      /\ c.creating = b.creating /\ c.uploading = b.uploading /\ c.failed = b.failed
      /\ c.tries = b.tries /\ c.author = b.author /\ c.refused = b.refused
      /\ DOMAIN c = BridgeFields
  BY <1>2 DEF BridgeFields
<1>. HIDE DEF c
<1>14. BridgeGood(c, used, Kept)
  BY <1>2, <1>13 DEF BridgeGood
<1>15. Named(x, c)
  BY <1>1, <1>3, <1>12, <1>13 DEF Fits, Device, Named, Unpushed
<1>16. Pending(x, c) /\ Refused(x, c, f, server.refuses) /\ Unpushed(x, c, ToPush')
  BY <1>7, <1>12, <1>13 DEF Fits, Device, Pending, Refused, Unpushed
<1>17. Device(x, c, f, n, used, Kept, server.refuses, ToPush')
  BY <1>12, <1>14, <1>15, <1>16 DEF Fits, Device
<1>18. Device(x, c, f, Len(server'.log), used', Kept', server.refuses, ToPush')
  <2>1. used \subseteq used' /\ n <= n
    BY <1>2, <1>6
  <2>. DEFINE P == ToPush'
              L == Kept'
              V == used'
  <2>. HIDE DEF P, L, V
  <2>2. Device(x, c, f, n, used, Kept, server.refuses, P)
    BY <1>17 DEF P
  <2>3. used \subseteq V /\ Kept \subseteq L
    BY <1>9, <2>1 DEF V, L
  <2>4. Device(x, c, f, n, V, L, server.refuses, P)
    BY <1>2, <2>1, <2>2, <2>3, Longer
  <2>. QED  BY <1>8, <2>4 DEF P, L, V
<1>19. /\ used \subseteq used' /\ Kept \subseteq Kept' /\ (ToPush' => ToPush)
       /\ server'.refuses = server.refuses /\ Len(server'.log) \in Nat
       /\ Len(server.log) <= Len(server'.log)
  BY <1>2, <1>3, <1>6, <1>8, <1>9
<1>20. Sets(d, x, c, f)
  BY <1>1, ChangesIs
<1>. QED  BY <1>4, <1>6, <1>10, <1>18, <1>19, <1>20, DeviceSteps

LEMMA FetchSpaceSteps ==
    ASSUME IInv, NEW d \in Devices, FetchSpace(d)
    PROVE  IInv'
<1>. DEFINE x == db[d]
            b == bridge[d]
            e == engine[d]
            c == [b EXCEPT !.joining = "asked"]
<1>1. /\ server.exists /\ bridge' = [bridge EXCEPT ![d] = c] /\ Spends
      /\ UNCHANGED <<db, engine, server, history, clients>>
  BY DEF FetchSpace, IInv, Acts, Spends
<1>2. /\ Fits(x, b, e) /\ DbGood(x, used, Kept) /\ BridgeGood(b, used, Kept)
      /\ EngineGood(e, Len(server.log), used, Kept) /\ Len(server.log) \in Nat
      /\ DOMAIN x = {"space", "name", "folders", "notes", "images"}
      /\ DOMAIN b = BridgeFields /\ DOMAIN e = EngineFields
  BY GoodIs
<1>3. /\ c.joining = "asked" /\ c.replica = b.replica /\ c.titles = b.titles
      /\ c.removedFolders = b.removedFolders /\ c.removedImages = b.removedImages
      /\ c.known = b.known /\ c.moved = b.moved /\ c.creating = b.creating
      /\ c.uploading = b.uploading /\ c.failed = b.failed /\ c.tries = b.tries
      /\ c.author = b.author /\ c.pushing = b.pushing /\ c.refused = b.refused
      /\ DOMAIN c = BridgeFields
  BY <1>2 DEF BridgeFields
<1>. HIDE DEF c
<1>4. BridgeGood(c, used, Kept)
  BY <1>2, <1>3 DEF BridgeGood
<1>5. ~server.refuses /\ ~ToPush
  BY <1>1 DEF IInv, ServerGood
<1>6. /\ Pending(x, c) /\ Named(x, c) /\ Unpushed(x, c, ToPush)
      /\ Refused(x, c, e, server.refuses)
  BY <1>2, <1>3, <1>5 DEF Fits, Device, Pending, Named, Unpushed, Refused
<1>7. Fits(x, c, e)
  BY <1>2, <1>4, <1>6 DEF Fits, Device
<1>. QED  BY <1>1, <1>7, BridgeSteps1

LEMMA PeekSpaceSteps ==
    ASSUME IInv, NEW d \in Devices, PeekSpace(d)
    PROVE  IInv'
<1>. DEFINE x == db[d]
            b == bridge[d]
            e == engine[d]
            c == [b EXCEPT !.peeked = TRUE, !.peeking = TRUE]
<1>1. /\ bridge' = [bridge EXCEPT ![d] = c] /\ Spends
      /\ UNCHANGED <<db, engine, server, history, clients>>
  BY DEF PeekSpace, IInv, Acts, Spends
<1>2. /\ Fits(x, b, e) /\ DbGood(x, used, Kept) /\ BridgeGood(b, used, Kept)
      /\ EngineGood(e, Len(server.log), used, Kept) /\ Len(server.log) \in Nat
      /\ DOMAIN x = {"space", "name", "folders", "notes", "images"}
      /\ DOMAIN b = BridgeFields /\ DOMAIN e = EngineFields
  BY GoodIs
<1>3. /\ c.replica = b.replica /\ c.titles = b.titles /\ c.removedFolders = b.removedFolders
      /\ c.removedImages = b.removedImages /\ c.joining = b.joining /\ c.known = b.known
      /\ c.moved = b.moved /\ c.creating = b.creating /\ c.uploading = b.uploading
      /\ c.failed = b.failed /\ c.tries = b.tries /\ c.author = b.author /\ c.pushing = b.pushing
      /\ c.refused = b.refused /\ DOMAIN c = BridgeFields
  BY <1>2 DEF BridgeFields
<1>. HIDE DEF c
<1>4. BridgeGood(c, used, Kept)
  BY <1>2, <1>3 DEF BridgeGood
<1>5. Fits(x, c, e)
  BY <1>2, <1>3, <1>4, BridgeFits
<1>. QED  BY <1>1, <1>5, BridgeSteps1

LEMMA ForgetSpaceSteps ==
    ASSUME IInv, NEW d \in Devices, ForgetSpace(d)
    PROVE  IInv'
<1>. DEFINE x == db[d]
            b == bridge[d]
            e == engine[d]
            drop == Dropped(b)
            c == Moves(drop, {"spaces", "folders", "images"})
            g == Forgotten(e)
<1>1. /\ x.space = "mapped" /\ Spends /\ UNCHANGED <<server, history>>
      /\ \E k \in Clients : clients' = clients \cup {k} /\ Changes(d, Empty, c, [g EXCEPT !.client = k])
  BY DEF ForgetSpace, Spends
<1>2. /\ Fits(x, b, e) /\ DbGood(x, used, Kept) /\ BridgeGood(b, used, Kept)
      /\ EngineGood(e, Len(server.log), used, Kept) /\ Len(server.log) \in Nat
      /\ DOMAIN x = {"space", "name", "folders", "notes", "images"}
      /\ DOMAIN b = BridgeFields /\ DOMAIN e = EngineFields
  BY GoodIs
<1>3. PICK k \in Clients :
        clients' = clients \cup {k} /\ Changes(d, Empty, c, [g EXCEPT !.client = k])
  BY <1>1
<1>. DEFINE f == [g EXCEPT !.client = k]
<1>4. /\ EngineGood(g, Len(server.log), used, Kept)
      /\ g.refusal = e.refusal /\ g.destroyed = e.destroyed /\ DOMAIN g = EngineFields
  <2>1. /\ EngineGood(g, Len(server.log), used, Kept)
        /\ g.refusal = e.refusal /\ g.destroyed = e.destroyed
    BY <1>2, ForgottenGood
  <2>. QED  BY <2>1 DEF EngineGood
<1>. HIDE DEF g
<1>5. /\ f.client = k /\ f.lost = g.lost /\ f.seen = g.seen /\ f.target = g.target
      /\ f.out = g.out /\ f.wire = g.wire /\ f.waiting = g.waiting /\ f.results = g.results
      /\ f.fetching = g.fetching /\ f.refusal = g.refusal /\ f.destroyed = g.destroyed
      /\ DOMAIN f = EngineFields
  BY <1>4 DEF EngineFields
<1>. HIDE DEF f
<1>6. EngineGood(f, Len(server.log), used, Kept)
  BY <1>4, <1>5 DEF EngineGood
<1>7. Fits(x, b, f)
  BY <1>2, <1>4, <1>5, <1>6, EngineFits
<1>8. /\ BridgeGood(drop, used, Kept)
      /\ drop.replica = EmptyDoc /\ drop.titles = Nothing /\ drop.removedFolders = {}
      /\ drop.removedImages = {} /\ drop.joining = "no" /\ drop.known = None
      /\ drop.author = FALSE /\ drop.moved = b.moved /\ drop.creating = b.creating
      /\ drop.uploading = b.uploading /\ drop.failed = b.failed /\ drop.tries = b.tries
      /\ drop.pushing = b.pushing /\ drop.refused = b.refused /\ DOMAIN drop = BridgeFields
  BY <1>2, DroppedIs
<1>. HIDE DEF drop
<1>9. /\ c.moved = drop.moved \cup {"spaces", "folders", "images"} /\ c.replica = drop.replica
      /\ c.titles = drop.titles /\ c.removedFolders = drop.removedFolders
      /\ c.removedImages = drop.removedImages /\ c.joining = drop.joining /\ c.known = drop.known
      /\ c.creating = drop.creating /\ c.uploading = drop.uploading /\ c.failed = drop.failed
      /\ c.tries = drop.tries /\ c.author = drop.author /\ c.pushing = drop.pushing
      /\ c.refused = drop.refused /\ DOMAIN c = BridgeFields
  BY <1>8 DEF BridgeFields, Moves
<1>. HIDE DEF c
<1>10. BridgeGood(c, used, Kept)
  BY <1>8, <1>9 DEF BridgeGood, Tables
<1>11. Fits(x, c, f)
  BY <1>7, <1>8, <1>9, <1>10, BridgeFits
<1>12. /\ DbGood(Empty, used, Kept) /\ Empty.space = "absent" /\ Mapped(Empty) = {}
       /\ DOMAIN Empty.folders = {} /\ DOMAIN Empty.images = {}
  BY NothingIs DEF Empty, DbGood, IsDb, Titles, Mapped
<1>13. Pending(Empty, c) /\ Named(Empty, c) /\ Unpushed(Empty, c, ToPush)
  BY <1>1, <1>8, <1>9, <1>11, <1>12 DEF Fits, Device, Pending, Named, Unpushed
<1>14. Refused(Empty, c, f, server.refuses)
  BY <1>8, <1>9, <1>11, <1>12 DEF Fits, Device, Refused
<1>15. Fits(Empty, c, f)
  BY <1>10, <1>11, <1>12, <1>13, <1>14 DEF Fits, Device
<1>16. Sets(d, Empty, c, f) /\ clients' \subseteq Clients
  BY <1>3, ChangesIs DEF IInv, f
<1>. QED  BY <1>1, <1>15, <1>16, QuietSteps

\* An engine and a bridge that have just been started.
LEMMA NewEngineIs ==
    ASSUME NEW k \in Clients, NEW n \in Nat, NEW U, NEW K
    PROVE  EngineGood(NewEngine(k), n, U, K) /\ ~NewEngine(k).refusal /\ ~NewEngine(k).destroyed
<1>. DEFINE f == NewEngine(k)
<1>1. /\ DOMAIN f = EngineFields /\ f.client = k /\ f.lost = FALSE /\ f.out = Nothing
      /\ f.seen = 0 /\ f.target = 0 /\ f.wire = [i \in ImageIds |-> 0] /\ f.waiting = {}
      /\ f.results = << >> /\ f.fetching = {} /\ f.refusal = FALSE /\ f.destroyed = FALSE
  BY DEF NewEngine, EngineFields
<1>. HIDE DEF f
<1>2. AnswersGood(f.results, K)
  BY <1>1 DEF AnswersGood
<1>3. f.wire \in [ImageIds -> Nat] /\ 0 \in 0..n /\ UpdateGood(Nothing, U, K)
  BY <1>1, NothingIs
<1>4. EngineGood(f, n, U, K)
  BY <1>1, <1>2, <1>3 DEF EngineGood
<1>. QED  BY <1>1, <1>4 DEF f

NewFields == {"pushing", "peeking", "refused", "creating", "dirty", "moved", "due", "uploading",
              "failed", "tries"}
LEMMA NewBridgeIs ==
    ASSUME NEW U, NEW K
    PROVE  LET c == [NewBridge EXCEPT !.moved = {"spaces", "folders", "images"}]
           IN  /\ BridgeGood(c, U, K) /\ c.removedFolders = {} /\ c.removedImages = {}
               /\ c.joining = "no" /\ ~c.pushing /\ ~c.author /\ ~c.refused
               /\ DOMAIN c.creating = {}
               /\ BridgeGood(NewBridge, U, K) /\ NewBridge.removedFolders = {}
               /\ NewBridge.removedImages = {} /\ NewBridge.joining = "no"
               /\ ~NewBridge.pushing /\ ~NewBridge.author /\ ~NewBridge.refused
               /\ DOMAIN NewBridge.creating = {}
<1>. DEFINE own == [pushing |-> FALSE, peeking |-> FALSE, refused |-> FALSE, creating |-> Nothing,
                   dirty |-> FALSE, moved |-> {}, due |-> FALSE,
                   uploading |-> {}, failed |-> {}, tries |-> [i \in ImageIds |-> 0]]
            b == NewBridge
            c == [b EXCEPT !.moved = {"spaces", "folders", "images"}]
<1>1. /\ DOMAIN own = NewFields /\ own.creating = Nothing /\ own.moved = {} /\ own.uploading = {}
      /\ own.failed = {} /\ own.tries = [i \in ImageIds |-> 0]
      /\ own.pushing = FALSE /\ own.refused = FALSE
  BY DEF NewFields
<1>2. /\ DOMAIN NoRuntime = {"has", "replica", "live", "author", "titles", "removedFolders",
                            "removedImages", "joining", "peeked", "known"}
      /\ NoRuntime.replica = EmptyDoc /\ NoRuntime.titles = Nothing /\ NoRuntime.author = FALSE
      /\ NoRuntime.removedFolders = {} /\ NoRuntime.removedImages = {}
      /\ NoRuntime.joining = "no" /\ NoRuntime.known = None
  BY DEF NoRuntime
<1>3. b = Over(NoRuntime, own)
  BY DEF NewBridge
<1>. DEFINE base == NoRuntime
<1>. HIDE DEF own, base, b
<1>4. /\ DOMAIN Over(base, own) = DOMAIN base \cup DOMAIN own
      /\ \A g \in DOMAIN own : Over(base, own)[g] = own[g]
      /\ \A g \in DOMAIN base \ DOMAIN own : Over(base, own)[g] = base[g]
  BY OverIs
<1>5. /\ DOMAIN b = BridgeFields /\ \A g \in NewFields : b[g] = own[g]
      /\ \A g \in BridgeFields \ NewFields : b[g] = NoRuntime[g]
  BY <1>1, <1>2, <1>3, <1>4 DEF base, BridgeFields, NewFields
<1>6. /\ b.replica = EmptyDoc /\ b.titles = Nothing /\ b.removedFolders = {}
      /\ b.removedImages = {} /\ b.joining = "no" /\ b.known = None /\ b.author = FALSE
      /\ b.creating = Nothing /\ b.moved = {} /\ b.uploading = {} /\ b.failed = {}
      /\ b.tries = [i \in ImageIds |-> 0] /\ b.pushing = FALSE /\ b.refused = FALSE
  BY <1>1, <1>2, <1>5 DEF BridgeFields, NewFields
<1>7. \A i \in ImageIds : 0 < MaxAttempts
  BY AttemptsAssumption
<1>8. BridgeGood(b, U, K)
  BY <1>5, <1>6, <1>7, EmptyDocIs, NothingIs DEF BridgeGood
<1>9. /\ c.moved = {"spaces", "folders", "images"} /\ c.replica = b.replica /\ c.titles = b.titles
      /\ c.removedFolders = b.removedFolders /\ c.removedImages = b.removedImages
      /\ c.joining = b.joining /\ c.known = b.known /\ c.creating = b.creating
      /\ c.uploading = b.uploading /\ c.failed = b.failed /\ c.tries = b.tries
      /\ c.author = b.author /\ c.pushing = b.pushing /\ c.refused = b.refused
      /\ DOMAIN c = BridgeFields
  BY <1>5 DEF BridgeFields
<1>. HIDE DEF c
<1>10. BridgeGood(c, U, K)
  BY <1>8, <1>9 DEF BridgeGood, Tables
<1>. QED  BY <1>6, <1>8, <1>9, <1>10, NothingIs DEF b, c

LEMMA RestartSteps ==
    ASSUME IInv, NEW d \in Devices, Restart(d)
    PROVE  IInv'
<1>. DEFINE x == db[d]
            b == bridge[d]
            e == engine[d]
            c == [NewBridge EXCEPT !.moved = {"spaces", "folders", "images"}]
<1>1. /\ Spends /\ UNCHANGED <<server, history>>
      /\ \E k \in Clients : clients' = clients \cup {k} /\ Changes(d, x, c, NewEngine(k))
  BY DEF Restart, Spends
<1>2. /\ Fits(x, b, e) /\ DbGood(x, used, Kept) /\ BridgeGood(b, used, Kept)
      /\ EngineGood(e, Len(server.log), used, Kept) /\ Len(server.log) \in Nat
      /\ DOMAIN x = {"space", "name", "folders", "notes", "images"}
      /\ DOMAIN b = BridgeFields /\ DOMAIN e = EngineFields
  BY GoodIs
<1>3. PICK k \in Clients : clients' = clients \cup {k} /\ Changes(d, x, c, NewEngine(k))
  BY <1>1
<1>. DEFINE f == NewEngine(k)
<1>4. EngineGood(f, Len(server.log), used, Kept) /\ ~f.refusal /\ ~f.destroyed
  BY <1>2, NewEngineIs
<1>. HIDE DEF f
<1>5. Fits(x, b, f)
  BY <1>2, <1>4, EngineFits
<1>6. /\ BridgeGood(c, used, Kept) /\ c.removedFolders = {} /\ c.removedImages = {}
      /\ c.joining = "no" /\ ~c.pushing /\ ~c.author /\ ~c.refused /\ DOMAIN c.creating = {}
  BY NewBridgeIs
<1>. HIDE DEF c
<1>7. /\ Pending(x, c) /\ Named(x, c) /\ Unpushed(x, c, ToPush)
      /\ Refused(x, c, f, server.refuses)
  BY <1>4, <1>5, <1>6 DEF Fits, Device, Pending, Named, Unpushed, Refused
<1>8. Fits(x, c, f)
  BY <1>5, <1>6, <1>7 DEF Fits, Device
<1>9. Sets(d, x, c, f) /\ clients' \subseteq Clients
  BY <1>3, ChangesIs DEF IInv, f
<1>. QED  BY <1>1, <1>8, <1>9, QuietSteps

LEMMA DestroySpaceSteps ==
    ASSUME IInv, NEW d \in Devices, DestroySpace(d)
    PROVE  IInv'
<1>. DEFINE f(m) == IF engine[m].up /\ engine[m].knows
                    THEN [Forgotten(engine[m]) EXCEPT !.destroyed = TRUE]
                    ELSE [engine[m] EXCEPT !.seen = 0, !.target = 0]
<1>1. /\ server.exists /\ server' = [server EXCEPT !.exists = FALSE, !.log = << >>, !.stored = {}]
      /\ engine' = [m \in Devices |-> f(m)]
      /\ UNCHANGED <<db, bridge, used, deleted, intents, clients>> /\ Spends
  BY DEF DestroySpace, Acts, Spends, history
<1>2. StartGood' /\ start'.kinds = start.kinds
  BY <1>1, Spent DEF IInv
<1>3. ~server.refuses /\ ~ToPush /\ server.stored \subseteq ImageIds
  BY <1>1 DEF IInv, ServerGood
<1>4. /\ DOMAIN server' = DOMAIN server /\ server'.exists = FALSE /\ server'.log = << >>
      /\ server'.stored = {} /\ server'.refuses = server.refuses
  BY <1>1 DEF IInv, ServerGood
<1>5. ToPush' = ToPush /\ used' = used
  BY <1>1, <1>2 DEF ToPush
<1>6. Kept \subseteq Kept'
  BY <1>1, <1>3, <1>4, <1>5 DEF Kept
<1>7. Logged(<< >>, used', Kept')
  BY DEF Logged
<1>8. ServerGood'
  BY <1>3, <1>4, <1>5, <1>7 DEF IInv, ServerGood
<1>9. Len(server'.log) = 0
  BY <1>4
<1>. HIDE DEF f
<1>10. ASSUME NEW m \in Devices PROVE Good(m)'
  <2>. DEFINE x == db[m]
              b == bridge[m]
              e == engine[m]
              n == Len(server.log)
              K == Kept'
  <2>1. /\ Fits(x, b, e) /\ DbGood(x, used, Kept) /\ BridgeGood(b, used, Kept)
        /\ EngineGood(e, n, used, Kept) /\ n \in Nat /\ DOMAIN e = EngineFields
    BY GoodIs
  <2>. HIDE DEF x, b, e, n, K
  <2>2. Device(x, b, e, n, used, K, server.refuses, ToPush)
    <3>1. n <= n /\ used \subseteq used /\ Kept \subseteq K
      BY <1>6, <2>1 DEF K
    <3>2. Device(x, b, e, n, used, Kept, server.refuses, ToPush)
      BY <2>1 DEF Fits, n
    <3>. QED  BY <2>1, <3>1, <3>2, Longer
  <2>. DEFINE forgot == Forgotten(e)
              told == [forgot EXCEPT !.destroyed = TRUE]
              back == [e EXCEPT !.seen = 0, !.target = 0]
  <2>3. /\ EngineGood(told, 0, used, K) /\ told.refusal = e.refusal
    <3>1. EngineGood(e, n, used, K)
      BY <2>2 DEF Device
    <3>2. EngineGood(forgot, 0, used, K) /\ forgot.refusal = e.refusal
      BY <2>1, <3>1, ForgottenGood
    <3>3. DOMAIN forgot = EngineFields
      BY <3>2 DEF EngineGood
    <3>. HIDE DEF forgot
    <3>4. /\ told.destroyed = TRUE /\ told.client = forgot.client /\ told.lost = forgot.lost
          /\ told.seen = forgot.seen /\ told.target = forgot.target /\ told.out = forgot.out
          /\ told.wire = forgot.wire /\ told.waiting = forgot.waiting
          /\ told.results = forgot.results /\ told.fetching = forgot.fetching
          /\ told.refusal = forgot.refusal /\ DOMAIN told = EngineFields
      BY <3>3 DEF EngineFields
    <3>. HIDE DEF told
    <3>5. EngineGood(told, 0, used, K)
      BY <3>2, <3>4 DEF EngineGood
    <3>. QED  BY <3>2, <3>4, <3>5
  <2>4. /\ EngineGood(back, 0, used, K) /\ back.refusal = e.refusal
        /\ back.destroyed = e.destroyed
    <3>1. /\ back.seen = 0 /\ back.target = 0 /\ back.client = e.client /\ back.lost = e.lost
          /\ back.out = e.out /\ back.wire = e.wire /\ back.waiting = e.waiting
          /\ back.results = e.results /\ back.fetching = e.fetching /\ back.refusal = e.refusal
          /\ back.destroyed = e.destroyed /\ DOMAIN back = EngineFields
      BY <2>1 DEF EngineFields
    <3>. HIDE DEF back
    <3>2. EngineGood(back, 0, used, K)
      BY <2>2, <3>1 DEF Device, EngineGood
    <3>. QED  BY <3>1, <3>2
  <2>5. f(m) = told \/ f(m) = back
    BY DEF f, e
  <2>. HIDE DEF told, back
  <2>6. /\ EngineGood(f(m), 0, used, K) /\ f(m).refusal = e.refusal
    BY <2>3, <2>4, <2>5
  <2>7. Refused(x, b, f(m), server.refuses)
    BY <1>3, <2>2, <2>6 DEF Device, Refused
  <2>8. Device(x, b, f(m), 0, used, K, server.refuses, ToPush)
    BY <2>2, <2>6, <2>7 DEF Device
  <2>9. db'[m] = x /\ bridge'[m] = b /\ engine'[m] = f(m)
    BY <1>1 DEF x, b
  <2>. QED  BY <1>4, <1>5, <1>9, <2>8, <2>9 DEF Good, K
<1>11. HistoryGood' /\ clients' \subseteq Clients
  BY <1>1 DEF IInv, HistoryGood
<1>12. DOMAIN db' = Devices /\ DOMAIN bridge' = Devices /\ DOMAIN engine' = Devices
  BY <1>1 DEF IInv
<1>. QED  BY <1>2, <1>8, <1>10, <1>11, <1>12 DEF IInv

-----------------------------------------------------------------------------
(* The beginning. *)

LEMMA KeyIds ==
    \A k \in Keys \ {NameKey} : k[2] \in Ids
<1>. SUFFICES ASSUME NEW k \in Keys \ {NameKey} PROVE k[2] \in Ids
  OBVIOUS
<1>1. CASE \E n \in NoteIds : k = NoteKey(n) \/ k = AssignKey(n)
  BY <1>1, KeysAre DEF Ids
<1>2. CASE \E f \in FolderIds : k = FolderKey(f) \/ k = ParentKey(f)
  BY <1>2, KeysAre DEF Ids
<1>3. CASE \E i \in ImageIds : k = ImageKey(i)
  BY <1>3, KeysAre DEF Ids
<1>. QED  BY <1>1, <1>2, <1>3 DEF Keys

\* A device that is connected and has caught up.
LEMMA ReadyIs ==
    ASSUME NEW x, NEW log, NEW U, NEW K, DbGood(x, U, K), Len(log) \in Nat,
           \A j \in 1..Len(log) : UpdateGood(log[j].update, U, K), NEW k \in Clients
    PROVE  LET c == CaughtUp(x, log)
               f == Online(NewEngine(k), log)
           IN  /\ BridgeGood(c, U, K) /\ c.removedFolders = {} /\ c.removedImages = {}
               /\ c.joining = "no" /\ ~c.pushing /\ ~c.refused /\ DOMAIN c.creating = {}
               /\ EngineGood(f, Len(log), U, K) /\ ~f.refusal /\ ~f.destroyed
<1>. DEFINE b == NewBridge
            e == NewEngine(k)
            doc == DocOf(log)
            T == [n \in Mapped(x) |-> doc[NoteKey(n)].value]
            c == CaughtUp(x, log)
            f == Online(e, log)
<1>1. DocGood(doc, U, K)
  BY DocOfGood
<1>2. IsTable(T, NoteIds, Names \cup {None})
  <2>1. \A n \in Mapped(x) : n \in NoteIds
    BY RowsAre DEF Mapped, DbGood
  <2>. HIDE DEF doc
  <2>2. \A n \in Mapped(x) : doc[NoteKey(n)].value \in Names \cup {None}
    BY <1>1, <2>1, ValueIs, KeysAre
  <2>. QED  BY <2>1, <2>2 DEF IsTable
<1>3. /\ BridgeGood(b, U, K) /\ b.removedFolders = {} /\ b.removedImages = {} /\ b.joining = "no"
      /\ ~b.pushing /\ ~b.author /\ ~b.refused /\ DOMAIN b.creating = {}
  BY NewBridgeIs
<1>4. EngineGood(e, Len(log), U, K) /\ ~e.refusal /\ ~e.destroyed
  BY NewEngineIs
<1>5. c = [b EXCEPT !.has = TRUE, !.replica = doc, !.live = TRUE,
                    !.author = doc[NameKey].value # None, !.titles = T]
  BY DEF CaughtUp
<1>6. f = [e EXCEPT !.up = TRUE, !.knows = TRUE, !.open = TRUE, !.seen = Len(log),
                    !.target = Len(log)]
  BY DEF Online
<1>. HIDE DEF b, e, doc, T, c, f
<1>7. DOMAIN b = BridgeFields /\ DOMAIN e = EngineFields
  BY <1>3, <1>4 DEF BridgeGood, EngineGood
<1>8. /\ c.replica = doc /\ c.titles = T /\ c.author = (doc[NameKey].value # None)
      /\ c.removedFolders = b.removedFolders /\ c.removedImages = b.removedImages
      /\ c.joining = b.joining /\ c.known = b.known /\ c.moved = b.moved
      /\ c.creating = b.creating /\ c.uploading = b.uploading /\ c.failed = b.failed
      /\ c.tries = b.tries /\ c.pushing = b.pushing /\ c.refused = b.refused
      /\ DOMAIN c = BridgeFields
  BY <1>5, <1>7 DEF BridgeFields
<1>9. /\ f.seen = Len(log) /\ f.target = Len(log) /\ f.client = e.client /\ f.lost = e.lost
      /\ f.out = e.out /\ f.wire = e.wire /\ f.waiting = e.waiting /\ f.results = e.results
      /\ f.fetching = e.fetching /\ f.refusal = e.refusal /\ f.destroyed = e.destroyed
      /\ DOMAIN f = EngineFields
  BY <1>6, <1>7 DEF EngineFields
<1>10. BridgeGood(c, U, K)
  BY <1>1, <1>2, <1>3, <1>8 DEF BridgeGood
<1>11. EngineGood(f, Len(log), U, K)
  BY <1>4, <1>9 DEF EngineGood
<1>. QED  BY <1>3, <1>4, <1>8, <1>9, <1>10, <1>11 DEF c, e, f

LEMMA InitIs ==
    ASSUME Init
    PROVE  IInv
<1>1. PICK s \in Starts, client \in [Devices -> Clients] :
        /\ start = [kinds |-> s.kinds, ops |-> s.ops, drops |-> s.drops,
                    restarts |-> s.restarts, late |-> s.late, big |-> s.big]
        /\ clients = {client[d] : d \in Devices}
        /\ db = s.db /\ server = s.server
        /\ bridge = [d \in Devices |->
              IF d \in s.ready THEN CaughtUp(s.db[d], s.server.log)
              ELSE [NewBridge EXCEPT !.moved = {"spaces", "folders", "images"}]]
        /\ engine = [d \in Devices |->
              IF d \in s.ready THEN Online(NewEngine(client[d]), s.server.log)
              ELSE NewEngine(client[d])]
        /\ used = (UNION {DOMAIN s.db[d].folders \cup DOMAIN s.db[d].notes
                            \cup DOMAIN s.db[d].images : d \in Devices})
                   \cup {k[2] : k \in (UNION {DOMAIN s.server.log[i].update :
                                                i \in DOMAIN s.server.log}) \ {NameKey}}
        /\ deleted = Removals(s.server.log) /\ intents = Nothing
  BY DEF Init
<1>2. IsStart(s)
  BY StartsAssumption
<1>3. StartGood /\ start.kinds = s.kinds
  BY <1>1, <1>2 DEF StartGood, IsStart
<1>4. clients \subseteq Clients
  BY <1>1
<1>5. /\ DOMAIN db = Devices /\ DOMAIN bridge = Devices /\ DOMAIN engine = Devices
      /\ \A d \in Devices : IsDb(db[d])
  BY <1>1, <1>2 DEF IsStart
<1>6. /\ server.log \in Seq({server.log[j] : j \in DOMAIN server.log})
      /\ \A j \in DOMAIN server.log :
            IsUpdate(server.log[j].update) /\ server.log[j].lost \in BOOLEAN
      /\ DOMAIN server = {"exists", "refuses", "log", "stored"}
      /\ server.exists \in BOOLEAN /\ server.refuses \in BOOLEAN /\ server.stored \subseteq ImageIds
  BY <1>1, <1>2 DEF IsStart, IsServer
<1>7. Len(server.log) \in Nat /\ DOMAIN server.log = 1..Len(server.log)
  BY <1>6
<1>8. /\ IsSettled(s) /\ s.db = db /\ s.server = server
  BY <1>1, <1>2 DEF IsStart
<1>9. ToPush <=> "push" \in s.kinds
  BY <1>1, <1>3, NothingIs DEF ToPush
<1>10. server.stored \subseteq Kept
  BY <1>6 DEF Kept
<1>. DEFINE Rows(d) == DOMAIN s.db[d].folders \cup DOMAIN s.db[d].notes \cup DOMAIN s.db[d].images
            Listing == (UNION {DOMAIN s.server.log[j].update : j \in DOMAIN s.server.log}) \ {NameKey}
            AllRows == UNION {Rows(d) : d \in Devices}
            AllIds == {k[2] : k \in Listing}
<1>a. used = AllRows \cup AllIds
  BY <1>1, Zenon
<1>b. \A d \in Devices : Rows(d) \subseteq AllRows
  OBVIOUS
<1>c. \A j \in DOMAIN s.server.log : DOMAIN s.server.log[j].update \ {NameKey} \subseteq Listing
  OBVIOUS
<1>d. \A x \in AllRows : \E d \in Devices : x \in Rows(d)
  OBVIOUS
<1>e. \A k \in Listing :
        \E j \in DOMAIN s.server.log : k \in DOMAIN s.server.log[j].update \ {NameKey}
  OBVIOUS
<1>. HIDE DEF AllRows, Listing
<1>f. \A k \in Listing : k[2] \in AllIds
  OBVIOUS
<1>g. \A x \in AllIds : \E k \in Listing : x = k[2]
  OBVIOUS
<1>. HIDE DEF AllIds
<1>11. /\ \A d \in Devices : /\ DOMAIN db[d].folders \subseteq used
                             /\ DOMAIN db[d].images \subseteq used
       /\ \A j \in DOMAIN server.log : \A k \in DOMAIN server.log[j].update \ {NameKey} : k[2] \in used
  <2>1. \A d \in Devices : /\ DOMAIN db[d].folders \subseteq used
                           /\ DOMAIN db[d].images \subseteq used
    BY <1>8, <1>a, <1>b
  <2>2. \A j \in DOMAIN server.log : \A k \in DOMAIN server.log[j].update \ {NameKey} : k[2] \in used
    <3>. HIDE DEF Rows
    <3>. QED  BY <1>8, <1>a, <1>c, <1>f
  <2>. QED  BY <2>1, <2>2
<1>12. HistoryGood
  <2>1. \A d \in Devices : /\ DOMAIN db[d].folders \subseteq Ids /\ DOMAIN db[d].notes \subseteq Ids
                           /\ DOMAIN db[d].images \subseteq Ids
    BY <1>5, RowsAre DEF Ids
  <2>2. \A j \in DOMAIN server.log :
            \A k \in DOMAIN server.log[j].update \ {NameKey} : k[2] \in Ids
    BY <1>6, KeyIds DEF IsUpdate
  <2>3. AllRows \subseteq Ids
    BY <1>8, <1>d, <2>1
  <2>4. AllIds \subseteq Ids
    BY <1>8, <1>g, <1>e, <2>2
  <2>5. used \subseteq Ids
    BY <1>a, <2>3, <2>4
  <2>6. deleted \subseteq ImageIds
    BY <1>1 DEF Removals
  <2>. QED  BY <1>1, <2>5, <2>6, NothingIs DEF HistoryGood, Ids
<1>13. ASSUME NEW j \in DOMAIN server.log PROVE UpdateGood(server.log[j].update, used, Kept)
  <2>. DEFINE u == server.log[j].update
  <2>1. \A f \in FolderIds : FolderKey(f) # NameKey /\ FolderKey(f)[2] = f
    BY KeysAre
  <2>2. \A i \in ImageIds : ImageKey(i) # NameKey /\ ImageKey(i)[2] = i
    BY KeysAre
  <2>3. IdsOf(u, used)
    BY <1>11, <2>1, <2>2 DEF IdsOf
  <2>4. ListsKept(u, Kept)
    BY <1>8, <1>10 DEF IsSettled, ListsKept
  <2>5. NotPlaceholder(u)
    BY <1>8 DEF IsSettled, NotPlaceholder
  <2>. QED  BY <1>6, <2>3, <2>4, <2>5 DEF UpdateGood
<1>14. ServerGood
  <2>1. Logged(server.log, used, Kept)
    BY <1>6, <1>13 DEF Logged
  <2>2. server.exists => ~server.refuses /\ ~ToPush
    BY <1>8, <1>9 DEF IsSettled
  <2>. QED  BY <1>6, <2>1, <2>2 DEF ServerGood
<1>15. ASSUME NEW d \in Devices PROVE Good(d)
  <2>. DEFINE x == db[d]
              n == Len(server.log)
              b == bridge[d]
              e == engine[d]
  <2>1. /\ x.space = "absent" => x.folders = Nothing /\ x.notes = Nothing /\ x.images = Nothing
        /\ x.space = "local" => x.name \in Names /\ \A m \in DOMAIN x.notes : ~x.notes[m].mapped
        /\ x.space = "mapped" => "push" \notin s.kinds
        /\ d \in s.ready => x.name # Placeholder
        /\ \A i \in DOMAIN x.images : x.images[i].push \/ i \in server.stored
    BY <1>8 DEF IsSettled
  <2>2. DbGood(x, used, Kept)
    BY <1>5, <1>10, <1>11, <2>1, NothingIs DEF DbGood
  <2>3. x.space # "mapped" => Mapped(x) = {}
    BY <1>5, <2>1, NothingIs DEF Mapped, IsDb
  <2>4. d \in s.ready => x.space = "mapped"
    BY <1>2, <1>8 DEF IsStart
  <2>5. client[d] \in Clients
    OBVIOUS
  <2>6. /\ BridgeGood(b, used, Kept) /\ EngineGood(e, n, used, Kept)
        /\ b.removedFolders = {} /\ b.removedImages = {} /\ b.joining = "no" /\ ~b.pushing
        /\ ~b.refused /\ DOMAIN b.creating = {} /\ ~e.refusal /\ ~e.destroyed
        /\ d \in s.ready \/ ~b.author
    <3>1. CASE d \in s.ready
      <4>. DEFINE cc == CaughtUp(x, server.log)
                  ff == Online(NewEngine(client[d]), server.log)
      <4>1. b = cc /\ e = ff
        BY <1>1, <3>1
      <4>2. /\ BridgeGood(cc, used, Kept) /\ cc.removedFolders = {} /\ cc.removedImages = {}
            /\ cc.joining = "no" /\ ~cc.pushing /\ ~cc.refused /\ DOMAIN cc.creating = {}
            /\ EngineGood(ff, n, used, Kept) /\ ~ff.refusal /\ ~ff.destroyed
        BY <1>7, <1>13, <2>2, <2>5, ReadyIs
      <4>. HIDE DEF cc, ff
      <4>. QED  BY <3>1, <4>1, <4>2
    <3>2. CASE d \notin s.ready
      <4>. DEFINE cc == [NewBridge EXCEPT !.moved = {"spaces", "folders", "images"}]
                  ff == NewEngine(client[d])
      <4>1. b = cc /\ e = ff
        BY <1>1, <3>2
      <4>2. /\ BridgeGood(cc, used, Kept) /\ cc.removedFolders = {} /\ cc.removedImages = {}
            /\ cc.joining = "no" /\ ~cc.pushing /\ ~cc.author /\ ~cc.refused
            /\ DOMAIN cc.creating = {}
        BY NewBridgeIs
      <4>3. EngineGood(ff, n, used, Kept) /\ ~ff.refusal /\ ~ff.destroyed
        BY <1>7, <2>5, NewEngineIs
      <4>. HIDE DEF cc, ff
      <4>. QED  BY <4>1, <4>2, <4>3
    <3>. QED  BY <3>1, <3>2
  <2>. HIDE DEF x, b, e, n
  <2>7. Pending(x, b) /\ Named(x, b)
    BY <2>1, <2>4, <2>6 DEF Pending, Named
  <2>8. Unpushed(x, b, ToPush)
    BY <1>9, <2>1, <2>6 DEF Unpushed
  <2>9. Refused(x, b, e, server.refuses)
    BY <2>3, <2>6 DEF Refused
  <2>10. Device(x, b, e, n, used, Kept, server.refuses, ToPush)
    BY <2>2, <2>6, <2>7, <2>8, <2>9 DEF Device
  <2>. QED  BY <2>10 DEF Good, x, b, e, n
<1>. QED  BY <1>3, <1>4, <1>5, <1>12, <1>14, <1>15 DEF IInv

-----------------------------------------------------------------------------
(* The invariant holds. *)

LEMMA EngineKeeps ==
    ASSUME IInv, NEW d \in Devices, EngineSteps(d)
    PROVE  IInv'
<1>1. CASE Connect(d)
  BY <1>1, ConnectSteps
<1>2. CASE Disconnect(d)
  BY <1>2, DisconnectSteps
<1>3. CASE Push(d)
  BY <1>3, PushSteps
<1>4. CASE OpenIndex(d)
  BY <1>4, OpenIndexSteps
<1>5. CASE Refuse(d)
  BY <1>5, RefuseSteps
<1>6. ASSUME NEW n \in DOMAIN bridge[d].creating, MakeDoc(d, n)
      PROVE  IInv'
  BY <1>6, MakeDocSteps
<1>7. ASSUME NEW i \in ImageIds, StoreImage(d, i)
      PROVE  IInv'
  BY <1>7, StoreImageSteps
<1>. QED  BY <1>1, <1>2, <1>3, <1>4, <1>5, <1>6, <1>7 DEF EngineSteps

LEMMA BridgeKeeps ==
    ASSUME IInv, NEW d \in Devices, BridgeSteps(d)
    PROVE  IInv'
<1>1. CASE Deliver(d)
  BY <1>1, DeliverSteps
<1>2. CASE Synced(d)
  BY <1>2, SyncedSteps
<1>3. CASE Idle(d)
  BY <1>3, IdleSteps
<1>4. CASE SpacePushed(d)
  BY <1>4, SpacePushedSteps
<1>5. CASE SpaceJoined(d)
  BY <1>5, SpaceJoinedSteps
<1>6. CASE SpacePeeked(d)
  BY <1>6, SpacePeekedSteps
<1>7. CASE SpaceRejected(d)
  BY <1>7, SpaceRejectedSteps
<1>8. CASE SpaceDeleted(d)
  BY <1>8, SpaceDeletedSteps
<1>9. ASSUME NEW n \in DOMAIN bridge[d].creating, DocCreated(d, n)
      PROVE  IInv'
  BY <1>9, DocCreatedSteps
<1>10. CASE BlobUploaded(d)
  BY <1>10, BlobUploadedSteps
<1>11. ASSUME NEW i \in ImageIds, BlobFetched(d, i)
       PROVE  IInv'
  BY <1>11, BlobFetchedSteps
<1>12. CASE Reconcile(d)
  BY <1>12, ReconcileSteps
<1>. QED  BY <1>1, <1>2, <1>3, <1>4, <1>5, <1>6, <1>7, <1>8, <1>9, <1>10, <1>11, <1>12
          DEF BridgeSteps

LEMMA UserKeeps ==
    ASSUME IInv, NEW d \in Devices, UserSteps(d)
    PROVE  IInv'
<1>1. CASE PushSpace(d)
  BY <1>1, PushSpaceSteps
<1>2. CASE FetchSpace(d)
  BY <1>2, FetchSpaceSteps
<1>3. CASE PeekSpace(d)
  BY <1>3, PeekSpaceSteps
<1>4. CASE ForgetSpace(d)
  BY <1>4, ForgetSpaceSteps
<1>5. CASE DestroySpace(d)
  BY <1>5, DestroySpaceSteps
<1>6. ASSUME NEW name \in Names, RenameSpace(d, name)
      PROVE  IInv'
  BY <1>6, RenameSpaceSteps
<1>7. ASSUME NEW n \in NoteIds, NEW title \in Names, AddNote(d, n, title) \/ RenameNote(d, n, title)
      PROVE  IInv'
  BY <1>7, AddNoteSteps, RenameNoteSteps
<1>8. ASSUME NEW n \in NoteIds, DeleteNote(d, n)
      PROVE  IInv'
  BY <1>8, DeleteNoteSteps
<1>9. ASSUME NEW n \in NoteIds, NEW f \in FolderIds \cup {None}, FileNote(d, n, f)
      PROVE  IInv'
  BY <1>9, FileNoteSteps
<1>10. ASSUME NEW f \in FolderIds, NEW name \in Names, NEW parent \in FolderIds \cup {None},
              AddFolder(d, f, name, parent)
       PROVE  IInv'
  BY <1>10, AddFolderSteps
<1>11. ASSUME NEW f \in FolderIds, NEW name \in Names, RenameFolder(d, f, name)
       PROVE  IInv'
  BY <1>11, RenameFolderSteps
<1>12. ASSUME NEW f \in FolderIds, NEW parent \in FolderIds \cup {None}, MoveFolder(d, f, parent)
       PROVE  IInv'
  BY <1>12, MoveFolderSteps
<1>13. ASSUME NEW f \in FolderIds, DeleteFolder(d, f)
       PROVE  IInv'
  BY <1>13, DeleteFolderSteps
<1>14. ASSUME NEW i \in ImageIds, NEW name \in Names,
              PasteImage(d, i, name) \/ RenameImage(d, i, name)
       PROVE  IInv'
  BY <1>14, PasteImageSteps, RenameImageSteps
<1>15. ASSUME NEW i \in ImageIds, DeleteImage(d, i)
       PROVE  IInv'
  BY <1>15, DeleteImageSteps
<1>. QED  BY <1>1, <1>2, <1>3, <1>4, <1>5, <1>6, <1>7, <1>8, <1>9, <1>10, <1>11, <1>12, <1>13,
             <1>14, <1>15 DEF UserSteps

LEMMA Inductive ==
    IInv /\ [Next]_vars => IInv'
<1>. SUFFICES ASSUME IInv, [Next]_vars PROVE IInv'
  OBVIOUS
<1>1. CASE Next
  BY <1>1, EngineKeeps, BridgeKeeps, UserKeeps, RestartSteps DEF Next
<1>2. CASE UNCHANGED vars
  <2>1. /\ UNCHANGED <<db, bridge, engine, server, start, clients>>
        /\ UNCHANGED <<used, deleted, intents>>
    BY <1>2 DEF vars, history
  <2>2. Kept' = Kept /\ ToPush' = ToPush
    BY <2>1 DEF Kept, ToPush
  <2>3. \A d \in Devices : Good(d)' = Good(d)
    BY <2>1, <2>2 DEF Good
  <2>4. ServerGood' = ServerGood
    BY <2>1, <2>2 DEF ServerGood
  <2>5. StartGood' = StartGood /\ HistoryGood' = HistoryGood
    BY <2>1 DEF StartGood, HistoryGood
  <2>. QED  BY <2>1, <2>3, <2>4, <2>5 DEF IInv
<1>. QED  BY <1>1, <1>2

LEMMA InvHolds == Spec => []IInv
BY InitIs, Inductive, PTL DEF Spec

-----------------------------------------------------------------------------
(* Theorems. *)

LEMMA ServerIs ==
    ASSUME IInv
    PROVE  IsServer(server)
<1>1. /\ DOMAIN server = {"exists", "refuses", "log", "stored"}
      /\ server.exists \in BOOLEAN /\ server.refuses \in BOOLEAN /\ server.stored \subseteq ImageIds
      /\ server.log \in Seq({server.log[j] : j \in DOMAIN server.log})
      /\ \A j \in DOMAIN server.log :
            server.log[j].lost \in BOOLEAN /\ IsUpdate(server.log[j].update)
  BY DEF IInv, ServerGood, Logged, UpdateGood
<1>. QED  BY <1>1 DEF IsServer

\* The database, the replica of the index, the queues of the bridge, those of
\* the engine and the server's log keep their shape on every device: rows are
\* under ids of their table, an item of the index holds a value that its key
\* may have, an upload is tried fewer times than the bridge allows
\* (on_blob_uploaded), and an engine has not read past the end of the log.
THEOREM TypesCorrect == Spec => []TypeOK
<1>1. ASSUME IInv PROVE TypeOK
  <2>1. ASSUME NEW d \in Devices
        PROVE  /\ IsDb(db[d])
               /\ DOMAIN bridge[d] = DOMAIN NewBridge /\ DOMAIN engine[d] = DOMAIN NewEngine(0)
               /\ DOMAIN bridge[d].replica = Keys /\ IsUpdate(bridge[d].replica)
               /\ IsTable(bridge[d].titles, NoteIds, Names \cup {None})
               /\ bridge[d].removedFolders \subseteq FolderIds
               /\ bridge[d].removedImages \subseteq ImageIds
               /\ bridge[d].joining \in {"no", "asked", "hung"}
               /\ bridge[d].known \in Titles /\ bridge[d].moved \subseteq {"spaces", "folders", "images"}
               /\ IsTable(bridge[d].creating, NoteIds, {"asked", "made", "failed"})
               /\ bridge[d].uploading \cup bridge[d].failed \subseteq ImageIds
               /\ \A i \in ImageIds : bridge[d].tries[i] \in Nat /\ bridge[d].tries[i] < MaxAttempts
               /\ engine[d].client \in Clients /\ IsUpdate(engine[d].out)
               /\ engine[d].seen \in 0..Len(server.log) /\ engine[d].target \in 0..Len(server.log)
               /\ engine[d].wire \in [ImageIds -> Nat]
               /\ engine[d].waiting \cup engine[d].fetching \subseteq ImageIds
    <3>1. /\ DbGood(db[d], used, Kept) /\ BridgeGood(bridge[d], used, Kept)
          /\ EngineGood(engine[d], Len(server.log), used, Kept)
      BY <1>1, <2>1 DEF IInv, Good, Device
    <3>2. DOMAIN NewBridge = BridgeFields
      BY NewBridgeIs DEF BridgeGood
    <3>3. DOMAIN NewEngine(0) = EngineFields
      BY DEF NewEngine, EngineFields
    <3>4. /\ DOMAIN bridge[d].replica = Keys /\ IsUpdate(bridge[d].replica)
          /\ IsUpdate(engine[d].out) /\ IsDb(db[d])
      BY <3>1 DEF BridgeGood, EngineGood, DocGood, UpdateGood, DbGood
    <3>5. /\ DOMAIN bridge[d] = DOMAIN NewBridge /\ DOMAIN engine[d] = DOMAIN NewEngine(0)
          /\ IsTable(bridge[d].titles, NoteIds, Names \cup {None})
          /\ bridge[d].removedFolders \subseteq FolderIds
          /\ bridge[d].removedImages \subseteq ImageIds
          /\ bridge[d].joining \in {"no", "asked", "hung"}
          /\ bridge[d].known \in Titles /\ bridge[d].moved \subseteq {"spaces", "folders", "images"}
          /\ IsTable(bridge[d].creating, NoteIds, {"asked", "made", "failed"})
          /\ bridge[d].uploading \cup bridge[d].failed \subseteq ImageIds
      BY <3>1, <3>2, <3>3 DEF BridgeGood, EngineGood, Titles, Tables
    <3>6. \A i \in ImageIds : bridge[d].tries[i] \in Nat /\ bridge[d].tries[i] < MaxAttempts
      BY <3>1 DEF BridgeGood
    <3>7. /\ engine[d].client \in Clients
          /\ engine[d].seen \in 0..Len(server.log) /\ engine[d].target \in 0..Len(server.log)
          /\ engine[d].wire \in [ImageIds -> Nat]
          /\ engine[d].waiting \cup engine[d].fetching \subseteq ImageIds
      BY <3>1 DEF EngineGood
    <3>. QED  BY <3>4, <3>5, <3>6, <3>7
  <2>2. /\ start.kinds \subseteq Kinds /\ {start.ops, start.drops, start.restarts} \subseteq Nat
        /\ clients \subseteq Clients
        /\ used \cup deleted \subseteq FolderIds \cup NoteIds \cup ImageIds
        /\ \A k \in DOMAIN intents : k \in Keys /\ intents[k].by \subseteq Devices
    BY <1>1 DEF IInv, StartGood, HistoryGood
  <2>. QED  BY <1>1, <2>1, <2>2, ServerIs DEF TypeOK
<1>. QED  BY <1>1, InvHolds, PTL

\* Once the bridge has heard that the server refused the space
\* (on_space_rejected), the space is local and none of its notes has a
\* document, whatever answers were on their way when it was refused: those that
\* arrive later are not taken.
THEOREM RefusedStaysLocal == Spec => []RefusedIsLocal
<1>1. ASSUME IInv PROVE RefusedIsLocal
  <2>1. ASSUME NEW d \in Devices, bridge[d].refused
        PROVE  db[d].space # "mapped" /\ Mapped(db[d]) = {}
    BY <1>1, <2>1 DEF IInv, Good, Device, Refused
  <2>. QED  BY <2>1 DEF RefusedIsLocal
<1>. QED  BY <1>1, InvHolds, PTL

\* No inbound pass (sync_index_to_notes, adopt_remote_blobs) brings back a
\* folder or an image that a user has deleted and whose removal the index has
\* not taken yet, whatever the index says meanwhile.
THEOREM RemovalsStayDeleted == Spec => []PendingStaysDeleted
<1>1. ASSUME IInv PROVE PendingStaysDeleted
  BY <1>1 DEF IInv, Good, Device, Pending, PendingStaysDeleted
<1>. QED  BY <1>1, InvHolds, PTL

\* The name a mirror is given until the index has been read (UNTITLED in
\* mirror_space) is in no update that the server has.
THEOREM PlaceholderStaysLocal == Spec => []PlaceholderNeverShared
<1>1. ASSUME IInv PROVE PlaceholderNeverShared
  BY <1>1 DEF IInv, ServerGood, Logged, UpdateGood, NotPlaceholder, PlaceholderNeverShared
<1>. QED  BY <1>1, InvHolds, PTL

\* While the space exists, an image that its index lists and that no user has
\* deleted is stored by the server: an image is listed only when its upload was
\* acknowledged (sync_blobs_to_index), and nothing else lists it again.
THEOREM ListedIsStored == Spec => []AdvertisedIsStored
<1>1. ASSUME IInv PROVE AdvertisedIsStored
  <2>1. SUFFICES ASSUME server.exists,
                        NEW i \in Listed(DocOf(server.log), "image", ImageIds), i \notin deleted
                 PROVE  i \in server.stored
    BY DEF AdvertisedIsStored
  <2>2. /\ \A j \in DOMAIN server.log : UpdateGood(server.log[j].update, used, Kept)
        /\ Len(server.log) \in Nat /\ DOMAIN server.log = 1..Len(server.log)
    <3>1. /\ server.log \in Seq({server.log[j] : j \in DOMAIN server.log})
          /\ \A j \in DOMAIN server.log : UpdateGood(server.log[j].update, used, Kept)
      BY <1>1 DEF IInv, ServerGood, Logged
    <3>. QED  BY <3>1
  <2>3. DocGood(DocOf(server.log), used, Kept)
    BY <2>2, DocOfGood
  <2>4. i \in ImageIds /\ DocOf(server.log)[ImageKey(i)].value # None
    BY DEF Listed, ImageKey
  <2>5. i \in Kept
    BY <2>3, <2>4, KeysAre DEF DocGood, UpdateGood, ListsKept
  <2>. QED  BY <2>1, <2>5 DEF Kept
<1>. QED  BY <1>1, InvHolds, PTL

=============================================================================
