-------------------------- MODULE IndexMergeProofs ---------------------------
(***************************************************************************)
(* The replicas of the index converge, for any number of devices, keys,    *)
(* updates, lost connections and restarts.                                 *)
(*                                                                         *)
(* An item is later than another by a total order on their places (Later), *)
(* so a document covers (Covers) whatever has been merged into it, and     *)
(* among the documents made of the same items there is one that covers     *)
(* them all (DocOfOnly).  That needs that two items at one place are one   *)
(* (Agree): no client writes twice where it has written, since its own     *)
(* replica has gone on from there, and no client comes twice.  The         *)
(* invariant MInv says this of all replicas, queues and the log, and what  *)
(* of the log a replica has got.                                           *)
(*                                                                         *)
(* And what is listed arrives.  The invariant AInv says that an entry of   *)
(* an image goes only when a user deletes it (Sane), and that a device     *)
(* that is live shows every listed image with its content, or is fetching  *)
(* it (Shows), whatever pass, answer or operation came in between.         *)
(***************************************************************************)
EXTENDS IndexBridgeProofs

-----------------------------------------------------------------------------
(* The order of the items under a key. *)

\* A place from which on two paths are alike up to there.
Differs(p, q, i) ==
    /\ i \in Nat \ {0} /\ i <= Len(p) + 1 /\ i <= Len(q) + 1
    /\ \A j \in 1..(i - 1) : p[j] = q[j]
    /\ i <= Len(p) /\ i <= Len(q) => p[i] # q[i]

LEMMA Difference ==
    ASSUME NEW p \in Seq(Nat), NEW q \in Seq(Nat)
    PROVE  \E i \in Nat : Differs(p, q, i)
<1>. DEFINE T == {i \in Nat \ {0} : i > Len(p) \/ i > Len(q) \/ p[i] # q[i]}
<1>1. Len(p) \in Nat /\ Len(q) \in Nat /\ Len(p) + 1 \in T /\ Len(q) + 1 \in T
  OBVIOUS
<1>2. PICK n \in T : \A m \in T : n <= m
  <2>1. T \in SUBSET Nat
    OBVIOUS
  <2>. HIDE DEF T
  <2>. QED  BY <1>1, <2>1, LeastNat
<1>3. n \in Nat \ {0} /\ n <= Len(p) + 1 /\ n <= Len(q) + 1
  BY <1>1, <1>2
<1>4. ASSUME NEW j \in 1..(n - 1) PROVE p[j] = q[j]
  <2>1. j \in Nat \ {0} /\ j < n
    BY <1>3
  <2>2. j \notin T
    <3>. HIDE DEF T
    <3>. QED  BY <1>2, <1>3, <2>1
  <2>. QED  BY <2>1, <2>2
<1>5. n <= Len(p) /\ n <= Len(q) => p[n] # q[n]
  BY <1>1, <1>2
<1>. QED  BY <1>3, <1>4, <1>5 DEF Differs

\* What decides is the first place at which they differ.
LEMMA LaterIs ==
    ASSUME NEW p \in Seq(Nat), NEW q \in Seq(Nat), NEW i \in Nat, Differs(p, q, i)
    PROVE  /\ Later(p, q) <=> i <= Len(p) /\ (i > Len(q) \/ p[i] > q[i])
           /\ p = q <=> i > Len(p) /\ i > Len(q)
<1>1. Len(p) \in Nat /\ Len(q) \in Nat /\ DOMAIN p = 1..Len(p) /\ DOMAIN q = 1..Len(q)
      /\ \A j \in 1..Len(p) : p[j] \in Nat
  OBVIOUS
<1>2. ASSUME Later(p, q) PROVE i <= Len(p) /\ (i > Len(q) \/ p[i] > q[i])
  <2>1. PICK k \in 1..Len(p) : /\ \A j \in 1..(k - 1) : j <= Len(q) /\ p[j] = q[j]
                               /\ k > Len(q) \/ p[k] > q[k]
    BY <1>2 DEF Later
  <2>2. CASE k < i
    <3>1. k \in 1..(i - 1) /\ k <= Len(q)
      BY <1>1, <2>1, <2>2 DEF Differs
    <3>2. p[k] = q[k] /\ p[k] \in Nat
      BY <1>1, <2>1, <3>1 DEF Differs
    <3>. QED  BY <1>1, <2>1, <3>1, <3>2
  <2>3. CASE i < k
    <3>1. i \in 1..(k - 1)
      BY <2>3 DEF Differs
    <3>. QED  BY <1>1, <2>1, <3>1 DEF Differs
  <2>4. CASE i = k
    BY <1>1, <2>1, <2>4
  <2>. QED  BY <2>1, <2>2, <2>3, <2>4
<1>3. ASSUME i <= Len(p), i > Len(q) \/ p[i] > q[i] PROVE Later(p, q)
  <2>1. i \in 1..Len(p) /\ \A j \in 1..(i - 1) : j <= Len(q) /\ p[j] = q[j]
    BY <1>1, <1>3 DEF Differs
  <2>. QED  BY <1>3, <2>1 DEF Later
<1>4. ASSUME p = q PROVE i > Len(p) /\ i > Len(q)
  BY <1>1, <1>4 DEF Differs
<1>5. ASSUME i > Len(p), i > Len(q) PROVE p = q
  <2>1. Len(p) = i - 1 /\ Len(q) = i - 1
    BY <1>1, <1>5 DEF Differs
  <2>2. \A j \in 1..Len(p) : p[j] = q[j]
    BY <2>1 DEF Differs
  <2>. QED  BY <1>1, <2>1, <2>2
<1>. QED  BY <1>2, <1>3, <1>4, <1>5

LEMMA DiffersTurned ==
    ASSUME NEW p \in Seq(Nat), NEW q \in Seq(Nat), NEW i \in Nat, Differs(p, q, i)
    PROVE  Differs(q, p, i)
BY DEF Differs

\* Of two paths exactly one is the later, or they are one.
LEMMA LaterTotal ==
    ASSUME NEW p \in Seq(Nat), NEW q \in Seq(Nat)
    PROVE  /\ p = q \/ Later(p, q) \/ Later(q, p)
           /\ ~(Later(p, q) /\ Later(q, p))
           /\ ~Later(p, p)
<1>1. PICK i \in Nat : Differs(p, q, i)
  BY Difference
<1>2. /\ Later(p, q) <=> i <= Len(p) /\ (i > Len(q) \/ p[i] > q[i])
      /\ Later(q, p) <=> i <= Len(q) /\ (i > Len(p) \/ q[i] > p[i])
      /\ p = q <=> i > Len(p) /\ i > Len(q)
  BY <1>1, LaterIs, DiffersTurned
<1>3. Len(p) \in Nat /\ Len(q) \in Nat /\ (i <= Len(p) => p[i] \in Nat) /\ (i <= Len(q) => q[i] \in Nat)
  BY <1>1 DEF Differs
<1>4. i <= Len(p) /\ i <= Len(q) => p[i] # q[i]
  BY <1>1 DEF Differs
<1>5. ~Later(p, p)
  <2>1. PICK k \in Nat : Differs(p, p, k)
    BY Difference
  <2>2. k > Len(p)
    BY <2>1, LaterIs
  <2>. QED  BY <2>1, <2>2, <1>3, LaterIs
<1>. QED  BY <1>2, <1>3, <1>4, <1>5

LEMMA LaterTrans ==
    ASSUME NEW p \in Seq(Nat), NEW q \in Seq(Nat), NEW r \in Seq(Nat), Later(p, q), Later(q, r)
    PROVE  Later(p, r)
<1>0. Len(p) \in Nat /\ Len(q) \in Nat /\ Len(r) \in Nat
      /\ (\A j \in 1..Len(p) : p[j] \in Nat) /\ (\A j \in 1..Len(q) : q[j] \in Nat)
      /\ (\A j \in 1..Len(r) : r[j] \in Nat)
  OBVIOUS
<1>1. PICK i \in 1..Len(p) : /\ \A j \in 1..(i - 1) : j <= Len(q) /\ p[j] = q[j]
                             /\ i > Len(q) \/ p[i] > q[i]
  BY DEF Later
<1>2. PICK k \in 1..Len(q) : /\ \A j \in 1..(k - 1) : j <= Len(r) /\ q[j] = r[j]
                             /\ k > Len(r) \/ q[k] > r[k]
  BY DEF Later
<1>3. CASE i <= k
  <2>1. \A j \in 1..(i - 1) : j <= Len(r) /\ p[j] = r[j]
    <3>1. \A j \in 1..(i - 1) : j \in 1..(k - 1)
      BY <1>0, <1>3
    <3>. QED  BY <1>1, <1>2, <3>1
  <2>2. i <= Len(q) /\ p[i] > q[i]
    BY <1>0, <1>1, <1>3
  <2>3. i > Len(r) \/ p[i] > r[i]
    <3>1. CASE i = k
      BY <1>0, <1>1, <1>2, <2>2, <3>1
    <3>2. CASE i < k
      BY <1>0, <1>1, <1>2, <2>2, <3>2
    <3>. QED  BY <1>3, <3>1, <3>2
  <2>. QED  BY <2>1, <2>3 DEF Later
<1>4. CASE k < i
  <2>1. k \in 1..Len(p) /\ k \in 1..(i - 1)
    BY <1>0, <1>4
  <2>2. \A j \in 1..(k - 1) : j <= Len(r) /\ p[j] = r[j]
    <3>1. \A j \in 1..(k - 1) : j \in 1..(i - 1)
      BY <1>0, <1>4
    <3>. QED  BY <1>1, <1>2, <3>1
  <2>3. p[k] = q[k]
    BY <1>1, <2>1
  <2>. QED  BY <1>2, <2>1, <2>2, <2>3 DEF Later
<1>. QED  BY <1>3, <1>4

LEMMA LaterAppend ==
    ASSUME NEW p \in Seq(Nat), NEW c \in Nat
    PROVE  Append(p, c) \in Seq(Nat) /\ Later(Append(p, c), p)
<1>. DEFINE q == Append(p, c)
<1>1. q \in Seq(Nat) /\ Len(q) = Len(p) + 1 /\ Len(p) \in Nat /\ \A j \in 1..Len(p) : q[j] = p[j]
  OBVIOUS
<1>. HIDE DEF q
<1>2. Len(q) \in 1..Len(q) /\ Len(q) > Len(p) /\ \A j \in 1..(Len(q) - 1) : j <= Len(p) /\ q[j] = p[j]
  BY <1>1
<1>3. Later(q, p)
  BY <1>2 DEF Later
<1>. QED  BY <1>1, <1>3 DEF q

-----------------------------------------------------------------------------
(* Items: one covers another when it is what the two make. *)

Item == [path : Seq(Nat), value : UNION {Values(k) : k \in Keys}]
Covers(r, s) == Later(r.path, s.path) \/ (r.path = s.path /\ r.value \in {None, s.value})

LEMMA ItemIs ==
    ASSUME NEW u, IsUpdate(u), NEW k \in DOMAIN u
    PROVE  u[k] \in Item
<1>1. k \in Keys /\ u[k] \in [path : Seq(Nat), value : Values(k)]
  BY DEF IsUpdate
<1>2. Values(k) \subseteq UNION {Values(j) : j \in Keys}
  BY <1>1
<1>. DEFINE V == UNION {Values(j) : j \in Keys}
<1>3. u[k] \in [path : Seq(Nat), value : V]
  <2>. HIDE DEF V
  <2>. QED  BY <1>1, <1>2 DEF V
<1>. QED  BY <1>3 DEF Item

LEMMA EmptyItem ==
    ASSUME NEW k \in Keys
    PROVE  /\ EmptyDoc[k] \in Item /\ EmptyDoc[k].value = None /\ EmptyDoc[k].path = << >>
           /\ \A r : Agree(EmptyDoc[k], r) /\ Agree(r, EmptyDoc[k])
<1>1. EmptyDoc[k].value = None /\ EmptyDoc[k].path = << >> /\ k \in DOMAIN EmptyDoc
  BY DEF EmptyDoc
<1>2. IsUpdate(EmptyDoc)
  BY EmptyDocIs DEF DocGood, UpdateGood
<1>3. EmptyDoc[k] \in Item
  BY <1>1, <1>2, ItemIs
<1>. QED  BY <1>1, <1>3 DEF Agree

LEMMA CoversTrans ==
    ASSUME NEW r \in Item, NEW s \in Item, NEW t \in Item, Covers(r, s), Covers(s, t)
    PROVE  Covers(r, t)
<1>1. r.path \in Seq(Nat) /\ s.path \in Seq(Nat) /\ t.path \in Seq(Nat)
  BY DEF Item
<1>. QED  BY <1>1, LaterTrans DEF Covers

LEMMA CoversBoth ==
    ASSUME NEW r \in Item, NEW s \in Item, Covers(r, s), Covers(s, r)
    PROVE  r = s
<1>1. r.path \in Seq(Nat) /\ s.path \in Seq(Nat)
  BY DEF Item
<1>2. r.path = s.path /\ r.value = s.value
  BY <1>1, LaterTotal DEF Covers
<1>. QED  BY <1>2 DEF Item

LEMMA MergedIs ==
    ASSUME NEW r \in Item, NEW s \in Item
    PROVE  /\ r.path = s.path => Merged(r, s) = IF r.value = None THEN r ELSE s
           /\ r.path # s.path /\ Later(r.path, s.path) => Merged(r, s) = r
           /\ r.path # s.path /\ ~Later(r.path, s.path) => Merged(r, s) = s
<1>1. ASSUME r.path = s.path PROVE Merged(r, s) = IF r.value = None THEN r ELSE s
  <2>1. ~Later(r.path, s.path)
    BY <1>1, LaterTotal DEF Item
  <2>. QED  BY <1>1, <2>1, Zenon DEF Merged
<1>2. ASSUME r.path # s.path, Later(r.path, s.path) PROVE Merged(r, s) = r
  BY <1>2, Zenon DEF Merged
<1>3. ASSUME r.path # s.path, ~Later(r.path, s.path) PROVE Merged(r, s) = s
  BY <1>3, Zenon DEF Merged
<1>. QED  BY <1>1, <1>2, <1>3

LEMMA CoversSelf == \A r : Covers(r, r)
BY DEF Covers

\* Of two items that agree the one that is kept covers both.
LEMMA MergedCovers ==
    ASSUME NEW r \in Item, NEW s \in Item, Agree(r, s)
    PROVE  LET m == Merged(r, s)
           IN  m \in {r, s} /\ Covers(m, r) /\ Covers(m, s)
<1>1. r.path \in Seq(Nat) /\ s.path \in Seq(Nat)
  BY DEF Item
<1>2. r.path = s.path \/ Later(r.path, s.path) \/ Later(s.path, r.path)
  BY <1>1, LaterTotal
<1>3. CASE r.path = s.path
  BY <1>3, MergedIs DEF Covers, Agree
<1>4. CASE r.path # s.path /\ Later(r.path, s.path)
  BY <1>4, MergedIs DEF Covers
<1>5. CASE r.path # s.path /\ ~Later(r.path, s.path)
  BY <1>2, <1>5, MergedIs DEF Covers
<1>. QED  BY <1>3, <1>4, <1>5

\* What covers another is kept of the two.
LEMMA MergedLast ==
    ASSUME NEW r \in Item, NEW s \in Item, Covers(s, r)
    PROVE  Merged(r, s) = s
<1>1. r.path \in Seq(Nat) /\ s.path \in Seq(Nat)
  BY DEF Item
<1>2. CASE r.path = s.path
  <2>1. ~Later(s.path, r.path)
    BY <1>1, <1>2, LaterTotal
  <2>2. r.value = None => r = s
    BY <1>2, <2>1 DEF Covers, Item
  <2>3. Merged(r, s) = IF r.value = None THEN r ELSE s
    BY <1>2, MergedIs
  <2>. QED  BY <2>2, <2>3
<1>3. CASE r.path # s.path
  <2>1. ~Later(r.path, s.path)
    BY <1>1, <1>3, LaterTotal DEF Covers
  <2>. QED  BY <1>3, <2>1, MergedIs
<1>. QED  BY <1>2, <1>3

-----------------------------------------------------------------------------
(* Documents: one covers an update when it covers every item of it. *)

CoversAll(doc, u) == \A k \in DOMAIN u : k \in DOMAIN doc /\ Covers(doc[k], u[k])
AgreeAll(u, v) == \A k \in DOMAIN u \cap DOMAIN v : Agree(u[k], v[k])
IsDoc(u) == IsUpdate(u) /\ DOMAIN u = Keys /\ u = [k \in Keys |-> u[k]]

LEMMA EmptyDocDoc == IsDoc(EmptyDoc) /\ CoversAll(EmptyDoc, EmptyDoc)
<1>1. IsUpdate(EmptyDoc) /\ DOMAIN EmptyDoc = Keys
  BY EmptyDocIs DEF DocGood, UpdateGood
<1>2. EmptyDoc = [k \in Keys |-> EmptyDoc[k]]
  BY DEF EmptyDoc
<1>. QED  BY <1>1, <1>2, CoversSelf DEF IsDoc, CoversAll

LEMMA CoversAllTrans ==
    ASSUME NEW u, IsUpdate(u), NEW v, IsUpdate(v), NEW w, IsUpdate(w),
           CoversAll(u, v), CoversAll(v, w)
    PROVE  CoversAll(u, w)
<1>1. SUFFICES ASSUME NEW k \in DOMAIN w PROVE k \in DOMAIN u /\ Covers(u[k], w[k])
  BY DEF CoversAll
<1>2. k \in DOMAIN u /\ k \in DOMAIN v /\ Covers(u[k], v[k]) /\ Covers(v[k], w[k])
  BY DEF CoversAll
<1>3. u[k] \in Item /\ v[k] \in Item /\ w[k] \in Item
  BY <1>2, ItemIs
<1>. QED  BY <1>2, <1>3, CoversTrans

LEMMA AppliedIs ==
    ASSUME NEW doc, IsDoc(doc), NEW u, IsUpdate(u)
    PROVE  /\ IsDoc(Apply(doc, u))
           /\ \A k \in Keys : Apply(doc, u)[k] = IF k \in DOMAIN u THEN Merged(doc[k], u[k])
                                                 ELSE doc[k]
<1>. DEFINE w == Apply(doc, u)
<1>1. /\ DOMAIN w = DOMAIN doc \cup DOMAIN u
      /\ \A k \in DOMAIN w : \/ k \in DOMAIN doc /\ w[k] = doc[k]
                             \/ k \in DOMAIN u /\ w[k] = u[k]
  BY ApplyIs
<1>2. \A k \in Keys : w[k] = IF k \in DOMAIN u THEN Merged(doc[k], u[k]) ELSE doc[k]
  BY DEF IsDoc, IsUpdate, Apply
<1>. HIDE DEF w
<1>3. DOMAIN u \subseteq Keys /\ DOMAIN doc = Keys
  BY DEF IsDoc, IsUpdate
<1>4. DOMAIN w = Keys /\ w = [k \in Keys |-> w[k]]
  <2>1. DOMAIN doc \cup DOMAIN u = Keys
    BY <1>3
  <2>. QED  BY <2>1 DEF Apply, w
<1>5. \A k \in DOMAIN w : w[k] \in [path : Seq(Nat), value : Values(k)]
  BY <1>1 DEF IsDoc, IsUpdate
<1>. QED  BY <1>2, <1>4, <1>5 DEF IsDoc, IsUpdate, w

\* What an update makes of a document covers both.
LEMMA AppliedCovers ==
    ASSUME NEW doc, IsDoc(doc), NEW u, IsUpdate(u), AgreeAll(doc, u)
    PROVE  CoversAll(Apply(doc, u), doc) /\ CoversAll(Apply(doc, u), u)
<1>. DEFINE w == Apply(doc, u)
<1>1. /\ IsDoc(w)
      /\ \A k \in Keys : w[k] = IF k \in DOMAIN u THEN Merged(doc[k], u[k]) ELSE doc[k]
  BY AppliedIs
<1>. HIDE DEF w
<1>2. ASSUME NEW k \in Keys
      PROVE  Covers(w[k], doc[k]) /\ (k \in DOMAIN u => Covers(w[k], u[k]))
  <2>1. CASE k \in DOMAIN u
    <3>1. doc[k] \in Item /\ u[k] \in Item /\ Agree(doc[k], u[k])
      BY <2>1, ItemIs DEF AgreeAll, IsDoc
    <3>. QED  BY <1>1, <2>1, <3>1, MergedCovers
  <2>2. CASE k \notin DOMAIN u
    BY <1>1, <2>2, CoversSelf
  <2>. QED  BY <2>1, <2>2
<1>3. DOMAIN u \subseteq Keys /\ DOMAIN doc = Keys /\ DOMAIN w = Keys
  BY <1>1 DEF IsDoc, IsUpdate
<1>. QED  BY <1>2, <1>3 DEF CoversAll, w

\* An item of the empty document, or of the log.
MadeOf(log, k) ==
    {EmptyDoc[k]} \cup {log[j].update[k] : j \in {i \in DOMAIN log : k \in DOMAIN log[i].update}}
\* The log holds updates, and its items agree.
Sound(log) ==
    /\ Len(log) \in Nat /\ DOMAIN log = 1..Len(log)
    /\ \A i \in DOMAIN log : IsUpdate(log[i].update)
    /\ \A i, j \in DOMAIN log : AgreeAll(log[i].update, log[j].update)

LEMMA DocOfIsDoc ==
    ASSUME NEW log, Sound(log)
    PROVE  /\ IsDoc(DocOf(log))
           /\ \A k \in Keys : DocOf(log)[k] \in MadeOf(log, k)
           /\ \A i \in DOMAIN log : CoversAll(DocOf(log), log[i].update)
           /\ CoversAll(DocOf(log), EmptyDoc)
<1>. DEFINE P(u, n) == /\ IsDoc(u) /\ \A k \in Keys : u[k] \in MadeOf(log, k)
                       /\ \A i \in 1..n : CoversAll(u, log[i].update)
                       /\ CoversAll(u, EmptyDoc)
<1>1. PICK f : Folds(f, log, Len(log)) /\ DocOf(log) = f[Len(log)]
  BY DocOfIs DEF Sound
<1>2. \A i \in 0..Len(log) : f[i] = IF i = 0 THEN EmptyDoc ELSE Apply(f[i - 1], log[i].update)
  BY <1>1 DEF Folds
<1>3. IsDoc(EmptyDoc) /\ CoversAll(EmptyDoc, EmptyDoc)
  BY EmptyDocDoc
<1>4. P(EmptyDoc, 0)
  BY <1>3 DEF MadeOf
<1>5. ASSUME NEW n \in 1..Len(log), NEW u, P(u, n - 1) PROVE P(Apply(u, log[n].update), n)
  <2>. DEFINE v == log[n].update
              w == Apply(u, v)
  <2>1. IsUpdate(v) /\ n \in DOMAIN log /\ n \in Nat
    BY DEF Sound
  <2>2. AgreeAll(u, v)
    <3>1. SUFFICES ASSUME NEW k \in DOMAIN u \cap DOMAIN v PROVE Agree(u[k], v[k])
      BY DEF AgreeAll
    <3>2. k \in Keys /\ u[k] \in MadeOf(log, k)
      BY <1>5, <3>1 DEF IsDoc
    <3>3. CASE u[k] = EmptyDoc[k]
      BY <3>2, <3>3, EmptyItem
    <3>4. CASE u[k] # EmptyDoc[k]
      <4>1. PICK j \in DOMAIN log : k \in DOMAIN log[j].update /\ u[k] = log[j].update[k]
        BY <3>2, <3>4 DEF MadeOf
      <4>2. AgreeAll(log[j].update, log[n].update)
        BY <2>1 DEF Sound
      <4>. QED  BY <3>1, <4>1, <4>2 DEF AgreeAll
    <3>. QED  BY <3>3, <3>4
  <2>3. CoversAll(w, u) /\ CoversAll(w, v)
    BY <1>5, <2>1, <2>2, AppliedCovers
  <2>4. IsDoc(w) /\ \A k \in Keys : w[k] = IF k \in DOMAIN v THEN Merged(u[k], v[k]) ELSE u[k]
    BY <1>5, <2>1, AppliedIs
  <2>5. ASSUME NEW k \in Keys PROVE w[k] \in MadeOf(log, k)
    <3>1. w[k] = u[k] \/ (k \in DOMAIN v /\ w[k] = v[k])
      <4>1. \A r, s : Merged(r, s) = r \/ Merged(r, s) = s
        BY DEF Merged
      <4>. QED  BY <2>4, <4>1
    <3>. QED  BY <1>5, <2>1, <3>1 DEF MadeOf
  <2>. HIDE DEF w
  <2>6. ASSUME NEW i \in 1..n PROVE CoversAll(w, log[i].update)
    <3>1. CASE i = n
      BY <2>3, <3>1
    <3>2. CASE i # n
      <4>1. i \in 1..(n - 1) /\ IsUpdate(log[i].update)
        BY <2>1, <3>2 DEF Sound
      <4>2. CoversAll(u, log[i].update)
        BY <1>5, <4>1
      <4>. QED  BY <1>5, <2>3, <2>4, <4>1, <4>2, CoversAllTrans DEF IsDoc
    <3>. QED  BY <3>1, <3>2
  <2>7. CoversAll(w, EmptyDoc)
    BY <1>3, <1>5, <2>3, <2>4, CoversAllTrans DEF IsDoc
  <2>. QED  BY <2>4, <2>5, <2>6, <2>7 DEF w
<1>6. Len(log) \in Nat /\ DOMAIN log = 1..Len(log)
  BY DEF Sound
<1>. HIDE DEF P
<1>. DEFINE T == {n \in 0..Len(log) : ~P(f[n], n)}
<1>7. T = {}
  <2>1. SUFFICES ASSUME T # {} PROVE FALSE
    OBVIOUS
  <2>2. PICK n \in T : \A m \in T : n <= m
    <3>1. T \in SUBSET Nat
      OBVIOUS
    <3>. HIDE DEF T
    <3>. QED  BY <2>1, <3>1, LeastNat
  <2>3. n # 0
    BY <1>2, <1>4, <1>6, <2>2
  <2>4. n - 1 \in 0..Len(log) /\ n \in 1..Len(log) /\ P(f[n - 1], n - 1)
    BY <1>6, <2>2, <2>3
  <2>. QED  BY <1>2, <1>5, <2>2, <2>3, <2>4
<1>8. P(DocOf(log), Len(log))
  BY <1>1, <1>6, <1>7
<1>. QED  BY <1>6, <1>8 DEF P

\* A document that covers the log and is made of it is what the log makes.
LEMMA DocOfOnly ==
    ASSUME NEW log, Sound(log), NEW doc, IsDoc(doc), CoversAll(doc, EmptyDoc),
           \A i \in DOMAIN log : CoversAll(doc, log[i].update),
           \A k \in Keys : doc[k] \in MadeOf(log, k)
    PROVE  doc = DocOf(log)
<1>. DEFINE made == DocOf(log)
<1>1. /\ IsDoc(made) /\ CoversAll(made, EmptyDoc)
      /\ \A i \in DOMAIN log : CoversAll(made, log[i].update)
      /\ \A k \in Keys : made[k] \in MadeOf(log, k)
  BY DocOfIsDoc
<1>. HIDE DEF made
<1>2. ASSUME NEW u, NEW v, CoversAll(u, EmptyDoc), \A i \in DOMAIN log : CoversAll(u, log[i].update),
             NEW k \in Keys, v[k] \in MadeOf(log, k)
      PROVE  Covers(u[k], v[k])
  <2>1. k \in DOMAIN EmptyDoc
    BY DEF EmptyDoc
  <2>2. CASE v[k] = EmptyDoc[k]
    BY <1>2, <2>1, <2>2 DEF CoversAll
  <2>3. CASE v[k] # EmptyDoc[k]
    <3>1. PICK j \in DOMAIN log : k \in DOMAIN log[j].update /\ v[k] = log[j].update[k]
      BY <1>2, <2>3 DEF MadeOf
    <3>. QED  BY <1>2, <3>1 DEF CoversAll
  <2>. QED  BY <2>2, <2>3
<1>3. ASSUME NEW k \in Keys PROVE doc[k] = made[k]
  <2>1. Covers(doc[k], made[k]) /\ Covers(made[k], doc[k])
    BY <1>1, <1>2
  <2>2. doc[k] \in Item /\ made[k] \in Item
    BY <1>1, ItemIs DEF IsDoc
  <2>. QED  BY <2>1, <2>2, CoversBoth
<1>4. doc = [k \in Keys |-> doc[k]] /\ made = [k \in Keys |-> made[k]]
  BY <1>1 DEF IsDoc
<1>. QED  BY <1>3, <1>4 DEF made

\* What a log makes of an empty document depends on which updates are in it,
\* not on their order, nor on how often one of them is there: the relay may
\* number concurrent updates as it likes and a client may send one again.
THEOREM OrderIsNothing ==
    ASSUME NEW log, Sound(log), NEW other, Sound(other),
           {log[i].update : i \in DOMAIN log} = {other[j].update : j \in DOMAIN other}
    PROVE  DocOf(log) = DocOf(other)
<1>. DEFINE doc == DocOf(other)
<1>1. /\ IsDoc(doc) /\ CoversAll(doc, EmptyDoc)
      /\ \A j \in DOMAIN other : CoversAll(doc, other[j].update)
      /\ \A k \in Keys : doc[k] \in MadeOf(other, k)
  BY DocOfIsDoc
<1>. HIDE DEF doc
<1>2. \A i \in DOMAIN log : \E j \in DOMAIN other : log[i].update = other[j].update
  OBVIOUS
<1>3. \A j \in DOMAIN other : \E i \in DOMAIN log : log[i].update = other[j].update
  OBVIOUS
<1>4. \A i \in DOMAIN log : CoversAll(doc, log[i].update)
  BY <1>1, <1>2
<1>5. ASSUME NEW k \in Keys PROVE doc[k] \in MadeOf(log, k)
  <2>1. doc[k] = EmptyDoc[k]
            \/ \E j \in DOMAIN other : k \in DOMAIN other[j].update /\ doc[k] = other[j].update[k]
    BY <1>1 DEF MadeOf
  <2>. QED  BY <1>3, <2>1 DEF MadeOf
<1>6. doc = DocOf(log)
  BY <1>1, <1>4, <1>5, DocOfOnly
<1>. QED  BY <1>6 DEF doc

-----------------------------------------------------------------------------
(* The invariant, of what the bridges B and the engines E of the devices   *)
(* hold, of the log L and of the clients C that there have been.           *)

\* The items under a key in a replica, in a queue or in the log.
Around(B, E, L, k) ==
    {B[d].replica[k] : d \in Devices}
    \cup {E[d].out[k] : d \in {m \in Devices : k \in DOMAIN E[m].out}}
    \cup {L[j].update[k] : j \in {i \in DOMAIN L : k \in DOMAIN L[i].update}}

Reaches(p, q) == p = q \/ Later(p, q)
\* Clients come once, and what one has written is behind its own replica: so
\* two items never stand at one place.
ItemsMeet(B, E, L, C, k) ==
    /\ \A r, s \in Around(B, E, L, k) : Agree(r, s)
    /\ \A r \in Around(B, E, L, k) :
        /\ \A i \in DOMAIN r.path : r.path[i] \in Clients => r.path[i] \in C
        /\ \A d \in Devices :
              r.path # << >> /\ r.path[Len(r.path)] = E[d].client
                  => Reaches(B[d].replica[k].path, r.path)
ClientsMeet(E, L, C) ==
    /\ C \subseteq Clients
    /\ \A d \in Devices : E[d].client \in C
    /\ \A d, m \in Devices : E[d].client = E[m].client => d = m
    /\ \A j \in DOMAIN L : L[j].from \in Clients => L[j].from \in C
\* A replica covers its queue, and of the log what has been read and what its
\* own client has written.  Unless a write was dropped it has nothing else.
Follows(doc, e, L) ==
    /\ CoversAll(doc, EmptyDoc) /\ CoversAll(doc, e.out)
    /\ \A j \in DOMAIN L : ~L[j].lost /\ (j <= e.seen \/ L[j].from = e.client)
                              => CoversAll(doc, L[j].update)
    /\ ~e.lost => \A k \in Keys : doc[k] \in MadeOf(L, k) \/ (k \in DOMAIN e.out /\ doc[k] = e.out[k])
Meets(B, E, L, C) ==
    /\ ClientsMeet(E, L, C)
    /\ \A k \in Keys : ItemsMeet(B, E, L, C, k)
    /\ \A d \in Devices : Follows(B[d].replica, E[d], L)

\* The space is there, or is still to be pushed.
Ahead == server.exists \/ ToPush
MInv ==
    /\ \A d \in Devices : IsDoc(bridge[d].replica)
    /\ ToPush => \A d \in Devices : ~engine[d].knows
    /\ Ahead => /\ \A d \in Devices : ~engine[d].refusal /\ ~engine[d].destroyed
                /\ Meets(bridge, engine, server.log, clients)

-----------------------------------------------------------------------------
(* What a client writes. *)

\* An update covers what its author had, and is what the author then has.
LEMMA WroteIs ==
    ASSUME NEW doc, IsDoc(doc), NEW w, IsWant(w), NEW c \in Nat
    PROVE  LET u == Update(doc, w, c)
           IN  /\ IsUpdate(u)
               /\ \A k \in DOMAIN u :
                    /\ k \in Keys /\ u[k] \in Item /\ Covers(u[k], doc[k])
                    /\ \/ u[k].path = doc[k].path /\ u[k].value = None
                       \/ u[k].path = Append(doc[k].path, c)
                    /\ Apply(doc, u)[k] = u[k]
               /\ \A k \in Keys \ DOMAIN u : Apply(doc, u)[k] = doc[k]
<1>. DEFINE u == Update(doc, w, c)
<1>1. IsUpdate(u) /\ DOMAIN u \subseteq DOMAIN w
  BY UpdateIs DEF IsDoc
<1>2. \A k \in Keys : Apply(doc, u)[k] = IF k \in DOMAIN u THEN Merged(doc[k], u[k]) ELSE doc[k]
  BY <1>1, AppliedIs
<1>3. \A k \in DOMAIN u : u[k] = IF w[k] = None THEN [doc[k] EXCEPT !.value = None]
                                 ELSE [path |-> Append(doc[k].path, c), value |-> w[k]]
  BY DEF Update
<1>. HIDE DEF u
<1>4. ASSUME NEW k \in DOMAIN u
      PROVE  /\ k \in Keys /\ u[k] \in Item /\ Covers(u[k], doc[k])
             /\ \/ u[k].path = doc[k].path /\ u[k].value = None
                \/ u[k].path = Append(doc[k].path, c)
             /\ Apply(doc, u)[k] = u[k]
  <2>1. k \in Keys /\ u[k] \in Item /\ doc[k] \in Item
    BY <1>1, ItemIs DEF IsDoc, IsUpdate
  <2>2. doc[k].path \in Seq(Nat)
    BY <2>1 DEF Item
  <2>3. Append(doc[k].path, c) \in Seq(Nat) /\ Later(Append(doc[k].path, c), doc[k].path)
    BY <2>2, LaterAppend
  <2>4. \/ u[k].path = doc[k].path /\ u[k].value = None
        \/ u[k].path = Append(doc[k].path, c)
    <3>1. CASE w[k] = None
      <4>1. u[k] = [doc[k] EXCEPT !.value = None]
        BY <1>3, <3>1
      <4>. QED  BY <2>1, <4>1 DEF Item
    <3>2. CASE w[k] # None
      <4>1. u[k] = [path |-> Append(doc[k].path, c), value |-> w[k]]
        BY <1>3, <3>2
      <4>. QED  BY <4>1
    <3>. QED  BY <3>1, <3>2
  <2>5. Covers(u[k], doc[k])
    BY <2>3, <2>4 DEF Covers
  <2>. QED  BY <1>2, <2>1, <2>4, <2>5, MergedLast
<1>. QED  BY <1>1, <1>2, <1>4 DEF u

-----------------------------------------------------------------------------
(* The items after a step. *)

Typed(B, E, L) ==
    /\ \A d \in Devices : /\ IsDoc(B[d].replica) /\ IsUpdate(E[d].out)
                          /\ E[d].client \in Clients /\ E[d].seen \in 0..Len(L)
    /\ Len(L) \in Nat /\ DOMAIN L = 1..Len(L) /\ \A j \in DOMAIN L : IsUpdate(L[j].update)

LEMMA AroundIs ==
    ASSUME NEW B, NEW E, NEW L, Typed(B, E, L), NEW k \in Keys
    PROVE  Around(B, E, L, k) \subseteq Item
<1>1. \A d \in Devices : B[d].replica[k] \in Item
  BY ItemIs DEF Typed, IsDoc
<1>2. \A d \in Devices : k \in DOMAIN E[d].out => E[d].out[k] \in Item
  BY ItemIs DEF Typed
<1>3. \A j \in DOMAIN L : k \in DOMAIN L[j].update => L[j].update[k] \in Item
  BY ItemIs DEF Typed
<1>. QED  BY <1>1, <1>2, <1>3 DEF Around

LEMMA ReachesTrans ==
    ASSUME NEW p \in Seq(Nat), NEW q \in Seq(Nat), NEW r \in Seq(Nat), Reaches(p, q), Reaches(q, r)
    PROVE  Reaches(p, r)
BY LaterTrans DEF Reaches

\* Nothing was written, and every replica reaches as far as before or has a
\* client that is new.
LEMMA ItemsKept ==
    ASSUME NEW B, NEW E, NEW L, NEW C, NEW B2, NEW E2, NEW L2, NEW C2, NEW k \in Keys,
           Typed(B, E, L), Typed(B2, E2, L2), ItemsMeet(B, E, L, C, k), C \subseteq C2,
           Around(B2, E2, L2, k) \subseteq Around(B, E, L, k) \cup {EmptyDoc[k]},
           \A d \in Devices :
              \/ E2[d].client = E[d].client /\ Reaches(B2[d].replica[k].path, B[d].replica[k].path)
              \/ E2[d].client \notin C
    PROVE  ItemsMeet(B2, E2, L2, C2, k)
<1>. DEFINE A == Around(B, E, L, k)
            A2 == Around(B2, E2, L2, k)
<1>1. A \subseteq Item /\ A2 \subseteq Item
  BY AroundIs
<1>2. \A r, s \in A2 : Agree(r, s)
  <2>1. \A r, s \in A : Agree(r, s)
    BY DEF ItemsMeet
  <2>. HIDE DEF A, A2
  <2>2. A2 \subseteq A \cup {EmptyDoc[k]}
    BY DEF A, A2
  <2>. QED  BY <2>1, <2>2, EmptyItem
<1>3. ASSUME NEW r \in A2
      PROVE  /\ \A i \in DOMAIN r.path : r.path[i] \in Clients => r.path[i] \in C2
             /\ \A d \in Devices :
                   r.path # << >> /\ r.path[Len(r.path)] = E2[d].client
                       => Reaches(B2[d].replica[k].path, r.path)
  <2>1. CASE r = EmptyDoc[k]
    <3>1. r.path = << >>
      BY <2>1, EmptyItem
    <3>. QED  BY <3>1
  <2>2. CASE r \in A
    <3>1. /\ \A i \in DOMAIN r.path : r.path[i] \in Clients => r.path[i] \in C
          /\ \A d \in Devices :
                r.path # << >> /\ r.path[Len(r.path)] = E[d].client
                    => Reaches(B[d].replica[k].path, r.path)
      BY <2>2 DEF ItemsMeet
    <3>2. ASSUME NEW d \in Devices, r.path # << >>, r.path[Len(r.path)] = E2[d].client
          PROVE  Reaches(B2[d].replica[k].path, r.path)
      <4>1. r.path \in Seq(Nat)
        BY <1>1 DEF Item
      <4>2. Len(r.path) \in DOMAIN r.path
        BY <3>2, <4>1
      <4>3. E2[d].client \in Clients
        BY DEF Typed
      <4>4. E2[d].client \in C
        BY <3>1, <3>2, <4>2, <4>3
      <4>5. Reaches(B[d].replica[k].path, r.path) /\ Reaches(B2[d].replica[k].path, B[d].replica[k].path)
        BY <3>1, <3>2, <4>4
      <4>6. B[d].replica[k].path \in Seq(Nat) /\ B2[d].replica[k].path \in Seq(Nat)
        BY ItemIs DEF Typed, IsDoc, Item
      <4>. QED  BY <4>1, <4>5, <4>6, ReachesTrans
    <3>. QED  BY <3>1, <3>2
  <2>. QED  BY <2>1, <2>2
<1>. QED  BY <1>2, <1>3 DEF ItemsMeet

\* Device a has written item v: it takes its own away or follows it.
LEMMA ItemsWritten ==
    ASSUME NEW B, NEW E, NEW L, NEW C, NEW B2, NEW E2, NEW L2, NEW k \in Keys,
           Typed(B, E, L), Typed(B2, E2, L2), ItemsMeet(B, E, L, C, k), ClientsMeet(E, L, C),
           NEW a \in Devices, NEW v \in Item, B2[a].replica[k] = v,
           \/ v.path = B[a].replica[k].path /\ v.value = None
           \/ v.path = Append(B[a].replica[k].path, E[a].client),
           \A d \in Devices : E2[d].client = E[d].client,
           \A d \in Devices \ {a} : B2[d].replica[k] = B[d].replica[k],
           Around(B2, E2, L2, k) \subseteq Around(B, E, L, k) \cup {v}
    PROVE  ItemsMeet(B2, E2, L2, C, k)
<1>. DEFINE A == Around(B, E, L, k)
            A2 == Around(B2, E2, L2, k)
            own == B[a].replica[k]
            c == E[a].client
<1>1. A \subseteq Item /\ A2 \subseteq Item /\ own \in A /\ own.path \in Seq(Nat)
      /\ c \in Nat /\ c \in C /\ v.path \in Seq(Nat)
  <2>1. A \subseteq Item /\ A2 \subseteq Item /\ own \in A
    BY AroundIs DEF Around
  <2>2. c \in C /\ c \in Clients
    BY DEF ClientsMeet, Typed
  <2>3. \A i \in Item : i.path \in Seq(Nat)
    BY DEF Item
  <2>. QED  BY <2>1, <2>2, <2>3, ClientsAssumption
<1>2. Reaches(v.path, own.path)
  BY <1>1, LaterAppend DEF Reaches
<1>3. A2 \subseteq A \cup {v}
  OBVIOUS
<1>4. /\ \A r, s \in A : Agree(r, s)
      /\ \A r \in A :
        /\ \A i \in DOMAIN r.path : r.path[i] \in Clients => r.path[i] \in C
        /\ \A d \in Devices :
              r.path # << >> /\ r.path[Len(r.path)] = E[d].client
                  => Reaches(B[d].replica[k].path, r.path)
  BY DEF ItemsMeet
<1>5. \A d \in Devices : E[d].client = c => d = a
  BY DEF ClientsMeet
<1>. HIDE DEF A, A2
<1>6. ASSUME NEW r \in A PROVE Agree(r, v) /\ Agree(v, r)
  <2>1. CASE v.value = None
    BY <2>1 DEF Agree
  <2>2. CASE v.path = Append(own.path, c)
    <3>1. v.path # << >> /\ v.path[Len(v.path)] = c
      <4>. DEFINE p == own.path
      <4>1. p \in Seq(Nat) /\ v.path = Append(p, c)
        BY <1>1, <2>2
      <4>. HIDE DEF p
      <4>. QED  BY <4>1, <1>1
    <3>2. ASSUME r.path = v.path PROVE FALSE
      <4>1. Reaches(own.path, v.path)
        BY <1>4, <3>1, <3>2
      <4>2. Later(v.path, own.path)
        BY <1>1, <2>2, LaterAppend
      <4>. QED  BY <1>1, <4>1, <4>2, LaterTotal DEF Reaches
    <3>. QED  BY <3>2 DEF Agree
  <2>. QED  BY <2>1, <2>2
<1>7. \A r, s \in A2 : Agree(r, s)
  <2>1. Agree(v, v)
    BY DEF Agree
  <2>. QED  BY <1>3, <1>4, <1>6, <2>1
<1>8. ASSUME NEW d \in Devices
      PROVE  Reaches(B2[d].replica[k].path, B[d].replica[k].path)
  BY <1>2 DEF Reaches
<1>9. ASSUME NEW r \in A2, NEW i \in DOMAIN r.path, r.path[i] \in Clients
      PROVE  r.path[i] \in C
  <2>1. CASE r \in A
    BY <1>4, <1>9, <2>1
  <2>2. CASE r = v /\ v.path = own.path
    BY <1>1, <1>4, <1>9, <2>2
  <2>3. CASE r = v /\ v.path = Append(own.path, c)
    <3>1. (i \in DOMAIN own.path /\ r.path[i] = own.path[i]) \/ r.path[i] = c
      <4>. DEFINE p == own.path
                  q == r.path
      <4>1. p \in Seq(Nat) /\ q = Append(p, c) /\ i \in DOMAIN q
        BY <1>1, <1>9, <2>3
      <4>. HIDE DEF p, q
      <4>2. (i \in DOMAIN p /\ q[i] = p[i]) \/ q[i] = c
        BY <4>1, <1>1
      <4>. QED  BY <4>2 DEF p, q
    <3>. QED  BY <1>1, <1>4, <1>9, <3>1
  <2>. QED  BY <1>3, <2>1, <2>2, <2>3
<1>10. ASSUME NEW r \in A2, NEW d \in Devices, r.path # << >>, r.path[Len(r.path)] = E2[d].client
       PROVE  Reaches(B2[d].replica[k].path, r.path)
  <2>1. /\ B[d].replica[k].path \in Seq(Nat) /\ B2[d].replica[k].path \in Seq(Nat)
        /\ r.path \in Seq(Nat)
    BY <1>1, ItemIs DEF Typed, IsDoc, Item
  <2>2. CASE r \in A
    <3>1. Reaches(B[d].replica[k].path, r.path)
      BY <1>4, <1>10, <2>2
    <3>. QED  BY <1>8, <2>1, <3>1, ReachesTrans
  <2>3. CASE r = v /\ v.path = own.path
    <3>1. Reaches(B[d].replica[k].path, r.path)
      BY <1>1, <1>4, <1>10, <2>3
    <3>. QED  BY <1>8, <2>1, <3>1, ReachesTrans
  <2>4. CASE r = v /\ v.path = Append(own.path, c)
    <3>1. v.path[Len(v.path)] = c
      <4>. DEFINE p == own.path
      <4>1. p \in Seq(Nat) /\ v.path = Append(p, c)
        BY <1>1, <2>4
      <4>. HIDE DEF p
      <4>. QED  BY <4>1, <1>1
    <3>2. d = a
      BY <1>5, <1>10, <2>4, <3>1
    <3>. QED  BY <2>4, <3>2 DEF Reaches
  <2>. QED  BY <1>3, <2>2, <2>3, <2>4
<1>. QED  BY <1>7, <1>9, <1>10 DEF ItemsMeet, A2

-----------------------------------------------------------------------------
(* Steps of the replicas, the queues and the log. *)

Same(e, f) == f.client = e.client /\ f.out = e.out /\ f.lost = e.lost
\* What is skipped in the log is the client's own or cannot be integrated.
Reads(e, i, j, L) == \A n \in DOMAIN L : i < n /\ n <= j => L[n].from = e.client \/ L[n].lost

LEMMA FollowsOn ==
    ASSUME NEW doc, NEW e, NEW f, NEW L, Follows(doc, e, L), Same(e, f), DOMAIN L \subseteq Nat,
           e.seen \in Nat, f.seen \in Nat, Reads(e, e.seen, f.seen, L)
    PROVE  Follows(doc, f, L)
<1>1. ASSUME NEW j \in DOMAIN L, ~L[j].lost, j <= f.seen \/ L[j].from = f.client
      PROVE  CoversAll(doc, L[j].update)
  <2>1. j <= e.seen \/ L[j].from = e.client
    BY <1>1 DEF Same, Reads
  <2>. QED  BY <1>1, <2>1 DEF Follows
<1>. QED  BY <1>1 DEF Follows, Same

\* Nothing is read that matters.
LEMMA QuietMeets ==
    ASSUME NEW B, NEW E, NEW L, NEW C, NEW B2, NEW E2, Meets(B, E, L, C),
           Typed(B, E, L), Typed(B2, E2, L),
           \A d \in Devices : /\ B2[d].replica = B[d].replica /\ Same(E[d], E2[d])
                              /\ Reads(E[d], E[d].seen, E2[d].seen, L)
    PROVE  Meets(B2, E2, L, C)
<1>1. \A k : Around(B2, E2, L, k) = Around(B, E, L, k)
  BY DEF Around, Same
<1>2. ASSUME NEW k \in Keys PROVE ItemsMeet(B2, E2, L, C, k)
  <2>1. \A d \in Devices : E2[d].client = E[d].client
                           /\ Reaches(B2[d].replica[k].path, B[d].replica[k].path)
    BY DEF Same, Reaches
  <2>2. ItemsMeet(B, E, L, C, k)
    BY DEF Meets
  <2>. QED  BY <1>1, <2>1, <2>2, ItemsKept
<1>3. ClientsMeet(E2, L, C)
  BY DEF Meets, ClientsMeet, Same
<1>4. ASSUME NEW d \in Devices PROVE Follows(B2[d].replica, E2[d], L)
  <2>1. Follows(B[d].replica, E[d], L) /\ DOMAIN L \subseteq Nat
        /\ E[d].seen \in Nat /\ E2[d].seen \in Nat
    BY DEF Meets, Typed
  <2>. QED  BY <2>1, FollowsOn
<1>. QED  BY <1>2, <1>3, <1>4 DEF Meets

\* Device a reads the next update of the log.
LEMMA DeliveredMeets ==
    ASSUME NEW B, NEW E, NEW L, NEW C, NEW B2, NEW E2, Meets(B, E, L, C),
           Typed(B, E, L), Typed(B2, E2, L), NEW a \in Devices, NEW n \in DOMAIN L,
           n = E[a].seen + 1, B2[a].replica = Apply(B[a].replica, L[n].update),
           Same(E[a], E2[a]), Reads(E[a], n, E2[a].seen, L),
           \A d \in Devices \ {a} : B2[d].replica = B[d].replica /\ E2[d] = E[d]
    PROVE  Meets(B2, E2, L, C)
<1>. DEFINE doc == B[a].replica
            u == L[n].update
            new == B2[a].replica
<1>1. IsDoc(doc) /\ IsUpdate(u) /\ IsDoc(new) /\ new = Apply(doc, u)
      /\ IsUpdate(E[a].out) /\ IsUpdate(EmptyDoc)
  BY EmptyDocDoc DEF Typed, IsDoc
<1>2. AgreeAll(doc, u)
  <2>1. SUFFICES ASSUME NEW k \in DOMAIN doc \cap DOMAIN u PROVE Agree(doc[k], u[k])
    BY DEF AgreeAll
  <2>2. k \in Keys /\ doc[k] \in Around(B, E, L, k) /\ u[k] \in Around(B, E, L, k)
    BY <1>1 DEF IsDoc, Around
  <2>. QED  BY <2>2 DEF Meets, ItemsMeet
<1>3. CoversAll(new, doc) /\ CoversAll(new, u)
  BY <1>1, <1>2, AppliedCovers
<1>4. ASSUME NEW k \in Keys
      PROVE  new[k] = doc[k] \/ (k \in DOMAIN u /\ new[k] = u[k])
  <2>1. Apply(doc, u)[k] = IF k \in DOMAIN u THEN Merged(doc[k], u[k]) ELSE doc[k]
    BY <1>1, AppliedIs
  <2>2. \A r, s : Merged(r, s) = r \/ Merged(r, s) = s
    BY DEF Merged
  <2>. HIDE DEF new, doc, u
  <2>. QED  BY <1>1, <2>1, <2>2
<1>5. ASSUME NEW k \in Keys PROVE ItemsMeet(B2, E2, L, C, k)
  <2>1. \A d \in Devices : E2[d].client = E[d].client /\ E2[d].out = E[d].out
    BY DEF Same
  <2>2. \A d \in Devices : B2[d].replica[k] \in Around(B, E, L, k)
    BY <1>4 DEF Around
  <2>3. Around(B2, E2, L, k) \subseteq Around(B, E, L, k)
    BY <2>1, <2>2 DEF Around
  <2>4. Reaches(new[k].path, doc[k].path)
    BY <1>1, <1>3 DEF CoversAll, IsDoc, Covers, Reaches
  <2>5. \A d \in Devices : Reaches(B2[d].replica[k].path, B[d].replica[k].path)
    BY <2>4 DEF Reaches
  <2>6. ItemsMeet(B, E, L, C, k)
    BY DEF Meets
  <2>. QED  BY <2>1, <2>3, <2>5, <2>6, ItemsKept
<1>6. ClientsMeet(E2, L, C)
  BY DEF Meets, ClientsMeet, Same
<1>7. ASSUME NEW d \in Devices PROVE Follows(B2[d].replica, E2[d], L)
  <2>0. Follows(B[d].replica, E[d], L)
    BY DEF Meets
  <2>1. CASE d # a
    BY <2>0, <2>1
  <2>2. CASE d = a
    <3>. HIDE DEF new, doc, u
    <3>1. Follows(doc, E[a], L)
      BY <2>0, <2>2 DEF doc
    <3>2. \A v : IsUpdate(v) /\ CoversAll(doc, v) => CoversAll(new, v)
      BY <1>1, <1>3, CoversAllTrans DEF IsDoc
    <3>3. CoversAll(new, EmptyDoc) /\ CoversAll(new, E2[a].out)
      BY <1>1, <3>1, <3>2 DEF Follows, Same
    <3>4. ASSUME NEW j \in DOMAIN L, ~L[j].lost, j <= E2[a].seen \/ L[j].from = E2[a].client
          PROVE  CoversAll(new, L[j].update)
      <4>1. j \in Nat /\ E[a].seen \in Nat /\ E2[a].seen \in Nat /\ IsUpdate(L[j].update)
        BY DEF Typed
      <4>2. CASE j = n
        BY <1>3, <4>2 DEF u
      <4>3. CASE j # n
        <5>1. j <= E[a].seen \/ L[j].from = E[a].client
          BY <3>4, <4>1, <4>3 DEF Same, Reads
        <5>. QED  BY <3>1, <3>2, <3>4, <4>1, <5>1 DEF Follows
      <4>. QED  BY <4>2, <4>3
    <3>5. ASSUME ~E2[a].lost, NEW k \in Keys
          PROVE  new[k] \in MadeOf(L, k) \/ (k \in DOMAIN E2[a].out /\ new[k] = E2[a].out[k])
      <4>1. doc[k] \in MadeOf(L, k) \/ (k \in DOMAIN E[a].out /\ doc[k] = E[a].out[k])
        BY <3>1, <3>5 DEF Follows, Same
      <4>2. k \in DOMAIN u => u[k] \in MadeOf(L, k)
        BY DEF u, MadeOf
      <4>. QED  BY <1>4, <4>1, <4>2 DEF Same
    <3>. QED  BY <2>2, <3>3, <3>4, <3>5 DEF Follows, new
  <2>. QED  BY <2>1, <2>2
<1>. QED  BY <1>5, <1>6, <1>7 DEF Meets

\* Device a writes what it wants into its replica, and queues it or loses it.
LEMMA WrittenMeets ==
    ASSUME NEW B, NEW E, NEW L, NEW C, NEW B2, NEW E2, Meets(B, E, L, C),
           Typed(B, E, L), Typed(B2, E2, L), NEW a \in Devices, NEW w, IsWant(w),
           LET u == Update(B[a].replica, w, E[a].client)
           IN  /\ B2[a].replica = Apply(B[a].replica, u)
               /\ \/ E2[a].out = Apply(E[a].out, u) /\ E2[a].lost = E[a].lost
                  \/ E2[a].out = E[a].out /\ E2[a].lost,
           E2[a].client = E[a].client, E2[a].seen = E[a].seen,
           \A d \in Devices \ {a} : B2[d].replica = B[d].replica /\ E2[d] = E[d]
    PROVE  Meets(B2, E2, L, C)
<1>. DEFINE doc == B[a].replica
            c == E[a].client
            u == Update(doc, w, c)
            new == B2[a].replica
            out == E[a].out
            out2 == E2[a].out
<1>1. IsDoc(doc) /\ IsDoc(new) /\ new = Apply(doc, u) /\ IsUpdate(out) /\ c \in Nat
      /\ IsUpdate(EmptyDoc) /\ IsUpdate(out2)
  BY EmptyDocDoc, ClientsAssumption DEF Typed, IsDoc
<1>2. /\ IsUpdate(u)
      /\ \A k \in DOMAIN u :
            /\ k \in Keys /\ u[k] \in Item /\ Covers(u[k], doc[k])
            /\ \/ u[k].path = doc[k].path /\ u[k].value = None
               \/ u[k].path = Append(doc[k].path, c)
            /\ new[k] = u[k]
      /\ \A k \in Keys \ DOMAIN u : new[k] = doc[k]
  <2>. HIDE DEF doc, new, c
  <2>1. /\ IsUpdate(u)
        /\ \A k \in DOMAIN u :
              /\ k \in Keys /\ u[k] \in Item /\ Covers(u[k], doc[k])
              /\ \/ u[k].path = doc[k].path /\ u[k].value = None
                 \/ u[k].path = Append(doc[k].path, c)
              /\ Apply(doc, u)[k] = u[k]
        /\ \A k \in Keys \ DOMAIN u : Apply(doc, u)[k] = doc[k]
    BY <1>1, WroteIs
  <2>. HIDE DEF u
  <2>. QED  BY <1>1, <2>1
<1>3. \/ out2 = Apply(out, u) /\ E2[a].lost = E[a].lost
      \/ out2 = out /\ E2[a].lost
  OBVIOUS
<1>4. Follows(doc, E[a], L)
  BY DEF Meets
<1>. HIDE DEF u
\* What is queued under a key is what was just written there.
<1>5. ASSUME out2 = Apply(out, u)
      PROVE  /\ DOMAIN out2 = DOMAIN out \cup DOMAIN u
             /\ \A k \in DOMAIN u : out2[k] = u[k]
             /\ \A k \in DOMAIN out \ DOMAIN u : out2[k] = out[k]
  <2>1. DOMAIN out2 = DOMAIN out \cup DOMAIN u
    <3>. HIDE DEF out2, out
    <3>. QED  BY <1>5, ApplyIs
  <2>2. ASSUME NEW k \in DOMAIN u, k \in DOMAIN out PROVE out2[k] = u[k]
    <3>1. out[k] \in Item /\ doc[k] \in Item /\ u[k] \in Item
      BY <1>1, <1>2, <2>2, ItemIs DEF IsDoc
    <3>2. Covers(doc[k], out[k])
      BY <1>4, <2>2 DEF Follows, CoversAll
    <3>3. Merged(out[k], u[k]) = u[k]
      BY <1>2, <3>1, <3>2, CoversTrans, MergedLast
    <3>. HIDE DEF out2, out
    <3>4. out2[k] = Merged(out[k], u[k])
      BY <1>5, <2>2 DEF Apply
    <3>. QED  BY <3>3, <3>4
  <2>3. ASSUME NEW k \in DOMAIN u, k \notin DOMAIN out PROVE out2[k] = u[k]
    <3>. HIDE DEF out2, out
    <3>. QED  BY <1>5, <2>3 DEF Apply
  <2>4. ASSUME NEW k \in DOMAIN out \ DOMAIN u PROVE out2[k] = out[k]
    <3>. HIDE DEF out2, out
    <3>. QED  BY <1>5, <2>4 DEF Apply
  <2>. QED  BY <2>1, <2>2, <2>3, <2>4
<1>6. \A d \in Devices : E2[d].client = E[d].client
  OBVIOUS
<1>7. ASSUME NEW k \in Keys PROVE ItemsMeet(B2, E2, L, C, k)
  <2>0. ItemsMeet(B, E, L, C, k) /\ ClientsMeet(E, L, C)
    BY DEF Meets
  <2>1. CASE k \in DOMAIN u
    <3>. DEFINE v == u[k]
    <3>1. /\ v \in Item /\ new[k] = v
          /\ \/ v.path = doc[k].path /\ v.value = None
             \/ v.path = Append(doc[k].path, c)
      BY <1>2, <2>1
    <3>. HIDE DEF v
    <3>2. k \in DOMAIN out2 => out2[k] = v \/ (k \in DOMAIN out /\ out2[k] = out[k])
      BY <1>3, <1>5, <2>1 DEF v
    <3>. HIDE DEF new, out, out2
    <3>3. \A d \in Devices : B2[d].replica[k] \in Around(B, E, L, k) \cup {v}
      BY <3>1 DEF Around, new
    <3>4. \A d \in Devices : k \in DOMAIN E2[d].out => E2[d].out[k] \in Around(B, E, L, k) \cup {v}
      BY <3>2 DEF Around, out, out2
    <3>5. Around(B2, E2, L, k) \subseteq Around(B, E, L, k) \cup {v}
      BY <3>3, <3>4 DEF Around
    <3>. QED  BY <1>6, <2>0, <3>1, <3>5, ItemsWritten DEF new
  <2>2. CASE k \notin DOMAIN u
    <3>1. new[k] = doc[k]
      BY <1>2, <2>2
    <3>2. k \in DOMAIN out2 => k \in DOMAIN out /\ out2[k] = out[k]
      BY <1>3, <1>5, <2>2
    <3>. HIDE DEF new, out, out2, doc
    <3>3. \A d \in Devices : B2[d].replica[k] = B[d].replica[k]
      BY <3>1 DEF doc, new
    <3>4. \A d \in Devices : k \in DOMAIN E2[d].out => E2[d].out[k] \in Around(B, E, L, k)
      BY <3>2 DEF Around, out, out2
    <3>5. Around(B2, E2, L, k) \subseteq Around(B, E, L, k)
      BY <3>3, <3>4 DEF Around
    <3>. QED  BY <1>6, <2>0, <3>3, <3>5, ItemsKept DEF Reaches
  <2>. QED  BY <2>1, <2>2
<1>8. ClientsMeet(E2, L, C)
  BY <1>6 DEF Meets, ClientsMeet
<1>9. Follows(new, E2[a], L)
  <2>1. CoversAll(new, doc)
    <3>1. ASSUME NEW k \in Keys PROVE Covers(new[k], doc[k])
      BY <1>2, CoversSelf
    <3>. QED  BY <1>1, <3>1 DEF CoversAll, IsDoc
  <2>2. \A v : IsUpdate(v) /\ CoversAll(doc, v) => CoversAll(new, v)
    BY <1>1, <2>1, CoversAllTrans DEF IsDoc
  <2>3. CoversAll(new, out)
    BY <1>1, <1>4, <2>2 DEF Follows
  <2>4. CoversAll(new, out2)
    <3>1. CASE out2 = Apply(out, u)
      <4>1. ASSUME NEW k \in DOMAIN out2 PROVE k \in DOMAIN new /\ Covers(new[k], out2[k])
        <5>1. CASE k \in DOMAIN u
          BY <1>1, <1>2, <1>5, <3>1, <5>1, CoversSelf DEF IsDoc
        <5>2. CASE k \notin DOMAIN u
          <6>1. k \in DOMAIN out /\ out2[k] = out[k]
            BY <1>5, <3>1, <4>1, <5>2
          <6>. QED  BY <2>3, <6>1 DEF CoversAll
        <5>. QED  BY <5>1, <5>2
      <4>. QED  BY <4>1 DEF CoversAll
    <3>2. CASE out2 = out
      BY <2>3, <3>2
    <3>. QED  BY <1>3, <3>1, <3>2
  <2>5. CoversAll(new, EmptyDoc)
    BY <1>1, <1>4, <2>2 DEF Follows
  <2>6. ASSUME NEW j \in DOMAIN L, ~L[j].lost, j <= E2[a].seen \/ L[j].from = E2[a].client
        PROVE  CoversAll(new, L[j].update)
    <3>1. IsUpdate(L[j].update) /\ CoversAll(doc, L[j].update)
      BY <1>4, <1>6, <2>6 DEF Typed, Follows
    <3>. QED  BY <2>2, <3>1
  <2>7. ASSUME ~E2[a].lost, NEW k \in Keys
        PROVE  new[k] \in MadeOf(L, k) \/ (k \in DOMAIN out2 /\ new[k] = out2[k])
    <3>1. out2 = Apply(out, u) /\ ~E[a].lost
      BY <1>3, <2>7
    <3>2. CASE k \in DOMAIN u
      BY <1>2, <1>5, <3>1, <3>2
    <3>3. CASE k \notin DOMAIN u
      <4>1. doc[k] \in MadeOf(L, k) \/ (k \in DOMAIN out /\ doc[k] = out[k])
        BY <1>4, <3>1 DEF Follows
      <4>. QED  BY <1>2, <1>5, <3>1, <3>3, <4>1
    <3>. QED  BY <3>2, <3>3
  <2>. QED  BY <2>4, <2>5, <2>6, <2>7 DEF Follows
<1>10. ASSUME NEW d \in Devices PROVE Follows(B2[d].replica, E2[d], L)
  <2>1. CASE d # a
    BY <2>1 DEF Meets
  <2>2. CASE d = a
    BY <1>9, <2>2
  <2>. QED  BY <2>1, <2>2
<1>. QED  BY <1>7, <1>8, <1>10 DEF Meets

\* Device a pushes what is queued, and every device reads on in the longer log.
LEMMA PushedMeets ==
    ASSUME NEW B, NEW E, NEW L, NEW C, NEW E2, NEW L2, Meets(B, E, L, C),
           Typed(B, E, L), Typed(B, E2, L2), NEW a \in Devices,
           Len(L2) = Len(L) + 1, \A j \in DOMAIN L : L2[j] = L[j],
           L2[Len(L2)].from = E[a].client, L2[Len(L2)].update = E[a].out,
           L2[Len(L2)].lost = E[a].lost,
           E2[a].client = E[a].client, E2[a].lost = E[a].lost, E2[a].out = Nothing,
           \A d \in Devices \ {a} : Same(E[d], E2[d]),
           \A d \in Devices : Reads(E[d], E[d].seen, E2[d].seen, L2)
    PROVE  Meets(B, E2, L2, C)
<1>. DEFINE n == Len(L2)
            out == E[a].out
<1>1. /\ DOMAIN L = 1..Len(L) /\ Len(L) \in Nat /\ DOMAIN L2 = 1..n /\ n \in DOMAIN L2
      /\ DOMAIN L2 = DOMAIN L \cup {n} /\ n \notin DOMAIN L /\ DOMAIN L2 \subseteq Nat
  BY DEF Typed
<1>2. L2[n].from = E[a].client /\ L2[n].update = out /\ L2[n].lost = E[a].lost
      /\ \A j \in DOMAIN L : L2[j] = L[j]
  OBVIOUS
<1>3. \A d \in Devices : E2[d].client = E[d].client /\ E2[d].lost = E[d].lost
      /\ (E2[d].out = E[d].out \/ E2[d].out = Nothing)
  BY DEF Same
<1>. HIDE DEF n
<1>4. ASSUME NEW k \in Keys PROVE ItemsMeet(B, E2, L2, C, k)
  <2>1. \A d \in Devices : k \in DOMAIN E2[d].out => E2[d].out[k] \in Around(B, E, L, k)
    BY <1>3, NothingIs DEF Around
  <2>2. ASSUME NEW j \in DOMAIN L2, k \in DOMAIN L2[j].update
        PROVE  L2[j].update[k] \in Around(B, E, L, k)
    <3>1. CASE j \in DOMAIN L
      BY <1>2, <2>2, <3>1 DEF Around
    <3>2. CASE j = n
      BY <1>2, <2>2, <3>2 DEF Around
    <3>. QED  BY <1>1, <2>2, <3>1, <3>2
  <2>3. Around(B, E2, L2, k) \subseteq Around(B, E, L, k)
    BY <2>1, <2>2 DEF Around
  <2>4. ItemsMeet(B, E, L, C, k)
    BY DEF Meets
  <2>. QED  BY <1>3, <2>3, <2>4, ItemsKept DEF Reaches
<1>5. ClientsMeet(E2, L2, C)
  <2>1. ClientsMeet(E, L, C)
    BY DEF Meets
  <2>2. \A j \in DOMAIN L2 : L2[j].from \in Clients => L2[j].from \in C
    BY <1>1, <1>2, <2>1 DEF ClientsMeet
  <2>. QED  BY <1>3, <2>1, <2>2 DEF ClientsMeet
<1>6. \A k \in Keys : MadeOf(L, k) \subseteq MadeOf(L2, k)
  BY <1>1, <1>2 DEF MadeOf
<1>7. ASSUME NEW d \in Devices PROVE Follows(B[d].replica, E2[d], L2)
  <2>. DEFINE doc == B[d].replica
              e == E[d]
              f == E2[d]
  <2>1. Follows(doc, e, L)
    BY DEF Meets
  <2>2. d = a => e.out = out /\ f.out = Nothing
    OBVIOUS
  <2>3. d # a => f.out = e.out /\ E[d].client # E[a].client
    BY DEF Same, Meets, ClientsMeet
  <2>4. f.client = e.client /\ f.lost = e.lost
    BY <1>3
  <2>5. e.seen \in Nat /\ f.seen \in Nat /\ Reads(e, e.seen, f.seen, L2)
    BY DEF Typed
  <2>6. CoversAll(doc, f.out)
    BY <2>1, <2>2, <2>3, NothingIs DEF Follows, CoversAll
  <2>7. ASSUME NEW j \in DOMAIN L2, ~L2[j].lost, j <= f.seen \/ L2[j].from = f.client
        PROVE  CoversAll(doc, L2[j].update)
    <3>1. j <= e.seen \/ L2[j].from = e.client
      BY <1>1, <2>4, <2>5, <2>7 DEF Reads
    <3>2. CASE j \in DOMAIN L
      BY <1>2, <2>1, <2>7, <3>1, <3>2 DEF Follows
    <3>3. CASE j = n /\ d = a
      BY <1>2, <2>1, <2>2, <3>3 DEF Follows
    <3>4. CASE j = n /\ d # a
      <4>1. e.seen \in 0..Len(L)
        BY DEF Typed
      <4>2. n = Len(L) + 1
        BY DEF n
      <4>3. j <= e.seen
        BY <1>2, <2>3, <3>1, <3>4
      <4>. QED  BY <1>1, <3>4, <4>1, <4>2, <4>3
    <3>. QED  BY <1>1, <2>7, <3>2, <3>3, <3>4
  <2>8. ASSUME ~f.lost, NEW k \in Keys
        PROVE  doc[k] \in MadeOf(L2, k) \/ (k \in DOMAIN f.out /\ doc[k] = f.out[k])
    <3>1. doc[k] \in MadeOf(L, k) \/ (k \in DOMAIN e.out /\ doc[k] = e.out[k])
      BY <2>1, <2>4, <2>8 DEF Follows
    <3>2. k \in DOMAIN out => out[k] \in MadeOf(L2, k)
      BY <1>1, <1>2 DEF MadeOf
    <3>. QED  BY <1>6, <2>2, <2>3, <3>1, <3>2
  <2>. QED  BY <2>1, <2>6, <2>7, <2>8 DEF Follows
<1>. QED  BY <1>4, <1>5, <1>7 DEF Meets

\* Device a starts anew, with a client that is new.
LEMMA ResetMeets ==
    ASSUME NEW B, NEW E, NEW L, NEW C, NEW B2, NEW E2, Meets(B, E, L, C),
           Typed(B, E, L), Typed(B2, E2, L), NEW a \in Devices, NEW c \in Clients \ C,
           B2[a].replica = EmptyDoc, E2[a].client = c, E2[a].out = Nothing, E2[a].seen = 0,
           \A d \in Devices \ {a} : B2[d].replica = B[d].replica /\ E2[d] = E[d]
    PROVE  Meets(B2, E2, L, C \cup {c})
<1>. DEFINE D == C \cup {c}
<1>1. ClientsMeet(E, L, C) /\ C \subseteq D
  BY DEF Meets
<1>2. ASSUME NEW k \in Keys PROVE ItemsMeet(B2, E2, L, D, k)
  <2>1. ItemsMeet(B, E, L, C, k)
    BY DEF Meets
  <2>2. \A d \in Devices : k \in DOMAIN E2[d].out => E2[d].out[k] \in Around(B, E, L, k)
    BY NothingIs DEF Around
  <2>3. \A d \in Devices : B2[d].replica[k] \in Around(B, E, L, k) \cup {EmptyDoc[k]}
    BY DEF Around
  <2>4. Around(B2, E2, L, k) \subseteq Around(B, E, L, k) \cup {EmptyDoc[k]}
    BY <2>2, <2>3 DEF Around
  <2>5. \A d \in Devices :
           \/ E2[d].client = E[d].client /\ Reaches(B2[d].replica[k].path, B[d].replica[k].path)
           \/ E2[d].client \notin C
    BY DEF Reaches
  <2>. QED  BY <1>1, <2>1, <2>4, <2>5, ItemsKept
<1>3. ClientsMeet(E2, L, D)
  <2>1. \A d \in Devices : E2[d].client = IF d = a THEN c ELSE E[d].client
    OBVIOUS
  <2>2. \A d, m \in Devices : E2[d].client = E2[m].client => d = m
    BY <1>1, <2>1 DEF ClientsMeet
  <2>. QED  BY <1>1, <2>1, <2>2 DEF ClientsMeet
<1>4. ASSUME NEW d \in Devices PROVE Follows(B2[d].replica, E2[d], L)
  <2>1. CASE d # a
    BY <2>1 DEF Meets
  <2>2. CASE d = a
    <3>1. CoversAll(EmptyDoc, EmptyDoc) /\ CoversAll(EmptyDoc, Nothing)
      BY EmptyDocDoc, NothingIs DEF CoversAll
    <3>2. \A j \in DOMAIN L : L[j].from # c /\ ~(j <= 0)
      BY <1>1 DEF ClientsMeet, Typed
    <3>3. \A k \in Keys : EmptyDoc[k] \in MadeOf(L, k)
      BY DEF MadeOf
    <3>4. B2[a].replica = EmptyDoc /\ E2[a].client = c /\ E2[a].out = Nothing /\ E2[a].seen = 0
      OBVIOUS
    <3>. QED  BY <2>2, <3>1, <3>2, <3>3, <3>4 DEF Follows
  <2>. QED  BY <2>1, <2>2
<1>. QED  BY <1>2, <1>3, <1>4 DEF Meets

-----------------------------------------------------------------------------
(* Steps of the devices. *)

\* What is past in the log is the client's own or cannot be integrated.
LEMMA PastReads ==
    ASSUME NEW e, NEW log, Len(log) \in Nat, DOMAIN log = 1..Len(log), NEW seen \in 0..Len(log)
    PROVE  Past(e, seen, log) \in seen..Len(log) /\ Reads(e, seen, Past(e, seen, log), log)
<1>. DEFINE Skips(j) == log[j].from = e.client \/ log[j].lost
            Ends(i) == i < Len(log) => log[i + 1].from # e.client /\ ~log[i + 1].lost
            T == {i \in seen..Len(log) : Ends(i)}
            p == Past(e, seen, log)
<1>1. Len(log) \in T
  OBVIOUS
<1>2. T \in SUBSET Nat
  OBVIOUS
<1>3. PICK i \in T : \A j \in T : i <= j
  <2>. HIDE DEF T
  <2>. QED  BY <1>1, <1>2, LeastNat
<1>4. \A j \in (seen + 1)..i : Skips(j)
  <2>1. SUFFICES ASSUME NEW j \in (seen + 1)..i PROVE Skips(j)
    OBVIOUS
  <2>2. j - 1 \in seen..Len(log) /\ j - 1 < i /\ (j - 1) + 1 = j
    BY <1>3
  <2>3. ~Ends(j - 1)
    <3>1. j - 1 \notin T
      <4>. HIDE DEF T
      <4>1. i \in Nat
        BY <1>2, <1>3
      <4>. QED  BY <1>3, <2>2, <4>1
    <3>. QED  BY <2>2, <3>1
  <2>. QED  BY <2>2, <2>3
<1>5. \E k \in seen..Len(log) :
        /\ \A j \in (seen + 1)..k : log[j].from = e.client \/ log[j].lost
        /\ k < Len(log) => log[k + 1].from # e.client /\ ~log[k + 1].lost
  BY <1>3, <1>4
<1>6. p \in seen..Len(log) /\ \A j \in (seen + 1)..p : log[j].from = e.client \/ log[j].lost
  BY <1>5 DEF Past
<1>. HIDE DEF p
<1>7. Reads(e, seen, p, log)
  <2>1. SUFFICES ASSUME NEW n \in DOMAIN log, seen < n, n <= p
                 PROVE  log[n].from = e.client \/ log[n].lost
    BY DEF Reads
  <2>2. n \in (seen + 1)..p
    BY <1>6, <2>1
  <2>. QED  BY <1>6, <2>2
<1>. QED  BY <1>6, <1>7 DEF p

LEMMA NoReads ==
    ASSUME NEW e, NEW L, DOMAIN L \subseteq Nat, NEW i \in Nat, NEW j \in Nat, j <= i
    PROVE  Reads(e, i, j, L)
BY DEF Reads

LEMMA TypedOf ==
    ASSUME NEW B, NEW E, NEW L, NEW U, NEW K, Logged(L, U, K),
           \A d \in Devices : IsDoc(B[d].replica) /\ EngineGood(E[d], Len(L), U, K)
    PROVE  Typed(B, E, L)
<1>1. Len(L) \in Nat /\ DOMAIN L = 1..Len(L)
  <2>1. L \in Seq({L[j] : j \in DOMAIN L})
    BY DEF Logged
  <2>. QED  BY <2>1
<1>2. \A j \in DOMAIN L : IsUpdate(L[j].update)
  BY DEF Logged, UpdateGood
<1>. QED  BY <1>1, <1>2 DEF Typed, EngineGood, UpdateGood

LEMMA TypedNow ==
    ASSUME IInv, \A d \in Devices : IsDoc(bridge[d].replica)
    PROVE  Typed(bridge, engine, server.log)
<1>1. \A d \in Devices : EngineGood(engine[d], Len(server.log), used, Kept)
  BY GoodIs
<1>2. Logged(server.log, used, Kept)
  BY DEF IInv, ServerGood
<1>. QED  BY <1>1, <1>2, TypedOf

LEMMA TypedNext ==
    ASSUME IInv', \A d \in Devices : IsDoc(bridge'[d].replica)
    PROVE  Typed(bridge', engine', server'.log)
<1>1. \A d \in Devices : EngineGood(engine'[d], Len(server'.log), used', Kept')
  BY DEF IInv, Good, Device
<1>2. Logged(server'.log, used', Kept')
  BY DEF IInv, ServerGood
<1>. QED  BY <1>1, <1>2, TypedOf

LEMMA FieldsNext ==
    ASSUME IInv', NEW d \in Devices
    PROVE  DOMAIN bridge'[d] = BridgeFields /\ DOMAIN engine'[d] = EngineFields
BY DEF IInv, Good, Device, BridgeGood, EngineGood

\* What becomes of the push, the refusal and the end of a space.
Calms(e, f) ==
    /\ f.refusal = e.refusal \/ ~f.refusal
    /\ f.destroyed = e.destroyed \/ ~f.destroyed
    /\ ToPush' => ToPush /\ (f.knows => e.knows)

\* A step of one device that writes nothing and reads nothing that matters.
LEMMA QuietDevice ==
    ASSUME IInv, IInv', MInv, NEW d \in Devices, NEW x, NEW b, NEW e, Sets(d, x, b, e),
           b.replica = bridge[d].replica, Same(engine[d], e), Calms(engine[d], e),
           Reads(engine[d], engine[d].seen, e.seen, server.log),
           server'.log = server.log, server'.exists => Ahead, clients' = clients
    PROVE  MInv'
<1>1. /\ bridge'[d] = b /\ engine'[d] = e
      /\ \A m \in Devices \ {d} : bridge'[m] = bridge[m] /\ engine'[m] = engine[m]
  BY DEF Sets
<1>2. \A m \in Devices : bridge'[m].replica = bridge[m].replica
  BY <1>1
<1>3. \A m \in Devices : IsDoc(bridge[m].replica) /\ IsDoc(bridge'[m].replica)
  BY <1>2 DEF MInv
<1>4. Typed(bridge, engine, server.log) /\ Typed(bridge', engine', server.log)
  BY <1>3, TypedNow, TypedNext
<1>5. ASSUME NEW m \in Devices
      PROVE  Same(engine[m], engine'[m])
             /\ Reads(engine[m], engine[m].seen, engine'[m].seen, server.log)
  <2>1. CASE m = d
    BY <1>1, <2>1
  <2>2. CASE m # d
    <3>1. engine[m].seen \in Nat /\ DOMAIN server.log \subseteq Nat
      BY <1>4 DEF Typed
    <3>2. engine'[m] = engine[m]
      BY <1>1, <2>2
    <3>. QED  BY <3>1, <3>2, NoReads DEF Same
  <2>. QED  BY <2>1, <2>2
<1>6. ToPush' => \A m \in Devices : ~engine'[m].knows
  BY <1>1 DEF MInv, Calms
<1>7. ASSUME Ahead'
      PROVE  /\ \A m \in Devices : ~engine'[m].refusal /\ ~engine'[m].destroyed
             /\ Meets(bridge', engine', server'.log, clients')
  <2>1. Ahead
    BY <1>7 DEF Ahead, Calms
  <2>2. \A m \in Devices : ~engine'[m].refusal /\ ~engine'[m].destroyed
    BY <1>1, <2>1 DEF MInv, Calms
  <2>3. Meets(bridge, engine, server.log, clients)
    BY <2>1 DEF MInv
  <2>4. Meets(bridge', engine', server.log, clients)
    BY <1>2, <1>4, <1>5, <2>3, QuietMeets
  <2>. QED  BY <2>2, <2>4
<1>. QED  BY <1>3, <1>6, <1>7 DEF MInv

\* The replica and the engine of one device move on.
LEMMA OneDevice ==
    ASSUME IInv, IInv', MInv, NEW d \in Devices, NEW x, NEW b, NEW e, Sets(d, x, b, e),
           IsDoc(b.replica), Calms(engine[d], e), server'.exists => Ahead,
           Typed(bridge, engine, server.log) /\ Typed(bridge', engine', server'.log)
              /\ Meets(bridge, engine, server.log, clients)
              => Meets(bridge', engine', server'.log, clients')
    PROVE  MInv'
<1>1. /\ bridge'[d] = b /\ engine'[d] = e
      /\ \A m \in Devices \ {d} : bridge'[m] = bridge[m] /\ engine'[m] = engine[m]
  BY DEF Sets
<1>2. \A m \in Devices : IsDoc(bridge[m].replica)
  BY DEF MInv
<1>3. \A m \in Devices : IsDoc(bridge'[m].replica)
  BY <1>1, <1>2
<1>4. Typed(bridge, engine, server.log) /\ Typed(bridge', engine', server'.log)
  BY <1>2, <1>3, TypedNow, TypedNext
<1>5. ToPush' => \A m \in Devices : ~engine'[m].knows
  BY <1>1 DEF MInv, Calms
<1>6. ASSUME Ahead'
      PROVE  /\ \A m \in Devices : ~engine'[m].refusal /\ ~engine'[m].destroyed
             /\ Meets(bridge', engine', server'.log, clients')
  <2>1. Ahead
    BY <1>6 DEF Ahead, Calms
  <2>2. \A m \in Devices : ~engine'[m].refusal /\ ~engine'[m].destroyed
    BY <1>1, <2>1 DEF MInv, Calms
  <2>3. Meets(bridge, engine, server.log, clients)
    BY <2>1 DEF MInv
  <2>. QED  BY <1>4, <2>2, <2>3
<1>. QED  BY <1>3, <1>5, <1>6 DEF MInv

\* It writes into its replica, and the engine queues the update or drops it.
LEMMA WrittenDevice ==
    ASSUME IInv, IInv', MInv, NEW d \in Devices, NEW x, NEW b, NEW e, Sets(d, x, b, e),
           NEW w, IsWant(w),
           LET u == Update(bridge[d].replica, w, engine[d].client)
           IN  /\ b.replica = Apply(bridge[d].replica, u)
               /\ \/ e.out = Apply(engine[d].out, u) /\ e.lost = engine[d].lost
                  \/ e.out = engine[d].out /\ e.lost,
           e.client = engine[d].client, e.seen = engine[d].seen, Calms(engine[d], e),
           server'.log = server.log, server'.exists => Ahead, clients' = clients
    PROVE  MInv'
<1>. DEFINE u == Update(bridge[d].replica, w, engine[d].client)
<1>1. /\ bridge'[d] = b /\ engine'[d] = e
      /\ \A m \in Devices \ {d} : bridge'[m] = bridge[m] /\ engine'[m] = engine[m]
  BY DEF Sets
<1>2. IsDoc(b.replica)
  <2>1. IsDoc(bridge[d].replica)
    BY DEF MInv
  <2>2. engine[d].client \in Nat
    BY GoodIs, ClientsAssumption DEF EngineGood
  <2>3. IsUpdate(u)
    BY <2>1, <2>2, WroteIs
  <2>. HIDE DEF u
  <2>. QED  BY <2>1, <2>3, AppliedIs DEF u
<1>3. ASSUME Typed(bridge, engine, server.log), Typed(bridge', engine', server'.log),
             Meets(bridge, engine, server.log, clients)
      PROVE  Meets(bridge', engine', server'.log, clients')
  <2>1. Typed(bridge', engine', server.log)
    BY <1>3
  <2>2. LET u2 == Update(bridge[d].replica, w, engine[d].client)
        IN  /\ bridge'[d].replica = Apply(bridge[d].replica, u2)
            /\ \/ engine'[d].out = Apply(engine[d].out, u2) /\ engine'[d].lost = engine[d].lost
               \/ engine'[d].out = engine[d].out /\ engine'[d].lost
    BY <1>1
  <2>3. engine'[d].client = engine[d].client /\ engine'[d].seen = engine[d].seen
    BY <1>1
  <2>4. \A m \in Devices \ {d} : bridge'[m].replica = bridge[m].replica /\ engine'[m] = engine[m]
    BY <1>1
  <2>5. Meets(bridge', engine', server.log, clients)
    BY <1>3, <2>1, <2>2, <2>3, <2>4, WrittenMeets
  <2>. QED  BY <2>5
<1>. QED  BY <1>2, <1>3, OneDevice

\* It reads the next update of the log.
LEMMA DeliveredDevice ==
    ASSUME IInv, IInv', MInv, NEW d \in Devices, NEW x, NEW b, NEW e, Sets(d, x, b, e),
           NEW n \in DOMAIN server.log, n = engine[d].seen + 1,
           b.replica = Apply(bridge[d].replica, server.log[n].update),
           Same(engine[d], e), Reads(engine[d], n, e.seen, server.log), Calms(engine[d], e),
           server'.log = server.log, server'.exists => Ahead, clients' = clients
    PROVE  MInv'
<1>1. /\ bridge'[d] = b /\ engine'[d] = e
      /\ \A m \in Devices \ {d} : bridge'[m] = bridge[m] /\ engine'[m] = engine[m]
  BY DEF Sets
<1>2. IsDoc(b.replica)
  <2>1. IsDoc(bridge[d].replica)
    BY DEF MInv
  <2>2. IsUpdate(server.log[n].update)
    BY LogIs DEF UpdateGood
  <2>. QED  BY <2>1, <2>2, AppliedIs
<1>3. ASSUME Typed(bridge, engine, server.log), Typed(bridge', engine', server'.log),
             Meets(bridge, engine, server.log, clients)
      PROVE  Meets(bridge', engine', server'.log, clients')
  <2>1. Typed(bridge', engine', server.log)
    BY <1>3
  <2>2. /\ bridge'[d].replica = Apply(bridge[d].replica, server.log[n].update)
        /\ Same(engine[d], engine'[d]) /\ Reads(engine[d], n, engine'[d].seen, server.log)
    BY <1>1
  <2>4. \A m \in Devices \ {d} : bridge'[m].replica = bridge[m].replica /\ engine'[m] = engine[m]
    BY <1>1
  <2>5. Meets(bridge', engine', server.log, clients)
    BY <1>3, <2>1, <2>2, <2>4, DeliveredMeets
  <2>. QED  BY <2>5
<1>. QED  BY <1>2, <1>3, OneDevice

\* It starts anew.
LEMMA ResetDevice ==
    ASSUME IInv, IInv', MInv, NEW d \in Devices, NEW x, NEW b, NEW e, Sets(d, x, b, e),
           NEW c \in Clients \ clients,
           b.replica = EmptyDoc, e.client = c, e.out = Nothing, e.seen = 0, Calms(engine[d], e),
           server'.log = server.log, server'.exists => Ahead, clients' = clients \cup {c}
    PROVE  MInv'
<1>1. /\ bridge'[d] = b /\ engine'[d] = e
      /\ \A m \in Devices \ {d} : bridge'[m] = bridge[m] /\ engine'[m] = engine[m]
  BY DEF Sets
<1>2. IsDoc(b.replica)
  BY EmptyDocDoc
<1>3. ASSUME Typed(bridge, engine, server.log), Typed(bridge', engine', server'.log),
             Meets(bridge, engine, server.log, clients)
      PROVE  Meets(bridge', engine', server'.log, clients')
  <2>1. Typed(bridge', engine', server.log)
    BY <1>3
  <2>2. /\ bridge'[d].replica = EmptyDoc /\ engine'[d].client = c
        /\ engine'[d].out = Nothing /\ engine'[d].seen = 0
    BY <1>1
  <2>4. \A m \in Devices \ {d} : bridge'[m].replica = bridge[m].replica /\ engine'[m] = engine[m]
    BY <1>1
  <2>5. Meets(bridge', engine', server.log, clients \cup {c})
    BY <1>3, <2>1, <2>2, <2>4, ResetMeets
  <2>. QED  BY <2>5
<1>. QED  BY <1>2, <1>3, OneDevice

\* Once the space is gone for good nothing is said of the replicas.
LEMMA NothingAhead ==
    ASSUME ~Ahead', \A d \in Devices : IsDoc(bridge'[d].replica)
    PROVE  MInv'
BY DEF MInv, Ahead

-----------------------------------------------------------------------------
(* What the engine and the bridge leave alone. *)

Calm(e, f) ==
    /\ Same(e, f) /\ f.seen = e.seen /\ f.knows = e.knows
    /\ f.refusal = e.refusal /\ f.destroyed = e.destroyed

LEMMA CalmTrans ==
    ASSUME NEW e, NEW f, NEW g, Calm(e, f), Calm(f, g)
    PROVE  Calm(e, g)
BY DEF Calm, Same

LEMMA CalmResults ==
    ASSUME NEW e, DOMAIN e = EngineFields, NEW B, NEW r
    PROVE  LET f == Results(e, B, r)
           IN  Calm(e, f) /\ DOMAIN f = EngineFields
<1>. DEFINE t == SetToSeq({<<b, r>> : b \in B})
            f == Results(e, B, r)
<1>1. f = [e EXCEPT !.results = e.results \o t]
  BY DEF Results
<1>. HIDE DEF t, f
<1>. QED  BY <1>1 DEF Calm, Same, EngineFields, f

LEMMA CalmPut ==
    ASSUME NEW e, DOMAIN e = EngineFields, NEW B
    PROVE  LET f == Put(e, B)
           IN  Calm(e, f) /\ DOMAIN f = EngineFields
<1>. DEFINE now == Sent(e, B)
            big == IF e.knows THEN B \cap start.big ELSE {}
            rest == (B \ (now \cup big)) \cup (now \cap e.waiting)
            told1 == Results(e, big, "big")
            told == Results(told1, rest, "error")
            f == [told EXCEPT !.waiting = @ \cup now,
                              !.wire = [i \in ImageIds |-> IF i \in now THEN @[i] + 1 ELSE @[i]]]
<1>1. Put(e, B) = f
  BY DEF Put
<1>. HIDE DEF now, big, rest
<1>2. Calm(e, told1) /\ DOMAIN told1 = EngineFields
  BY CalmResults
<1>. HIDE DEF told1
<1>3. Calm(told1, told) /\ DOMAIN told = EngineFields
  BY <1>2, CalmResults
<1>. HIDE DEF told
<1>4. Calm(told, f) /\ DOMAIN f = EngineFields
  BY <1>3 DEF Calm, Same, EngineFields
<1>. HIDE DEF f
<1>. QED  BY <1>1, <1>2, <1>3, <1>4, CalmTrans

LEMMA CalmInbound ==
    ASSUME NEW e, DOMAIN e = EngineFields, NEW x, NEW b
    PROVE  LET f == InboundEngine(x, b, e)
           IN  Calm(e, f) /\ DOMAIN f = EngineFields
<1>. DEFINE y == Adopted(x, b)
            wanted == {i \in DOMAIN y.images : ~y.images[i].bytes} \cap Listed(b.replica, "image", ImageIds)
            f == InboundEngine(x, b, e)
<1>1. f = [e EXCEPT !.fetching = e.fetching \cup wanted] \/ f = e
  BY DEF InboundEngine
<1>. HIDE DEF wanted, f
<1>. QED  BY <1>1 DEF Calm, Same, EngineFields, f

LEMMA MovesReplica ==
    ASSUME NEW b, DOMAIN b = BridgeFields, NEW T
    PROVE  Moves(b, T).replica = b.replica /\ DOMAIN Moves(b, T) = BridgeFields
BY DEF Moves, BridgeFields

LEMMA InboundReplica ==
    ASSUME NEW b, DOMAIN b = BridgeFields, NEW x
    PROVE  LET c == InboundBridge(x, b)
           IN  c.replica = b.replica /\ DOMAIN c = BridgeFields
<1>. DEFINE y == Adopted(x, b)
            name == b.replica[NameKey].value
            tables == (IF y.name # x.name THEN {"spaces"} ELSE {})
                  \cup (IF y.folders # x.folders \/ \E n \in DOMAIN x.notes :
                                y.notes[n].folder # x.notes[n].folder THEN {"folders"} ELSE {})
                  \cup (IF y.images # x.images THEN {"images"} ELSE {})
            seen == [b EXCEPT !.author = @ \/ name # None]
            known == [seen EXCEPT !.known = IF name = None THEN @ ELSE name]
            moved == Moves(seen, tables)
            c == InboundBridge(x, b)
<1>1. c = b \/ c = known \/ c = [moved EXCEPT !.titles = TitlesSeen(x, moved.titles, b.replica)]
  BY DEF InboundBridge
<1>2. seen.replica = b.replica /\ DOMAIN seen = BridgeFields
  BY DEF BridgeFields
<1>. HIDE DEF seen, tables, c
<1>3. known.replica = b.replica /\ DOMAIN known = BridgeFields
  BY <1>2 DEF BridgeFields
<1>4. moved.replica = b.replica /\ DOMAIN moved = BridgeFields
  BY <1>2, MovesReplica
<1>. HIDE DEF known, moved
<1>. QED  BY <1>1, <1>3, <1>4 DEF BridgeFields, c

LEMMA CreatingReplica ==
    ASSUME NEW b, DOMAIN b = BridgeFields, NEW x
    PROVE  LET c == Creating(x, b)
           IN  c.replica = b.replica /\ DOMAIN c = BridgeFields
BY DEF Creating, BridgeFields

LEMMA RegisteredReplica ==
    ASSUME NEW b, DOMAIN b = BridgeFields, NEW N
    PROVE  LET c == Registered(b, N)
           IN  c.replica = b.replica /\ DOMAIN c = BridgeFields
BY DEF Registered, BridgeFields

-----------------------------------------------------------------------------
(* The events, one by one. *)

LEMMA PushStays ==
    ASSUME IInv, Spends, UNCHANGED history
    PROVE  ToPush' = ToPush
BY Spent DEF IInv, ToPush, history

LEMMA HandledSets ==
    ASSUME IInv, IInv', NEW d \in Devices, NEW x, NEW b, NEW e, Handled(d, x, b, e)
    PROVE  \E c : Sets(d, x, c, e) /\ c.replica = b.replica
<1>. DEFINE v == Works(x, b, e)
            c == [b EXCEPT !.due = v]
<1>1. Changes(d, x, c, e)
  BY DEF Handled
<1>. HIDE DEF v
<1>2. Sets(d, x, c, e)
  <2>. HIDE DEF c
  <2>. QED  BY <1>1, ChangesIs
<1>3. DOMAIN c = BridgeFields
  <2>1. bridge'[d] = c
    BY <1>2 DEF Sets
  <2>. HIDE DEF c
  <2>. QED  BY <2>1, FieldsNext
<1>4. c.replica = b.replica
  BY <1>3 DEF BridgeFields
<1>. QED  BY <1>2, <1>4

LEMMA QuietHandled ==
    ASSUME IInv, IInv', MInv, NEW d \in Devices, NEW x, NEW b, NEW e, Handled(d, x, b, e),
           b.replica = bridge[d].replica, Calm(engine[d], e), ToPush' => ToPush,
           server'.log = server.log, server'.exists => server.exists, clients' = clients
    PROVE  MInv'
<1>1. PICK c : Sets(d, x, c, e) /\ c.replica = b.replica
  BY HandledSets
<1>2. /\ Same(engine[d], e) /\ e.seen = engine[d].seen /\ Calms(engine[d], e)
  BY DEF Calm, Calms
<1>3. Reads(engine[d], engine[d].seen, e.seen, server.log)
  <2>1. engine[d].seen \in Nat /\ DOMAIN server.log \subseteq Nat
    BY GoodIs, LogIs DEF EngineGood
  <2>. QED  BY <1>2, <2>1, NoReads
<1>4. server'.exists => Ahead
  BY DEF Ahead
<1>5. c.replica = bridge[d].replica
  BY <1>1
<1>. QED  BY <1>1, <1>2, <1>3, <1>4, <1>5, QuietDevice

\* The same for what the user does at once.
LEMMA QuietChanges ==
    ASSUME IInv, IInv', MInv, NEW d \in Devices, NEW x, NEW b, NEW e, Changes(d, x, b, e),
           b.replica = bridge[d].replica, Calm(engine[d], e), ToPush' => ToPush,
           server'.log = server.log, server'.exists => server.exists, clients' = clients
    PROVE  MInv'
<1>1. Sets(d, x, b, e)
  BY ChangesIs
<1>2. /\ Same(engine[d], e) /\ e.seen = engine[d].seen /\ Calms(engine[d], e)
  BY DEF Calm, Calms
<1>3. Reads(engine[d], engine[d].seen, e.seen, server.log)
  <2>1. engine[d].seen \in Nat /\ DOMAIN server.log \subseteq Nat
    BY GoodIs, LogIs DEF EngineGood
  <2>. QED  BY <1>2, <2>1, NoReads
<1>4. server'.exists => Ahead
  BY DEF Ahead
<1>. QED  BY <1>1, <1>2, <1>3, <1>4, QuietDevice

\* And for what the engine does alone.
LEMMA EngineSets ==
    ASSUME IInv, IInv', NEW d \in Devices, NEW f, engine' = [engine EXCEPT ![d] = f],
           UNCHANGED <<db, bridge>>
    PROVE  Sets(d, db[d], bridge[d], f)
BY DEF IInv, Sets

LEMMA ConnectMerges ==
    ASSUME IInv, IInv', MInv, NEW d \in Devices, Connect(d)
    PROVE  MInv'
<1>. DEFINE x == db[d]
            b == bridge[d]
            e == engine[d]
            c == [b EXCEPT !.joining = IF x.space = "mapped" /\ @ = "no" THEN "asked" ELSE @]
            f == [e EXCEPT !.up = TRUE, !.target = IF e.open THEN Len(server.log) ELSE 0]
<1>1. Handled(d, x, c, f) /\ UNCHANGED <<server, history>> /\ Spends /\ UNCHANGED clients
  BY DEF Connect, Quietly, Spends
<1>2. DOMAIN b = BridgeFields /\ DOMAIN e = EngineFields
  BY GoodIs
<1>3. c.replica = b.replica
  BY <1>2 DEF BridgeFields
<1>4. Calm(e, f)
  BY <1>2 DEF EngineFields, Calm, Same
<1>. HIDE DEF c, f
<1>. QED  BY <1>1, <1>3, <1>4, PushStays, QuietHandled

LEMMA DisconnectMerges ==
    ASSUME IInv, IInv', MInv, NEW d \in Devices, Disconnect(d)
    PROVE  MInv'
<1>. DEFINE x == db[d]
            b == bridge[d]
            e == engine[d]
            lost == [e EXCEPT !.up = FALSE, !.waiting = {}, !.fetching = {},
                              !.wire = [i \in ImageIds |-> 0]]
            c == [b EXCEPT
                !.live = FALSE, !.peeking = @ /\ e.knows,
                !.joining = IF @ = "asked" /\ ~e.knows THEN "hung" ELSE @,
                !.creating = [n \in DOMAIN @ |-> IF @[n] = "asked" THEN "failed" ELSE @[n]]]
            f == Results(lost, e.waiting, "error")
<1>1. Handled(d, x, c, f) /\ UNCHANGED <<server, history>> /\ Spends /\ UNCHANGED clients
  BY DEF Disconnect, Spends
<1>2. DOMAIN b = BridgeFields /\ DOMAIN e = EngineFields
  BY GoodIs
<1>3. c.replica = b.replica
  BY <1>2 DEF BridgeFields
<1>4. Calm(e, lost) /\ DOMAIN lost = EngineFields
  BY <1>2 DEF EngineFields, Calm, Same
<1>. HIDE DEF c, lost
<1>5. Calm(e, f)
  BY <1>4, CalmResults, CalmTrans
<1>. HIDE DEF f
<1>. QED  BY <1>1, <1>3, <1>5, PushStays, QuietHandled

\* The pass of an event that neither writes nor reads the log.
LEMMA QuietInbound ==
    ASSUME IInv, IInv', MInv, NEW d \in Devices, NEW x, NEW b, NEW e, Inbound(d, x, b, e),
           DOMAIN b = BridgeFields, DOMAIN e = EngineFields,
           b.replica = bridge[d].replica, Calm(engine[d], e),
           UNCHANGED server, UNCHANGED history, Spends, clients' = clients
    PROVE  MInv'
<1>. DEFINE y == InboundDb(x, b)
            c == InboundBridge(x, b)
            f == InboundEngine(x, b, e)
<1>1. Handled(d, y, c, f)
  BY DEF Inbound
<1>2. c.replica = bridge[d].replica
  BY InboundReplica
<1>3. Calm(engine[d], f)
  BY CalmInbound, CalmTrans
<1>. HIDE DEF y, c, f
<1>. QED  BY <1>1, <1>2, <1>3, PushStays, QuietHandled

LEMMA SyncedMerges ==
    ASSUME IInv, IInv', MInv, NEW d \in Devices, Synced(d)
    PROVE  MInv'
<1>. DEFINE b == bridge[d]
            e == engine[d]
            c == [b EXCEPT !.live = TRUE, !.dirty = TRUE]
<1>1. Inbound(d, db[d], c, e) /\ UNCHANGED <<server, history>> /\ Spends /\ UNCHANGED clients
  BY DEF Synced, Quietly, Spends
<1>2. DOMAIN b = BridgeFields /\ DOMAIN e = EngineFields
  BY GoodIs
<1>3. c.replica = b.replica /\ DOMAIN c = BridgeFields
  BY <1>2 DEF BridgeFields
<1>4. Calm(e, e)
  BY DEF Calm, Same
<1>. HIDE DEF c
<1>. QED  BY <1>1, <1>2, <1>3, <1>4, QuietInbound

LEMMA DeliverMerges ==
    ASSUME IInv, IInv', MInv, NEW d \in Devices, Deliver(d)
    PROVE  MInv'
<1>. DEFINE x == db[d]
            b == bridge[d]
            e == engine[d]
            n == e.seen + 1
            c == [b EXCEPT !.replica = Apply(@, server.log[n].update)]
            f == [e EXCEPT !.seen = Past(e, n, server.log)]
            y == InboundDb(x, c)
            c2 == InboundBridge(x, c)
            f2 == InboundEngine(x, c, f)
<1>1. /\ Handled(d, y, c2, f2) /\ UNCHANGED <<server, history>> /\ Spends /\ UNCHANGED clients
      /\ e.seen < Len(server.log)
  BY DEF Deliver, Quietly, Spends, Inbound
<1>2. /\ DOMAIN b = BridgeFields /\ DOMAIN e = EngineFields /\ e.seen \in 0..Len(server.log)
      /\ Len(server.log) \in Nat /\ DOMAIN server.log = 1..Len(server.log)
  BY GoodIs, LogIs DEF EngineGood
<1>3. n \in DOMAIN server.log /\ n \in 0..Len(server.log)
  BY <1>1, <1>2
<1>4. Reads(e, n, Past(e, n, server.log), server.log)
  BY <1>2, <1>3, PastReads
<1>5. c.replica = Apply(b.replica, server.log[n].update) /\ DOMAIN c = BridgeFields
  BY <1>2 DEF BridgeFields
<1>6. /\ f.seen = Past(e, n, server.log) /\ Same(e, f) /\ f.knows = e.knows
      /\ f.refusal = e.refusal /\ f.destroyed = e.destroyed /\ DOMAIN f = EngineFields
  BY <1>2 DEF EngineFields, Same
<1>7. c2.replica = c.replica
  BY <1>5, InboundReplica
<1>8. Calm(f, f2)
  BY <1>6, CalmInbound
<1>9. PICK c3 : Sets(d, y, c3, f2) /\ c3.replica = c2.replica
  BY <1>1, HandledSets
<1>10. ToPush' = ToPush
  BY <1>1, PushStays
<1>. HIDE DEF c, f, c2, f2, y
<1>11. Same(e, f2) /\ Calms(e, f2) /\ f2.seen = f.seen
  BY <1>6, <1>8, <1>10 DEF Calm, Calms, Same
<1>12. Reads(engine[d], n, f2.seen, server.log)
  BY <1>4, <1>6, <1>11
<1>13. c3.replica = Apply(bridge[d].replica, server.log[n].update)
  BY <1>5, <1>7, <1>9
<1>14. server'.log = server.log /\ (server'.exists => Ahead) /\ clients' = clients
  BY <1>1 DEF Ahead
<1>15. n = engine[d].seen + 1
  OBVIOUS
<1>. HIDE DEF n, e
<1>16. Same(engine[d], f2) /\ Calms(engine[d], f2)
  BY <1>11 DEF e
<1>. QED  BY <1>3, <1>9, <1>12, <1>13, <1>14, <1>15, <1>16, DeliveredDevice

LEMMA CalmSelf == \A e : Calm(e, e)
BY DEF Calm, Same

\* A step of the bridge alone, or of the engine alone.
LEMMA QuietSets ==
    ASSUME IInv, IInv', MInv, NEW d \in Devices, NEW x, NEW b, NEW f, Sets(d, x, b, f),
           b.replica = bridge[d].replica, Calm(engine[d], f), ToPush' => ToPush,
           server'.log = server.log, server'.exists => server.exists, clients' = clients
    PROVE  MInv'
<1>2. /\ Same(engine[d], f) /\ f.seen = engine[d].seen /\ Calms(engine[d], f)
  BY DEF Calm, Calms
<1>3. Reads(engine[d], engine[d].seen, f.seen, server.log)
  <2>1. engine[d].seen \in Nat /\ DOMAIN server.log \subseteq Nat
    BY GoodIs, LogIs DEF EngineGood
  <2>. QED  BY <1>2, <2>1, NoReads
<1>4. server'.exists => Ahead
  BY DEF Ahead
<1>. QED  BY <1>2, <1>3, <1>4, QuietDevice

LEMMA IdleMerges ==
    ASSUME IInv, IInv', MInv, NEW d \in Devices, Idle(d)
    PROVE  MInv'
<1>. DEFINE b == bridge[d]
            e == engine[d]
            f == [e EXCEPT !.idle = FALSE]
<1>1. DOMAIN b = BridgeFields /\ DOMAIN e = EngineFields
  BY GoodIs
<1>2. Calm(e, f)
  BY <1>1 DEF EngineFields, Calm, Same
<1>3. UNCHANGED <<server, history>> /\ Spends /\ UNCHANGED clients
  BY DEF Idle, Quietly, Spends
<1>4. \E x, c : Handled(d, x, c, f) /\ c.replica = b.replica
  <2>. HIDE DEF f
  <2>1. \E x : Handled(d, x, b, f)
    BY DEF Idle, f
  <2>. QED  BY <2>1
<1>. HIDE DEF f
<1>. QED  BY <1>2, <1>3, <1>4, PushStays, QuietHandled

LEMMA OpenedReads ==
    ASSUME IInv, NEW e, DOMAIN e = EngineFields, e.seen \in Nat
    PROVE  /\ LET f == Opened(e)
              IN  /\ Same(e, f) /\ Reads(e, e.seen, f.seen, server.log) /\ f.knows = e.knows
                  /\ f.refusal = e.refusal /\ f.destroyed = e.destroyed /\ DOMAIN f = EngineFields
           /\ LET f == AskOpen(e)
              IN  /\ Same(e, f) /\ Reads(e, e.seen, f.seen, server.log) /\ f.knows = e.knows
                  /\ f.refusal = e.refusal /\ f.destroyed = e.destroyed /\ DOMAIN f = EngineFields
<1>. DEFINE Fine(f) == /\ Same(e, f) /\ Reads(e, e.seen, f.seen, server.log) /\ f.knows = e.knows
                       /\ f.refusal = e.refusal /\ f.destroyed = e.destroyed
                       /\ DOMAIN f = EngineFields
            p == Past(e, 0, server.log)
            g == [e EXCEPT !.open = TRUE, !.opening = FALSE, !.seen = p,
                           !.target = Len(server.log)]
            h == [e EXCEPT !.opening = TRUE]
<1>1. Len(server.log) \in Nat /\ DOMAIN server.log = 1..Len(server.log)
  BY LogIs
<1>2. Reads(e, 0, p, server.log)
  <2>1. 0 \in 0..Len(server.log)
    BY <1>1
  <2>. QED  BY <1>1, <2>1, PastReads
<1>3. Reads(e, e.seen, p, server.log)
  <2>. HIDE DEF p
  <2>. QED  BY <1>1, <1>2 DEF Reads
<1>4. Reads(e, e.seen, e.seen, server.log)
  <2>1. DOMAIN server.log \subseteq Nat
    BY <1>1
  <2>. QED  BY <2>1, NoReads
<1>. HIDE DEF p
<1>5. Fine(e)
  BY <1>4 DEF Same
<1>6. Fine(g)
  <2>1. /\ g.client = e.client /\ g.out = e.out /\ g.lost = e.lost /\ g.seen = p
        /\ g.knows = e.knows /\ g.refusal = e.refusal /\ g.destroyed = e.destroyed
        /\ DOMAIN g = EngineFields
    BY DEF EngineFields
  <2>. HIDE DEF g
  <2>. QED  BY <1>3, <2>1 DEF Same
<1>7. Fine(h)
  <2>1. /\ h.client = e.client /\ h.out = e.out /\ h.lost = e.lost /\ h.seen = e.seen
        /\ h.knows = e.knows /\ h.refusal = e.refusal /\ h.destroyed = e.destroyed
        /\ DOMAIN h = EngineFields
    BY DEF EngineFields
  <2>. HIDE DEF h
  <2>. QED  BY <1>4, <2>1 DEF Same
<1>8. Opened(e) = e \/ Opened(e) = g
  BY DEF Opened, p
<1>9. AskOpen(e) = h \/ AskOpen(e) = Opened(e)
  BY DEF AskOpen
<1>. HIDE DEF g, h, Fine
<1>10. Fine(Opened(e)) /\ Fine(AskOpen(e))
  BY <1>5, <1>6, <1>7, <1>8, <1>9
<1>. QED  BY <1>10 DEF Fine

LEMMA OpenIndexMerges ==
    ASSUME IInv, IInv', MInv, NEW d \in Devices, OpenIndex(d)
    PROVE  MInv'
<1>. DEFINE e == engine[d]
            g == [e EXCEPT !.opening = FALSE]
            f == IF e.knows THEN Opened(e) ELSE g
<1>1. /\ engine' = [engine EXCEPT ![d] = f] /\ UNCHANGED <<db, bridge>>
      /\ UNCHANGED <<server, history>> /\ Spends /\ UNCHANGED clients
  BY DEF OpenIndex, Quietly, Spends
<1>2. /\ DOMAIN e = EngineFields /\ e.seen \in Nat
      /\ DOMAIN server.log \subseteq Nat
  BY GoodIs, LogIs DEF EngineGood
<1>3. /\ Same(e, g) /\ g.seen = e.seen /\ g.knows = e.knows
      /\ g.refusal = e.refusal /\ g.destroyed = e.destroyed
  BY <1>2 DEF EngineFields, Same
<1>4. Reads(e, e.seen, g.seen, server.log)
  BY <1>2, <1>3, NoReads
<1>. HIDE DEF g
<1>5. /\ Same(e, f) /\ Reads(e, e.seen, f.seen, server.log) /\ f.knows = e.knows
      /\ f.refusal = e.refusal /\ f.destroyed = e.destroyed
  BY <1>2, <1>3, <1>4, OpenedReads
<1>6. Sets(d, db[d], bridge[d], f)
  <2>. HIDE DEF f
  <2>. QED  BY <1>1, EngineSets
<1>. HIDE DEF f
<1>7. Calms(e, f) /\ (server'.exists => Ahead)
  BY <1>1, <1>5, PushStays DEF Calms, Ahead
<1>. HIDE DEF e
<1>8. /\ Same(engine[d], f) /\ Reads(engine[d], engine[d].seen, f.seen, server.log)
      /\ Calms(engine[d], f)
  BY <1>5, <1>7 DEF e
<1>. QED  BY <1>1, <1>6, <1>7, <1>8, QuietDevice

LEMMA MakeDocMerges ==
    ASSUME IInv, IInv', MInv, NEW d \in Devices, NEW n \in DOMAIN bridge[d].creating, MakeDoc(d, n)
    PROVE  MInv'
<1>. DEFINE b == bridge[d]
            made == IF engine[d].knows /\ engine[d].up THEN "made" ELSE "failed"
            c == [b EXCEPT !.creating = [b.creating EXCEPT ![n] = made]]
<1>1. /\ bridge' = [bridge EXCEPT ![d] = c]
      /\ UNCHANGED <<db, engine>> /\ UNCHANGED <<server, history>> /\ Spends /\ UNCHANGED clients
  BY DEF MakeDoc, Quietly, Spends
<1>2. DOMAIN b = BridgeFields
  BY GoodIs
<1>. HIDE DEF made
<1>3. c.replica = b.replica
  BY <1>2 DEF BridgeFields
<1>. HIDE DEF c
<1>4. Sets(d, db[d], c, engine[d])
  BY <1>1 DEF Sets, IInv
<1>5. ToPush' = ToPush
  BY <1>1, PushStays
<1>. QED  BY <1>1, <1>3, <1>4, <1>5, CalmSelf, QuietSets

LEMMA DocCreatedMerges ==
    ASSUME IInv, IInv', MInv, NEW d \in Devices, NEW n \in DOMAIN bridge[d].creating,
           DocCreated(d, n)
    PROVE  MInv'
<1>. DEFINE b == bridge[d]
            c == [b EXCEPT !.creating = Without(@, {n})]
            g == Registered(c, {n})
<1>1. /\ (\E x : Handled(d, x, c, engine[d])) \/ (\E x : Handled(d, x, g, engine[d]))
      /\ UNCHANGED <<server, history>> /\ Spends /\ UNCHANGED clients
  BY DEF DocCreated, Quietly, Spends
<1>2. DOMAIN b = BridgeFields
  BY GoodIs
<1>3. c.replica = b.replica /\ DOMAIN c = BridgeFields
  BY <1>2 DEF BridgeFields
<1>. HIDE DEF c
<1>4. g.replica = b.replica
  BY <1>3, RegisteredReplica
<1>. HIDE DEF g
<1>. QED  BY <1>1, <1>3, <1>4, CalmSelf, PushStays, QuietHandled

LEMMA StoreImageMerges ==
    ASSUME IInv, IInv', MInv, NEW d \in Devices, NEW i \in ImageIds, StoreImage(d, i)
    PROVE  MInv'
<1>. DEFINE e0 == engine[d]
            e == [e0 EXCEPT !.wire = [e0.wire EXCEPT ![i] = @ - 1], !.waiting = @ \ {i}]
            g == Results(e, {i}, "stored")
            f == IF i \in e0.waiting THEN g ELSE e
<1>1. /\ engine' = [engine EXCEPT ![d] = f] /\ UNCHANGED <<db, bridge, start, clients>>
      /\ UNCHANGED history
      /\ server' = [server EXCEPT !.stored = @ \cup {i}] /\ Spends
  BY DEF StoreImage, Quietly, Spends
<1>2. DOMAIN e0 = EngineFields /\ DOMAIN server = {"exists", "refuses", "log", "stored"}
  BY GoodIs DEF IInv, ServerGood
<1>3. Calm(e0, e) /\ DOMAIN e = EngineFields
  BY <1>2 DEF EngineFields, Calm, Same
<1>. HIDE DEF e
<1>4. Calm(e, g)
  BY <1>3, CalmResults
<1>5. Calm(e0, g)
  BY <1>3, <1>4, CalmTrans
<1>. HIDE DEF g
<1>6. Calm(e0, f)
  BY <1>3, <1>5
<1>. HIDE DEF f
<1>7. server'.log = server.log /\ server'.exists = server.exists
  BY <1>1, <1>2
<1>8. Sets(d, db[d], bridge[d], f)
  BY <1>1, EngineSets
<1>9. ToPush' = ToPush
  BY <1>1, PushStays
<1>10. server'.exists => server.exists
  BY <1>7
<1>11. clients' = clients
  BY <1>1
<1>. QED  BY <1>6, <1>7, <1>8, <1>9, <1>10, <1>11, QuietSets

LEMMA BlobUploadedMerges ==
    ASSUME IInv, IInv', MInv, NEW d \in Devices, BlobUploaded(d)
    PROVE  MInv'
<1>. DEFINE x == db[d]
            b == bridge[d]
            e == engine[d]
            i == Head(e.results)[1]
            result == Head(e.results)[2]
            f == [e EXCEPT !.results = Tail(@)]
            quit == [b EXCEPT !.uploading = @ \ {i}]
            again == [quit EXCEPT !.tries[i] = @ + 1]
            failed == [quit EXCEPT !.failed = @ \cup {i}, !.tries[i] = 0]
            flagged == i \in DOMAIN x.images /\ x.images[i].push
            y == IF flagged THEN [x EXCEPT !.images[i].push = FALSE] ELSE x
            tables == IF flagged THEN {"images"} ELSE {}
            stored == [quit EXCEPT !.failed = @ \ {i}, !.tries[i] = 0]
            c == Moves(stored, tables)
<1>1. UNCHANGED <<server, history>> /\ Spends /\ UNCHANGED clients
  BY DEF BlobUploaded, Quietly, Spends
<1>2. \/ result = "stored" /\ Handled(d, y, c, f)
      \/ result # "stored" /\ GivenUp(result, quit.tries[i]) /\ Handled(d, x, failed, f)
      \/ result # "stored" /\ ~GivenUp(result, quit.tries[i]) /\ Handled(d, x, again, f)
  BY DEF BlobUploaded
<1>3. DOMAIN b = BridgeFields /\ DOMAIN e = EngineFields
  BY GoodIs
<1>4. Calm(e, f)
  BY <1>3 DEF EngineFields, Calm, Same
<1>. HIDE DEF i, result, f, y, tables
<1>5. quit.replica = b.replica /\ DOMAIN quit = BridgeFields
  BY <1>3 DEF BridgeFields
<1>. HIDE DEF quit
<1>6. /\ again.replica = b.replica /\ failed.replica = b.replica
      /\ stored.replica = b.replica /\ DOMAIN stored = BridgeFields
  BY <1>5 DEF BridgeFields
<1>. HIDE DEF again, failed, stored
<1>7. c.replica = b.replica
  BY <1>6, MovesReplica
<1>. HIDE DEF c
<1>8. \E z, g : Handled(d, z, g, f) /\ g.replica = b.replica
  BY <1>2, <1>6, <1>7
<1>. QED  BY <1>1, <1>4, <1>8, PushStays, QuietHandled

LEMMA BlobFetchedMerges ==
    ASSUME IInv, IInv', MInv, NEW d \in Devices, NEW i \in ImageIds, BlobFetched(d, i)
    PROVE  MInv'
<1>. DEFINE b == bridge[d]
            e == [engine[d] EXCEPT !.fetching = @ \ {i}]
<1>1. UNCHANGED <<server, history>> /\ Spends /\ UNCHANGED clients
  BY DEF BlobFetched, Quietly, Spends
<1>2. DOMAIN b = BridgeFields /\ DOMAIN engine[d] = EngineFields
  BY GoodIs
<1>3. Calm(engine[d], e)
  BY <1>2 DEF EngineFields, Calm, Same
<1>4. \/ \E x : Handled(d, x, Moves(b, {"images"}), e)
      \/ Handled(d, db[d], b, e)
  BY DEF BlobFetched
<1>5. Moves(b, {"images"}).replica = b.replica
  BY <1>2, MovesReplica
<1>. HIDE DEF e
<1>8. \E x, c : Handled(d, x, c, e) /\ c.replica = b.replica
  BY <1>4, <1>5
<1>. QED  BY <1>1, <1>3, <1>8, PushStays, QuietHandled

\* The engine comes to know the space, and opens the index or will.
LEMMA JoinedHandled ==
    ASSUME IInv, IInv', MInv, NEW d \in Devices, Joinable(engine[d]),
           NEW x, NEW b, NEW f, Handled(d, x, b, f), b.replica = bridge[d].replica,
           Calm(AskOpen([engine[d] EXCEPT !.knows = TRUE]), f),
           UNCHANGED server, UNCHANGED history, Spends, clients' = clients
    PROVE  MInv'
<1>. DEFINE e == engine[d]
            e1 == [e EXCEPT !.knows = TRUE]
            e2 == AskOpen(e1)
<1>1. DOMAIN e = EngineFields /\ e.seen \in Nat
  BY GoodIs DEF EngineGood
<1>2. /\ DOMAIN e1 = EngineFields /\ Same(e, e1) /\ e1.seen = e.seen
      /\ e1.refusal = e.refusal /\ e1.destroyed = e.destroyed
  BY <1>1 DEF EngineFields, Same
<1>. HIDE DEF e1
<1>3. /\ Same(e1, e2) /\ Reads(e1, e1.seen, e2.seen, server.log)
      /\ e2.refusal = e1.refusal /\ e2.destroyed = e1.destroyed
  BY <1>1, <1>2, OpenedReads
<1>. HIDE DEF e2
<1>4. Calm(e2, f)
  BY DEF e1, e2
<1>5. Same(e, f) /\ f.seen = e2.seen /\ f.refusal = e.refusal /\ f.destroyed = e.destroyed
  BY <1>2, <1>3, <1>4 DEF Same, Calm
<1>6. Reads(e, e.seen, f.seen, server.log)
  BY <1>2, <1>3, <1>5 DEF Reads, Same
<1>7. ~ToPush
  BY DEF Joinable, MInv, IInv, ServerGood
<1>8. Calms(e, f)
  BY <1>5, <1>7, PushStays DEF Calms
<1>9. PICK c : Sets(d, x, c, f) /\ c.replica = b.replica
  BY HandledSets
<1>10. c.replica = bridge[d].replica /\ (server'.exists => Ahead) /\ server'.log = server.log
  BY <1>9 DEF Ahead
<1>. HIDE DEF e
<1>11. Same(engine[d], f) /\ Reads(engine[d], engine[d].seen, f.seen, server.log)
       /\ Calms(engine[d], f)
  BY <1>5, <1>6, <1>8 DEF e
<1>. QED  BY <1>9, <1>10, <1>11, QuietDevice

LEMMA SpaceJoinedMerges ==
    ASSUME IInv, IInv', MInv, NEW d \in Devices, SpaceJoined(d)
    PROVE  MInv'
<1>. DEFINE x == db[d]
            b == bridge[d]
            e == engine[d]
            quit == [b EXCEPT !.joining = "no", !.peeking = FALSE]
            m == Mirror(d)
            tables == IF m # x THEN {"spaces"} ELSE {}
            had == [quit EXCEPT !.has = TRUE]
            has == Moves(had, tables)
            f == AskOpen([e EXCEPT !.knows = TRUE])
            y == InboundDb(m, has)
            c == InboundBridge(m, has)
            c2 == Registered(c, Mapped(y))
            g == InboundEngine(m, has, f)
<1>1. /\ (Joinable(e) /\ Handled(d, y, c2, g)) \/ Handled(d, x, quit, e)
      /\ UNCHANGED <<server, history>> /\ Spends /\ UNCHANGED clients
  BY DEF SpaceJoined, Quietly, Spends
<1>2. DOMAIN b = BridgeFields /\ DOMAIN e = EngineFields /\ e.seen \in Nat
  BY GoodIs DEF EngineGood
<1>3. /\ quit.replica = b.replica /\ had.replica = b.replica /\ DOMAIN had = BridgeFields
  BY <1>2 DEF BridgeFields
<1>4. DOMAIN f = EngineFields
  <2>. DEFINE e1 == [e EXCEPT !.knows = TRUE]
  <2>1. DOMAIN e1 = EngineFields /\ e1.seen = e.seen
    BY <1>2 DEF EngineFields
  <2>. HIDE DEF e1
  <2>2. e1.seen \in Nat
    BY <1>2, <2>1
  <2>3. DOMAIN AskOpen(e1) = EngineFields
    BY <2>1, <2>2, OpenedReads
  <2>. QED  BY <2>3 DEF e1
<1>5. Calm(f, g)
  <2>. HIDE DEF f
  <2>. QED  BY <1>4, CalmInbound
<1>. HIDE DEF quit, had, tables, m, y, g
<1>6. has.replica = b.replica /\ DOMAIN has = BridgeFields
  BY <1>3, MovesReplica
<1>. HIDE DEF has
<1>7. c.replica = b.replica /\ DOMAIN c = BridgeFields
  BY <1>6, InboundReplica
<1>. HIDE DEF c
<1>8. c2.replica = b.replica
  BY <1>7, RegisteredReplica
<1>. HIDE DEF c2
<1>9. CASE Joinable(e) /\ Handled(d, y, c2, g)
  BY <1>1, <1>5, <1>8, <1>9, JoinedHandled
<1>10. CASE Handled(d, x, quit, e)
  BY <1>1, <1>3, <1>10, CalmSelf, PushStays, QuietHandled
<1>. QED  BY <1>1, <1>9, <1>10

LEMMA SpacePeekedMerges ==
    ASSUME IInv, IInv', MInv, NEW d \in Devices, SpacePeeked(d)
    PROVE  MInv'
<1>. DEFINE x == db[d]
            b == bridge[d]
            e == engine[d]
            quit == [b EXCEPT !.peeking = FALSE]
            has == [quit EXCEPT !.has = TRUE]
            f == AskOpen([e EXCEPT !.knows = TRUE])
            y == InboundDb(x, has)
            c == InboundBridge(x, has)
            g == InboundEngine(x, has, f)
<1>1. /\ (Joinable(e) /\ Handled(d, y, c, g)) \/ Handled(d, x, quit, e)
      /\ UNCHANGED <<server, history>> /\ Spends /\ UNCHANGED clients
  BY DEF SpacePeeked, Quietly, Spends, Inbound
<1>2. DOMAIN b = BridgeFields /\ DOMAIN e = EngineFields /\ e.seen \in Nat
  BY GoodIs DEF EngineGood
<1>3. /\ quit.replica = b.replica /\ has.replica = b.replica /\ DOMAIN has = BridgeFields
  BY <1>2 DEF BridgeFields
<1>4. DOMAIN f = EngineFields
  <2>. DEFINE e1 == [e EXCEPT !.knows = TRUE]
  <2>1. DOMAIN e1 = EngineFields /\ e1.seen = e.seen
    BY <1>2 DEF EngineFields
  <2>. HIDE DEF e1
  <2>2. e1.seen \in Nat
    BY <1>2, <2>1
  <2>3. DOMAIN AskOpen(e1) = EngineFields
    BY <2>1, <2>2, OpenedReads
  <2>. QED  BY <2>3 DEF e1
<1>5. Calm(f, g)
  <2>. HIDE DEF f
  <2>. QED  BY <1>4, CalmInbound
<1>. HIDE DEF quit, has, y, g
<1>7. c.replica = b.replica
  BY <1>3, InboundReplica
<1>. HIDE DEF c
<1>9. CASE Joinable(e) /\ Handled(d, y, c, g)
  BY <1>1, <1>5, <1>7, <1>9, JoinedHandled
<1>10. CASE Handled(d, x, quit, e)
  BY <1>1, <1>3, <1>10, CalmSelf, PushStays, QuietHandled
<1>. QED  BY <1>1, <1>9, <1>10

\* What a refused or destroyed space leaves: it is not there and never will be.
LEMMA GoneHandled ==
    ASSUME IInv, IInv', MInv, NEW d \in Devices, engine[d].refusal \/ engine[d].destroyed,
           NEW x, NEW b, NEW f, Handled(d, x, b, f), IsDoc(b.replica),
           UNCHANGED server, UNCHANGED history, Spends
    PROVE  MInv'
<1>1. PICK c : Sets(d, x, c, f) /\ c.replica = b.replica
  BY HandledSets
<1>2. \A m \in Devices : IsDoc(bridge'[m].replica)
  BY <1>1 DEF Sets, MInv
<1>3. ~Ahead
  BY DEF MInv
<1>4. ~Ahead'
  BY <1>3, PushStays DEF Ahead
<1>. QED  BY <1>2, <1>4, NothingAhead

LEMMA SpaceRejectedMerges ==
    ASSUME IInv, IInv', MInv, NEW d \in Devices, SpaceRejected(d)
    PROVE  MInv'
<1>. DEFINE x == db[d]
            b == bridge[d]
            e == engine[d]
            gone == [b EXCEPT !.refused = TRUE, !.has = FALSE, !.replica = EmptyDoc,
                        !.live = FALSE, !.author = FALSE, !.titles = Nothing,
                        !.known = None, !.peeked = FALSE]
            left == [gone EXCEPT !.pushing = FALSE]
            f == [e EXCEPT !.refusal = FALSE]
            y == Unmapped(x)
            c == Moves(left, {"spaces"})
<1>1. /\ \/ Handled(d, y, c, f)
         \/ Handled(d, x, gone, f)
      /\ UNCHANGED <<server, history>> /\ Spends /\ e.refusal
  BY DEF SpaceRejected, Quietly, Spends
<1>2. DOMAIN b = BridgeFields
  BY GoodIs
<1>3. /\ gone.replica = EmptyDoc /\ DOMAIN gone = BridgeFields
  BY <1>2 DEF BridgeFields
<1>. HIDE DEF gone, f, y
<1>4. left.replica = EmptyDoc /\ DOMAIN left = BridgeFields
  BY <1>3 DEF BridgeFields
<1>. HIDE DEF left
<1>5. c.replica = EmptyDoc
  BY <1>4, MovesReplica
<1>. HIDE DEF c
<1>6. \E z, g : Handled(d, z, g, f) /\ IsDoc(g.replica)
  BY <1>1, <1>3, <1>5, EmptyDocDoc
<1>. QED  BY <1>1, <1>6, GoneHandled

LEMMA SpaceDeletedMerges ==
    ASSUME IInv, IInv', MInv, NEW d \in Devices, SpaceDeleted(d)
    PROVE  MInv'
<1>. DEFINE x == db[d]
            b == bridge[d]
            e == engine[d]
            drop == Dropped(b)
            f == [e EXCEPT !.destroyed = FALSE]
            y == Unmapped(x)
            c == Moves(drop, {"spaces"})
<1>1. /\ \/ Handled(d, y, c, f)
         \/ Handled(d, x, drop, f)
      /\ UNCHANGED <<server, history>> /\ Spends /\ e.destroyed
  BY DEF SpaceDeleted, Quietly, Spends
<1>2. drop.replica = EmptyDoc /\ DOMAIN drop = BridgeFields
  BY GoodIs, DroppedIs
<1>. HIDE DEF drop, f, y
<1>3. c.replica = EmptyDoc
  BY <1>2, MovesReplica
<1>. HIDE DEF c
<1>4. \E z, g : Handled(d, z, g, f) /\ IsDoc(g.replica)
  BY <1>1, <1>2, <1>3, EmptyDocDoc
<1>. QED  BY <1>1, <1>4, GoneHandled

LEMMA RefuseMerges ==
    ASSUME IInv, IInv', MInv, NEW d \in Devices, Refuse(d)
    PROVE  MInv'
<1>1. /\ server.refuses /\ engine[d].knows
      /\ UNCHANGED <<db, bridge, server>> /\ UNCHANGED history /\ Spends
  BY DEF Refuse, Quietly, Spends
<1>2. ~Ahead
  BY <1>1 DEF Ahead, IInv, ServerGood, MInv
<1>3. ~Ahead'
  BY <1>1, <1>2, PushStays DEF Ahead
<1>4. \A m \in Devices : IsDoc(bridge'[m].replica)
  BY <1>1 DEF MInv
<1>. QED  BY <1>3, <1>4, NothingAhead

-----------------------------------------------------------------------------
(* The events that write. *)

LEMMA NothingApplied ==
    ASSUME NEW doc, IsDoc(doc)
    PROVE  Apply(doc, Nothing) = doc
<1>. DEFINE w == Apply(doc, Nothing)
<1>1. IsDoc(w) /\ \A k \in Keys : w[k] = doc[k]
  <2>1. IsUpdate(Nothing) /\ DOMAIN Nothing = {}
    BY NothingIs DEF UpdateGood
  <2>. QED  BY <2>1, AppliedIs
<1>. HIDE DEF w
<1>2. w = [k \in Keys |-> w[k]] /\ doc = [k \in Keys |-> doc[k]]
  BY <1>1 DEF IsDoc
<1>3. w = doc
  BY <1>1, <1>2
<1>. QED  BY <1>3 DEF w

LEMMA QueuedIs ==
    ASSUME NEW e, DOMAIN e = EngineFields, NEW u
    PROVE  LET f == Queued(e, u)
           IN  /\ DOMAIN f = EngineFields /\ f.client = e.client /\ f.seen = e.seen
               /\ f.knows = e.knows /\ f.refusal = e.refusal /\ f.destroyed = e.destroyed
               /\ u = Nothing => f = e
               /\ u # Nothing => \/ f.out = Apply(e.out, u) /\ f.lost = e.lost
                                 \/ f.out = e.out /\ f.lost
<1>. DEFINE out == Apply(e.out, u)
            f == Queued(e, u)
            g == [e EXCEPT !.out = out]
            h == [e EXCEPT !.lost = TRUE]
<1>1. \/ u = Nothing /\ f = e
      \/ u # Nothing /\ f = g
      \/ u # Nothing /\ f = h
  BY DEF Queued
<1>. HIDE DEF f, out
<1>2. /\ DOMAIN g = EngineFields /\ g.client = e.client /\ g.seen = e.seen
      /\ g.knows = e.knows /\ g.refusal = e.refusal /\ g.destroyed = e.destroyed
      /\ g.out = out /\ g.lost = e.lost
  BY DEF EngineFields
<1>3. /\ DOMAIN h = EngineFields /\ h.client = e.client /\ h.seen = e.seen
      /\ h.knows = e.knows /\ h.refusal = e.refusal /\ h.destroyed = e.destroyed
      /\ h.out = e.out /\ h.lost = TRUE
  BY DEF EngineFields
<1>. HIDE DEF g, h
<1>. QED  BY <1>1, <1>2, <1>3 DEF f, out

\* Device d writes what it wants, unless it wants nothing that is not there.
LEMMA WritesSets ==
    ASSUME IInv, IInv', MInv, NEW d \in Devices, NEW x, NEW b, NEW f, Sets(d, x, b, f),
           NEW w, IsWant(w), NEW u, u = Nothing \/ u = Update(bridge[d].replica, w, engine[d].client),
           b.replica = Apply(bridge[d].replica, u), Calm(Queued(engine[d], u), f),
           UNCHANGED server, UNCHANGED history, Spends, clients' = clients
    PROVE  MInv'
<1>. DEFINE e == engine[d]
            q == Queued(e, u)
<1>1. /\ DOMAIN q = EngineFields /\ q.client = e.client /\ q.seen = e.seen
      /\ q.knows = e.knows /\ q.refusal = e.refusal /\ q.destroyed = e.destroyed
      /\ u = Nothing => q = e
      /\ u # Nothing => \/ q.out = Apply(e.out, u) /\ q.lost = e.lost
                        \/ q.out = e.out /\ q.lost
  BY GoodIs, QueuedIs
<1>2. Calm(q, f)
  OBVIOUS
<1>3. ToPush' = ToPush /\ server'.log = server.log /\ (server'.exists => server.exists)
  BY PushStays
<1>. HIDE DEF q, e
<1>4. CASE u = Nothing
  <2>1. b.replica = bridge[d].replica
    BY <1>4, NothingApplied DEF MInv
  <2>2. Calm(engine[d], f)
    BY <1>1, <1>2, <1>4 DEF e
  <2>. QED  BY <1>3, <2>1, <2>2, QuietSets
<1>5. CASE u # Nothing
  <2>1. u = Update(bridge[d].replica, w, engine[d].client)
    BY <1>5
  <2>2. /\ f.client = e.client /\ f.seen = e.seen /\ Calms(e, f)
        /\ \/ f.out = Apply(e.out, u) /\ f.lost = e.lost
           \/ f.out = e.out /\ f.lost
    BY <1>1, <1>2, <1>3, <1>5 DEF Calm, Same, Calms
  <2>3. LET u2 == Update(bridge[d].replica, w, engine[d].client)
        IN  /\ b.replica = Apply(bridge[d].replica, u2)
            /\ \/ f.out = Apply(engine[d].out, u2) /\ f.lost = engine[d].lost
               \/ f.out = engine[d].out /\ f.lost
    BY <2>1, <2>2 DEF e
  <2>4. f.client = engine[d].client /\ f.seen = engine[d].seen /\ Calms(engine[d], f)
    BY <2>2 DEF e
  <2>5. server'.exists => Ahead
    BY DEF Ahead
  <2>. QED  BY <1>3, <2>3, <2>4, <2>5, WrittenDevice
<1>. QED  BY <1>4, <1>5

LEMMA PassedReplica ==
    ASSUME NEW b, DOMAIN b = BridgeFields, NEW x, NEW u
    PROVE  LET c == [Passed(x, b, u) EXCEPT !.due = FALSE]
           IN  c.replica = Apply(b.replica, u)
<1>. DEFINE asked == IF x.space = "mapped" THEN Creating(x, b) ELSE b
            p == Passed(x, b, u)
            c == [p EXCEPT !.due = FALSE]
<1>1. asked.replica = b.replica /\ DOMAIN asked = BridgeFields
  BY CreatingReplica
<1>2. p = [asked EXCEPT
              !.replica = Apply(@, u), !.moved = {}, !.dirty = FALSE,
              !.titles = WrittenTitles(x, @),
              !.removedFolders = IF Gate(b, "folders") THEN {} ELSE @,
              !.removedImages = IF Gate(b, "images") THEN {} ELSE @,
              !.uploading = @ \cup Reship(x, b)]
  BY DEF Passed
<1>. HIDE DEF asked, p
<1>3. p.replica = Apply(b.replica, u) /\ DOMAIN p = BridgeFields
  BY <1>1, <1>2 DEF BridgeFields
<1>4. c.replica = Apply(b.replica, u)
  BY <1>3 DEF BridgeFields
<1>. QED  BY <1>4 DEF p

LEMMA ReconcileMerges ==
    ASSUME IInv, IInv', MInv, NEW d \in Devices, Reconcile(d)
    PROVE  MInv'
<1>. DEFINE x == db[d]
            b == bridge[d]
            e == engine[d]
            w == Wanted(x, b)
            u == Written(x, b, e)
            c == [Passed(x, b, u) EXCEPT !.due = FALSE]
            q == Queued(e, u)
            f == Put(q, Reship(x, b))
<1>1. Changes(d, x, c, f) /\ UNCHANGED <<server, history>> /\ Spends /\ UNCHANGED clients
  BY DEF Reconcile, Spends
<1>2. /\ DOMAIN b = BridgeFields /\ DOMAIN e = EngineFields
      /\ BridgeGood(b, used, Kept) /\ IsDb(x)
  BY GoodIs DEF DbGood
<1>3. IsWant(w)
  BY <1>2, WantedIs
<1>4. u = Nothing \/ u = Update(b.replica, w, e.client)
  BY DEF Written
<1>. HIDE DEF u, w
<1>5. c.replica = Apply(b.replica, u)
  BY <1>2, PassedReplica
<1>6. DOMAIN q = EngineFields
  BY <1>2, QueuedIs
<1>. HIDE DEF q
<1>7. Calm(q, f)
  BY <1>6, CalmPut
<1>. HIDE DEF c, f
<1>8. Sets(d, x, c, f)
  BY <1>1, ChangesIs
<1>9. Calm(Queued(engine[d], u), f)
  BY <1>7 DEF q
<1>. QED  BY <1>1, <1>3, <1>4, <1>5, <1>8, <1>9, WritesSets

LEMMA SpacePushedMerges ==
    ASSUME IInv, IInv', MInv, NEW d \in Devices, SpacePushed(d)
    PROVE  MInv'
<1>. DEFINE x == db[d]
            b == bridge[d]
            e == engine[d]
            y == [x EXCEPT !.space = "mapped"]
            w == NameWants(y)
            quit == [b EXCEPT !.pushing = FALSE]
            u == Update(quit.replica, w, e.client)
            bound == [quit EXCEPT !.has = TRUE, !.author = TRUE, !.replica = Apply(@, u)]
            asked == Creating(y, bound)
            c == Moves(asked, {"spaces"})
            f == Queued(e, u)
<1>1. /\ Handled(d, y, c, f) \/ Handled(d, x, quit, e)
      /\ UNCHANGED <<server, history>> /\ Spends /\ UNCHANGED clients
  BY DEF SpacePushed, Quietly, Spends
<1>2. /\ DOMAIN b = BridgeFields /\ DOMAIN e = EngineFields /\ IsDb(x)
      /\ DOMAIN x = {"space", "name", "folders", "notes", "images"}
  BY GoodIs DEF DbGood
<1>3. IsWant(w)
  <2>1. IsDb(y)
    BY <1>2, SetSpace
  <2>. HIDE DEF y
  <2>. QED  BY <2>1, NameWantsAre
<1>4. quit.replica = b.replica /\ DOMAIN quit = BridgeFields
  BY <1>2 DEF BridgeFields
<1>. HIDE DEF quit, y, w
<1>5. u = Update(b.replica, w, e.client)
  BY <1>4
<1>. HIDE DEF u
<1>6. bound.replica = Apply(b.replica, u) /\ DOMAIN bound = BridgeFields
  BY <1>4 DEF BridgeFields
<1>. HIDE DEF bound
<1>7. asked.replica = Apply(b.replica, u) /\ DOMAIN asked = BridgeFields
  BY <1>6, CreatingReplica
<1>. HIDE DEF asked
<1>8. c.replica = Apply(b.replica, u)
  BY <1>7, MovesReplica
<1>. HIDE DEF c
<1>9. CASE Handled(d, y, c, f)
  <2>. HIDE DEF f
  <2>1. PICK c2 : Sets(d, y, c2, f) /\ c2.replica = c.replica
    BY <1>9, HandledSets
  <2>2. Calm(Queued(engine[d], u), f)
    BY CalmSelf DEF f
  <2>3. c2.replica = Apply(bridge[d].replica, u)
    BY <1>8, <2>1
  <2>4. u = Update(bridge[d].replica, w, engine[d].client)
    BY <1>5
  <2>. QED  BY <1>1, <1>3, <2>1, <2>2, <2>3, <2>4, WritesSets
<1>10. CASE Handled(d, x, quit, e)
  BY <1>1, <1>4, <1>10, CalmSelf, PushStays, QuietHandled
<1>. QED  BY <1>1, <1>9, <1>10

\* A device pushes what is queued, and every device reads on.
LEMMA PushMerges ==
    ASSUME IInv, IInv', MInv, NEW d \in Devices, Push(d)
    PROVE  MInv'
<1>. DEFINE e == engine[d]
            entry == [from |-> e.client, update |-> e.out, lost |-> e.lost]
            log == Append(server.log, entry)
            n == Len(server.log)
            read(m) == [engine[m] EXCEPT !.seen = Past(engine[m], @, log)]
            sent == [e EXCEPT !.out = Nothing, !.idle = TRUE, !.seen = Past(e, @, log)]
<1>1. /\ server' = [server EXCEPT !.log = log]
      /\ engine' = [m \in Devices |-> IF m = d THEN sent ELSE read(m)]
      /\ bridge' = bridge /\ clients' = clients /\ UNCHANGED history /\ Spends
  BY DEF Push, Quietly, Spends
<1>2. /\ n \in Nat /\ DOMAIN server.log = 1..n
      /\ server.log \in Seq({server.log[j] : j \in DOMAIN server.log})
      /\ DOMAIN server = {"exists", "refuses", "log", "stored"}
  BY LogIs DEF IInv, ServerGood, Logged
<1>3. /\ Len(log) = n + 1 /\ DOMAIN log = 1..Len(log) /\ Len(log) \in Nat
      /\ \A j \in DOMAIN server.log : log[j] = server.log[j]
      /\ log[Len(log)] = entry
  <2>. DEFINE s == server.log
              t == Append(s, entry)
  <2>1. s \in Seq({s[j] : j \in DOMAIN s})
    BY <1>2
  <2>2. log = t /\ n = Len(s) /\ s = server.log
    OBVIOUS
  <2>. HIDE DEF entry, s, log, n
  <2>3. /\ Len(s) \in Nat /\ DOMAIN s = 1..Len(s) /\ Len(t) = Len(s) + 1
        /\ DOMAIN t = 1..Len(t) /\ \A j \in 1..Len(s) : t[j] = s[j]
        /\ t[Len(t)] = entry
    BY <2>1, AppendIs
  <2>4. Len(t) \in Nat
    BY <2>3
  <2>. HIDE DEF t
  <2>. QED  BY <2>2, <2>3, <2>4
<1>4. entry.from = e.client /\ entry.update = e.out /\ entry.lost = e.lost
  OBVIOUS
<1>5. server'.log = log /\ server'.exists = server.exists
  BY <1>1, <1>2
<1>. HIDE DEF log, entry
<1>6. ASSUME NEW m \in Devices
      PROVE  Reads(engine[m], engine[m].seen, Past(engine[m], engine[m].seen, log), log)
  <2>1. engine[m].seen \in 0..n
    BY GoodIs DEF EngineGood
  <2>2. engine[m].seen \in 0..Len(log)
    BY <1>2, <1>3, <2>1
  <2>. HIDE DEF n
  <2>. QED  BY <1>3, <2>2, PastReads
<1>7. ASSUME NEW m \in Devices \ {d}
      PROVE  /\ engine'[m].seen = Past(engine[m], engine[m].seen, log) /\ Same(engine[m], engine'[m])
             /\ engine'[m].knows = engine[m].knows /\ engine'[m].refusal = engine[m].refusal
             /\ engine'[m].destroyed = engine[m].destroyed
  <2>. DEFINE f == engine[m]
              p == Past(f, f.seen, log)
              g == [f EXCEPT !.seen = p]
  <2>1. engine'[m] = g
    BY <1>1
  <2>2. DOMAIN f = EngineFields
    BY GoodIs
  <2>. HIDE DEF f, p
  <2>3. /\ g.seen = p /\ g.client = f.client /\ g.out = f.out /\ g.lost = f.lost
        /\ g.knows = f.knows /\ g.refusal = f.refusal /\ g.destroyed = f.destroyed
    BY <2>2 DEF EngineFields
  <2>. HIDE DEF g
  <2>. QED  BY <2>1, <2>3 DEF f, p, Same
<1>8. /\ engine'[d].seen = Past(e, e.seen, log)
      /\ engine'[d].client = e.client /\ engine'[d].lost = e.lost /\ engine'[d].out = Nothing
      /\ engine'[d].knows = e.knows /\ engine'[d].refusal = e.refusal
      /\ engine'[d].destroyed = e.destroyed
  <2>. DEFINE p == Past(e, e.seen, log)
              g == [e EXCEPT !.out = Nothing, !.idle = TRUE, !.seen = p]
  <2>1. engine'[d] = g
    BY <1>1
  <2>2. DOMAIN e = EngineFields
    BY GoodIs
  <2>. HIDE DEF e, p
  <2>3. /\ g.seen = p /\ g.client = e.client /\ g.out = Nothing /\ g.lost = e.lost
        /\ g.knows = e.knows /\ g.refusal = e.refusal /\ g.destroyed = e.destroyed
    BY <2>2 DEF EngineFields
  <2>. HIDE DEF g
  <2>. QED  BY <2>1, <2>3 DEF p
<1>9. ASSUME NEW m \in Devices
      PROVE  /\ engine'[m].seen = Past(engine[m], engine[m].seen, log)
             /\ engine'[m].knows = engine[m].knows /\ engine'[m].refusal = engine[m].refusal
             /\ engine'[m].destroyed = engine[m].destroyed
  <2>1. CASE m = d
    BY <1>8, <2>1
  <2>2. CASE m # d
    BY <1>7, <2>2
  <2>. QED  BY <2>1, <2>2
<1>10. ToPush' = ToPush /\ Ahead' = Ahead
  BY <1>1, <1>5, PushStays DEF Ahead
<1>11. \A m \in Devices : IsDoc(bridge[m].replica) /\ IsDoc(bridge'[m].replica)
  BY <1>1 DEF MInv
<1>12. Typed(bridge, engine, server.log) /\ Typed(bridge, engine', log)
  <2>1. Typed(bridge', engine', server'.log)
    BY <1>11, TypedNext
  <2>. QED  BY <1>1, <1>5, <1>11, <2>1, TypedNow
<1>13. ToPush' => \A m \in Devices : ~engine'[m].knows
  BY <1>9, <1>10 DEF MInv
<1>14. ASSUME Ahead
       PROVE  /\ \A m \in Devices : ~engine'[m].refusal /\ ~engine'[m].destroyed
              /\ Meets(bridge', engine', server'.log, clients')
  <2>1. \A m \in Devices : ~engine'[m].refusal /\ ~engine'[m].destroyed
    BY <1>9, <1>14 DEF MInv
  <2>2. Meets(bridge, engine, server.log, clients)
    BY <1>14 DEF MInv
  <2>3. /\ Len(log) = Len(server.log) + 1 /\ \A j \in DOMAIN server.log : log[j] = server.log[j]
        /\ log[Len(log)].from = engine[d].client /\ log[Len(log)].update = engine[d].out
        /\ log[Len(log)].lost = engine[d].lost
    BY <1>3, <1>4
  <2>4. /\ engine'[d].client = engine[d].client /\ engine'[d].lost = engine[d].lost
        /\ engine'[d].out = Nothing
    BY <1>8
  <2>5. \A m \in Devices \ {d} : Same(engine[m], engine'[m])
    BY <1>7
  <2>6. \A m \in Devices : Reads(engine[m], engine[m].seen, engine'[m].seen, log)
    BY <1>6, <1>9
  <2>. HIDE DEF e, n, read, sent
  <2>7. Meets(bridge, engine', log, clients)
    BY <1>12, <2>2, <2>3, <2>4, <2>5, <2>6, PushedMeets
  <2>. QED  BY <1>1, <1>5, <2>1, <2>7
<1>. QED  BY <1>10, <1>11, <1>13, <1>14 DEF MInv

-----------------------------------------------------------------------------
(* What the users do. *)

LEMMA PushGoes ==
    ASSUME IInv, NEW d, NEW kind, Acts(d, kind), NEW items, NEW gone, NEW fresh,
           Intends(d, items, gone, fresh)
    PROVE  (ToPush' => ToPush) /\ clients' = clients /\ Spends
<1>. DEFINE by(k) == {d} \cup (IF k \in DOMAIN intents THEN intents[k].by ELSE {})
            rows == [k \in DOMAIN items |-> [by |-> by(k), value |-> items[k]]]
<1>1. intents' = Over(intents, rows)
  BY DEF Intends
<1>2. clients' = clients /\ Spends
  BY DEF Acts, Spends
<1>. HIDE DEF rows
<1>3. DOMAIN intents \subseteq DOMAIN intents'
  BY <1>1 DEF Over
<1>4. start'.kinds = start.kinds
  BY <1>2, Spent DEF IInv
<1>. QED  BY <1>2, <1>3, <1>4 DEF ToPush

LEMMA LocalMerges ==
    ASSUME IInv, IInv', MInv, NEW d \in Devices, NEW kind, Acts(d, kind), NEW x, NEW tables,
           Local(d, x, tables), NEW items, NEW gone, NEW fresh, Intends(d, items, gone, fresh)
    PROVE  MInv'
<1>1. (ToPush' => ToPush) /\ clients' = clients
  BY PushGoes
<1>2. Changes(d, x, Moves(bridge[d], tables), engine[d]) /\ server' = server
  BY DEF Local
<1>3. Moves(bridge[d], tables).replica = bridge[d].replica
  BY GoodIs, MovesReplica
<1>. QED  BY <1>1, <1>2, <1>3, CalmSelf, QuietChanges

LEMMA EditsMerge ==
    ASSUME IInv, IInv', MInv, NEW d \in Devices,
           \/ \E name \in Names : RenameSpace(d, name)
           \/ \E n \in NoteIds : \/ \E title \in Names : AddNote(d, n, title) \/ RenameNote(d, n, title)
                                 \/ DeleteNote(d, n)
                                 \/ \E f \in FolderIds \cup {None} : FileNote(d, n, f)
           \/ \E f \in FolderIds :
                \/ \E name \in Names, parent \in FolderIds \cup {None} : AddFolder(d, f, name, parent)
                \/ \E name \in Names : RenameFolder(d, f, name)
                \/ \E parent \in FolderIds \cup {None} : MoveFolder(d, f, parent)
           \/ \E i \in ImageIds : \E name \in Names : RenameImage(d, i, name)
    PROVE  MInv'
<1>1. ASSUME NEW name \in Names, RenameSpace(d, name) PROVE MInv'
  BY <1>1, LocalMerges DEF RenameSpace
<1>2. ASSUME NEW n \in NoteIds, NEW title \in Names, AddNote(d, n, title) PROVE MInv'
  BY <1>2, LocalMerges DEF AddNote
<1>3. ASSUME NEW n \in NoteIds, NEW title \in Names, RenameNote(d, n, title) PROVE MInv'
  BY <1>3, LocalMerges DEF RenameNote
<1>4. ASSUME NEW n \in NoteIds, DeleteNote(d, n) PROVE MInv'
  BY <1>4, LocalMerges DEF DeleteNote
<1>5. ASSUME NEW n \in NoteIds, NEW f \in FolderIds \cup {None}, FileNote(d, n, f) PROVE MInv'
  BY <1>5, LocalMerges DEF FileNote
<1>6. ASSUME NEW f \in FolderIds, NEW name \in Names, NEW parent \in FolderIds \cup {None},
             AddFolder(d, f, name, parent)
      PROVE  MInv'
  BY <1>6, LocalMerges DEF AddFolder
<1>7. ASSUME NEW f \in FolderIds, NEW name \in Names, RenameFolder(d, f, name) PROVE MInv'
  BY <1>7, LocalMerges DEF RenameFolder
<1>8. ASSUME NEW f \in FolderIds, NEW parent \in FolderIds \cup {None}, MoveFolder(d, f, parent)
      PROVE  MInv'
  BY <1>8, LocalMerges DEF MoveFolder
<1>9. ASSUME NEW i \in ImageIds, NEW name \in Names, RenameImage(d, i, name) PROVE MInv'
  BY <1>9, LocalMerges DEF RenameImage
<1>. QED  BY <1>1, <1>2, <1>3, <1>4, <1>5, <1>6, <1>7, <1>8, <1>9

LEMMA DeleteFolderMerges ==
    ASSUME IInv, IInv', MInv, NEW d \in Devices, NEW f \in FolderIds, DeleteFolder(d, f)
    PROVE  MInv'
<1>. DEFINE x == db[d]
            b == bridge[d]
            gone == Subtree(x.folders, f)
            queued == IF x.space = "mapped"
                      THEN [b EXCEPT !.removedFolders = @ \cup Removes(x, f), !.dirty = TRUE] ELSE b
            items == [k \in {FolderKey(g) : g \in gone} \cup {AssignKey(n) : n \in
                            {m \in DOMAIN x.notes : x.notes[m].folder \in gone}} |-> None]
            y == FoldersDeleted(x, {f})
            c == Moves(queued, {"folders"})
<1>1. /\ Acts(d, "delete folder") /\ Changes(d, y, c, engine[d])
      /\ Intends(d, items, gone, {}) /\ server' = server
  BY DEF DeleteFolder
<1>2. queued.replica = b.replica /\ DOMAIN queued = BridgeFields
  BY GoodIs DEF BridgeFields
<1>. HIDE DEF gone, queued, items, y
<1>3. c.replica = b.replica
  BY <1>2, MovesReplica
<1>. HIDE DEF c
<1>4. (ToPush' => ToPush) /\ clients' = clients
  BY <1>1, PushGoes
<1>. QED  BY <1>1, <1>3, <1>4, CalmSelf, QuietChanges

LEMMA PasteImageMerges ==
    ASSUME IInv, IInv', MInv, NEW d \in Devices, NEW i \in ImageIds, NEW name \in Names,
           PasteImage(d, i, name)
    PROVE  MInv'
<1>. DEFINE x == db[d]
            b == bridge[d]
            e == engine[d]
            filled == [x EXCEPT !.images[i].bytes = TRUE]
            added == [x EXCEPT !.images = Over(@, Only(i, [name |-> name, push |-> TRUE,
                                                           bytes |-> TRUE]))]
            y == IF i \in used THEN filled ELSE added
            up == IF x.space = "mapped" /\ y.images[i].push THEN {i} ELSE {}
            c == Moves(b, {"images"})
            f == Put(e, up)
            items == Only(ImageKey(i), name)
<1>1. /\ Acts(d, "paste") /\ Changes(d, y, c, f) /\ Intends(d, items, {}, {i}) /\ server' = server
  BY DEF PasteImage
<1>. HIDE DEF y, up, items
<1>2. c.replica = b.replica
  BY GoodIs, MovesReplica
<1>3. Calm(e, f)
  BY GoodIs, CalmPut
<1>. HIDE DEF c, f
<1>4. (ToPush' => ToPush) /\ clients' = clients
  BY <1>1, PushGoes
<1>. QED  BY <1>1, <1>2, <1>3, <1>4, QuietChanges

LEMMA DeleteImageMerges ==
    ASSUME IInv, IInv', MInv, NEW d \in Devices, NEW i \in ImageIds, DeleteImage(d, i)
    PROVE  MInv'
<1>. DEFINE x == db[d]
            b == bridge[d]
            e == engine[d]
            told == x.space = "mapped" /\ e.up
            results == Results(e, {i}, "stored")
            answered == IF i \in e.waiting THEN results ELSE e
            g == [answered EXCEPT !.wire[i] = 0, !.waiting = @ \ {i}]
            f == IF told THEN g ELSE e
            queued == IF x.space = "mapped"
                      THEN [b EXCEPT !.removedImages = @ \cup {i}, !.dirty = TRUE] ELSE b
            y == [x EXCEPT !.images = Without(@, {i})]
            c == Moves(queued, {"images"})
<1>1. /\ Acts(d, "delete image") /\ Changes(d, y, c, f)
      /\ server' = IF told THEN [server EXCEPT !.stored = @ \ {i}] ELSE server
      /\ Intends(d, Nothing, {i}, {})
  BY DEF DeleteImage
<1>2. /\ DOMAIN b = BridgeFields /\ DOMAIN e = EngineFields
      /\ DOMAIN server = {"exists", "refuses", "log", "stored"}
  BY GoodIs DEF IInv, ServerGood
<1>3. queued.replica = b.replica /\ DOMAIN queued = BridgeFields
  BY <1>2 DEF BridgeFields
<1>4. server'.log = server.log /\ server'.exists = server.exists
  BY <1>1, <1>2
<1>. HIDE DEF queued, y, told
<1>5. c.replica = b.replica
  BY <1>3, MovesReplica
<1>. HIDE DEF c
<1>6. Calm(e, results) /\ DOMAIN results = EngineFields
  BY <1>2, CalmResults
<1>. HIDE DEF results
<1>7. Calm(e, answered) /\ DOMAIN answered = EngineFields
  BY <1>2, <1>6, CalmSelf
<1>. HIDE DEF answered
<1>8. Calm(e, g)
  BY <1>7 DEF EngineFields, Calm, Same
<1>. HIDE DEF g
<1>9. Calm(e, f)
  BY <1>8, CalmSelf
<1>. HIDE DEF f
<1>10. (ToPush' => ToPush) /\ clients' = clients
  BY <1>1, PushGoes
<1>11. server'.exists => server.exists
  BY <1>4
<1>. HIDE DEF e, b
<1>12. c.replica = bridge[d].replica /\ Calm(engine[d], f)
  BY <1>5, <1>9 DEF e, b
<1>. QED  BY <1>1, <1>4, <1>10, <1>11, <1>12, QuietChanges

LEMMA PushSpaceMerges ==
    ASSUME IInv, IInv', MInv, NEW d \in Devices, PushSpace(d)
    PROVE  MInv'
<1>. DEFINE x == db[d]
            b == bridge[d]
            e == engine[d]
            made == [e EXCEPT !.knows = TRUE, !.open = TRUE, !.seen = 0, !.target = 0]
            f == IF e.up THEN made ELSE e
            c == [b EXCEPT !.pushing = e.up]
            items == Only(NameKey, x.name)
<1>1. /\ "push" \in start.kinds /\ Acts(d, "push") /\ NameKey \notin DOMAIN intents
      /\ Changes(d, x, c, f)
      /\ server' = [server EXCEPT !.exists = e.up /\ ~server.refuses]
      /\ Intends(d, items, {}, {})
  BY DEF PushSpace, Acts
<1>2. /\ DOMAIN b = BridgeFields /\ DOMAIN e = EngineFields /\ e.seen \in Nat
      /\ DOMAIN server = {"exists", "refuses", "log", "stored"} /\ DOMAIN server.log \subseteq Nat
      /\ \A j \in DOMAIN server.log : j > 0
  BY GoodIs, LogIs DEF IInv, ServerGood, EngineGood
<1>3. c.replica = b.replica
  BY <1>2 DEF BridgeFields
<1>4. /\ made.client = e.client /\ made.out = e.out /\ made.lost = e.lost /\ made.seen = 0
      /\ made.refusal = e.refusal /\ made.destroyed = e.destroyed
  BY <1>2 DEF EngineFields
<1>. HIDE DEF made
<1>5. Same(e, f) /\ f.seen \in Nat /\ f.seen <= e.seen
      /\ f.refusal = e.refusal /\ f.destroyed = e.destroyed
  BY <1>2, <1>4 DEF Same
<1>. HIDE DEF f, c
<1>6. Reads(e, e.seen, f.seen, server.log)
  BY <1>2, <1>5, NoReads
<1>7. ToPush /\ clients' = clients /\ Spends
  BY <1>1, PushGoes DEF ToPush
<1>8. ~ToPush'
  <2>. DEFINE by(k) == {d} \cup (IF k \in DOMAIN intents THEN intents[k].by ELSE {})
              rows == [k \in DOMAIN items |-> [by |-> by(k), value |-> items[k]]]
  <2>1. intents' = Over(intents, rows)
    BY <1>1 DEF Intends
  <2>2. NameKey \in DOMAIN rows
    BY OneIs
  <2>. HIDE DEF rows
  <2>3. NameKey \in DOMAIN intents'
    BY <2>1, <2>2 DEF Over
  <2>. QED  BY <2>3 DEF ToPush
<1>9. Calms(e, f)
  BY <1>5, <1>8 DEF Calms
<1>10. server'.log = server.log /\ (server'.exists => Ahead)
  BY <1>1, <1>2, <1>7 DEF Ahead
<1>11. Sets(d, x, c, f)
  BY <1>1, ChangesIs
<1>. HIDE DEF e, b
<1>12. /\ c.replica = bridge[d].replica /\ Same(engine[d], f) /\ Calms(engine[d], f)
       /\ Reads(engine[d], engine[d].seen, f.seen, server.log)
  BY <1>3, <1>5, <1>6, <1>9 DEF e, b
<1>. QED  BY <1>7, <1>10, <1>11, <1>12, QuietDevice

LEMMA FetchSpaceMerges ==
    ASSUME IInv, IInv', MInv, NEW d \in Devices, FetchSpace(d)
    PROVE  MInv'
<1>. DEFINE b == bridge[d]
            c == [b EXCEPT !.joining = "asked"]
<1>1. /\ bridge' = [bridge EXCEPT ![d] = c] /\ Spends
      /\ UNCHANGED <<db, engine, server, history, clients>>
  BY DEF FetchSpace, IInv, Acts, Spends
<1>2. DOMAIN b = BridgeFields
  BY GoodIs
<1>3. c.replica = b.replica
  BY <1>2 DEF BridgeFields
<1>. HIDE DEF c
<1>4. Sets(d, db[d], c, engine[d])
  BY <1>1 DEF Sets, IInv
<1>5. ToPush' = ToPush
  BY <1>1, PushStays
<1>. QED  BY <1>1, <1>3, <1>4, <1>5, CalmSelf, QuietSets

LEMMA PeekSpaceMerges ==
    ASSUME IInv, IInv', MInv, NEW d \in Devices, PeekSpace(d)
    PROVE  MInv'
<1>. DEFINE b == bridge[d]
            c == [b EXCEPT !.peeked = TRUE, !.peeking = TRUE]
<1>1. /\ bridge' = [bridge EXCEPT ![d] = c] /\ Spends
      /\ UNCHANGED <<db, engine, server, history, clients>>
  BY DEF PeekSpace, IInv, Acts, Spends
<1>2. DOMAIN b = BridgeFields
  BY GoodIs
<1>3. c.replica = b.replica
  BY <1>2 DEF BridgeFields
<1>. HIDE DEF c
<1>4. Sets(d, db[d], c, engine[d])
  BY <1>1 DEF Sets, IInv
<1>5. ToPush' = ToPush
  BY <1>1, PushStays
<1>. QED  BY <1>1, <1>3, <1>4, <1>5, CalmSelf, QuietSets

LEMMA ForgottenIs ==
    ASSUME NEW e, DOMAIN e = EngineFields
    PROVE  LET g == Forgotten(e)
           IN  /\ DOMAIN g = EngineFields /\ ~g.knows /\ g.seen = 0 /\ g.out = Nothing
               /\ g.refusal = e.refusal /\ g.destroyed = e.destroyed
<1>. DEFINE told == Results(e, e.waiting, "error")
            g == Forgotten(e)
<1>1. Calm(e, told) /\ DOMAIN told = EngineFields
  BY CalmResults
<1>. HIDE DEF told
<1>2. g = [told EXCEPT !.knows = FALSE, !.open = FALSE, !.opening = FALSE, !.seen = 0,
                       !.target = 0, !.out = Nothing, !.waiting = {}, !.fetching = {}]
  BY DEF Forgotten, told
<1>. HIDE DEF g
<1>3. /\ DOMAIN g = EngineFields /\ g.knows = FALSE /\ g.seen = 0 /\ g.out = Nothing
      /\ g.refusal = told.refusal /\ g.destroyed = told.destroyed
  BY <1>1, <1>2 DEF EngineFields
<1>. QED  BY <1>1, <1>3 DEF Calm, g

LEMMA ForgetSpaceMerges ==
    ASSUME IInv, IInv', MInv, NEW d \in Devices, ForgetSpace(d)
    PROVE  MInv'
<1>. DEFINE b == bridge[d]
            e == engine[d]
            drop == Dropped(b)
            c == Moves(drop, {"spaces", "folders", "images"})
            g == Forgotten(e)
<1>1. /\ Spends /\ UNCHANGED <<server, history>>
      /\ \E k \in Clients \ clients :
            clients' = clients \cup {k} /\ Changes(d, Empty, c, [g EXCEPT !.client = k])
  BY DEF ForgetSpace, Spends
<1>2. PICK k \in Clients \ clients :
        clients' = clients \cup {k} /\ Changes(d, Empty, c, [g EXCEPT !.client = k])
  BY <1>1
<1>. DEFINE f == [g EXCEPT !.client = k]
<1>3. /\ DOMAIN g = EngineFields /\ ~g.knows /\ g.seen = 0 /\ g.out = Nothing
      /\ g.refusal = e.refusal /\ g.destroyed = e.destroyed
  BY GoodIs, ForgottenIs
<1>. HIDE DEF g
<1>4. /\ f.client = k /\ f.knows = g.knows /\ f.seen = g.seen /\ f.out = g.out
      /\ f.refusal = g.refusal /\ f.destroyed = g.destroyed
  BY <1>3 DEF EngineFields
<1>. HIDE DEF f
<1>5. drop.replica = EmptyDoc /\ DOMAIN drop = BridgeFields
  BY GoodIs, DroppedIs
<1>. HIDE DEF drop
<1>6. c.replica = EmptyDoc
  BY <1>5, MovesReplica
<1>. HIDE DEF c
<1>7. ToPush' = ToPush
  BY <1>1, PushStays
<1>8. Calms(e, f)
  BY <1>3, <1>4, <1>7 DEF Calms
<1>9. Changes(d, Empty, c, f)
  BY <1>2 DEF f
<1>10. Sets(d, Empty, c, f)
  BY <1>9, ChangesIs
<1>11. server'.log = server.log /\ (server'.exists => Ahead)
  BY <1>1 DEF Ahead
<1>. QED  BY <1>2, <1>3, <1>4, <1>6, <1>8, <1>10, <1>11, ResetDevice

LEMMA NewReplica ==
    LET c == [NewBridge EXCEPT !.moved = {"spaces", "folders", "images"}]
    IN  /\ NewBridge.replica = EmptyDoc /\ c.replica = EmptyDoc
        /\ DOMAIN NewBridge = BridgeFields /\ DOMAIN c = BridgeFields
<1>. DEFINE own == [pushing |-> FALSE, peeking |-> FALSE, refused |-> FALSE, creating |-> Nothing,
                   dirty |-> FALSE, moved |-> {}, due |-> FALSE,
                   uploading |-> {}, failed |-> {}, tries |-> [i \in ImageIds |-> 0]]
            base == NoRuntime
            b == NewBridge
<1>1. DOMAIN b = BridgeFields
  BY NewBridgeIs DEF BridgeGood
<1>2. "replica" \in DOMAIN base \ DOMAIN own /\ base.replica = EmptyDoc
  BY DEF NoRuntime
<1>3. b = Over(base, own)
  BY DEF NewBridge
<1>. HIDE DEF own, base, b
<1>4. b.replica = EmptyDoc
  BY <1>2, <1>3, OverIs
<1>. DEFINE c == [b EXCEPT !.moved = {"spaces", "folders", "images"}]
<1>5. c.replica = b.replica /\ DOMAIN c = BridgeFields
  BY <1>1 DEF BridgeFields
<1>. HIDE DEF c
<1>. QED  BY <1>1, <1>4, <1>5 DEF b, c

LEMMA RestartMerges ==
    ASSUME IInv, IInv', MInv, NEW d \in Devices, Restart(d)
    PROVE  MInv'
<1>. DEFINE e == engine[d]
            c == [NewBridge EXCEPT !.moved = {"spaces", "folders", "images"}]
<1>1. /\ Spends /\ UNCHANGED <<server, history>>
      /\ \E k \in Clients \ clients :
            clients' = clients \cup {k} /\ Changes(d, db[d], c, NewEngine(k))
  BY DEF Restart, Spends
<1>2. PICK k \in Clients \ clients :
        clients' = clients \cup {k} /\ Changes(d, db[d], c, NewEngine(k))
  BY <1>1
<1>. DEFINE f == NewEngine(k)
<1>3. /\ f.client = k /\ f.knows = FALSE /\ f.seen = 0 /\ f.out = Nothing
      /\ f.refusal = FALSE /\ f.destroyed = FALSE
  BY DEF NewEngine
<1>. HIDE DEF f
<1>4. c.replica = EmptyDoc
  BY NewReplica
<1>. HIDE DEF c
<1>5. ToPush' = ToPush
  BY <1>1, PushStays
<1>6. Calms(e, f)
  BY <1>3, <1>5 DEF Calms
<1>7. Sets(d, db[d], c, f)
  BY <1>2, ChangesIs DEF f
<1>8. server'.log = server.log /\ (server'.exists => Ahead)
  BY <1>1 DEF Ahead
<1>. QED  BY <1>2, <1>3, <1>4, <1>6, <1>7, <1>8, ResetDevice

LEMMA DestroySpaceMerges ==
    ASSUME IInv, MInv, NEW d \in Devices, DestroySpace(d)
    PROVE  MInv'
<1>1. /\ server.exists /\ server' = [server EXCEPT !.exists = FALSE, !.log = << >>, !.stored = {}]
      /\ UNCHANGED <<bridge, intents>> /\ UNCHANGED history /\ Spends
  BY DEF DestroySpace, Acts, Spends, history
<1>2. ~ToPush /\ ~server'.exists
  BY <1>1 DEF IInv, ServerGood
<1>3. ToPush' = ToPush
  BY <1>1, PushStays
<1>. QED  BY <1>1, <1>2, <1>3, NothingAhead DEF MInv, Ahead

-----------------------------------------------------------------------------
(* Every step. *)

LEMMA EngineMerges ==
    ASSUME IInv, IInv', MInv, NEW d \in Devices, EngineSteps(d)
    PROVE  MInv'
<1>1. CASE Connect(d)
  BY <1>1, ConnectMerges
<1>2. CASE Disconnect(d)
  BY <1>2, DisconnectMerges
<1>3. CASE Push(d)
  BY <1>3, PushMerges
<1>4. CASE OpenIndex(d)
  BY <1>4, OpenIndexMerges
<1>5. CASE Refuse(d)
  BY <1>5, RefuseMerges
<1>6. ASSUME NEW n \in DOMAIN bridge[d].creating, MakeDoc(d, n)
      PROVE  MInv'
  BY <1>6, MakeDocMerges
<1>7. ASSUME NEW i \in ImageIds, StoreImage(d, i)
      PROVE  MInv'
  BY <1>7, StoreImageMerges
<1>. QED  BY <1>1, <1>2, <1>3, <1>4, <1>5, <1>6, <1>7 DEF EngineSteps

LEMMA BridgeMerges ==
    ASSUME IInv, IInv', MInv, NEW d \in Devices, BridgeSteps(d)
    PROVE  MInv'
<1>1. CASE Deliver(d)
  BY <1>1, DeliverMerges
<1>2. CASE Synced(d)
  BY <1>2, SyncedMerges
<1>3. CASE Idle(d)
  BY <1>3, IdleMerges
<1>4. CASE SpacePushed(d)
  BY <1>4, SpacePushedMerges
<1>5. CASE SpaceJoined(d)
  BY <1>5, SpaceJoinedMerges
<1>6. CASE SpacePeeked(d)
  BY <1>6, SpacePeekedMerges
<1>7. CASE SpaceRejected(d)
  BY <1>7, SpaceRejectedMerges
<1>8. CASE SpaceDeleted(d)
  BY <1>8, SpaceDeletedMerges
<1>9. ASSUME NEW n \in DOMAIN bridge[d].creating, DocCreated(d, n)
      PROVE  MInv'
  BY <1>9, DocCreatedMerges
<1>10. CASE BlobUploaded(d)
  BY <1>10, BlobUploadedMerges
<1>11. ASSUME NEW i \in ImageIds, BlobFetched(d, i)
       PROVE  MInv'
  BY <1>11, BlobFetchedMerges
<1>12. CASE Reconcile(d)
  BY <1>12, ReconcileMerges
<1>. QED  BY <1>1, <1>2, <1>3, <1>4, <1>5, <1>6, <1>7, <1>8, <1>9, <1>10, <1>11, <1>12
          DEF BridgeSteps

LEMMA UserMerges ==
    ASSUME IInv, IInv', MInv, NEW d \in Devices, UserSteps(d)
    PROVE  MInv'
<1>1. CASE PushSpace(d) \/ FetchSpace(d) \/ PeekSpace(d) \/ ForgetSpace(d) \/ DestroySpace(d)
  BY <1>1, PushSpaceMerges, FetchSpaceMerges, PeekSpaceMerges, ForgetSpaceMerges,
     DestroySpaceMerges
<1>2. ASSUME NEW f \in FolderIds, DeleteFolder(d, f)
      PROVE  MInv'
  BY <1>2, DeleteFolderMerges
<1>3. ASSUME NEW i \in ImageIds, NEW name \in Names, PasteImage(d, i, name)
      PROVE  MInv'
  BY <1>3, PasteImageMerges
<1>4. ASSUME NEW i \in ImageIds, DeleteImage(d, i)
      PROVE  MInv'
  BY <1>4, DeleteImageMerges
<1>. QED  BY <1>1, <1>2, <1>3, <1>4, EditsMerge DEF UserSteps

LEMMA MergeInductive ==
    IInv /\ IInv' /\ MInv /\ [Next]_vars => MInv'
<1>. SUFFICES ASSUME IInv, IInv', MInv, [Next]_vars PROVE MInv'
  OBVIOUS
<1>1. CASE Next
  BY <1>1, EngineMerges, BridgeMerges, UserMerges, RestartMerges DEF Next
<1>2. CASE UNCHANGED vars
  <2>1. UNCHANGED <<bridge, engine, server, start, clients, intents>>
    BY <1>2 DEF vars, history
  <2>2. ToPush' = ToPush
    BY <2>1 DEF ToPush
  <2>3. Ahead' = Ahead
    BY <2>1, <2>2 DEF Ahead
  <2>. QED  BY <2>1, <2>2, <2>3 DEF MInv
<1>. QED  BY <1>1, <1>2

-----------------------------------------------------------------------------
(* The beginning. *)

LEMMA ReadyReads ==
    ASSUME NEW x, NEW log, NEW k
    PROVE  LET c == CaughtUp(x, log)
               f == Online(NewEngine(k), log)
           IN  /\ c.replica = DocOf(log) /\ f.client = k /\ f.out = Nothing /\ f.seen = Len(log)
               /\ f.lost = FALSE /\ f.refusal = FALSE /\ f.destroyed = FALSE
<1>. DEFINE doc == DocOf(log)
            b == NewBridge
            e == NewEngine(k)
            T == [n \in Mapped(x) |-> doc[NoteKey(n)].value]
            c == CaughtUp(x, log)
            f == Online(e, log)
<1>1. c = [b EXCEPT !.has = TRUE, !.replica = doc, !.live = TRUE,
                    !.author = doc[NameKey].value # None, !.titles = T]
  BY DEF CaughtUp
<1>2. f = [e EXCEPT !.up = TRUE, !.knows = TRUE, !.open = TRUE, !.seen = Len(log),
                    !.target = Len(log)]
  BY DEF Online
<1>3. DOMAIN b = BridgeFields
  BY NewReplica
<1>4. /\ e.client = k /\ e.out = Nothing /\ e.lost = FALSE /\ e.refusal = FALSE
      /\ e.destroyed = FALSE /\ DOMAIN e = EngineFields
  BY DEF NewEngine, EngineFields
<1>. HIDE DEF b, e, doc, T, c, f
<1>5. c.replica = doc
  BY <1>1, <1>3 DEF BridgeFields
<1>6. /\ f.client = e.client /\ f.out = e.out /\ f.seen = Len(log) /\ f.lost = e.lost
      /\ f.refusal = e.refusal /\ f.destroyed = e.destroyed
  BY <1>2, <1>4 DEF EngineFields
<1>. QED  BY <1>4, <1>5, <1>6 DEF c, f, e, doc

\* What the log holds has been written by others before.
Elders(log) ==
    /\ \A j \in DOMAIN log : log[j].from \notin Clients
    /\ \A j \in DOMAIN log : \A k \in DOMAIN log[j].update :
            \A i \in DOMAIN log[j].update[k].path : log[j].update[k].path[i] \notin Clients
\* Where a device begins: with nothing, or with what the log makes.
Begins(b, e, log) ==
    /\ e.out = Nothing /\ ~e.refusal /\ ~e.destroyed
    /\ \/ b.replica = EmptyDoc /\ e.seen = 0
       \/ b.replica = DocOf(log) /\ e.seen = Len(log)

LEMMA BeginsMeets ==
    ASSUME NEW B, NEW E, NEW L, NEW C \in SUBSET Clients, Sound(L), Elders(L),
           \A d \in Devices : Begins(B[d], E[d], L) /\ E[d].client \in C,
           \A d, m \in Devices : E[d].client = E[m].client => d = m
    PROVE  /\ \A d \in Devices : IsDoc(B[d].replica)
           /\ Meets(B, E, L, C)
<1>. DEFINE made == DocOf(L)
<1>1. /\ IsDoc(made) /\ CoversAll(made, EmptyDoc)
      /\ \A j \in DOMAIN L : CoversAll(made, L[j].update)
      /\ \A k \in Keys : made[k] \in MadeOf(L, k)
  BY DocOfIsDoc
<1>2. /\ IsDoc(EmptyDoc) /\ CoversAll(EmptyDoc, EmptyDoc)
      /\ \A k \in Keys : EmptyDoc[k] \in MadeOf(L, k)
  BY EmptyDocDoc DEF MadeOf
<1>3. \A u : CoversAll(u, Nothing)
  BY NothingIs DEF CoversAll
<1>4. /\ Len(L) \in Nat /\ DOMAIN L = 1..Len(L) /\ \A j \in DOMAIN L : IsUpdate(L[j].update)
      /\ \A i, j \in DOMAIN L : AgreeAll(L[i].update, L[j].update)
  BY DEF Sound
<1>. HIDE DEF made
<1>5. ASSUME NEW d \in Devices
      PROVE  IsDoc(B[d].replica) /\ \A k \in Keys : B[d].replica[k] \in MadeOf(L, k)
  BY <1>1, <1>2 DEF Begins, made
<1>6. ASSUME NEW d \in Devices PROVE Follows(B[d].replica, E[d], L)
  <2>1. E[d].out = Nothing
    BY DEF Begins
  <2>2. \A j \in DOMAIN L : L[j].from # E[d].client
    BY DEF Elders
  <2>3. CASE B[d].replica = EmptyDoc /\ E[d].seen = 0
    <3>1. \A j \in DOMAIN L : ~(j <= 0)
      BY <1>4
    <3>. QED  BY <1>2, <1>3, <2>1, <2>2, <2>3, <3>1 DEF Follows
  <2>4. CASE B[d].replica = made
    BY <1>1, <1>3, <2>1, <2>4 DEF Follows
  <2>. QED  BY <2>3, <2>4 DEF Begins, made
<1>7. ClientsMeet(E, L, C)
  BY DEF ClientsMeet, Elders
<1>8. ASSUME NEW k \in Keys PROVE ItemsMeet(B, E, L, C, k)
  <2>1. Around(B, E, L, k) \subseteq MadeOf(L, k)
    <3>1. \A d \in Devices : k \notin DOMAIN E[d].out
      BY NothingIs DEF Begins
    <3>. QED  BY <1>5, <3>1 DEF Around, MadeOf
  <2>2. EmptyDoc[k].path = << >> /\ EmptyDoc[k].value = None
    BY EmptyItem
  <2>3. ASSUME NEW r \in MadeOf(L, k)
        PROVE  r = EmptyDoc[k] \/ \E j \in DOMAIN L : k \in DOMAIN L[j].update /\ r = L[j].update[k]
    BY <2>3 DEF MadeOf
  <2>4. ASSUME NEW r \in MadeOf(L, k), NEW s \in MadeOf(L, k) PROVE Agree(r, s)
    <3>1. CASE r = EmptyDoc[k] \/ s = EmptyDoc[k]
      BY <2>2, <3>1 DEF Agree
    <3>2. CASE ~(r = EmptyDoc[k] \/ s = EmptyDoc[k])
      <4>1. PICK i \in DOMAIN L : k \in DOMAIN L[i].update /\ r = L[i].update[k]
        BY <2>3, <3>2
      <4>2. PICK j \in DOMAIN L : k \in DOMAIN L[j].update /\ s = L[j].update[k]
        BY <2>3, <3>2
      <4>. QED  BY <1>4, <4>1, <4>2 DEF AgreeAll
    <3>. QED  BY <3>1, <3>2
  <2>5. ASSUME NEW r \in MadeOf(L, k) PROVE \A i \in DOMAIN r.path : r.path[i] \notin Clients
    <3>1. CASE r = EmptyDoc[k]
      BY <2>2, <3>1
    <3>2. CASE r # EmptyDoc[k]
      <4>1. PICK j \in DOMAIN L : k \in DOMAIN L[j].update /\ r = L[j].update[k]
        BY <2>3, <3>2
      <4>. QED  BY <4>1 DEF Elders
    <3>. QED  BY <3>1, <3>2
  <2>6. ASSUME NEW r \in MadeOf(L, k), r.path # << >>
        PROVE  Len(r.path) \in DOMAIN r.path
    <3>1. PICK j \in DOMAIN L : k \in DOMAIN L[j].update /\ r = L[j].update[k]
      BY <2>2, <2>3, <2>6
    <3>2. r \in Item
      BY <1>4, <3>1, ItemIs
    <3>3. r.path \in Seq(Nat)
      BY <3>2 DEF Item
    <3>. QED  BY <2>6, <3>3
  <2>7. ASSUME NEW r \in MadeOf(L, k), NEW d \in Devices, r.path # << >>
        PROVE  r.path[Len(r.path)] # E[d].client
    BY <2>5, <2>6, <2>7
  <2>. QED  BY <2>1, <2>4, <2>5, <2>7 DEF ItemsMeet
<1>. QED  BY <1>5, <1>6, <1>7, <1>8 DEF Meets

LEMMA MergeInit ==
    ASSUME Init
    PROVE  MInv
<1>1. PICK s \in Starts, client \in [Devices -> Clients] :
        /\ \A d, m \in Devices : client[d] = client[m] => d = m
        /\ start.kinds = s.kinds /\ clients = {client[d] : d \in Devices} /\ server = s.server
        /\ bridge = [d \in Devices |->
              IF d \in s.ready THEN CaughtUp(s.db[d], s.server.log)
              ELSE [NewBridge EXCEPT !.moved = {"spaces", "folders", "images"}]]
        /\ engine = [d \in Devices |->
              IF d \in s.ready THEN Online(NewEngine(client[d]), s.server.log)
              ELSE NewEngine(client[d])]
  <2>1. PICK s \in Starts, client \in [Devices -> Clients] :
        /\ \A d, m \in Devices : client[d] = client[m] => d = m
        /\ start = [kinds |-> s.kinds, ops |-> s.ops, drops |-> s.drops,
                    restarts |-> s.restarts, late |-> s.late, big |-> s.big]
        /\ clients = {client[d] : d \in Devices}
        /\ db = s.db /\ server = s.server
        /\ bridge = [d \in Devices |->
              IF d \in s.ready THEN CaughtUp(s.db[d], s.server.log)
              ELSE [NewBridge EXCEPT !.moved = {"spaces", "folders", "images"}]]
        /\ engine = [d \in Devices |->
              IF d \in s.ready THEN Online(NewEngine(client[d]), s.server.log)
              ELSE NewEngine(client[d])]
    BY DEF Init
  <2>2. start.kinds = s.kinds
    BY <2>1
  <2>. QED  BY <2>1, <2>2
<1>2. IsStart(s) /\ IsSettled(s) /\ IsServer(server)
  BY <1>1, StartsAssumption DEF IsStart
<1>. DEFINE L == server.log
<1>3. Len(L) \in Nat /\ DOMAIN L = 1..Len(L) /\ \A j \in DOMAIN L : IsUpdate(L[j].update)
  BY <1>2 DEF IsServer
<1>4. s.server.log = L
  BY <1>1
<1>. HIDE DEF L
<1>5. Elders(L)
  <2>1. \A j \in DOMAIN L : L[j].from \notin Clients
    BY <1>2, <1>4 DEF IsSettled
  <2>2. \A j \in DOMAIN L : \A k \in DOMAIN L[j].update :
            \A i \in DOMAIN L[j].update[k].path : L[j].update[k].path[i] \notin Clients
    BY <1>2, <1>4 DEF IsSettled
  <2>. QED  BY <2>1, <2>2 DEF Elders
<1>6. Sound(L)
  <2>1. \A j, m \in DOMAIN L : \A k \in DOMAIN L[j].update :
            k \in DOMAIN L[m].update => Agree(L[j].update[k], L[m].update[k])
    BY <1>2, <1>4 DEF IsSettled
  <2>. QED  BY <1>3, <2>1 DEF Sound, AgreeAll
<1>7. ASSUME NEW d \in Devices
      PROVE  Begins(bridge[d], engine[d], L) /\ engine[d].client = client[d]
  <2>1. CASE d \in s.ready
    <3>. DEFINE cc == CaughtUp(s.db[d], L)
                ff == Online(NewEngine(client[d]), L)
    <3>1. bridge[d] = cc /\ engine[d] = ff
      BY <1>1, <1>4, <2>1
    <3>2. /\ cc.replica = DocOf(L) /\ ff.client = client[d] /\ ff.out = Nothing /\ ff.seen = Len(L)
          /\ ff.refusal = FALSE /\ ff.destroyed = FALSE
      BY ReadyReads
    <3>. HIDE DEF cc, ff
    <3>. QED  BY <3>1, <3>2 DEF Begins
  <2>2. CASE d \notin s.ready
    <3>. DEFINE cc == [NewBridge EXCEPT !.moved = {"spaces", "folders", "images"}]
                ff == NewEngine(client[d])
    <3>1. bridge[d] = cc /\ engine[d] = ff
      BY <1>1, <2>2
    <3>2. cc.replica = EmptyDoc
      BY NewReplica
    <3>3. /\ ff.client = client[d] /\ ff.out = Nothing /\ ff.seen = 0
          /\ ff.refusal = FALSE /\ ff.destroyed = FALSE
      BY DEF NewEngine
    <3>. HIDE DEF cc, ff
    <3>. QED  BY <3>1, <3>2, <3>3 DEF Begins
  <2>. QED  BY <2>1, <2>2
<1>8. clients \in SUBSET Clients /\ \A d \in Devices : engine[d].client \in clients
  BY <1>1, <1>7
<1>9. /\ \A d \in Devices : IsDoc(bridge[d].replica)
      /\ Meets(bridge, engine, L, clients)
  <2>1. \A d \in Devices : Begins(bridge[d], engine[d], L) /\ engine[d].client \in clients
    BY <1>7, <1>8
  <2>2. \A d, m \in Devices : engine[d].client = engine[m].client => d = m
    BY <1>1, <1>7
  <2>. QED  BY <1>5, <1>6, <1>8, <2>1, <2>2, BeginsMeets
<1>10. ASSUME ToPush, NEW d \in Devices PROVE ~engine[d].knows
  <2>1. "push" \in s.kinds
    BY <1>1, <1>10 DEF ToPush
  <2>2. s.db[d].space # "mapped"
    BY <1>2, <2>1 DEF IsSettled
  <2>3. d \notin s.ready
    BY <1>2, <2>2 DEF IsStart
  <2>. DEFINE ff == NewEngine(client[d])
  <2>4. engine[d] = ff
    BY <1>1, <2>3
  <2>5. ff.knows = FALSE
    BY DEF NewEngine
  <2>. HIDE DEF ff
  <2>. QED  BY <2>4, <2>5
<1>. QED  BY <1>7, <1>9, <1>10 DEF MInv, Begins, L

LEMMA MergeHolds == Spec => []MInv
<1>1. Spec => []IInv
  BY InvHolds
<1>2. Init => MInv
  BY MergeInit
<1>3. IInv /\ IInv' /\ MInv /\ [Next]_vars => MInv'
  BY MergeInductive
<1>. QED  BY <1>1, <1>2, <1>3, PTL DEF Spec

\* While the space is there, no client has written an update that the others
\* cannot integrate, and the index is open: a device that has read the log to
\* its end and has nothing queued has the index that the log makes of an empty
\* document (store.rs, apply_update and push_local; engine.rs, on_doc_updates).
\* Two such devices have the same index, whatever the order their updates came
\* to them and however often they came.
THEOREM ReplicasAgree == Spec => []ReplicasConverge
<1>1. ASSUME IInv, MInv PROVE ReplicasConverge
  <2>. DEFINE L == server.log
  <2>1. SUFFICES ASSUME server.exists, \A i \in DOMAIN L : ~L[i].lost, NEW d \in Devices,
                        ~engine[d].lost, engine[d].out = Nothing, engine[d].seen = Len(L)
                 PROVE  bridge[d].replica = DocOf(L)
    BY DEF ReplicasConverge, Whole
  <2>. DEFINE doc == bridge[d].replica
  <2>2. Meets(bridge, engine, L, clients) /\ \A m \in Devices : IsDoc(bridge[m].replica)
    BY <1>1, <2>1 DEF MInv, Ahead
  <2>3. Typed(bridge, engine, L)
    BY <1>1, <2>2, TypedNow
  <2>4. Len(L) \in Nat /\ DOMAIN L = 1..Len(L) /\ \A j \in DOMAIN L : IsUpdate(L[j].update)
    BY <2>3 DEF Typed
  <2>5. Follows(doc, engine[d], L) /\ IsDoc(doc)
    BY <2>2 DEF Meets
  <2>. HIDE DEF L, doc
  <2>6. Sound(L)
    <3>1. ASSUME NEW i \in DOMAIN L, NEW j \in DOMAIN L, NEW k \in DOMAIN L[i].update \cap DOMAIN L[j].update
          PROVE  Agree(L[i].update[k], L[j].update[k])
      <4>1. k \in Keys
        BY <2>4 DEF IsUpdate
      <4>2. ItemsMeet(bridge, engine, L, clients, k)
        BY <2>2, <4>1 DEF Meets
      <4>3. {L[i].update[k], L[j].update[k]} \subseteq Around(bridge, engine, L, k)
        BY DEF Around
      <4>. QED  BY <4>2, <4>3 DEF ItemsMeet
    <3>. QED  BY <2>4, <3>1 DEF Sound, AgreeAll
  <2>7. \A j \in DOMAIN L : j <= engine[d].seen
    BY <2>1, <2>4 DEF L
  <2>8. CoversAll(doc, EmptyDoc) /\ \A j \in DOMAIN L : CoversAll(doc, L[j].update)
    BY <2>1, <2>5, <2>7 DEF Follows, L
  <2>9. \A k \in Keys : doc[k] \in MadeOf(L, k)
    BY <2>1, <2>5, NothingIs DEF Follows
  <2>10. doc = DocOf(L)
    BY <2>5, <2>6, <2>8, <2>9, DocOfOnly
  <2>. QED  BY <2>10 DEF doc, L
<1>. QED  BY <1>1, InvHolds, MergeHolds, PTL

-----------------------------------------------------------------------------
(* What is listed arrives: the invariant. *)

Lists(u, i) == u[ImageKey(i)].value # None
\* An item that lists an image is somebody's, and one that unlists it is of an
\* image that a user has deleted (D).
Sane(u, D) ==
    \A i \in ImageIds : ImageKey(i) \in DOMAIN u =>
        /\ Lists(u, i) => u[ImageKey(i)].path # << >>
        /\ ~Lists(u, i) => u[ImageKey(i)].path = << >> \/ i \in D
\* Uploads that are on their way, or answered.
Busy(e) == e.waiting \cup {e.results[j][1] : j \in DOMAIN e.results}
\* A device that has nothing to do with the space of the server.
Alone(b, e) == ~b.has /\ ~b.live /\ b.joining = "no" /\ ~b.peeking /\ Busy(e) = {}
\* A listed image is there, or is being fetched; and one that is there and
\* neither waits nor has its content is listed.
Shows(x, b, e, i) ==
    /\ Lists(b.replica, i) => i \in DOMAIN x.images /\ (x.images[i].bytes \/ i \in e.fetching)
    /\ i \in DOMAIN x.images => x.images[i].push \/ x.images[i].bytes \/ Lists(b.replica, i)
\* What the inbound pass needs; P says whether the space is still to be pushed.
Ready(x, b, e, D, P) ==
    /\ Sane(b.replica, D) /\ Sane(e.out, D) /\ b.removedImages \subseteq D
    /\ b.live => b.has /\ e.up /\ e.knows
    /\ e.open => e.knows
    /\ x.space = "local" \/ P => Alone(b, e)
    /\ \A i \in (DOMAIN x.images \cap Busy(e)) \ D : x.images[i].bytes \/ Lists(b.replica, i)
Holds(x, b, e, D, P) ==
    /\ Ready(x, b, e, D, P)
    /\ b.live /\ x.space = "mapped" => \A i \in ImageIds \ D : Shows(x, b, e, i)
AInv ==
    /\ \A j \in DOMAIN server.log : Sane(server.log[j].update, deleted)
    /\ ~server.exists => server.log = << >>
    /\ Ahead => \A d \in Devices : Holds(db[d], bridge[d], engine[d], deleted, ToPush)

-----------------------------------------------------------------------------
(* Items, and what is listed. *)

LEMMA SaneMore ==
    ASSUME NEW u, NEW D, Sane(u, D), NEW C, D \subseteq C
    PROVE  Sane(u, C)
BY DEF Sane

LEMMA SaneNothing ==
    \A D : Sane(Nothing, D) /\ Sane(EmptyDoc, D)
<1>1. \A i \in ImageIds : ImageKey(i) \notin DOMAIN Nothing
  BY NothingIs
<1>2. \A i \in ImageIds : ~Lists(EmptyDoc, i) /\ EmptyDoc[ImageKey(i)].path = << >>
  BY KeysAre DEF EmptyDoc, Lists
<1>. QED  BY <1>1, <1>2 DEF Sane

LEMMA SaneApplied ==
    ASSUME NEW u, NEW v, NEW D, Sane(u, D), Sane(v, D)
    PROVE  Sane(Apply(u, v), D)
<1>. DEFINE w == Apply(u, v)
<1>1. /\ DOMAIN w = DOMAIN u \cup DOMAIN v
      /\ \A k \in DOMAIN w : \/ k \in DOMAIN u /\ w[k] = u[k]
                             \/ k \in DOMAIN v /\ w[k] = v[k]
  BY ApplyIs
<1>. HIDE DEF w
<1>2. Sane(w, D)
  BY <1>1 DEF Sane, Lists
<1>. QED  BY <1>2 DEF w

\* What was listed stays so, but for what is deleted.
LEMMA ListsOn ==
    ASSUME NEW doc, IsDoc(doc), NEW u, IsUpdate(u), NEW D, Sane(doc, D), Sane(u, D),
           NEW i \in ImageIds \ D, Lists(doc, i)
    PROVE  Lists(Apply(doc, u), i)
<1>. DEFINE k == ImageKey(i)
            w == Apply(doc, u)
<1>1. k \in Keys /\ k \in DOMAIN doc
  BY KeysAre DEF IsDoc
<1>2. w[k] = IF k \in DOMAIN u THEN Merged(doc[k], u[k]) ELSE doc[k]
  BY <1>1, AppliedIs
<1>3. doc[k].value # None /\ doc[k].path # << >> /\ doc[k] \in Item
  BY <1>1, ItemIs DEF Lists, Sane, IsDoc
<1>. HIDE DEF w, k
<1>4. CASE k \notin DOMAIN u
  BY <1>2, <1>3, <1>4 DEF Lists, k, w
<1>5. CASE k \in DOMAIN u
  <2>1. u[k] \in Item
    BY <1>5, ItemIs
  <2>2. CASE u[k].value # None
    <3>1. w[k] = doc[k] \/ w[k] = u[k]
      BY <1>2, <1>5 DEF Merged
    <3>. QED  BY <1>3, <2>2, <3>1 DEF Lists, k, w
  <2>3. CASE u[k].value = None
    <3>1. u[k].path = << >>
      BY <1>5, <2>3 DEF Sane, Lists, k
    <3>2. doc[k].path \in Seq(Nat) /\ << >> \in Seq(Nat)
      BY <1>3 DEF Item
    <3>3. Differs(doc[k].path, << >>, 1)
      BY <3>2 DEF Differs
    <3>4. Later(doc[k].path, << >>)
      <4>1. 1 <= Len(doc[k].path) /\ 1 > Len(<< >>)
        BY <1>3, <3>2
      <4>. QED  BY <3>2, <3>3, <4>1, LaterIs
    <3>5. Merged(doc[k], u[k]) = doc[k]
      BY <1>3, <2>1, <3>1, <3>4, MergedIs
    <3>. QED  BY <1>2, <1>3, <1>5, <3>5 DEF Lists, k, w
  <2>. QED  BY <2>2, <2>3
<1>. QED  BY <1>4, <1>5

\* What a client writes: it unlists only what is deleted.
LEMMA SaneWritten ==
    ASSUME NEW doc, IsDoc(doc), NEW w, IsWant(w), NEW c \in Nat, NEW D, Sane(doc, D),
           \A i \in ImageIds : ImageKey(i) \in DOMAIN w /\ w[ImageKey(i)] = None => i \in D
    PROVE  LET u == Update(doc, w, c)
           IN  /\ Sane(u, D) /\ Sane(Apply(doc, u), D)
               /\ \A i \in ImageIds : Lists(Apply(doc, u), i)
                    => Lists(doc, i) \/ (ImageKey(i) \in DOMAIN w /\ w[ImageKey(i)] # None)
<1>. DEFINE u == Update(doc, w, c)
            v == Apply(doc, u)
<1>1. /\ IsUpdate(u)
      /\ \A k \in DOMAIN u :
           /\ k \in Keys
           /\ \/ u[k].path = doc[k].path /\ u[k].value = None
              \/ u[k].path = Append(doc[k].path, c)
           /\ v[k] = u[k]
      /\ \A k \in Keys \ DOMAIN u : v[k] = doc[k]
  BY WroteIs
<1>2. DOMAIN u \subseteq DOMAIN w /\ \A k \in DOMAIN u : u[k].value = w[k]
  BY UpdateIs DEF IsDoc
<1>. HIDE DEF u, v
<1>3. \A k \in Keys : doc[k].path \in Seq(Nat)
  <2>1. \A k \in Keys : doc[k] \in Item
    BY ItemIs DEF IsDoc
  <2>. QED  BY <2>1 DEF Item
<1>4. \A p \in Seq(Nat) : Append(p, c) # << >>
  OBVIOUS
<1>5. ASSUME NEW i \in ImageIds, ImageKey(i) \in DOMAIN u
      PROVE  /\ Lists(u, i) => u[ImageKey(i)].path # << >>
             /\ ~Lists(u, i) => i \in D
  <2>. DEFINE k == ImageKey(i)
  <2>1. k \in Keys /\ k \in DOMAIN w /\ u[k].value = w[k]
    BY <1>1, <1>2, <1>5
  <2>2. u[k].value # None => u[k].path = Append(doc[k].path, c)
    BY <1>1, <1>5
  <2>3. u[k].value = None => i \in D
    BY <2>1
  <2>. QED  BY <1>3, <1>4, <2>1, <2>2, <2>3 DEF Lists
<1>6. Sane(u, D)
  BY <1>5 DEF Sane
<1>7. Sane(v, D)
  BY <1>6, SaneApplied DEF v
<1>8. ASSUME NEW i \in ImageIds, Lists(v, i)
      PROVE  Lists(doc, i) \/ (ImageKey(i) \in DOMAIN w /\ w[ImageKey(i)] # None)
  BY <1>1, <1>2, <1>8, KeysAre DEF Lists
<1>. QED  BY <1>6, <1>7, <1>8 DEF u, v

LEMMA SaneDocOf ==
    ASSUME NEW log, Sound(log), NEW D, \A j \in DOMAIN log : Sane(log[j].update, D)
    PROVE  Sane(DocOf(log), D)
<1>1. \A k \in Keys : DocOf(log)[k] \in MadeOf(log, k)
  BY DocOfIsDoc
<1>2. ASSUME NEW i \in ImageIds
      PROVE  LET r == DocOf(log)[ImageKey(i)]
             IN  (r.value # None => r.path # << >>) /\ (r.value = None => r.path = << >> \/ i \in D)
  <2>. DEFINE k == ImageKey(i)
              r == DocOf(log)[k]
  <2>1. k \in Keys /\ r \in MadeOf(log, k)
    BY <1>1, KeysAre
  <2>. HIDE DEF r
  <2>2. CASE r = EmptyDoc[k]
    BY <2>1, <2>2, EmptyItem DEF r
  <2>3. CASE r # EmptyDoc[k]
    <3>1. PICK j \in DOMAIN log : k \in DOMAIN log[j].update /\ r = log[j].update[k]
      BY <2>1, <2>3 DEF MadeOf
    <3>. QED  BY <3>1 DEF Sane, Lists, r
  <2>. QED  BY <2>2, <2>3 DEF r
<1>. QED  BY <1>2 DEF Sane, Lists

-----------------------------------------------------------------------------
(* What is alike for the images. *)

Alike(b, c) ==
    /\ c.replica = b.replica /\ c.removedImages = b.removedImages /\ c.has = b.has
    /\ c.live = b.live /\ c.joining = b.joining /\ c.peeking = b.peeking
Level(e, f) ==
    /\ f.up = e.up /\ f.knows = e.knows /\ f.open = e.open /\ f.out = e.out
    /\ f.fetching = e.fetching
Runs(e) == DOMAIN e = EngineFields /\ e.results \in Seq(Answers) /\ e.waiting \subseteq ImageIds

LEMMA RunsIs ==
    ASSUME NEW e, NEW n, NEW U, NEW K, EngineGood(e, n, U, K)
    PROVE  Runs(e)
BY DEF EngineGood, AnswersGood, Runs

LEMMA LikeTrans ==
    ASSUME NEW a, NEW b, NEW c, Alike(a, b), Alike(b, c)
    PROVE  Alike(a, c)
BY DEF Alike

LEMMA LevelTrans ==
    ASSUME NEW a, NEW b, NEW c, Level(a, b), Level(b, c)
    PROVE  Level(a, c)
BY DEF Level

LEMMA LikeMoves ==
    ASSUME NEW b, DOMAIN b = BridgeFields, NEW T
    PROVE  Alike(b, Moves(b, T)) /\ DOMAIN Moves(b, T) = BridgeFields
BY DEF Moves, BridgeFields, Alike

LEMMA LikeInbound ==
    ASSUME NEW b, DOMAIN b = BridgeFields, NEW x
    PROVE  LET c == InboundBridge(x, b)
           IN  Alike(b, c) /\ DOMAIN c = BridgeFields
<1>. DEFINE y == Adopted(x, b)
            name == b.replica[NameKey].value
            tables == (IF y.name # x.name THEN {"spaces"} ELSE {})
                  \cup (IF y.folders # x.folders \/ \E n \in DOMAIN x.notes :
                                y.notes[n].folder # x.notes[n].folder THEN {"folders"} ELSE {})
                  \cup (IF y.images # x.images THEN {"images"} ELSE {})
            seen == [b EXCEPT !.author = @ \/ name # None]
            known == [seen EXCEPT !.known = IF name = None THEN @ ELSE name]
            moved == Moves(seen, tables)
            titled == [moved EXCEPT !.titles = TitlesSeen(x, moved.titles, b.replica)]
            c == InboundBridge(x, b)
<1>1. c = b \/ c = known \/ c = titled
  BY DEF InboundBridge
<1>2. Alike(b, seen) /\ DOMAIN seen = BridgeFields
  BY DEF BridgeFields, Alike
<1>. HIDE DEF seen, tables, c
<1>3. Alike(seen, known) /\ DOMAIN known = BridgeFields
  BY <1>2 DEF BridgeFields, Alike
<1>4. Alike(seen, moved) /\ DOMAIN moved = BridgeFields
  BY <1>2, LikeMoves
<1>. HIDE DEF known, moved
<1>5. Alike(moved, titled) /\ DOMAIN titled = BridgeFields
  BY <1>4 DEF BridgeFields, Alike
<1>. HIDE DEF titled
<1>6. Alike(b, b)
  BY DEF Alike
<1>7. Alike(b, known) /\ Alike(b, moved)
  BY <1>2, <1>3, <1>4, LikeTrans
<1>8. Alike(b, titled)
  BY <1>5, <1>7, LikeTrans
<1>9. Alike(b, c) /\ DOMAIN c = BridgeFields
  BY <1>1, <1>3, <1>5, <1>6, <1>7, <1>8
<1>. QED  BY <1>9 DEF c

LEMMA LikeCreating ==
    ASSUME NEW b, DOMAIN b = BridgeFields, NEW x
    PROVE  LET c == Creating(x, b)
           IN  Alike(b, c) /\ DOMAIN c = BridgeFields
BY DEF Creating, BridgeFields, Alike

LEMMA LikeRegistered ==
    ASSUME NEW b, DOMAIN b = BridgeFields, NEW N
    PROVE  LET c == Registered(b, N)
           IN  Alike(b, c) /\ DOMAIN c = BridgeFields
BY DEF Registered, BridgeFields, Alike

LEMMA ResultsBusy ==
    ASSUME NEW e, Runs(e), NEW B \in SUBSET ImageIds, NEW r \in {"stored", "error", "big"}
    PROVE  LET f == Results(e, B, r)
           IN  /\ Runs(f) /\ Level(e, f) /\ f.waiting = e.waiting
               /\ Busy(f) \subseteq Busy(e) \cup B
<1>. DEFINE S == {<<i, r>> : i \in B}
            t == SetToSeq(S)
            s == e.results \o t
            f == Results(e, B, r)
<1>1. IsFiniteSet(S)
  <2>1. IsFiniteSet({r})
    BY FS_Singleton
  <2>2. IsFiniteSet(ImageIds \X {r})
    BY <2>1, ImagesAssumption, FS_Product
  <2>3. S \subseteq ImageIds \X {r}
    OBVIOUS
  <2>. QED  BY <2>2, <2>3, FS_Subset
<1>2. S \subseteq Answers /\ \A a \in S : a[1] \in B
  BY DEF Answers
<1>3. t \in Seq(S)
  <2>. HIDE DEF S
  <2>. QED  BY <1>1, SeqOfSet
<1>4. f = [e EXCEPT !.results = s]
  BY DEF Results
<1>. HIDE DEF S, t, f
<1>5. e.results \in Seq(Answers) /\ t \in Seq(Answers)
  BY <1>2, <1>3 DEF Runs
<1>6. s \in Seq(Answers) /\ \A j \in DOMAIN s : s[j][1] \in B \/ \E k \in DOMAIN e.results : s[j] = e.results[k]
  <2>1. s \in Seq(Answers)
    BY <1>5
  <2>2. ASSUME NEW j \in DOMAIN s
        PROVE  s[j][1] \in B \/ \E k \in DOMAIN e.results : s[j] = e.results[k]
    <3>1. CASE j \in 1..Len(e.results)
      <4>1. s[j] = e.results[j] /\ j \in DOMAIN e.results
        BY <1>5, <3>1
      <4>. QED  BY <4>1
    <3>2. CASE j \notin 1..Len(e.results)
      <4>1. s[j] = t[j - Len(e.results)] /\ j - Len(e.results) \in 1..Len(t)
        BY <1>5, <2>2, <3>2
      <4>2. t[j - Len(e.results)] \in S
        BY <1>3, <4>1
      <4>. QED  BY <1>2, <4>1, <4>2
    <3>. QED  BY <3>1, <3>2
  <2>. QED  BY <2>1, <2>2
<1>. HIDE DEF s
<1>7. /\ f.results = s /\ f.waiting = e.waiting /\ Level(e, f) /\ DOMAIN f = EngineFields
  BY <1>4 DEF Runs, EngineFields, Level
<1>8. Busy(f) \subseteq Busy(e) \cup B
  BY <1>6, <1>7 DEF Busy
<1>9. Runs(f)
  BY <1>6, <1>7 DEF Runs
<1>. QED  BY <1>7, <1>8, <1>9 DEF f

LEMMA PutBusy ==
    ASSUME NEW e, Runs(e), NEW B \in SUBSET ImageIds
    PROVE  LET f == Put(e, B)
           IN  Runs(f) /\ Level(e, f) /\ Busy(f) \subseteq Busy(e) \cup B
<1>. DEFINE now == Sent(e, B)
            big == IF e.knows THEN B \cap start.big ELSE {}
            rest == (B \ (now \cup big)) \cup (now \cap e.waiting)
            told1 == Results(e, big, "big")
            told == Results(told1, rest, "error")
            f == [told EXCEPT !.waiting = @ \cup now,
                              !.wire = [i \in ImageIds |-> IF i \in now THEN @[i] + 1 ELSE @[i]]]
<1>1. Put(e, B) = f
  BY DEF Put
<1>2. now \subseteq B /\ big \subseteq B /\ rest \subseteq B
  BY DEF Sent
<1>. HIDE DEF now, big, rest
<1>3. now \in SUBSET ImageIds /\ big \in SUBSET ImageIds /\ rest \in SUBSET ImageIds
  BY <1>2
<1>4. Runs(told1) /\ Level(e, told1) /\ Busy(told1) \subseteq Busy(e) \cup big
  BY <1>3, ResultsBusy
<1>. HIDE DEF told1
<1>5. Runs(told) /\ Level(told1, told) /\ Busy(told) \subseteq Busy(told1) \cup rest
  BY <1>3, <1>4, ResultsBusy
<1>. HIDE DEF told
<1>6. /\ DOMAIN f = EngineFields /\ f.waiting = told.waiting \cup now
      /\ f.results = told.results /\ Level(told, f)
  BY <1>5 DEF EngineFields, Runs, Level
<1>. HIDE DEF f
<1>7. Runs(f)
  BY <1>3, <1>5, <1>6 DEF Runs
<1>8. Busy(f) \subseteq Busy(told) \cup now
  BY <1>6 DEF Busy
<1>9. Busy(f) \subseteq Busy(e) \cup B
  BY <1>2, <1>4, <1>5, <1>8
<1>10. Level(e, f)
  BY <1>4, <1>5, <1>6, LevelTrans
<1>. QED  BY <1>1, <1>7, <1>9, <1>10

\* The inbound pass asks for what is listed and not there.
LEMMA InboundAsks ==
    ASSUME NEW e, DOMAIN e = EngineFields, NEW x, NEW b
    PROVE  LET f == InboundEngine(x, b, e)
               y == Adopted(x, b)
           IN  /\ f.up = e.up /\ f.knows = e.knows /\ f.open = e.open /\ f.out = e.out
               /\ Busy(f) = Busy(e)
               /\ b.has /\ b.live /\ x.space = "mapped" /\ e.up /\ e.knows =>
                    \A i \in DOMAIN y.images : i \in ImageIds /\ Lists(b.replica, i)
                        => y.images[i].bytes \/ i \in f.fetching
<1>. DEFINE y == Adopted(x, b)
            wanted == {i \in DOMAIN y.images : ~y.images[i].bytes} \cap Listed(b.replica, "image", ImageIds)
            on == b.has /\ b.live /\ x.space = "mapped" /\ e.up /\ e.knows
            g == [e EXCEPT !.fetching = e.fetching \cup wanted]
            f == InboundEngine(x, b, e)
<1>1. (on => f = g) /\ (~on => f = e)
  BY DEF InboundEngine
<1>2. \A i \in DOMAIN y.images : i \in ImageIds /\ Lists(b.replica, i)
          => y.images[i].bytes \/ i \in wanted
  BY DEF Lists, Listed, ImageKey
<1>. HIDE DEF y, wanted
<1>3. /\ g.up = e.up /\ g.knows = e.knows /\ g.open = e.open /\ g.out = e.out
      /\ g.waiting = e.waiting /\ g.results = e.results /\ g.fetching = e.fetching \cup wanted
  BY DEF EngineFields
<1>. HIDE DEF f, g
<1>4. f = e \/ f = g
  BY <1>1
<1>5. /\ f.up = e.up /\ f.knows = e.knows /\ f.open = e.open /\ f.out = e.out
      /\ f.waiting = e.waiting /\ f.results = e.results
  BY <1>3, <1>4
<1>6. Busy(f) = Busy(e)
  BY <1>5 DEF Busy
<1>7. on => f.fetching = e.fetching \cup wanted
  BY <1>1, <1>3
<1>8. on => \A i \in DOMAIN y.images : i \in ImageIds /\ Lists(b.replica, i)
                => y.images[i].bytes \/ i \in f.fetching
  BY <1>2, <1>7
<1>. QED  BY <1>5, <1>6, <1>8 DEF f, y

\* The engine comes to know the space and opens the index, or will.
LEMMA OpensLevel ==
    ASSUME NEW e, DOMAIN e = EngineFields
    PROVE  LET f == AskOpen(e)
               g == Opened(e)
           IN  /\ f.up = e.up /\ f.knows = e.knows /\ f.out = e.out /\ f.fetching = e.fetching
               /\ Busy(f) = Busy(e) /\ DOMAIN f = EngineFields
               /\ g.up = e.up /\ g.knows = e.knows /\ g.out = e.out /\ g.fetching = e.fetching
               /\ Busy(g) = Busy(e) /\ DOMAIN g = EngineFields
<1>. DEFINE p == Past(e, 0, server.log)
            g == [e EXCEPT !.open = TRUE, !.opening = FALSE, !.seen = p,
                           !.target = Len(server.log)]
            h == [e EXCEPT !.opening = TRUE]
            Fine(f) == /\ f.up = e.up /\ f.knows = e.knows /\ f.out = e.out
                       /\ f.fetching = e.fetching /\ Busy(f) = Busy(e) /\ DOMAIN f = EngineFields
<1>. HIDE DEF p
<1>1. Fine(e) /\ Fine(g) /\ Fine(h)
  BY DEF EngineFields, Busy
<1>2. Opened(e) = e \/ Opened(e) = g
  BY DEF Opened, p
<1>3. AskOpen(e) = h \/ AskOpen(e) = Opened(e)
  BY DEF AskOpen
<1>. HIDE DEF g, h, Fine
<1>4. Fine(Opened(e)) /\ Fine(AskOpen(e))
  BY <1>1, <1>2, <1>3
<1>. QED  BY <1>4 DEF Fine

LEMMA AdoptedImages ==
    ASSUME NEW U, NEW K, NEW x, DbGood(x, U, K), x.space # "absent",
           NEW b, BridgeGood(b, U, K), Pending(x, b)
    PROVE  LET y == Adopted(x, b)
           IN  /\ y.space = x.space /\ DOMAIN y.images \subseteq ImageIds
               /\ ~b.live => y.images = x.images
               /\ b.live => \A i \in ImageIds :
                    /\ Lists(b.replica, i) /\ i \notin b.removedImages => i \in DOMAIN y.images
                    /\ i \in DOMAIN y.images /\ ~Lists(b.replica, i)
                         => i \in DOMAIN x.images /\ y.images[i] = x.images[i] /\ x.images[i].push
<1>. DEFINE y == Adopted(x, b)
<1>1. /\ DbGood(y, U, K) /\ y.space = x.space
      /\ ~b.live => y.images = x.images
      /\ b.live => \E z : /\ IsDb(z) /\ z.images = x.images
                          /\ y = ImagesAdopted(z, b.replica, b.removedImages)
  BY AdoptedIs
<1>. HIDE DEF y
<1>2. DOMAIN y.images \subseteq ImageIds
  BY <1>1, RowsAre DEF DbGood
<1>3. ASSUME b.live, NEW i \in ImageIds
      PROVE  /\ Lists(b.replica, i) /\ i \notin b.removedImages => i \in DOMAIN y.images
             /\ i \in DOMAIN y.images /\ ~Lists(b.replica, i)
                  => i \in DOMAIN x.images /\ y.images[i] = x.images[i] /\ x.images[i].push
  <2>1. PICK z : /\ IsDb(z) /\ z.images = x.images
                 /\ y = ImagesAdopted(z, b.replica, b.removedImages)
    BY <1>1, <1>3
  <2>. DEFINE listed == Listed(b.replica, "image", ImageIds)
              removed == b.removedImages
              stale == {j \in DOMAIN z.images : ~z.images[j].push} \ listed
              fresh == [name |-> None, push |-> FALSE, bytes |-> FALSE]
              known(j) == IF j \in DOMAIN z.images THEN z.images[j] ELSE fresh
              I == [j \in (DOMAIN z.images \ stale) \cup (listed \ removed) |->
                      IF j \in listed \ removed
                      THEN [known(j) EXCEPT !.name = b.replica[ImageKey(j)].value] ELSE z.images[j]]
  <2>2. y = [z EXCEPT !.images = I]
    BY <2>1 DEF ImagesAdopted
  <2>3. "images" \in DOMAIN z
    BY <2>1, RowsAre
  <2>4. y.images = I
    <3>. HIDE DEF I
    <3>. QED  BY <2>2, <2>3
  <2>5. Lists(b.replica, i) <=> i \in listed
    BY DEF Lists, Listed, ImageKey
  <2>. HIDE DEF listed, removed
  <2>6. Lists(b.replica, i) /\ i \notin removed => i \in DOMAIN I
    BY <2>5
  <2>7. i \in DOMAIN I /\ ~Lists(b.replica, i)
          => i \in DOMAIN z.images /\ I[i] = z.images[i] /\ z.images[i].push
    BY <2>5
  <2>. HIDE DEF I
  <2>8. Lists(b.replica, i) /\ i \notin b.removedImages => i \in DOMAIN y.images
    BY <2>4, <2>6 DEF removed
  <2>. QED  BY <2>1, <2>4, <2>7, <2>8
<1>. QED  BY <1>1, <1>2, <1>3 DEF y

LEMMA InboundHolds ==
    ASSUME NEW U, NEW K, NEW x, DbGood(x, U, K), NEW b, BridgeGood(b, U, K), Pending(x, b),
           NEW e, DOMAIN e = EngineFields, NEW D, NEW P, Ready(x, b, e, D, P)
    PROVE  Holds(InboundDb(x, b), InboundBridge(x, b), InboundEngine(x, b, e), D, P)
<1>. DEFINE y == InboundDb(x, b)
            c == InboundBridge(x, b)
            f == InboundEngine(x, b, e)
            w == Adopted(x, b)
            on == b.has /\ x.space = "mapped"
<1>1. Alike(b, c)
  BY LikeInbound DEF BridgeGood
<1>2. /\ f.up = e.up /\ f.knows = e.knows /\ f.open = e.open /\ f.out = e.out
      /\ Busy(f) = Busy(e)
      /\ b.has /\ b.live /\ x.space = "mapped" /\ e.up /\ e.knows =>
           \A i \in DOMAIN w.images : i \in ImageIds /\ Lists(b.replica, i)
               => w.images[i].bytes \/ i \in f.fetching
  BY InboundAsks
<1>3. on => /\ w.space = x.space /\ DOMAIN w.images \subseteq ImageIds
            /\ ~b.live => w.images = x.images
            /\ b.live => \A i \in ImageIds :
                 /\ Lists(b.replica, i) /\ i \notin b.removedImages => i \in DOMAIN w.images
                 /\ i \in DOMAIN w.images /\ ~Lists(b.replica, i)
                      => i \in DOMAIN x.images /\ w.images[i] = x.images[i] /\ x.images[i].push
  BY AdoptedImages
<1>4. (on => y = w) /\ (~on => y = x)
  BY DEF InboundDb
<1>. HIDE DEF c, f, w, y
<1>5. y.space = x.space
  BY <1>3, <1>4
<1>6. ASSUME NEW i \in (DOMAIN y.images \cap Busy(f)) \ D
      PROVE  y.images[i].bytes \/ Lists(c.replica, i)
  <2>1. i \in Busy(e) /\ (i \in DOMAIN x.images => x.images[i].bytes \/ Lists(b.replica, i))
    BY <1>2, <1>6 DEF Ready
  <2>2. CASE ~on \/ ~b.live
    <3>1. y.images = x.images
      BY <1>3, <1>4, <2>2
    <3>. QED  BY <1>1, <1>6, <2>1, <3>1 DEF Alike
  <2>3. CASE on /\ b.live
    <3>1. y = w /\ i \in ImageIds
      BY <1>3, <1>4, <1>6, <2>3
    <3>2. ~Lists(b.replica, i) => i \in DOMAIN x.images /\ w.images[i] = x.images[i]
      BY <1>3, <1>6, <2>3, <3>1
    <3>. QED  BY <1>1, <2>1, <3>1, <3>2 DEF Alike
  <2>. QED  BY <2>2, <2>3
<1>7. y.space = "local" \/ P => Alone(c, f)
  BY <1>1, <1>2, <1>5 DEF Ready, Alone, Alike
<1>8. Ready(y, c, f, D, P)
  <2>1. Sane(c.replica, D) /\ Sane(f.out, D) /\ c.removedImages \subseteq D
    BY <1>1, <1>2 DEF Ready, Alike
  <2>2. (c.live => c.has /\ f.up /\ f.knows) /\ (f.open => f.knows)
    BY <1>1, <1>2 DEF Ready, Alike
  <2>. QED  BY <1>6, <1>7, <2>1, <2>2 DEF Ready
<1>9. ASSUME c.live, y.space = "mapped", NEW i \in ImageIds \ D
      PROVE  Shows(y, c, f, i)
  <2>1. b.live /\ on /\ e.up /\ e.knows /\ y = w /\ i \notin b.removedImages
    BY <1>1, <1>4, <1>5, <1>9 DEF Ready, Alike
  <2>2. Lists(b.replica, i) => i \in DOMAIN w.images /\ (w.images[i].bytes \/ i \in f.fetching)
    BY <1>2, <1>3, <2>1
  <2>3. i \in DOMAIN w.images => w.images[i].push \/ w.images[i].bytes \/ Lists(b.replica, i)
    BY <1>3, <2>1
  <2>. QED  BY <1>1, <2>1, <2>2, <2>3 DEF Shows, Alike
<1>10. Holds(y, c, f, D, P)
  BY <1>8, <1>9 DEF Holds
<1>. QED  BY <1>10 DEF y, c, f

\* What neither the images nor what is listed changes.
LEMMA QuietHolds ==
    ASSUME NEW x, NEW b, NEW e, NEW D, NEW P, Holds(x, b, e, D, P),
           NEW y, NEW c, NEW f, NEW C, NEW Q, y.space = x.space, y.images = x.images,
           c.replica = b.replica, c.removedImages = b.removedImages,
           f.out = e.out \/ f.out = Nothing,
           c.live => b.live /\ c.has /\ f.up /\ f.knows /\ e.fetching \subseteq f.fetching,
           f.open => f.knows, Busy(f) \subseteq Busy(e),
           (x.space = "local" \/ P) /\ Alone(b, e) => Alone(c, f),
           D \subseteq C, Q => P
    PROVE  Holds(y, c, f, C, Q)
<1>1. Ready(x, b, e, D, P)
  BY DEF Holds
<1>2. Sane(c.replica, C) /\ Sane(f.out, C) /\ c.removedImages \subseteq C
  BY <1>1, SaneMore, SaneNothing DEF Ready
<1>3. y.space = "local" \/ Q => Alone(c, f)
  BY <1>1 DEF Ready
<1>4. \A i \in (DOMAIN y.images \cap Busy(f)) \ C : y.images[i].bytes \/ Lists(c.replica, i)
  BY <1>1 DEF Ready
<1>5. Ready(y, c, f, C, Q)
  BY <1>2, <1>3, <1>4 DEF Ready
<1>6. ASSUME c.live, y.space = "mapped", NEW i \in ImageIds \ C
      PROVE  Shows(y, c, f, i)
  <2>1. Shows(x, b, e, i)
    BY <1>6 DEF Holds
  <2>. QED  BY <1>6, <2>1 DEF Shows
<1>. QED  BY <1>5, <1>6 DEF Holds

\* The same for what is alike.
LEMMA LikeHolds ==
    ASSUME NEW x, NEW b, NEW e, NEW D, NEW P, Holds(x, b, e, D, P),
           NEW y, NEW c, NEW f, NEW C, NEW Q, y.space = x.space, y.images = x.images,
           Alike(b, c), Level(e, f), Busy(f) \subseteq Busy(e), D \subseteq C, Q => P
    PROVE  Holds(y, c, f, C, Q)
<1>1. Alone(b, e) => Alone(c, f)
  BY DEF Alone, Alike
<1>2. /\ c.replica = b.replica /\ c.removedImages = b.removedImages
      /\ f.out = e.out
      /\ c.live => b.live /\ c.has /\ f.up /\ f.knows /\ e.fetching \subseteq f.fetching
      /\ f.open => f.knows
  BY DEF Alike, Level, Holds, Ready
<1>. QED  BY <1>1, <1>2, QuietHolds

-----------------------------------------------------------------------------
(* The steps of one device. *)

LEMMA OneHolds ==
    ASSUME AInv, NEW d \in Devices, NEW x, NEW b, NEW e, Sets(d, x, b, e),
           deleted \subseteq deleted', server'.log = server.log,
           server.exists => server'.exists, server'.exists => Ahead, ToPush' => ToPush,
           Ahead => Holds(x, b, e, deleted', ToPush')
    PROVE  AInv'
<1>1. \A j \in DOMAIN server'.log : Sane(server'.log[j].update, deleted')
  <2>1. \A j \in DOMAIN server.log : Sane(server.log[j].update, deleted)
    BY DEF AInv
  <2>. QED  BY <2>1, SaneMore
<1>2. ~server'.exists => server'.log = << >>
  BY DEF AInv
<1>3. ASSUME Ahead', NEW m \in Devices
      PROVE  Holds(db'[m], bridge'[m], engine'[m], deleted', ToPush')
  <2>1. Ahead
    BY <1>3 DEF Ahead
  <2>2. CASE m = d
    BY <2>1, <2>2 DEF Sets
  <2>3. CASE m # d
    <3>1. db'[m] = db[m] /\ bridge'[m] = bridge[m] /\ engine'[m] = engine[m]
      BY <2>3 DEF Sets
    <3>2. Holds(db[m], bridge[m], engine[m], deleted, ToPush)
      BY <2>1 DEF AInv
    <3>3. Alike(bridge[m], bridge[m]) /\ Level(engine[m], engine[m])
      BY DEF Alike, Level
    <3>4. Holds(db[m], bridge[m], engine[m], deleted', ToPush')
      BY <3>2, <3>3, LikeHolds
    <3>. QED  BY <3>1, <3>4
  <2>. QED  BY <2>2, <2>3
<1>. QED  BY <1>1, <1>2, <1>3 DEF AInv

LEMMA HandledHolds ==
    ASSUME IInv, IInv', AInv, NEW d \in Devices, NEW x, NEW b, NEW e, Handled(d, x, b, e),
           deleted \subseteq deleted', server'.log = server.log,
           server.exists => server'.exists, server'.exists => Ahead, ToPush' => ToPush,
           Ahead => Holds(x, b, e, deleted', ToPush')
    PROVE  AInv'
<1>. DEFINE v == Works(x, b, e)
            c == [b EXCEPT !.due = v]
<1>1. Changes(d, x, c, e)
  BY DEF Handled
<1>. HIDE DEF v
<1>2. Sets(d, x, c, e)
  <2>. HIDE DEF c
  <2>. QED  BY <1>1, ChangesIs
<1>3. DOMAIN c = BridgeFields
  <2>1. bridge'[d] = c
    BY <1>2 DEF Sets
  <2>. HIDE DEF c
  <2>. QED  BY <2>1, FieldsNext
<1>4. Alike(b, c)
  BY <1>3 DEF BridgeFields, Alike
<1>. HIDE DEF c
<1>5. Level(e, e)
  BY DEF Level
<1>6. Ahead => Holds(x, c, e, deleted', ToPush')
  BY <1>4, <1>5, LikeHolds
<1>. QED  BY <1>2, <1>6, OneHolds

\* A step that leaves the images and what is listed as they are.
LEMMA LikeHandled ==
    ASSUME IInv, IInv', AInv, NEW d \in Devices, NEW x, NEW b, NEW e, Handled(d, x, b, e),
           x.space = db[d].space, x.images = db[d].images, Alike(bridge[d], b),
           Level(engine[d], e), Busy(e) \subseteq Busy(engine[d]),
           deleted \subseteq deleted', server'.log = server.log,
           server'.exists = server.exists, ToPush' => ToPush
    PROVE  AInv'
<1>1. Ahead => Holds(db[d], bridge[d], engine[d], deleted, ToPush)
  BY DEF AInv
<1>2. Ahead => Holds(x, b, e, deleted', ToPush')
  BY <1>1, LikeHolds
<1>3. server'.exists => Ahead
  BY DEF Ahead
<1>. QED  BY <1>2, <1>3, HandledHolds

LEMMA LikeSets ==
    ASSUME AInv, NEW d \in Devices, NEW x, NEW b, NEW e, Sets(d, x, b, e),
           x.space = db[d].space, x.images = db[d].images, Alike(bridge[d], b),
           Level(engine[d], e), Busy(e) \subseteq Busy(engine[d]),
           deleted \subseteq deleted', server'.log = server.log,
           server'.exists = server.exists, ToPush' => ToPush
    PROVE  AInv'
<1>1. Ahead => Holds(db[d], bridge[d], engine[d], deleted, ToPush)
  BY DEF AInv
<1>2. Ahead => Holds(x, b, e, deleted', ToPush')
  BY <1>1, LikeHolds
<1>3. server'.exists => Ahead
  BY DEF Ahead
<1>. QED  BY <1>2, <1>3, OneHolds

LEMMA LikeSelf == \A b : Alike(b, b) /\ Level(b, b) /\ Busy(b) \subseteq Busy(b)
BY DEF Alike, Level

\* Nothing but what is not the images' changes: the shared part of an event.
LEMMA Apart ==
    ASSUME IInv, UNCHANGED <<server, history>>, Spends
    PROVE  /\ deleted \subseteq deleted' /\ server'.log = server.log
           /\ server'.exists = server.exists /\ ToPush' = ToPush
BY PushStays DEF history

\* What the invariant says of a device.
LEMMA HoldsNow ==
    ASSUME IInv, AInv, Ahead, NEW d \in Devices
    PROVE  /\ Holds(db[d], bridge[d], engine[d], deleted, ToPush)
           /\ Ready(db[d], bridge[d], engine[d], deleted, ToPush)
           /\ DbGood(db[d], used, Kept) /\ BridgeGood(bridge[d], used, Kept)
           /\ Pending(db[d], bridge[d]) /\ Unpushed(db[d], bridge[d], ToPush)
           /\ EngineGood(engine[d], Len(server.log), used, Kept) /\ Runs(engine[d])
<1>1. Holds(db[d], bridge[d], engine[d], deleted, ToPush)
  BY DEF AInv
<1>2. Fits(db[d], bridge[d], engine[d])
  BY GoodIs
<1>3. /\ DbGood(db[d], used, Kept) /\ BridgeGood(bridge[d], used, Kept)
      /\ Pending(db[d], bridge[d]) /\ Unpushed(db[d], bridge[d], ToPush)
      /\ EngineGood(engine[d], Len(server.log), used, Kept)
  BY <1>2 DEF Fits, Device
<1>4. Runs(engine[d])
  BY <1>3, RunsIs
<1>. QED  BY <1>1, <1>3, <1>4 DEF Holds

LEMMA ConnectImages ==
    ASSUME IInv, IInv', MInv, AInv, NEW d \in Devices, Connect(d)
    PROVE  AInv'
<1>. DEFINE x == db[d]
            b == bridge[d]
            e == engine[d]
            c == [b EXCEPT !.joining = IF x.space = "mapped" /\ @ = "no" THEN "asked" ELSE @]
            f == [e EXCEPT !.up = TRUE, !.target = IF e.open THEN Len(server.log) ELSE 0]
<1>1. Handled(d, x, c, f) /\ UNCHANGED <<server, history>> /\ Spends
  BY DEF Connect, Quietly, Spends
<1>2. DOMAIN b = BridgeFields /\ DOMAIN e = EngineFields
  BY GoodIs
<1>3. /\ c.replica = b.replica /\ c.removedImages = b.removedImages /\ c.has = b.has
      /\ c.live = b.live /\ c.peeking = b.peeking
      /\ x.space # "mapped" => c.joining = b.joining
  BY <1>2 DEF BridgeFields
<1>4. /\ f.up /\ f.knows = e.knows /\ f.open = e.open /\ f.out = e.out
      /\ f.fetching = e.fetching /\ Busy(f) = Busy(e)
  BY <1>2 DEF EngineFields, Busy
<1>5. /\ deleted \subseteq deleted' /\ server'.log = server.log
      /\ server'.exists = server.exists /\ ToPush' = ToPush
  BY <1>1, Apart
<1>. HIDE DEF c, f
<1>6. ASSUME Ahead PROVE Holds(x, c, f, deleted', ToPush')
  <2>1. Holds(x, b, e, deleted, ToPush) /\ Ready(x, b, e, deleted, ToPush)
        /\ Unpushed(x, b, ToPush)
    BY <1>6, HoldsNow
  <2>2. (x.space = "local" \/ ToPush) /\ Alone(b, e) => Alone(c, f)
    BY <1>3, <1>4, <2>1 DEF Alone, Unpushed
  <2>3. /\ c.live => b.live /\ c.has /\ f.up /\ f.knows /\ e.fetching \subseteq f.fetching
        /\ f.open => f.knows
    BY <1>3, <1>4, <2>1 DEF Ready
  <2>. QED  BY <1>3, <1>4, <1>5, <2>1, <2>2, <2>3, QuietHolds
<1>. QED  BY <1>1, <1>5, <1>6, HandledHolds DEF Ahead

LEMMA DisconnectImages ==
    ASSUME IInv, IInv', MInv, AInv, NEW d \in Devices, Disconnect(d)
    PROVE  AInv'
<1>. DEFINE x == db[d]
            b == bridge[d]
            e == engine[d]
            lost == [e EXCEPT !.up = FALSE, !.waiting = {}, !.fetching = {},
                              !.wire = [i \in ImageIds |-> 0]]
            c == [b EXCEPT
                !.live = FALSE, !.peeking = @ /\ e.knows,
                !.joining = IF @ = "asked" /\ ~e.knows THEN "hung" ELSE @,
                !.creating = [n \in DOMAIN @ |-> IF @[n] = "asked" THEN "failed" ELSE @[n]]]
            f == Results(lost, e.waiting, "error")
<1>1. Handled(d, x, c, f) /\ UNCHANGED <<server, history>> /\ Spends
  BY DEF Disconnect, Spends
<1>2. DOMAIN b = BridgeFields /\ DOMAIN e = EngineFields /\ Runs(e)
  BY GoodIs, RunsIs
<1>3. /\ c.replica = b.replica /\ c.removedImages = b.removedImages /\ c.has = b.has
      /\ ~c.live /\ (b.joining = "no" => c.joining = "no") /\ (~b.peeking => ~c.peeking)
  BY <1>2 DEF BridgeFields
<1>4. /\ lost.knows = e.knows /\ lost.open = e.open /\ lost.out = e.out
      /\ Runs(lost) /\ Busy(lost) \subseteq Busy(e)
  <2>1. /\ lost.knows = e.knows /\ lost.open = e.open /\ lost.out = e.out /\ lost.waiting = {}
        /\ lost.results = e.results /\ DOMAIN lost = EngineFields
    BY <1>2 DEF EngineFields
  <2>. HIDE DEF lost
  <2>. QED  BY <1>2, <2>1 DEF Runs, Busy
<1>. HIDE DEF c, lost
<1>5. Level(lost, f) /\ Busy(f) \subseteq Busy(e)
  <2>1. e.waiting \in SUBSET ImageIds /\ e.waiting \subseteq Busy(e)
    BY <1>2 DEF Runs, Busy
  <2>2. Level(lost, f) /\ Busy(f) \subseteq Busy(lost) \cup e.waiting
    BY <1>4, <2>1, ResultsBusy
  <2>. QED  BY <1>4, <2>1, <2>2
<1>6. /\ deleted \subseteq deleted' /\ server'.log = server.log
      /\ server'.exists = server.exists /\ ToPush' = ToPush
  BY <1>1, Apart
<1>. HIDE DEF f
<1>7. ASSUME Ahead PROVE Holds(x, c, f, deleted', ToPush')
  <2>1. Holds(x, b, e, deleted, ToPush) /\ Ready(x, b, e, deleted, ToPush)
    BY <1>7, HoldsNow
  <2>2. Alone(b, e) => Alone(c, f)
    BY <1>3, <1>5 DEF Alone
  <2>3. f.out = e.out /\ (f.open => f.knows)
    BY <1>4, <1>5, <2>1 DEF Ready, Level
  <2>. QED  BY <1>3, <1>5, <1>6, <2>1, <2>2, <2>3, QuietHolds
<1>. QED  BY <1>1, <1>6, <1>7, HandledHolds DEF Ahead

-----------------------------------------------------------------------------
(* The inbound pass. *)

LEMMA PassHolds ==
    ASSUME IInv, IInv', AInv, NEW d \in Devices, NEW x, NEW b, NEW e, Inbound(d, x, b, e),
           UNCHANGED <<server, history>>, Spends,
           Ahead => /\ DbGood(x, used, Kept) /\ BridgeGood(b, used, Kept) /\ Pending(x, b)
                    /\ DOMAIN e = EngineFields /\ Ready(x, b, e, deleted, ToPush)
    PROVE  AInv'
<1>. DEFINE y == InboundDb(x, b)
            c == InboundBridge(x, b)
            f == InboundEngine(x, b, e)
<1>1. Handled(d, y, c, f)
  BY DEF Inbound
<1>2. /\ deleted' = deleted /\ server'.log = server.log
      /\ server'.exists = server.exists /\ ToPush' = ToPush
  BY Apart DEF history
<1>3. Ahead => Holds(y, c, f, deleted, ToPush)
  BY InboundHolds
<1>. HIDE DEF y, c, f
<1>. QED  BY <1>1, <1>2, <1>3, HandledHolds DEF Ahead

LEMMA DeliverImages ==
    ASSUME IInv, IInv', MInv, AInv, NEW d \in Devices, Deliver(d)
    PROVE  AInv'
<1>. DEFINE x == db[d]
            b == bridge[d]
            e == engine[d]
            n == e.seen + 1
            u == server.log[n].update
            c == [b EXCEPT !.replica = Apply(@, u)]
            f == [e EXCEPT !.seen = Past(e, n, server.log)]
            D == deleted
<1>1. /\ Inbound(d, x, c, f) /\ UNCHANGED <<server, history>> /\ Spends /\ Ahead
      /\ e.seen < Len(server.log)
  BY DEF Deliver, Quietly, Spends, Ahead
<1>2. /\ DbGood(x, used, Kept) /\ BridgeGood(b, used, Kept) /\ DOMAIN b = BridgeFields
      /\ DOMAIN e = EngineFields /\ e.seen \in 0..Len(server.log)
      /\ Len(server.log) \in Nat /\ DOMAIN server.log = 1..Len(server.log)
      /\ Pending(x, b) /\ Ready(x, b, e, D, ToPush)
  BY <1>1, GoodIs, LogIs, HoldsNow DEF EngineGood
<1>3. n \in DOMAIN server.log
  BY <1>1, <1>2
<1>. HIDE DEF n
<1>4. UpdateGood(u, used, Kept) /\ Sane(u, D)
  BY <1>3 DEF IInv, ServerGood, Logged, AInv
<1>5. DocGood(Apply(b.replica, u), used, Kept)
  BY <1>2, <1>4, Applied DEF BridgeGood, DocGood
<1>6. IsDoc(b.replica) /\ IsUpdate(u) /\ Sane(b.replica, D)
  BY <1>2, <1>4 DEF MInv, UpdateGood, Ready
<1>. HIDE DEF u
<1>7. /\ c.replica = Apply(b.replica, u) /\ c.titles = b.titles
      /\ c.removedFolders = b.removedFolders /\ c.removedImages = b.removedImages
      /\ c.joining = b.joining /\ c.known = b.known /\ c.moved = b.moved
      /\ c.creating = b.creating /\ c.uploading = b.uploading /\ c.failed = b.failed
      /\ c.tries = b.tries /\ DOMAIN c = BridgeFields
      /\ c.has = b.has /\ c.live = b.live /\ c.peeking = b.peeking
  BY <1>2 DEF BridgeFields
<1>8. Level(e, f) /\ Busy(f) = Busy(e) /\ DOMAIN f = EngineFields
  BY <1>2 DEF EngineFields, Level, Busy
<1>. HIDE DEF c, f
<1>9. BridgeGood(c, used, Kept) /\ Pending(x, c)
  BY <1>2, <1>5, <1>7 DEF BridgeGood, Pending
<1>10. Sane(c.replica, D)
  BY <1>4, <1>6, <1>7, SaneApplied
<1>. HIDE DEF b, e, x, D
<1>11. ASSUME NEW i \in (DOMAIN x.images \cap Busy(f)) \ D
       PROVE  x.images[i].bytes \/ Lists(c.replica, i)
  <2>1. x.images[i].bytes \/ Lists(b.replica, i)
    BY <1>2, <1>8, <1>11 DEF Ready
  <2>2. i \in ImageIds
    BY <1>2, <1>11, RowsAre DEF DbGood
  <2>3. Lists(b.replica, i) => Lists(c.replica, i)
    BY <1>4, <1>6, <1>7, <1>11, <2>2, ListsOn
  <2>. QED  BY <2>1, <2>3
<1>12. /\ c.live => c.has /\ f.up /\ f.knows
       /\ f.open => f.knows
       /\ x.space = "local" \/ ToPush => Alone(c, f)
       /\ Sane(f.out, D) /\ c.removedImages \subseteq D
  BY <1>2, <1>7, <1>8 DEF Ready, Level, Alone
<1>13. Ready(x, c, f, D, ToPush)
  BY <1>10, <1>11, <1>12 DEF Ready
<1>. QED  BY <1>1, <1>2, <1>8, <1>9, <1>13, PassHolds DEF D, x

LEMMA SyncedImages ==
    ASSUME IInv, IInv', MInv, AInv, NEW d \in Devices, Synced(d)
    PROVE  AInv'
<1>. DEFINE x == db[d]
            b == bridge[d]
            e == engine[d]
            c == [b EXCEPT !.live = TRUE, !.dirty = TRUE]
<1>1. /\ Inbound(d, x, c, e) /\ UNCHANGED <<server, history>> /\ Spends /\ Ahead
      /\ b.has /\ e.up /\ e.open
  BY DEF Synced, Quietly, Spends, Ahead
<1>2. /\ DbGood(x, used, Kept) /\ BridgeGood(b, used, Kept) /\ DOMAIN b = BridgeFields
      /\ DOMAIN e = EngineFields
      /\ Pending(x, b) /\ Ready(x, b, e, deleted, ToPush)
  BY <1>1, GoodIs, HoldsNow
<1>3. /\ c.replica = b.replica /\ c.titles = b.titles /\ c.removedFolders = b.removedFolders
      /\ c.removedImages = b.removedImages /\ c.joining = b.joining /\ c.known = b.known
      /\ c.moved = b.moved /\ c.creating = b.creating /\ c.uploading = b.uploading
      /\ c.failed = b.failed /\ c.tries = b.tries /\ DOMAIN c = BridgeFields /\ c.has = b.has
  BY <1>2 DEF BridgeFields
<1>. HIDE DEF c
<1>4. BridgeGood(c, used, Kept) /\ Pending(x, c)
  BY <1>2, <1>3 DEF BridgeGood, Pending
<1>5. Ready(x, c, e, deleted, ToPush)
  <2>1. ~(x.space = "local" \/ ToPush) /\ e.knows
    BY <1>1, <1>2 DEF Ready, Alone
  <2>. QED  BY <1>1, <1>2, <1>3, <2>1 DEF Ready
<1>. QED  BY <1>1, <1>2, <1>4, <1>5, PassHolds

\* The engine knows the space from here on, and opens the index.
LEMMA KnowsLevel ==
    ASSUME NEW e, DOMAIN e = EngineFields
    PROVE  LET f == AskOpen([e EXCEPT !.knows = TRUE])
           IN  /\ f.up = e.up /\ f.knows /\ f.out = e.out /\ f.fetching = e.fetching
               /\ Busy(f) = Busy(e) /\ DOMAIN f = EngineFields
<1>. DEFINE g == [e EXCEPT !.knows = TRUE]
<1>1. /\ DOMAIN g = EngineFields /\ g.knows /\ g.up = e.up /\ g.out = e.out
      /\ g.fetching = e.fetching /\ Busy(g) = Busy(e)
  BY DEF EngineFields, Busy
<1>. HIDE DEF g
<1>2. LET f == AskOpen(g)
      IN  /\ f.up = g.up /\ f.knows = g.knows /\ f.out = g.out /\ f.fetching = g.fetching
          /\ Busy(f) = Busy(g) /\ DOMAIN f = EngineFields
  BY <1>1, OpensLevel
<1>. QED  BY <1>1, <1>2 DEF g

LEMMA MirrorIs ==
    ASSUME NEW d \in Devices, DbGood(db[d], used, Kept), BridgeGood(bridge[d], used, Kept)
    PROVE  LET m == Mirror(d)
           IN  /\ DbGood(m, used, Kept) /\ m.images = db[d].images /\ m.folders = db[d].folders
               /\ m.space = IF db[d].space = "absent" THEN "mapped" ELSE db[d].space
<1>. DEFINE x == db[d]
            m == Mirror(d)
            name == IF bridge[d].known = None THEN Placeholder ELSE bridge[d].known
<1>1. CASE x.space # "absent"
  BY <1>1 DEF Mirror
<1>2. CASE x.space = "absent"
  <2>1. name \in Titles
    BY DEF BridgeGood, Titles
  <2>. HIDE DEF name
  <2>2. m = [x EXCEPT !.space = "mapped", !.name = name]
    BY <1>2 DEF Mirror, name
  <2>3. DOMAIN x = {"space", "name", "folders", "notes", "images"}
    BY DEF DbGood, IsDb
  <2>4. /\ m.space = "mapped" /\ m.name = name /\ m.folders = x.folders /\ m.notes = x.notes
        /\ m.images = x.images /\ DOMAIN m = {"space", "name", "folders", "notes", "images"}
    BY <2>2, <2>3
  <2>. HIDE DEF m
  <2>5. DbGood(m, used, Kept)
    BY <1>2, <2>1, <2>4 DEF DbGood, IsDb
  <2>. QED  BY <1>2, <2>4, <2>5 DEF m
<1>. QED  BY <1>1, <1>2

LEMMA SpacePeekedImages ==
    ASSUME IInv, IInv', MInv, AInv, NEW d \in Devices, SpacePeeked(d)
    PROVE  AInv'
<1>. DEFINE x == db[d]
            b == bridge[d]
            e == engine[d]
            quit == [b EXCEPT !.peeking = FALSE]
            has == [quit EXCEPT !.has = TRUE]
            f == AskOpen([e EXCEPT !.knows = TRUE])
<1>1. /\ Inbound(d, x, has, f) \/ Handled(d, x, quit, e)
      /\ b.peeking /\ UNCHANGED <<server, history>> /\ Spends
  BY DEF SpacePeeked, Quietly, Spends
<1>2. /\ DOMAIN b = BridgeFields /\ DOMAIN e = EngineFields
      /\ DbGood(x, used, Kept) /\ BridgeGood(b, used, Kept)
  BY GoodIs
<1>3. /\ quit.replica = b.replica /\ quit.removedImages = b.removedImages /\ quit.has = b.has
      /\ quit.live = b.live /\ quit.joining = b.joining /\ ~quit.peeking
  BY <1>2 DEF BridgeFields
<1>4. /\ has.replica = b.replica /\ has.titles = b.titles /\ has.removedFolders = b.removedFolders
      /\ has.removedImages = b.removedImages /\ has.joining = b.joining /\ has.known = b.known
      /\ has.moved = b.moved /\ has.creating = b.creating /\ has.uploading = b.uploading
      /\ has.failed = b.failed /\ has.tries = b.tries
      /\ DOMAIN has = BridgeFields /\ has.has /\ has.live = b.live
  BY <1>2 DEF BridgeFields
<1>5. /\ f.up = e.up /\ f.knows /\ f.out = e.out /\ f.fetching = e.fetching
      /\ Busy(f) = Busy(e) /\ DOMAIN f = EngineFields
  BY <1>2, KnowsLevel
<1>. HIDE DEF quit, has, f
<1>6. BridgeGood(has, used, Kept)
  BY <1>2, <1>4 DEF BridgeGood
<1>7. /\ deleted \subseteq deleted' /\ server'.log = server.log
      /\ server'.exists = server.exists /\ ToPush' = ToPush
  BY <1>1, Apart
<1>8. CASE Inbound(d, x, has, f)
  <2>1. ASSUME Ahead PROVE Pending(x, has) /\ Ready(x, has, f, deleted, ToPush)
    <3>1. Ready(x, b, e, deleted, ToPush) /\ Pending(x, b)
      BY <2>1, HoldsNow
    <3>2. ~(x.space = "local" \/ ToPush)
      BY <1>1, <3>1 DEF Ready, Alone
    <3>. QED  BY <1>4, <1>5, <3>1, <3>2 DEF Ready, Pending
  <2>. QED  BY <1>1, <1>2, <1>5, <1>6, <1>8, <2>1, PassHolds
<1>9. CASE Handled(d, x, quit, e)
  <2>1. ASSUME Ahead PROVE Holds(x, quit, e, deleted', ToPush')
    <3>1. Holds(x, b, e, deleted, ToPush) /\ Ready(x, b, e, deleted, ToPush)
      BY <2>1, HoldsNow
    <3>2. Alone(b, e) => Alone(quit, e)
      BY <1>3 DEF Alone
    <3>3. /\ quit.live => b.live /\ quit.has /\ e.up /\ e.knows /\ e.fetching \subseteq e.fetching
          /\ e.open => e.knows
      BY <1>3, <3>1 DEF Ready
    <3>. QED  BY <1>3, <1>7, <3>1, <3>2, <3>3, QuietHolds
  <2>. QED  BY <1>7, <1>9, <2>1, HandledHolds DEF Ahead
<1>. QED  BY <1>1, <1>8, <1>9

LEMMA SpaceJoinedImages ==
    ASSUME IInv, IInv', MInv, AInv, NEW d \in Devices, SpaceJoined(d)
    PROVE  AInv'
<1>. DEFINE x == db[d]
            b == bridge[d]
            e == engine[d]
            quit == [b EXCEPT !.joining = "no", !.peeking = FALSE]
            m == Mirror(d)
            tables == IF m # x THEN {"spaces"} ELSE {}
            had == [quit EXCEPT !.has = TRUE]
            has == Moves(had, tables)
            f == AskOpen([e EXCEPT !.knows = TRUE])
            y == InboundDb(m, has)
            c == InboundBridge(m, has)
            g == InboundEngine(m, has, f)
<1>1. /\ b.joining = "asked"
      /\ \/ Joinable(e) /\ Handled(d, y, Registered(c, Mapped(y)), g)
         \/ Handled(d, x, quit, e)
      /\ UNCHANGED <<server, history>> /\ Spends
  BY DEF SpaceJoined, Quietly, Spends
<1>2. /\ DOMAIN b = BridgeFields /\ DOMAIN e = EngineFields
      /\ DbGood(x, used, Kept) /\ BridgeGood(b, used, Kept)
  BY GoodIs
<1>3. /\ quit.replica = b.replica /\ quit.removedImages = b.removedImages /\ quit.has = b.has
      /\ quit.live = b.live /\ quit.joining = "no" /\ ~quit.peeking
  BY <1>2 DEF BridgeFields
<1>4. /\ had.replica = b.replica /\ had.titles = b.titles /\ had.removedFolders = b.removedFolders
      /\ had.removedImages = b.removedImages /\ had.joining = "no" /\ had.known = b.known
      /\ had.moved = b.moved /\ had.creating = b.creating /\ had.uploading = b.uploading
      /\ had.failed = b.failed /\ had.tries = b.tries
      /\ DOMAIN had = BridgeFields /\ had.has /\ had.live = b.live
  BY <1>2 DEF BridgeFields
<1>5. /\ f.up = e.up /\ f.knows /\ f.out = e.out /\ f.fetching = e.fetching
      /\ Busy(f) = Busy(e) /\ DOMAIN f = EngineFields
  BY <1>2, KnowsLevel
<1>6. tables \subseteq {"spaces"}
  OBVIOUS
<1>7. /\ DbGood(m, used, Kept) /\ m.images = x.images /\ m.folders = x.folders
      /\ m.space = IF x.space = "absent" THEN "mapped" ELSE x.space
  BY <1>2, MirrorIs
<1>. HIDE DEF quit, had, f, tables, m
<1>8. /\ has.moved = had.moved \cup tables /\ has.replica = had.replica
      /\ has.titles = had.titles /\ has.removedFolders = had.removedFolders
      /\ has.removedImages = had.removedImages /\ has.joining = had.joining
      /\ has.known = had.known /\ has.creating = had.creating
      /\ has.uploading = had.uploading /\ has.failed = had.failed /\ has.tries = had.tries
      /\ DOMAIN has = BridgeFields /\ has.has = had.has /\ has.live = had.live
  BY <1>4 DEF BridgeFields, Moves
<1>. HIDE DEF has
<1>9. BridgeGood(has, used, Kept)
  BY <1>2, <1>4, <1>6, <1>8 DEF BridgeGood, Tables
<1>10. /\ deleted' = deleted /\ server'.log = server.log
       /\ server'.exists = server.exists /\ ToPush' = ToPush
  BY <1>1, Apart DEF history
<1>11. CASE Handled(d, y, Registered(c, Mapped(y)), g)
  <2>1. ASSUME Ahead PROVE Holds(y, c, g, deleted, ToPush)
    <3>1. Ready(x, b, e, deleted, ToPush) /\ Pending(x, b)
      BY <2>1, HoldsNow
    <3>2. ~(x.space = "local" \/ ToPush)
      BY <1>1, <3>1 DEF Ready, Alone
    <3>3. Pending(m, has)
      BY <1>4, <1>7, <1>8, <3>1 DEF Pending
    <3>4. Ready(m, has, f, deleted, ToPush)
      BY <1>4, <1>5, <1>7, <1>8, <3>1, <3>2 DEF Ready
    <3>. QED  BY <1>5, <1>7, <1>9, <3>3, <3>4, InboundHolds
  <2>2. Alike(c, Registered(c, Mapped(y)))
    <3>1. DOMAIN c = BridgeFields
      BY <1>8, LikeInbound
    <3>. HIDE DEF c, y
    <3>. QED  BY <3>1, LikeRegistered
  <2>. HIDE DEF y, c, g
  <2>3. Ahead => Holds(y, Registered(c, Mapped(y)), g, deleted', ToPush')
    BY <1>10, <2>1, <2>2, LikeSelf, LikeHolds
  <2>. QED  BY <1>10, <1>11, <2>3, HandledHolds DEF Ahead
<1>12. CASE Handled(d, x, quit, e)
  <2>1. ASSUME Ahead PROVE Holds(x, quit, e, deleted', ToPush')
    <3>1. Holds(x, b, e, deleted, ToPush) /\ Ready(x, b, e, deleted, ToPush)
      BY <2>1, HoldsNow
    <3>2. Alone(b, e) => Alone(quit, e)
      BY <1>3 DEF Alone
    <3>3. /\ quit.live => b.live /\ quit.has /\ e.up /\ e.knows /\ e.fetching \subseteq e.fetching
          /\ e.open => e.knows
      BY <1>3, <3>1 DEF Ready
    <3>. QED  BY <1>3, <1>10, <3>1, <3>2, <3>3, QuietHolds
  <2>. QED  BY <1>10, <1>12, <2>1, HandledHolds DEF Ahead
<1>. QED  BY <1>1, <1>11, <1>12

-----------------------------------------------------------------------------
(* The other events. *)

LEMMA IdleImages ==
    ASSUME IInv, IInv', MInv, AInv, NEW d \in Devices, Idle(d)
    PROVE  AInv'
<1>. DEFINE x == db[d]
            b == bridge[d]
            e == engine[d]
            f == [e EXCEPT !.idle = FALSE]
<1>1. /\ DOMAIN b = BridgeFields /\ DOMAIN e = EngineFields
      /\ DOMAIN x = {"space", "name", "folders", "notes", "images"}
  BY GoodIs
<1>2. Level(e, f) /\ Busy(f) = Busy(e)
  BY <1>1 DEF EngineFields, Level, Busy
<1>3. UNCHANGED <<server, history>> /\ Spends
  BY DEF Idle, Quietly, Spends
<1>4. \E y, c : /\ Handled(d, y, c, f) /\ Alike(b, c) /\ y.space = x.space /\ y.images = x.images
  <2>2. \A F, N : LET y == [x EXCEPT !.folders = F, !.notes = N]
                  IN  y.space = x.space /\ y.images = x.images
    BY <1>1
  <2>. HIDE DEF f
  <2>3. \/ \E F, N : Handled(d, [x EXCEPT !.folders = F, !.notes = N], b, f)
        \/ Handled(d, x, b, f)
    BY DEF Idle, f
  <2>4. CASE Handled(d, x, b, f)
    BY <2>4, LikeSelf
  <2>5. ASSUME NEW F, NEW N, Handled(d, [x EXCEPT !.folders = F, !.notes = N], b, f)
        PROVE  \E y, c : /\ Handled(d, y, c, f) /\ Alike(b, c)
                         /\ y.space = x.space /\ y.images = x.images
    <3>. DEFINE y == [x EXCEPT !.folders = F, !.notes = N]
    <3>1. Handled(d, y, b, f) /\ y.space = x.space /\ y.images = x.images
      BY <2>2, <2>5
    <3>. HIDE DEF y
    <3>. QED  BY <3>1, LikeSelf
  <2>. QED  BY <2>3, <2>4, <2>5
<1>. HIDE DEF f
<1>. QED  BY <1>2, <1>3, <1>4, Apart, LikeHandled

LEMMA OpenIndexImages ==
    ASSUME IInv, IInv', MInv, AInv, NEW d \in Devices, OpenIndex(d)
    PROVE  AInv'
<1>. DEFINE x == db[d]
            b == bridge[d]
            e == engine[d]
            g == [e EXCEPT !.opening = FALSE]
            f == IF e.knows THEN Opened(e) ELSE g
<1>1. /\ engine' = [engine EXCEPT ![d] = f] /\ UNCHANGED <<db, bridge>>
      /\ UNCHANGED <<server, history>> /\ Spends
  BY DEF OpenIndex, Quietly, Spends
<1>2. DOMAIN e = EngineFields
  BY GoodIs
<1>3. Level(e, g) /\ Busy(g) = Busy(e)
  BY <1>2 DEF EngineFields, Level, Busy
<1>4. LET h == Opened(e)
      IN  /\ h.up = e.up /\ h.knows = e.knows /\ h.out = e.out /\ h.fetching = e.fetching
          /\ Busy(h) = Busy(e)
  BY <1>2, OpensLevel
<1>5. /\ f.up = e.up /\ f.knows = e.knows /\ f.out = e.out /\ f.fetching = e.fetching
      /\ Busy(f) = Busy(e) /\ (f.open => e.open \/ f.knows)
  <2>. HIDE DEF g
  <2>1. CASE e.knows
    BY <1>4, <2>1
  <2>2. CASE ~e.knows
    BY <1>3, <2>2 DEF Level
  <2>. QED  BY <2>1, <2>2
<1>6. Sets(d, x, b, f)
  <2>. HIDE DEF f
  <2>. QED  BY <1>1, EngineSets
<1>7. /\ deleted \subseteq deleted' /\ server'.log = server.log
      /\ server'.exists = server.exists /\ ToPush' = ToPush
  BY <1>1, Apart
<1>. HIDE DEF f
<1>8. ASSUME Ahead PROVE Holds(x, b, f, deleted', ToPush')
  <2>1. Holds(x, b, e, deleted, ToPush) /\ Ready(x, b, e, deleted, ToPush)
    BY <1>8, HoldsNow
  <2>2. Alone(b, e) => Alone(b, f)
    BY <1>5 DEF Alone
  <2>3. /\ b.live => b.live /\ b.has /\ f.up /\ f.knows /\ e.fetching \subseteq f.fetching
        /\ f.open => f.knows
    BY <1>5, <2>1 DEF Ready
  <2>. QED  BY <1>5, <1>7, <2>1, <2>2, <2>3, QuietHolds
<1>. QED  BY <1>6, <1>7, <1>8, OneHolds DEF Ahead

LEMMA MakeDocImages ==
    ASSUME IInv, IInv', MInv, AInv, NEW d \in Devices, NEW n \in DOMAIN bridge[d].creating, MakeDoc(d, n)
    PROVE  AInv'
<1>. DEFINE b == bridge[d]
            made == IF engine[d].knows /\ engine[d].up THEN "made" ELSE "failed"
            c == [b EXCEPT !.creating = [b.creating EXCEPT ![n] = made]]
<1>1. /\ bridge' = [bridge EXCEPT ![d] = c]
      /\ UNCHANGED <<db, engine>> /\ UNCHANGED <<server, history>> /\ Spends
  BY DEF MakeDoc, Quietly, Spends
<1>2. DOMAIN b = BridgeFields
  BY GoodIs
<1>. HIDE DEF made
<1>3. Alike(b, c)
  BY <1>2 DEF BridgeFields, Alike
<1>. HIDE DEF c
<1>4. Sets(d, db[d], c, engine[d])
  BY <1>1 DEF Sets, IInv
<1>. QED  BY <1>1, <1>3, <1>4, Apart, LikeSelf, LikeSets

LEMMA DocCreatedImages ==
    ASSUME IInv, IInv', MInv, AInv, NEW d \in Devices, NEW n \in DOMAIN bridge[d].creating,
           DocCreated(d, n)
    PROVE  AInv'
<1>. DEFINE x == db[d]
            b == bridge[d]
            c == [b EXCEPT !.creating = Without(@, {n})]
            g == Registered(c, {n})
            y == IF n \in DOMAIN x.notes THEN [x EXCEPT !.notes[n].mapped = TRUE] ELSE x
<1>1. /\ Handled(d, x, c, engine[d]) \/ Handled(d, y, g, engine[d])
      /\ UNCHANGED <<server, history>> /\ Spends
  BY DEF DocCreated, Quietly, Spends
<1>2. /\ DOMAIN b = BridgeFields
      /\ DOMAIN x = {"space", "name", "folders", "notes", "images"}
  BY GoodIs
<1>3. Alike(b, c) /\ DOMAIN c = BridgeFields
  BY <1>2 DEF BridgeFields, Alike
<1>4. y.space = x.space /\ y.images = x.images
  BY <1>2
<1>. HIDE DEF c, y
<1>5. Alike(b, g)
  BY <1>3, LikeRegistered, LikeTrans
<1>. HIDE DEF g
<1>. QED  BY <1>1, <1>3, <1>4, <1>5, LikeSelf, Apart, LikeHandled

LEMMA StoreImageImages ==
    ASSUME IInv, IInv', MInv, AInv, NEW d \in Devices, NEW i \in ImageIds, StoreImage(d, i)
    PROVE  AInv'
<1>. DEFINE e0 == engine[d]
            e == [e0 EXCEPT !.wire = [e0.wire EXCEPT ![i] = @ - 1], !.waiting = @ \ {i}]
            g == Results(e, {i}, "stored")
            f == IF i \in e0.waiting THEN g ELSE e
<1>1. /\ engine' = [engine EXCEPT ![d] = f] /\ UNCHANGED <<db, bridge, start, clients>>
      /\ UNCHANGED history
      /\ server' = [server EXCEPT !.stored = @ \cup {i}] /\ Spends
  BY DEF StoreImage, Quietly, Spends
<1>2. /\ DOMAIN e0 = EngineFields /\ DOMAIN server = {"exists", "refuses", "log", "stored"}
      /\ Runs(e0)
  BY GoodIs, RunsIs DEF IInv, ServerGood
<1>3. Level(e0, e) /\ Runs(e) /\ Busy(e) \subseteq Busy(e0)
  <2>1. /\ DOMAIN e = EngineFields /\ Level(e0, e)
        /\ e.waiting = e0.waiting \ {i} /\ e.results = e0.results
    BY <1>2 DEF EngineFields, Level
  <2>. HIDE DEF e
  <2>. QED  BY <1>2, <2>1 DEF Runs, Busy
<1>. HIDE DEF e
<1>4. Level(e, g) /\ Busy(g) \subseteq Busy(e) \cup {i}
  <2>1. {i} \in SUBSET ImageIds
    OBVIOUS
  <2>. QED  BY <1>3, <2>1, ResultsBusy
<1>5. Level(e0, g)
  BY <1>3, <1>4, LevelTrans
<1>. HIDE DEF g
<1>6. Level(e0, f) /\ Busy(f) \subseteq Busy(e0)
  <2>1. i \in e0.waiting => i \in Busy(e0)
    BY DEF Busy
  <2>. QED  BY <1>3, <1>4, <1>5, <2>1
<1>. HIDE DEF f
<1>7. server'.log = server.log /\ server'.exists = server.exists
  BY <1>1, <1>2
<1>8. Sets(d, db[d], bridge[d], f)
  BY <1>1, EngineSets
<1>9. ToPush' = ToPush /\ deleted \subseteq deleted'
  BY <1>1, PushStays DEF history
<1>. QED  BY <1>6, <1>7, <1>8, <1>9, LikeSelf, LikeSets

LEMMA BlobUploadedImages ==
    ASSUME IInv, IInv', MInv, AInv, NEW d \in Devices, BlobUploaded(d)
    PROVE  AInv'
<1>. DEFINE x == db[d]
            b == bridge[d]
            e == engine[d]
            i == Head(e.results)[1]
            result == Head(e.results)[2]
            f == [e EXCEPT !.results = Tail(@)]
            quit == [b EXCEPT !.uploading = @ \ {i}]
            again == [quit EXCEPT !.tries[i] = @ + 1]
            failed == [quit EXCEPT !.failed = @ \cup {i}, !.tries[i] = 0]
            flagged == i \in DOMAIN x.images /\ x.images[i].push
            y == IF flagged THEN [x EXCEPT !.images[i].push = FALSE] ELSE x
            tables == IF flagged THEN {"images"} ELSE {}
            stored == [quit EXCEPT !.failed = @ \ {i}, !.tries[i] = 0]
            c == Moves(stored, tables)
<1>1. UNCHANGED <<server, history>> /\ Spends /\ e.results # << >>
  BY DEF BlobUploaded, Quietly, Spends
<1>2. \/ Handled(d, y, c, f)
      \/ Handled(d, x, failed, f)
      \/ Handled(d, x, again, f)
  BY DEF BlobUploaded
<1>3. /\ DOMAIN b = BridgeFields /\ DOMAIN e = EngineFields /\ Runs(e) /\ IsDb(x)
      /\ DOMAIN x = {"space", "name", "folders", "notes", "images"}
  BY GoodIs, RunsIs DEF DbGood
<1>4. Level(e, f) /\ Busy(f) \subseteq Busy(e) /\ i \in Busy(e)
  <2>1. f.results = Tail(e.results) /\ f.waiting = e.waiting /\ Level(e, f)
    BY <1>3 DEF EngineFields, Level
  <2>2. e.results \in Seq(Answers) /\ e.results # << >>
    BY <1>1, <1>3 DEF Runs
  <2>3. Head(e.results) = e.results[1] /\ 1 \in DOMAIN e.results
    BY <2>2
  <2>4. \A j \in DOMAIN Tail(e.results) : Tail(e.results)[j] = e.results[j + 1]
                                          /\ j + 1 \in DOMAIN e.results
    BY <2>2
  <2>. HIDE DEF f
  <2>. QED  BY <2>1, <2>3, <2>4 DEF Busy
<1>. HIDE DEF i, result, f
<1>5. y.space = x.space /\ DOMAIN y.images = DOMAIN x.images
      /\ \A j \in DOMAIN x.images : /\ y.images[j].bytes = x.images[j].bytes
                                    /\ j # i => y.images[j].push = x.images[j].push
  <2>1. CASE ~flagged
    BY <2>1
  <2>2. CASE flagged
    <3>. DEFINE row == [x.images[i] EXCEPT !.push = FALSE]
    <3>1. y = [x EXCEPT !.images = [x.images EXCEPT ![i] = row]]
      BY <2>2
    <3>2. row.bytes = x.images[i].bytes
      <4>1. x.images[i] \in Image
        BY <1>3, <2>2, RowsAre
      <4>. QED  BY <4>1 DEF Image
    <3>. HIDE DEF y, row
    <3>. QED  BY <1>3, <2>2, <3>1, <3>2
  <2>. QED  BY <2>1, <2>2
<1>. HIDE DEF y, tables
<1>6. Alike(b, quit) /\ DOMAIN quit = BridgeFields
  BY <1>3 DEF BridgeFields, Alike
<1>. HIDE DEF quit
<1>7. /\ Alike(quit, again) /\ Alike(quit, failed)
      /\ Alike(quit, stored) /\ DOMAIN stored = BridgeFields
  BY <1>6 DEF BridgeFields, Alike
<1>. HIDE DEF again, failed, stored
<1>8. Alike(b, again) /\ Alike(b, failed) /\ Alike(b, c)
  <2>1. Alike(stored, c)
    BY <1>7, LikeMoves
  <2>. HIDE DEF c
  <2>. QED  BY <1>6, <1>7, <2>1, LikeTrans
<1>. HIDE DEF c
<1>9. /\ deleted' = deleted /\ server'.log = server.log
      /\ server'.exists = server.exists /\ ToPush' = ToPush
  BY <1>1, Apart DEF history
<1>10. CASE Handled(d, x, failed, f) \/ Handled(d, x, again, f)
  BY <1>4, <1>8, <1>9, <1>10, LikeHandled
<1>11. CASE Handled(d, y, c, f)
  <2>1. ASSUME Ahead PROVE Holds(y, c, f, deleted, ToPush)
    <3>1. Holds(x, b, e, deleted, ToPush) /\ Ready(x, b, e, deleted, ToPush)
      BY <2>1, HoldsNow
    <3>. HIDE DEF x, b, e, flagged
    <3>2. ~(x.space = "local" \/ ToPush)
      BY <1>4, <3>1 DEF Ready, Alone
    <3>3. \A j \in (DOMAIN y.images \cap Busy(f)) \ deleted : y.images[j].bytes \/ Lists(c.replica, j)
      BY <1>4, <1>5, <1>8, <3>1 DEF Ready, Alike
    <3>4. Ready(y, c, f, deleted, ToPush)
      BY <1>4, <1>5, <1>8, <3>1, <3>2, <3>3 DEF Ready, Alike, Level
    <3>5. ASSUME c.live, y.space = "mapped", NEW j \in ImageIds \ deleted
          PROVE  Shows(y, c, f, j)
      <4>1. Shows(x, b, e, j)
        BY <1>5, <1>8, <3>1, <3>5 DEF Holds, Alike
      <4>2. CASE j # i
        BY <1>4, <1>5, <1>8, <4>1, <4>2 DEF Shows, Alike, Level
      <4>3. CASE j = i
        <5>1. j \in DOMAIN x.images => x.images[j].bytes \/ Lists(b.replica, j)
          BY <1>4, <3>1, <3>5, <4>3 DEF Ready
        <5>. QED  BY <1>4, <1>5, <1>8, <4>1, <5>1 DEF Shows, Alike, Level
      <4>. QED  BY <4>2, <4>3
    <3>. QED  BY <3>4, <3>5 DEF Holds
  <2>. QED  BY <1>9, <1>11, <2>1, HandledHolds DEF Ahead
<1>. QED  BY <1>2, <1>10, <1>11

LEMMA BlobFetchedImages ==
    ASSUME IInv, IInv', MInv, AInv, NEW d \in Devices, NEW i \in ImageIds, BlobFetched(d, i)
    PROVE  AInv'
<1>. DEFINE x == db[d]
            b == bridge[d]
            e == engine[d]
            f == [e EXCEPT !.fetching = @ \ {i}]
            got == i \in server.stored /\ i \in DOMAIN x.images
            y == IF got THEN [x EXCEPT !.images[i].bytes = TRUE] ELSE x
            c == IF got THEN Moves(b, {"images"}) ELSE b
            D == deleted
<1>1. UNCHANGED <<server, history>> /\ Spends /\ Handled(d, y, c, f)
  BY DEF BlobFetched, Quietly, Spends
<1>2. /\ DOMAIN b = BridgeFields /\ DOMAIN e = EngineFields /\ IsDb(x) /\ BridgeGood(b, used, Kept)
      /\ DOMAIN x = {"space", "name", "folders", "notes", "images"}
  BY GoodIs DEF DbGood
<1>3. /\ f.up = e.up /\ f.knows = e.knows /\ f.open = e.open /\ f.out = e.out
      /\ f.fetching = e.fetching \ {i} /\ Busy(f) = Busy(e)
  BY <1>2 DEF EngineFields, Busy
<1>4. Alike(b, c)
  BY <1>2, LikeMoves, LikeSelf
<1>5. /\ y.space = x.space /\ DOMAIN y.images = DOMAIN x.images
      /\ \A j \in DOMAIN x.images : /\ x.images[j].bytes => y.images[j].bytes
                                    /\ y.images[j].push = x.images[j].push
      /\ got => y.images[i].bytes
  <2>1. CASE ~got
    BY <2>1
  <2>2. CASE got
    <3>. DEFINE row == [x.images[i] EXCEPT !.bytes = TRUE]
    <3>1. y = [x EXCEPT !.images = [x.images EXCEPT ![i] = row]]
      BY <2>2
    <3>2. row.bytes /\ row.push = x.images[i].push
      <4>1. x.images[i] \in Image
        BY <1>2, <2>2, RowsAre
      <4>. QED  BY <4>1 DEF Image
    <3>. HIDE DEF y, row
    <3>. QED  BY <1>2, <2>2, <3>1, <3>2
  <2>. QED  BY <2>1, <2>2
<1>6. /\ deleted' = deleted /\ server'.log = server.log
      /\ server'.exists = server.exists /\ ToPush' = ToPush
  BY <1>1, Apart DEF history
<1>. HIDE DEF y, c, f
<1>7. ASSUME Ahead PROVE Holds(y, c, f, D, ToPush)
  <2>1. Holds(x, b, e, D, ToPush) /\ Ready(x, b, e, D, ToPush)
    BY <1>7, HoldsNow
  <2>2. Lists(b.replica, i) => i \in server.stored \cup D
    <3>1. Kept = server.stored \cup D
      BY <1>7 DEF Kept, Ahead
    <3>. QED  BY <1>2, <3>1, KeysAre DEF BridgeGood, DocGood, UpdateGood, ListsKept, Lists
  <2>. HIDE DEF x, b, e, D
  <2>3. Alone(b, e) => Alone(c, f)
    BY <1>3, <1>4 DEF Alone, Alike
  <2>4. \A j \in (DOMAIN y.images \cap Busy(f)) \ D : y.images[j].bytes \/ Lists(c.replica, j)
    BY <1>3, <1>4, <1>5, <2>1 DEF Ready, Alike
  <2>5. Ready(y, c, f, D, ToPush)
    BY <1>3, <1>4, <1>5, <2>1, <2>3, <2>4 DEF Ready, Alike
  <2>6. ASSUME c.live, y.space = "mapped", NEW j \in ImageIds \ D
        PROVE  Shows(y, c, f, j)
    <3>1. Shows(x, b, e, j)
      BY <1>4, <1>5, <2>1, <2>6 DEF Holds, Alike
    <3>2. CASE j # i
      BY <1>3, <1>4, <1>5, <3>1, <3>2 DEF Shows, Alike
    <3>3. CASE j = i
      BY <1>3, <1>4, <1>5, <2>2, <2>6, <3>1, <3>3 DEF Shows, Alike
    <3>. QED  BY <3>2, <3>3
  <2>. QED  BY <2>5, <2>6 DEF Holds
<1>. QED  BY <1>1, <1>6, <1>7, HandledHolds DEF Ahead

-----------------------------------------------------------------------------
(* The end of the space. *)

LEMMA NothingShown ==
    ASSUME ~Ahead', server'.log = << >>
    PROVE  AInv'
BY DEF AInv

LEMMA GoneImages ==
    ASSUME IInv, MInv, AInv, NEW d \in Devices,
           \/ Refuse(d) \/ SpaceRejected(d) \/ SpaceDeleted(d) \/ DestroySpace(d)
    PROVE  AInv'
<1>1. ASSUME ~Ahead, UNCHANGED <<server, history>>, Spends PROVE AInv'
  <2>1. ~Ahead'
    BY <1>1, PushStays DEF Ahead
  <2>2. server'.log = << >>
    BY <1>1 DEF AInv, Ahead
  <2>. QED  BY <2>1, <2>2, NothingShown
<1>2. CASE Refuse(d)
  <2>1. server.refuses /\ engine[d].knows /\ UNCHANGED <<server, history>> /\ Spends
    BY <1>2 DEF Refuse, Quietly, Spends
  <2>2. ~Ahead
    BY <2>1 DEF Ahead, IInv, ServerGood, MInv
  <2>. QED  BY <1>1, <2>1, <2>2
<1>3. CASE SpaceRejected(d)
  <2>1. engine[d].refusal /\ UNCHANGED <<server, history>> /\ Spends
    BY <1>3 DEF SpaceRejected, Quietly, Spends
  <2>. QED  BY <1>1, <2>1 DEF MInv
<1>4. CASE SpaceDeleted(d)
  <2>1. engine[d].destroyed /\ UNCHANGED <<server, history>> /\ Spends
    BY <1>4 DEF SpaceDeleted, Quietly, Spends
  <2>. QED  BY <1>1, <2>1 DEF MInv
<1>5. CASE DestroySpace(d)
  <2>1. /\ server.exists /\ UNCHANGED history /\ Spends
        /\ server' = [server EXCEPT !.exists = FALSE, !.log = << >>, !.stored = {}]
    BY <1>5 DEF DestroySpace, Acts, Spends
  <2>2. ~server'.exists /\ server'.log = << >>
    BY <2>1 DEF IInv, ServerGood
  <2>3. ~ToPush'
    BY <2>1, PushStays DEF IInv, ServerGood
  <2>. QED  BY <2>2, <2>3, NothingShown DEF Ahead
<1>. QED  BY <1>2, <1>3, <1>4, <1>5

-----------------------------------------------------------------------------
(* Writing into the index. *)

LEMMA QueuedLevel ==
    ASSUME NEW e, Runs(e), NEW u
    PROVE  LET f == Queued(e, u)
           IN  /\ f.up = e.up /\ f.knows = e.knows /\ f.open = e.open /\ f.fetching = e.fetching
               /\ Busy(f) = Busy(e) /\ Runs(f)
               /\ f.out = e.out \/ f.out = Apply(e.out, u)
<1>. DEFINE out == Apply(e.out, u)
            f == Queued(e, u)
            g == [e EXCEPT !.out = out]
            h == [e EXCEPT !.lost = TRUE]
<1>1. f = e \/ f = g \/ f = h
  BY DEF Queued
<1>2. DOMAIN e = EngineFields
  BY DEF Runs
<1>. HIDE DEF f, out
<1>3. /\ DOMAIN g = EngineFields /\ g.up = e.up /\ g.knows = e.knows /\ g.open = e.open
      /\ g.fetching = e.fetching /\ g.waiting = e.waiting /\ g.results = e.results /\ g.out = out
  BY <1>2 DEF EngineFields
<1>4. /\ DOMAIN h = EngineFields /\ h.up = e.up /\ h.knows = e.knows /\ h.open = e.open
      /\ h.fetching = e.fetching /\ h.waiting = e.waiting /\ h.results = e.results /\ h.out = e.out
  BY <1>2 DEF EngineFields
<1>. HIDE DEF g, h
<1>5. /\ f.up = e.up /\ f.knows = e.knows /\ f.open = e.open
      /\ f.fetching = e.fetching /\ f.waiting = e.waiting /\ f.results = e.results
      /\ DOMAIN f = EngineFields /\ (f.out = e.out \/ f.out = out)
  BY <1>1, <1>2, <1>3, <1>4
<1>6. Busy(f) = Busy(e) /\ Runs(f)
  BY <1>5 DEF Busy, Runs
<1>. QED  BY <1>5, <1>6 DEF f, out

LEMMA PassedIs ==
    ASSUME NEW b, DOMAIN b = BridgeFields, NEW x, NEW u
    PROVE  LET c == [Passed(x, b, u) EXCEPT !.due = FALSE]
           IN  /\ c.replica = Apply(b.replica, u) /\ c.has = b.has /\ c.live = b.live
               /\ c.joining = b.joining /\ c.peeking = b.peeking
               /\ c.removedImages \subseteq b.removedImages
<1>. DEFINE asked == IF x.space = "mapped" THEN Creating(x, b) ELSE b
            p == Passed(x, b, u)
            c == [p EXCEPT !.due = FALSE]
<1>1. Alike(b, asked) /\ DOMAIN asked = BridgeFields
  BY LikeCreating, LikeSelf
<1>2. p = [asked EXCEPT
              !.replica = Apply(@, u), !.moved = {}, !.dirty = FALSE,
              !.titles = WrittenTitles(x, @),
              !.removedFolders = IF Gate(b, "folders") THEN {} ELSE @,
              !.removedImages = IF Gate(b, "images") THEN {} ELSE @,
              !.uploading = @ \cup Reship(x, b)]
  BY DEF Passed
<1>. HIDE DEF asked, p
<1>3. /\ p.replica = Apply(b.replica, u) /\ DOMAIN p = BridgeFields /\ p.has = b.has
      /\ p.live = b.live /\ p.joining = b.joining /\ p.peeking = b.peeking
      /\ p.removedImages \subseteq b.removedImages
  BY <1>1, <1>2 DEF BridgeFields, Alike
<1>4. /\ c.replica = p.replica /\ c.has = p.has /\ c.live = p.live /\ c.joining = p.joining
      /\ c.peeking = p.peeking /\ c.removedImages = p.removedImages
  BY <1>3 DEF BridgeFields
<1>. HIDE DEF c
<1>5. /\ c.replica = Apply(b.replica, u) /\ c.has = b.has /\ c.live = b.live
      /\ c.joining = b.joining /\ c.peeking = b.peeking /\ c.removedImages \subseteq b.removedImages
  BY <1>3, <1>4
<1>. QED  BY <1>5 DEF c, p

\* A pass writes of the images only when the replica is live, and unlists only
\* those whose removal waits.
LEMMA WantsImages ==
    ASSUME NEW x, IsDb(x), NEW b, NEW U, NEW K, BridgeGood(b, U, K),
           NEW i \in ImageIds, ImageKey(i) \in DOMAIN Wanted(x, b)
    PROVE  /\ b.live /\ x.space = "mapped"
           /\ Wanted(x, b)[ImageKey(i)] = None => i \in b.removedImages
<1>. DEFINE gate(table) == x.space = "mapped" /\ Gate(b, table)
            part(on, want) == IF on THEN want ELSE Nothing
            T == TitleWants(x, b.titles)
            N == part(gate("spaces") /\ MayName(b), NameWants(x))
            F == part(gate("folders"), FolderWants(x, DOMAIN b.titles, b.removedFolders))
            I == part(gate("images"), ImageWants(x, b.removedImages))
            w == Over(Over(T, N), Over(F, I))
            k == ImageKey(i)
            stored == {j \in DOMAIN x.images : ~x.images[j].push}
<1>1. Wanted(x, b) = w
  BY DEF Wanted
<1>2. DOMAIN b.titles \in SUBSET NoteIds /\ b.removedFolders \in SUBSET FolderIds
  BY DEF BridgeGood, IsTable
<1>3. IsWant(Nothing) /\ DOMAIN Nothing = {}
  BY NothingIs DEF IsWant
<1>4. \A key \in DOMAIN T : key[1] = "note"
  BY TitleWantsAre
<1>5. DOMAIN N \subseteq {NameKey}
  BY <1>3, NameWantsAre
<1>6. \A key \in DOMAIN F : key[1] \in {"folder", "parent", "assign"}
  BY <1>2, <1>3, FolderWantsAre
<1>7. k \in DOMAIN I => /\ b.live /\ x.space = "mapped"
                        /\ I[k] = IF i \in stored THEN x.images[i].name ELSE None
                        /\ i \in b.removedImages \cup stored
  <2>1. CASE ~gate("images")
    BY <1>3, <2>1
  <2>2. CASE gate("images")
    <3>. DEFINE W == ImageWants(x, b.removedImages)
    <3>1. DOMAIN W = {ImageKey(j) : j \in b.removedImages \cup stored}
      BY DEF ImageWants
    <3>2. \A key \in DOMAIN W : W[key] = IF key[2] \in stored THEN x.images[key[2]].name ELSE None
      BY DEF ImageWants
    <3>3. k[2] = i /\ \A j : k = ImageKey(j) => j = i
      BY DEF ImageKey
    <3>4. b.live /\ x.space = "mapped" /\ I = W
      BY <2>2 DEF Gate
    <3>. HIDE DEF W, I, stored, k
    <3>5. k \in DOMAIN W => /\ W[k] = IF i \in stored THEN x.images[i].name ELSE None
                            /\ i \in b.removedImages \cup stored
      BY <3>1, <3>2, <3>3
    <3>. QED  BY <3>4, <3>5
  <2>. QED  BY <2>1, <2>2
<1>8. k[1] = "image" /\ k # NameKey
  BY KeysAre
<1>9. \A j \in DOMAIN x.images : x.images[j].name \in Names
  BY RowsAre DEF Image
<1>. HIDE DEF T, N, F, I, k, stored
<1>10. /\ DOMAIN w = DOMAIN T \cup DOMAIN N \cup DOMAIN F \cup DOMAIN I
       /\ \A key \in DOMAIN I : w[key] = I[key]
  BY DEF Over
<1>. HIDE DEF w
<1>11. k \in DOMAIN w
  BY <1>1 DEF k
<1>12. k \in DOMAIN I /\ w[k] = I[k]
  BY <1>4, <1>5, <1>6, <1>8, <1>10, <1>11
<1>13. b.live /\ x.space = "mapped" /\ (w[k] = None => i \in b.removedImages)
  BY <1>7, <1>9, <1>12, NamesAssumption DEF stored
<1>. QED  BY <1>1, <1>13 DEF k

\* What the index lists after a pass, and the items that it wrote.
LEMMA WrittenLists ==
    ASSUME NEW x, IsDb(x), NEW b, NEW U, NEW K, BridgeGood(b, U, K), IsDoc(b.replica),
           NEW e, e.client \in Nat, NEW D, Sane(b.replica, D), b.removedImages \subseteq D
    PROVE  LET u == Written(x, b, e)
               doc == Apply(b.replica, u)
           IN  /\ Sane(u, D) /\ Sane(doc, D)
               /\ \A i \in ImageIds : Lists(doc, i) =>
                     \/ Lists(b.replica, i)
                     \/ b.live /\ x.space = "mapped" /\ i \in DOMAIN x.images /\ ~x.images[i].push
               /\ \A i \in ImageIds \ D : Lists(b.replica, i) => Lists(doc, i)
<1>. DEFINE w == Wanted(x, b)
            v == Update(b.replica, w, e.client)
            u == Written(x, b, e)
            doc == Apply(b.replica, u)
<1>1. CASE ~b.has
  <2>1. u = Nothing
    BY <1>1 DEF Written
  <2>. HIDE DEF u
  <2>2. doc = b.replica
    BY <2>1, NothingApplied
  <2>. HIDE DEF doc
  <2>3. Sane(u, D)
    BY <2>1, SaneNothing
  <2>. QED  BY <2>2, <2>3 DEF doc, u
<1>2. CASE b.has
  <2>1. u = v
    BY <1>2 DEF Written
  <2>2. /\ IsWant(w)
        /\ \A i \in ImageIds : ImageKey(i) \in DOMAIN w /\ w[ImageKey(i)] # None
                                  => i \in DOMAIN x.images /\ ~x.images[i].push
    BY WantedIs
  <2>3. \A i \in ImageIds : ImageKey(i) \in DOMAIN w =>
            /\ b.live /\ x.space = "mapped"
            /\ w[ImageKey(i)] = None => i \in b.removedImages
    BY WantsImages
  <2>. HIDE DEF w
  <2>4. /\ Sane(v, D) /\ Sane(Apply(b.replica, v), D)
        /\ \A i \in ImageIds : Lists(Apply(b.replica, v), i)
             => Lists(b.replica, i) \/ (ImageKey(i) \in DOMAIN w /\ w[ImageKey(i)] # None)
    <3>1. \A i \in ImageIds : ImageKey(i) \in DOMAIN w /\ w[ImageKey(i)] = None => i \in D
      BY <2>3
    <3>. QED  BY <2>2, <3>1, SaneWritten
  <2>5. IsUpdate(v)
    BY <2>2, WroteIs
  <2>. HIDE DEF v, u
  <2>6. \A i \in ImageIds \ D : Lists(b.replica, i) => Lists(Apply(b.replica, v), i)
    BY <2>4, <2>5, ListsOn
  <2>. QED  BY <2>1, <2>2, <2>3, <2>4, <2>6 DEF u
<1>. QED  BY <1>1, <1>2

LEMMA ReconcileImages ==
    ASSUME IInv, IInv', MInv, AInv, NEW d \in Devices, Reconcile(d)
    PROVE  AInv'
<1>. DEFINE x == db[d]
            b == bridge[d]
            e == engine[d]
            D == deleted
            u == Written(x, b, e)
            B == Reship(x, b)
            c == [Passed(x, b, u) EXCEPT !.due = FALSE]
            q == Queued(e, u)
            f == Put(q, B)
            doc == Apply(b.replica, u)
<1>1. Changes(d, x, c, f) /\ UNCHANGED <<server, history>> /\ Spends
  BY DEF Reconcile, Spends
<1>2. /\ DOMAIN b = BridgeFields /\ DOMAIN e = EngineFields /\ Runs(e) /\ e.client \in Nat
      /\ BridgeGood(b, used, Kept) /\ IsDb(x) /\ IsDoc(b.replica)
  BY GoodIs, RunsIs, ClientsAssumption DEF DbGood, EngineGood, MInv
<1>3. \A i \in B : x.space = "mapped" /\ i \in DOMAIN x.images /\ x.images[i].bytes
  BY DEF Reship
<1>4. B \in SUBSET ImageIds
  BY <1>2, <1>3, RowsAre
<1>. HIDE DEF u, B
<1>5. /\ c.replica = doc /\ c.has = b.has /\ c.live = b.live
      /\ c.joining = b.joining /\ c.peeking = b.peeking /\ c.removedImages \subseteq b.removedImages
  BY <1>2, PassedIs
<1>6. /\ q.up = e.up /\ q.knows = e.knows /\ q.open = e.open /\ q.fetching = e.fetching
      /\ Busy(q) = Busy(e) /\ Runs(q)
      /\ q.out = e.out \/ q.out = Apply(e.out, u)
  BY <1>2, QueuedLevel
<1>. HIDE DEF q
<1>7. Level(q, f) /\ Busy(f) \subseteq Busy(e) \cup B
  BY <1>4, <1>6, PutBusy
<1>. HIDE DEF c, f
<1>8. Sets(d, x, c, f)
  BY <1>1, ChangesIs
<1>9. /\ deleted' = deleted /\ server'.log = server.log
      /\ server'.exists = server.exists /\ ToPush' = ToPush
  BY <1>1, Apart DEF history
<1>10. ASSUME Ahead PROVE Holds(x, c, f, D, ToPush)
  <2>1. Holds(x, b, e, D, ToPush) /\ Ready(x, b, e, D, ToPush) /\ Unpushed(x, b, ToPush)
    BY <1>10, HoldsNow
  <2>2. Sane(b.replica, D) /\ b.removedImages \subseteq D
    BY <2>1 DEF Ready
  <2>3. /\ Sane(u, D) /\ Sane(doc, D)
        /\ \A i \in ImageIds : Lists(doc, i) =>
              \/ Lists(b.replica, i)
              \/ b.live /\ x.space = "mapped" /\ i \in DOMAIN x.images /\ ~x.images[i].push
        /\ \A i \in ImageIds \ D : Lists(b.replica, i) => Lists(doc, i)
    BY <1>2, <2>2, WrittenLists DEF u
  <2>. HIDE DEF x, b, e, D, doc
  <2>4. Sane(f.out, D)
    <3>1. Sane(e.out, D)
      BY <2>1 DEF Ready
    <3>2. Sane(q.out, D)
      BY <1>6, <2>3, <3>1, SaneApplied
    <3>. QED  BY <1>7, <3>2 DEF Level
  <2>5. \A i \in (DOMAIN x.images \cap Busy(f)) \ D : x.images[i].bytes \/ Lists(c.replica, i)
    <3>1. DOMAIN x.images \subseteq ImageIds
      BY <1>2, RowsAre
    <3>. QED  BY <1>3, <1>5, <1>7, <2>1, <2>3, <3>1 DEF Ready
  <2>6. x.space = "local" \/ ToPush => Alone(c, f)
    <3>1. ASSUME x.space = "local" \/ ToPush PROVE Alone(c, f)
      <4>1. x.space # "mapped" /\ Alone(b, e)
        BY <2>1, <3>1 DEF Ready, Unpushed
      <4>2. B = {}
        BY <1>3, <4>1
      <4>. QED  BY <1>5, <1>7, <4>1, <4>2 DEF Alone
    <3>. QED  BY <3>1
  <2>7. Ready(x, c, f, D, ToPush)
    BY <1>5, <1>6, <1>7, <2>1, <2>3, <2>4, <2>5, <2>6 DEF Ready, Level
  <2>8. ASSUME c.live, x.space = "mapped", NEW i \in ImageIds \ D
        PROVE  Shows(x, c, f, i)
    <3>1. Shows(x, b, e, i)
      BY <1>5, <2>1, <2>8 DEF Holds
    <3>2. f.fetching = e.fetching
      BY <1>6, <1>7 DEF Level
    <3>3. CASE Lists(b.replica, i)
      BY <1>5, <2>3, <3>1, <3>2, <3>3 DEF Shows
    <3>4. CASE ~Lists(b.replica, i)
      BY <1>5, <2>3, <3>1, <3>2, <3>4 DEF Shows
    <3>. QED  BY <3>3, <3>4
  <2>. QED  BY <2>7, <2>8 DEF Holds
<1>. QED  BY <1>8, <1>9, <1>10, OneHolds DEF Ahead

LEMMA SpacePushedImages ==
    ASSUME IInv, IInv', MInv, AInv, NEW d \in Devices, SpacePushed(d)
    PROVE  AInv'
<1>. DEFINE x == db[d]
            b == bridge[d]
            e == engine[d]
            D == deleted
            y == [x EXCEPT !.space = "mapped"]
            w == NameWants(y)
            quit == [b EXCEPT !.pushing = FALSE]
            u == Update(quit.replica, w, e.client)
            doc == Apply(b.replica, u)
            bound == [quit EXCEPT !.has = TRUE, !.author = TRUE, !.replica = Apply(@, u)]
            asked == Creating(y, bound)
            c == Moves(asked, {"spaces"})
            f == Queued(e, u)
<1>1. /\ Handled(d, y, c, f) \/ Handled(d, x, quit, e)
      /\ UNCHANGED <<server, history>> /\ Spends /\ b.pushing
  BY DEF SpacePushed, Quietly, Spends
<1>2. /\ DOMAIN b = BridgeFields /\ DOMAIN e = EngineFields /\ IsDb(x) /\ Runs(e)
      /\ DOMAIN x = {"space", "name", "folders", "notes", "images"}
      /\ IsDoc(b.replica) /\ e.client \in Nat
      /\ Named(x, b) /\ Unpushed(x, b, ToPush)
  BY GoodIs, RunsIs, ClientsAssumption DEF DbGood, EngineGood, MInv, Fits, Device
<1>3. IsDb(y) /\ y.space = "mapped" /\ y.images = x.images
  BY <1>2, SetSpace
<1>4. IsWant(w) /\ \A i \in ImageIds : ImageKey(i) \notin DOMAIN w
  <2>. HIDE DEF y
  <2>1. IsWant(w) /\ DOMAIN w = {NameKey}
    BY <1>3, NameWantsAre
  <2>2. \A i \in ImageIds : ImageKey(i) # NameKey
    BY KeysAre
  <2>. QED  BY <2>1, <2>2
<1>5. Alike(b, quit) /\ DOMAIN quit = BridgeFields
  BY <1>2 DEF BridgeFields, Alike
<1>. HIDE DEF quit, y, w
<1>6. /\ deleted' = deleted /\ server'.log = server.log
      /\ server'.exists = server.exists /\ ToPush' = ToPush
  BY <1>1, Apart DEF history
<1>7. u = Update(b.replica, w, e.client)
  BY <1>5 DEF Alike
<1>. HIDE DEF u, doc
<1>8. /\ bound.replica = doc /\ DOMAIN bound = BridgeFields /\ bound.live = b.live
      /\ bound.removedImages = b.removedImages
  BY <1>5 DEF BridgeFields, Alike, doc
<1>. HIDE DEF bound
<1>9. Alike(bound, asked) /\ DOMAIN asked = BridgeFields
  BY <1>8, LikeCreating
<1>. HIDE DEF asked
<1>10. Alike(asked, c)
  BY <1>9, LikeMoves
<1>. HIDE DEF c
<1>11. c.replica = doc /\ c.live = b.live /\ c.removedImages = b.removedImages
  BY <1>8, <1>9, <1>10 DEF Alike
<1>12. /\ f.up = e.up /\ f.knows = e.knows /\ f.open = e.open
       /\ Busy(f) = Busy(e) /\ (f.out = e.out \/ f.out = Apply(e.out, u))
  BY <1>2, QueuedLevel
<1>. HIDE DEF f
<1>13. CASE Handled(d, y, c, f)
  <2>1. ASSUME Ahead PROVE Holds(y, c, f, D, ToPush)
    <3>1. Ready(x, b, e, D, ToPush)
      BY <2>1, HoldsNow
    <3>2. ~ToPush /\ Alone(b, e)
      BY <1>1, <1>2, <3>1 DEF Named, Unpushed, Ready
    <3>3. Sane(u, D) /\ Sane(doc, D)
      <4>1. Sane(b.replica, D)
        BY <3>1 DEF Ready
      <4>. HIDE DEF b, e, D
      <4>2. Sane(u, D) /\ Sane(Apply(b.replica, u), D)
        BY <1>2, <1>4, <1>7, <4>1, SaneWritten
      <4>. QED  BY <4>2 DEF doc
    <3>4. Sane(f.out, D)
      BY <1>12, <3>1, <3>3, SaneApplied DEF Ready
    <3>5. Busy(f) = {} /\ ~c.live
      BY <1>11, <1>12, <3>2 DEF Alone
    <3>6. Ready(y, c, f, D, ToPush)
      BY <1>3, <1>11, <1>12, <3>1, <3>2, <3>3, <3>4, <3>5 DEF Ready
    <3>. QED  BY <3>5, <3>6 DEF Holds
  <2>. QED  BY <1>6, <1>13, <2>1, HandledHolds DEF Ahead
<1>14. CASE Handled(d, x, quit, e)
  BY <1>1, <1>5, <1>6, <1>14, LikeSelf, LikeHandled
<1>. QED  BY <1>1, <1>13, <1>14

\* What a device has queued gets into the log.
LEMMA PushImages ==
    ASSUME IInv, IInv', MInv, AInv, NEW d \in Devices, Push(d)
    PROVE  AInv'
<1>. DEFINE e == engine[d]
            entry == [from |-> e.client, update |-> e.out, lost |-> e.lost]
            log == Append(server.log, entry)
            n == Len(server.log)
            read(m) == [engine[m] EXCEPT !.seen = Past(engine[m], @, log)]
            sent == [e EXCEPT !.out = Nothing, !.idle = TRUE, !.seen = Past(e, @, log)]
            D == deleted
<1>1. /\ server' = [server EXCEPT !.log = log] /\ server.exists
      /\ engine' = [m \in Devices |-> IF m = d THEN sent ELSE read(m)]
      /\ bridge' = bridge /\ db' = db /\ UNCHANGED history /\ Spends
  BY DEF Push, Quietly, Spends
<1>2. /\ server.log \in Seq({server.log[j] : j \in DOMAIN server.log})
      /\ DOMAIN server = {"exists", "refuses", "log", "stored"}
  BY DEF IInv, ServerGood, Logged
<1>3. \A j \in DOMAIN log : (j \in DOMAIN server.log /\ log[j] = server.log[j]) \/ log[j] = entry
  <2>. DEFINE s == server.log
              t == Append(s, entry)
  <2>1. s \in Seq({s[j] : j \in DOMAIN s})
    BY <1>2
  <2>2. log = t /\ s = server.log
    OBVIOUS
  <2>. HIDE DEF entry, s, log
  <2>3. /\ Len(s) \in Nat /\ DOMAIN s = 1..Len(s) /\ Len(t) = Len(s) + 1
        /\ DOMAIN t = 1..Len(t) /\ \A j \in 1..Len(s) : t[j] = s[j]
        /\ t[Len(t)] = entry
    BY <2>1, AppendIs
  <2>. HIDE DEF t
  <2>4. \A j \in DOMAIN t : j \in DOMAIN s \/ j = Len(t)
    BY <2>3
  <2>. QED  BY <2>2, <2>3, <2>4
<1>4. entry.update = e.out
  OBVIOUS
<1>5. server'.log = log /\ server'.exists /\ deleted' = deleted
  BY <1>1, <1>2 DEF history
<1>. HIDE DEF log, entry
<1>6. ToPush' = ToPush /\ Ahead
  BY <1>1, PushStays DEF Ahead
<1>7. Ready(db[d], bridge[d], e, D, ToPush)
  BY <1>6, HoldsNow
<1>8. \A j \in DOMAIN log : Sane(log[j].update, D)
  BY <1>3, <1>4, <1>7 DEF Ready, AInv
<1>9. ASSUME NEW m \in Devices \ {d} PROVE Level(engine[m], engine'[m]) /\ Busy(engine'[m]) = Busy(engine[m])
  <2>. DEFINE f == engine[m]
              p == Past(f, f.seen, log)
              g == [f EXCEPT !.seen = p]
  <2>1. engine'[m] = g
    BY <1>1
  <2>2. DOMAIN f = EngineFields
    BY GoodIs
  <2>. HIDE DEF f, p
  <2>3. Level(f, g) /\ Busy(g) = Busy(f)
    BY <2>2 DEF EngineFields, Level, Busy
  <2>. HIDE DEF g
  <2>. QED  BY <2>1, <2>3 DEF f
<1>10. /\ engine'[d].out = Nothing /\ engine'[d].up = e.up /\ engine'[d].knows = e.knows
       /\ engine'[d].open = e.open /\ engine'[d].fetching = e.fetching
       /\ Busy(engine'[d]) = Busy(e)
  <2>. DEFINE p == Past(e, e.seen, log)
              g == [e EXCEPT !.out = Nothing, !.idle = TRUE, !.seen = p]
  <2>1. engine'[d] = g
    BY <1>1
  <2>2. DOMAIN e = EngineFields
    BY GoodIs
  <2>. HIDE DEF e, p
  <2>3. /\ g.out = Nothing /\ g.up = e.up /\ g.knows = e.knows /\ g.open = e.open
        /\ g.fetching = e.fetching /\ Busy(g) = Busy(e)
    BY <2>2 DEF EngineFields, Busy
  <2>. HIDE DEF g
  <2>. QED  BY <2>1, <2>3
<1>11. ASSUME NEW m \in Devices
       PROVE  Holds(db'[m], bridge'[m], engine'[m], deleted', ToPush')
  <2>1. /\ Holds(db[m], bridge[m], engine[m], D, ToPush)
        /\ Ready(db[m], bridge[m], engine[m], D, ToPush)
    BY <1>6, HoldsNow
  <2>2. db'[m] = db[m] /\ bridge'[m] = bridge[m] /\ Alike(bridge[m], bridge[m])
    BY <1>1, LikeSelf
  <2>3. CASE m # d
    <3>1. Level(engine[m], engine'[m]) /\ Busy(engine'[m]) \subseteq Busy(engine[m])
      BY <1>9, <2>3
    <3>. HIDE DEF D
    <3>2. D \subseteq deleted' /\ (ToPush' => ToPush)
      BY <1>5, <1>6 DEF D
    <3>3. Holds(db[m], bridge[m], engine'[m], deleted', ToPush')
      BY <2>1, <2>2, <3>1, <3>2, LikeHolds
    <3>. QED  BY <2>2, <3>3
  <2>4. CASE m = d
    <3>. DEFINE f == engine'[d]
    <3>1. /\ f.out = Nothing /\ f.up = e.up /\ f.knows = e.knows /\ f.open = e.open
          /\ f.fetching = e.fetching /\ Busy(f) = Busy(e)
      BY <1>10
    <3>. HIDE DEF f
    <3>2. /\ Holds(db[d], bridge[d], e, D, ToPush)
          /\ Ready(db[d], bridge[d], e, D, ToPush)
      BY <2>1, <2>4
    <3>3. Alone(bridge[d], e) => Alone(bridge[d], f)
      BY <3>1 DEF Alone
    <3>4. /\ bridge[d].live => bridge[d].has /\ f.up /\ f.knows
          /\ e.fetching \subseteq f.fetching /\ f.open => f.knows
      BY <3>1, <3>2 DEF Ready
    <3>. HIDE DEF D
    <3>5. D \subseteq deleted' /\ (ToPush' => ToPush)
      BY <1>5, <1>6 DEF D
    <3>6. Holds(db[d], bridge[d], f, deleted', ToPush')
      BY <3>1, <3>2, <3>3, <3>4, <3>5, QuietHolds
    <3>. QED  BY <2>2, <2>4, <3>6 DEF f
  <2>. QED  BY <2>3, <2>4
<1>12. AInv'
  BY <1>5, <1>8, <1>11 DEF AInv
<1>. QED  BY <1>12

-----------------------------------------------------------------------------
(* What the users do. *)

LEMMA ActApart ==
    ASSUME IInv, NEW d, NEW kind, Acts(d, kind), NEW items, NEW gone, NEW fresh,
           Intends(d, items, gone, fresh)
    PROVE  deleted' = deleted \cup gone /\ (ToPush' => ToPush) /\ Spends
BY PushGoes DEF Intends

LEMMA LocalImages ==
    ASSUME IInv, IInv', AInv, NEW d \in Devices, NEW kind, Acts(d, kind), NEW x, NEW tables,
           Local(d, x, tables), NEW items, NEW gone, NEW fresh, Intends(d, items, gone, fresh),
           x.space = db[d].space, x.images = db[d].images
    PROVE  AInv'
<1>1. deleted \subseteq deleted' /\ (ToPush' => ToPush)
  BY ActApart
<1>2. Changes(d, x, Moves(bridge[d], tables), engine[d]) /\ server' = server
  BY DEF Local
<1>3. Alike(bridge[d], Moves(bridge[d], tables))
  BY GoodIs, LikeMoves
<1>4. Level(engine[d], engine[d]) /\ Busy(engine[d]) \subseteq Busy(engine[d])
  BY LikeSelf
<1>5. Sets(d, x, Moves(bridge[d], tables), engine[d])
  BY <1>2, ChangesIs
<1>. QED  BY <1>1, <1>2, <1>3, <1>4, <1>5, LikeSets

LEMMA EditsImages ==
    ASSUME IInv, IInv', AInv, NEW d \in Devices,
           \/ \E name \in Names : RenameSpace(d, name)
           \/ \E n \in NoteIds : \/ \E title \in Names : AddNote(d, n, title) \/ RenameNote(d, n, title)
                                 \/ DeleteNote(d, n)
                                 \/ \E f \in FolderIds \cup {None} : FileNote(d, n, f)
           \/ \E f \in FolderIds :
                \/ \E name \in Names, parent \in FolderIds \cup {None} : AddFolder(d, f, name, parent)
                \/ \E name \in Names : RenameFolder(d, f, name)
                \/ \E parent \in FolderIds \cup {None} : MoveFolder(d, f, parent)
    PROVE  AInv'
<1>. DEFINE x == db[d]
<1>1. DOMAIN x = {"space", "name", "folders", "notes", "images"}
  BY GoodIs
<1>2. ASSUME NEW name \in Names, RenameSpace(d, name) PROVE AInv'
  <2>. DEFINE y == [x EXCEPT !.name = name]
  <2>1. y.space = x.space /\ y.images = x.images
    BY <1>1
  <2>. QED  BY <1>2, <2>1, LocalImages DEF RenameSpace
<1>3. \A N : LET y == [x EXCEPT !.notes = N] IN y.space = x.space /\ y.images = x.images
  BY <1>1
<1>4. \A F : LET y == [x EXCEPT !.folders = F] IN y.space = x.space /\ y.images = x.images
  BY <1>1
<1>5. ASSUME NEW n \in NoteIds, NEW title \in Names, AddNote(d, n, title) PROVE AInv'
  <2>. DEFINE r == [title |-> title, folder |-> None, push |-> FALSE, mapped |-> FALSE]
              y == [x EXCEPT !.notes = Over(@, Only(n, r))]
  <2>1. y.space = x.space /\ y.images = x.images
    BY <1>3
  <2>2. /\ Acts(d, "add note") /\ Local(d, y, {})
        /\ Intends(d, Only(NoteKey(n), title), {}, {n})
    BY <1>5 DEF AddNote
  <2>. HIDE DEF y, x
  <2>3. y.space = db[d].space /\ y.images = db[d].images
    BY <2>1 DEF x
  <2>. QED  BY <2>2, <2>3, LocalImages
<1>6. ASSUME NEW n \in NoteIds, NEW title \in Names, RenameNote(d, n, title) PROVE AInv'
  <2>. DEFINE y == [x EXCEPT !.notes = [@ EXCEPT ![n].title = title]]
  <2>1. y.space = x.space /\ y.images = x.images
    BY <1>3
  <2>2. /\ Acts(d, "rename note") /\ Local(d, y, {})
        /\ Intends(d, Only(NoteKey(n), title), {}, {})
    BY <1>6 DEF RenameNote
  <2>. HIDE DEF y, x
  <2>3. y.space = db[d].space /\ y.images = db[d].images
    BY <2>1 DEF x
  <2>. QED  BY <2>2, <2>3, LocalImages
<1>7. ASSUME NEW n \in NoteIds, DeleteNote(d, n) PROVE AInv'
  <2>. DEFINE y == [x EXCEPT !.notes = Without(@, {n})]
  <2>1. y.space = x.space /\ y.images = x.images
    BY <1>3
  <2>2. Acts(d, "delete note") /\ Local(d, y, {}) /\ Intends(d, Nothing, {n}, {})
    BY <1>7 DEF DeleteNote
  <2>. HIDE DEF y, x
  <2>3. y.space = db[d].space /\ y.images = db[d].images
    BY <2>1 DEF x
  <2>. QED  BY <2>2, <2>3, LocalImages
<1>8. ASSUME NEW n \in NoteIds, NEW f \in FolderIds \cup {None}, FileNote(d, n, f) PROVE AInv'
  <2>. DEFINE y == [x EXCEPT !.notes[n].folder = f, !.notes[n].push = TRUE]
  <2>1. y.space = x.space /\ y.images = x.images
    BY <1>1
  <2>2. /\ Acts(d, "file note") /\ Local(d, y, {"folders"})
        /\ Intends(d, Only(AssignKey(n), f), {}, {})
    BY <1>8 DEF FileNote
  <2>. HIDE DEF y, x
  <2>3. y.space = db[d].space /\ y.images = db[d].images
    BY <2>1 DEF x
  <2>. QED  BY <2>2, <2>3, LocalImages
<1>9. ASSUME NEW f \in FolderIds, NEW name \in Names, NEW parent \in FolderIds \cup {None},
             AddFolder(d, f, name, parent)
      PROVE  AInv'
  <2>. DEFINE r == [name |-> name, parent |-> parent, push |-> TRUE]
              y == [x EXCEPT !.folders = Over(@, Only(f, r))]
  <2>1. y.space = x.space /\ y.images = x.images
    BY <1>4
  <2>2. /\ Acts(d, "add folder") /\ Local(d, y, {"folders"})
        /\ Intends(d, Over(Only(FolderKey(f), name), Only(ParentKey(f), parent)), {}, {f})
    BY <1>9 DEF AddFolder
  <2>. HIDE DEF y, x
  <2>3. y.space = db[d].space /\ y.images = db[d].images
    BY <2>1 DEF x
  <2>. QED  BY <2>2, <2>3, LocalImages
<1>10. ASSUME NEW f \in FolderIds, NEW name \in Names, RenameFolder(d, f, name) PROVE AInv'
  <2>. DEFINE y == [x EXCEPT !.folders[f].name = name, !.folders[f].push = TRUE]
  <2>1. y.space = x.space /\ y.images = x.images
    BY <1>1
  <2>2. /\ Acts(d, "rename folder") /\ Local(d, y, {"folders"})
        /\ Intends(d, Only(FolderKey(f), name), {}, {})
    BY <1>10 DEF RenameFolder
  <2>. HIDE DEF y, x
  <2>3. y.space = db[d].space /\ y.images = db[d].images
    BY <2>1 DEF x
  <2>. QED  BY <2>2, <2>3, LocalImages
<1>11. ASSUME NEW f \in FolderIds, NEW parent \in FolderIds \cup {None}, MoveFolder(d, f, parent)
       PROVE  AInv'
  <2>. DEFINE y == [x EXCEPT !.folders[f].parent = parent, !.folders[f].push = TRUE]
  <2>1. y.space = x.space /\ y.images = x.images
    BY <1>1
  <2>2. /\ Acts(d, "move folder") /\ Local(d, y, {"folders"})
        /\ Intends(d, Only(ParentKey(f), parent), {}, {})
    BY <1>11 DEF MoveFolder
  <2>. HIDE DEF y, x
  <2>3. y.space = db[d].space /\ y.images = db[d].images
    BY <2>1 DEF x
  <2>. QED  BY <2>2, <2>3, LocalImages
<1>. HIDE DEF x
<1>. QED  BY <1>2, <1>5, <1>6, <1>7, <1>8, <1>9, <1>10, <1>11

LEMMA DeleteFolderImages ==
    ASSUME IInv, IInv', AInv, NEW d \in Devices, NEW f \in FolderIds, DeleteFolder(d, f)
    PROVE  AInv'
<1>. DEFINE x == db[d]
            b == bridge[d]
            gone == Subtree(x.folders, f)
            queued == IF x.space = "mapped"
                      THEN [b EXCEPT !.removedFolders = @ \cup Removes(x, f), !.dirty = TRUE] ELSE b
            items == [k \in {FolderKey(g) : g \in gone} \cup {AssignKey(n) : n \in
                            {m \in DOMAIN x.notes : x.notes[m].folder \in gone}} |-> None]
            y == FoldersDeleted(x, {f})
            c == Moves(queued, {"folders"})
<1>1. /\ Acts(d, "delete folder") /\ Changes(d, y, c, engine[d])
      /\ Intends(d, items, gone, {}) /\ server' = server
  BY DEF DeleteFolder
<1>2. DOMAIN b = BridgeFields /\ IsDb(x)
  BY GoodIs DEF DbGood
<1>3. Alike(b, queued) /\ DOMAIN queued = BridgeFields
  BY <1>2, LikeSelf DEF BridgeFields, Alike
<1>4. y.space = x.space /\ y.images = x.images
  BY <1>2, FoldersDeletedIs
<1>. HIDE DEF gone, queued, items, y
<1>5. Alike(b, c)
  BY <1>3, LikeMoves, LikeTrans
<1>. HIDE DEF c
<1>6. Sets(d, y, c, engine[d])
  BY <1>1, ChangesIs
<1>7. deleted \subseteq deleted' /\ (ToPush' => ToPush)
  BY <1>1, ActApart
<1>8. Level(engine[d], engine[d]) /\ Busy(engine[d]) \subseteq Busy(engine[d])
  BY LikeSelf
<1>. QED  BY <1>1, <1>4, <1>5, <1>6, <1>7, <1>8, LikeSets

\* Images that come with their content, and uploads of what has it.
LEMMA RowsHolds ==
    ASSUME NEW x, NEW b, NEW e, NEW D, NEW P, Holds(x, b, e, D, P),
           NEW y, NEW c, NEW f, NEW Q, y.space = x.space, DOMAIN x.images \subseteq DOMAIN y.images,
           \A j \in DOMAIN x.images : /\ x.images[j].bytes => y.images[j].bytes
                                      /\ x.images[j].push => y.images[j].push,
           \A j \in DOMAIN y.images \ DOMAIN x.images : y.images[j].bytes,
           Alike(b, c), Level(e, f), x.space = "local" \/ P => Busy(f) \subseteq Busy(e),
           \A j \in DOMAIN y.images \cap (Busy(f) \ Busy(e)) : y.images[j].bytes, Q => P
    PROVE  Holds(y, c, f, D, Q)
<1>1. Ready(x, b, e, D, P)
  BY DEF Holds
<1>2. y.space = "local" \/ Q => Alone(c, f)
  BY <1>1 DEF Ready, Alone, Alike
<1>3. \A j \in (DOMAIN y.images \cap Busy(f)) \ D : y.images[j].bytes \/ Lists(c.replica, j)
  BY <1>1 DEF Ready, Alike
<1>4. Ready(y, c, f, D, Q)
  BY <1>1, <1>2, <1>3 DEF Ready, Alike, Level
<1>5. ASSUME c.live, y.space = "mapped", NEW j \in ImageIds \ D
      PROVE  Shows(y, c, f, j)
  <2>1. Shows(x, b, e, j)
    BY <1>5 DEF Holds, Alike
  <2>2. CASE j \in DOMAIN x.images
    BY <2>1, <2>2 DEF Shows, Alike, Level
  <2>3. CASE j \notin DOMAIN x.images
    BY <2>1, <2>3 DEF Shows, Alike
  <2>. QED  BY <2>2, <2>3
<1>. QED  BY <1>4, <1>5 DEF Holds

LEMMA RowsSets ==
    ASSUME IInv, AInv, NEW d \in Devices, NEW x, NEW b, NEW e, Sets(d, x, b, e),
           x.space = db[d].space, DOMAIN db[d].images \subseteq DOMAIN x.images,
           \A j \in DOMAIN db[d].images : /\ db[d].images[j].bytes => x.images[j].bytes
                                          /\ db[d].images[j].push => x.images[j].push,
           \A j \in DOMAIN x.images \ DOMAIN db[d].images : x.images[j].bytes,
           Alike(bridge[d], b), Level(engine[d], e),
           db[d].space # "mapped" => Busy(e) \subseteq Busy(engine[d]),
           \A j \in DOMAIN x.images \cap (Busy(e) \ Busy(engine[d])) : x.images[j].bytes,
           deleted' = deleted, server'.log = server.log,
           server'.exists = server.exists, ToPush' => ToPush
    PROVE  AInv'
<1>1. ASSUME Ahead PROVE Holds(x, b, e, deleted', ToPush')
  <2>1. Holds(db[d], bridge[d], engine[d], deleted, ToPush) /\ Unpushed(db[d], bridge[d], ToPush)
    BY <1>1, HoldsNow
  <2>2. db[d].space = "local" \/ ToPush => Busy(e) \subseteq Busy(engine[d])
    BY <2>1 DEF Unpushed
  <2>3. Holds(x, b, e, deleted, ToPush')
    BY <2>1, <2>2, RowsHolds
  <2>. QED  BY <2>3
<1>2. server'.exists => Ahead
  BY DEF Ahead
<1>. QED  BY <1>1, <1>2, OneHolds

LEMMA RenameImageImages ==
    ASSUME IInv, IInv', AInv, NEW d \in Devices, NEW i \in ImageIds, NEW name \in Names,
           RenameImage(d, i, name)
    PROVE  AInv'
<1>. DEFINE x == db[d]
            b == bridge[d]
            row == [x.images[i] EXCEPT !.name = name, !.push = TRUE]
            v == [x.images EXCEPT ![i] = row]
            y == [x EXCEPT !.images = v]
            c == Moves(b, {"images"})
<1>1. /\ Acts(d, "rename image") /\ Changes(d, y, c, engine[d]) /\ server' = server
      /\ Intends(d, Only(ImageKey(i), name), {}, {}) /\ i \in DOMAIN x.images
  BY DEF RenameImage, Local
<1>2. /\ DOMAIN x = {"space", "name", "folders", "notes", "images"} /\ IsDb(x)
      /\ DOMAIN b = BridgeFields
  BY GoodIs DEF DbGood
<1>3. row.push /\ row.bytes = x.images[i].bytes
  <2>1. x.images[i] \in Image
    BY <1>1, <1>2, RowsAre
  <2>. QED  BY <2>1 DEF Image
<1>. HIDE DEF row
<1>4. /\ DOMAIN v = DOMAIN x.images
      /\ \A j \in DOMAIN x.images : /\ x.images[j].bytes => v[j].bytes
                                    /\ x.images[j].push => v[j].push
  BY <1>1, <1>3
<1>. HIDE DEF v
<1>5. y.space = x.space /\ y.images = v
  BY <1>2
<1>6. Alike(b, c)
  BY <1>2, LikeMoves
<1>. HIDE DEF y, c
<1>7. deleted' = deleted /\ (ToPush' => ToPush)
  <2>. DEFINE items == Only(ImageKey(i), name)
  <2>1. Acts(d, "rename image") /\ Intends(d, items, {}, {})
    BY <1>1
  <2>. HIDE DEF items
  <2>2. deleted' = deleted \cup {} /\ (ToPush' => ToPush)
    BY <2>1, ActApart
  <2>. QED  BY <2>2
<1>8. Level(engine[d], engine[d])
  BY LikeSelf
<1>9. Sets(d, y, c, engine[d])
  BY <1>1, ChangesIs
<1>10. /\ \A j \in DOMAIN x.images : /\ x.images[j].bytes => y.images[j].bytes
                                     /\ x.images[j].push => y.images[j].push
       /\ DOMAIN y.images = DOMAIN x.images
  BY <1>4, <1>5
<1>. QED  BY <1>1, <1>5, <1>6, <1>7, <1>8, <1>9, <1>10, RowsSets

LEMMA PasteImageImages ==
    ASSUME IInv, IInv', AInv, NEW d \in Devices, NEW i \in ImageIds, NEW name \in Names,
           PasteImage(d, i, name)
    PROVE  AInv'
<1>. DEFINE x == db[d]
            b == bridge[d]
            e == engine[d]
            r == [name |-> name, push |-> TRUE, bytes |-> TRUE]
            filled == [x EXCEPT !.images[i].bytes = TRUE]
            added == [x EXCEPT !.images = Over(@, Only(i, r))]
            y == IF i \in used THEN filled ELSE added
            up == IF x.space = "mapped" /\ y.images[i].push THEN {i} ELSE {}
            c == Moves(b, {"images"})
            f == Put(e, up)
<1>1. /\ Acts(d, "paste") /\ Changes(d, y, c, f) /\ Intends(d, Only(ImageKey(i), name), {}, {i})
      /\ server' = server /\ (i \in used => i \in DOMAIN x.images)
  BY DEF PasteImage
<1>2. /\ DOMAIN x = {"space", "name", "folders", "notes", "images"} /\ IsDb(x)
      /\ DOMAIN b = BridgeFields /\ Runs(e) /\ DOMAIN x.images \subseteq used
  BY GoodIs, RunsIs DEF DbGood
<1>3. /\ y.space = x.space /\ DOMAIN x.images \subseteq DOMAIN y.images
      /\ \A j \in DOMAIN x.images : /\ x.images[j].bytes => y.images[j].bytes
                                    /\ x.images[j].push => y.images[j].push
      /\ \A j \in DOMAIN y.images \ DOMAIN x.images : y.images[j].bytes
      /\ y.images[i].bytes
  <2>1. CASE i \in used
    <3>. DEFINE row == [x.images[i] EXCEPT !.bytes = TRUE]
                v == [x.images EXCEPT ![i] = row]
    <3>1. row.bytes /\ row.push = x.images[i].push
      <4>1. x.images[i] \in Image
        BY <1>1, <1>2, <2>1, RowsAre
      <4>. QED  BY <4>1 DEF Image
    <3>2. y = [x EXCEPT !.images = v]
      BY <2>1
    <3>. HIDE DEF row
    <3>3. /\ DOMAIN v = DOMAIN x.images /\ v[i].bytes
          /\ \A j \in DOMAIN x.images : /\ x.images[j].bytes => v[j].bytes
                                        /\ x.images[j].push => v[j].push
      BY <1>1, <2>1, <3>1
    <3>. HIDE DEF v, y
    <3>4. y.space = x.space /\ y.images = v
      BY <1>2, <3>2
    <3>. QED  BY <3>3, <3>4
  <2>2. CASE i \notin used
    <3>. DEFINE v == Over(x.images, Only(i, r))
    <3>1. y = [x EXCEPT !.images = v]
      BY <2>2
    <3>2. DOMAIN Only(i, r) = {i} /\ Only(i, r)[i] = r /\ r.bytes
      BY OneIs
    <3>3. /\ DOMAIN v = DOMAIN x.images \cup {i} /\ v[i].bytes
          /\ \A j \in DOMAIN x.images : v[j] = x.images[j]
      <4>. DEFINE g == Only(i, r)
      <4>. HIDE DEF g
      <4>1. /\ DOMAIN Over(x.images, g) = DOMAIN x.images \cup DOMAIN g
            /\ \A m \in DOMAIN g : Over(x.images, g)[m] = g[m]
            /\ \A m \in DOMAIN x.images \ DOMAIN g : Over(x.images, g)[m] = x.images[m]
        BY OverIs
      <4>2. v = Over(x.images, g) /\ DOMAIN g = {i} /\ g[i].bytes
        BY <3>2 DEF g
      <4>3. i \notin DOMAIN x.images
        BY <1>2, <2>2
      <4>. HIDE DEF v
      <4>. QED  BY <4>1, <4>2, <4>3
    <3>. HIDE DEF v, y
    <3>4. y.space = x.space /\ y.images = v
      BY <1>2, <3>1
    <3>. QED  BY <3>3, <3>4
  <2>. QED  BY <2>1, <2>2
<1>. HIDE DEF y
<1>4. up \in SUBSET ImageIds /\ up \subseteq {i} /\ (x.space # "mapped" => up = {})
  OBVIOUS
<1>. HIDE DEF up
<1>5. Level(e, f) /\ Busy(f) \subseteq Busy(e) \cup up
  BY <1>2, <1>4, PutBusy
<1>6. Alike(b, c)
  BY <1>2, LikeMoves
<1>. HIDE DEF c, f
<1>7. deleted' = deleted /\ (ToPush' => ToPush)
  BY <1>1, ActApart
<1>8. Sets(d, y, c, f)
  BY <1>1, ChangesIs
<1>9. x.space # "mapped" => Busy(f) \subseteq Busy(e)
  BY <1>4, <1>5
<1>10. \A j \in DOMAIN y.images \cap (Busy(f) \ Busy(e)) : y.images[j].bytes
  BY <1>3, <1>4, <1>5
<1>. QED  BY <1>1, <1>3, <1>5, <1>6, <1>7, <1>8, <1>9, <1>10, RowsSets

LEMMA DeleteImageImages ==
    ASSUME IInv, IInv', AInv, NEW d \in Devices, NEW i \in ImageIds, DeleteImage(d, i)
    PROVE  AInv'
<1>. DEFINE x == db[d]
            b == bridge[d]
            e == engine[d]
            told == x.space = "mapped" /\ e.up
            results == Results(e, {i}, "stored")
            answered == IF i \in e.waiting THEN results ELSE e
            g == [answered EXCEPT !.wire[i] = 0, !.waiting = @ \ {i}]
            f == IF told THEN g ELSE e
            queued == IF x.space = "mapped"
                      THEN [b EXCEPT !.removedImages = @ \cup {i}, !.dirty = TRUE] ELSE b
            v == Without(x.images, {i})
            y == [x EXCEPT !.images = v]
            c == Moves(queued, {"images"})
            D == deleted \cup {i}
<1>1. /\ Acts(d, "delete image") /\ Changes(d, y, c, f)
      /\ server' = IF told THEN [server EXCEPT !.stored = @ \ {i}] ELSE server
      /\ Intends(d, Nothing, {i}, {})
  BY DEF DeleteImage
<1>2. /\ DOMAIN b = BridgeFields /\ DOMAIN e = EngineFields /\ Runs(e)
      /\ DOMAIN x = {"space", "name", "folders", "notes", "images"}
      /\ DOMAIN server = {"exists", "refuses", "log", "stored"}
  BY GoodIs, RunsIs DEF IInv, ServerGood
<1>3. server'.log = server.log /\ server'.exists = server.exists
  BY <1>1, <1>2
<1>4. /\ DOMAIN queued = BridgeFields /\ queued.replica = b.replica /\ queued.has = b.has
      /\ queued.live = b.live /\ queued.joining = b.joining /\ queued.peeking = b.peeking
      /\ queued.removedImages \subseteq b.removedImages \cup {i}
  BY <1>2 DEF BridgeFields
<1>5. DOMAIN v = DOMAIN x.images \ {i} /\ \A j \in DOMAIN v : v[j] = x.images[j]
  BY DEF Without
<1>. HIDE DEF queued, v, told
<1>6. y.space = x.space /\ y.images = v
  BY <1>2
<1>7. Alike(queued, c)
  BY <1>4, LikeMoves
<1>. HIDE DEF c, y
<1>8. Runs(answered) /\ Level(e, answered) /\ Busy(answered) \subseteq Busy(e)
  <2>1. CASE i \notin e.waiting
    BY <1>2, <2>1, LikeSelf
  <2>2. CASE i \in e.waiting
    <3>1. Runs(results) /\ Level(e, results) /\ Busy(results) \subseteq Busy(e) \cup {i}
      BY <1>2, ResultsBusy
    <3>2. i \in Busy(e)
      BY <2>2 DEF Busy
    <3>. QED  BY <2>2, <3>1, <3>2
  <2>. QED  BY <2>1, <2>2
<1>. HIDE DEF answered
<1>9. Level(answered, g) /\ Busy(g) \subseteq Busy(answered)
  BY <1>8 DEF Runs, EngineFields, Level, Busy
<1>. HIDE DEF g
<1>10. Level(e, f) /\ Busy(f) \subseteq Busy(e)
  BY <1>8, <1>9, LikeSelf, LevelTrans
<1>. HIDE DEF f
<1>11. deleted' = D /\ (ToPush' => ToPush)
  BY <1>1, ActApart
<1>12. Sets(d, y, c, f)
  BY <1>1, ChangesIs
<1>13. ASSUME Ahead PROVE Holds(y, c, f, D, ToPush')
  <2>1. Holds(x, b, e, deleted, ToPush) /\ Ready(x, b, e, deleted, ToPush)
    BY <1>13, HoldsNow
  <2>. DEFINE E == deleted
  <2>2. E \subseteq D /\ i \in D
    OBVIOUS
  <2>. HIDE DEF x, b, e, E, D
  <2>3. Ready(x, b, e, E, ToPush) /\ Holds(x, b, e, E, ToPush)
    BY <2>1 DEF E
  <2>4. Sane(c.replica, D) /\ Sane(f.out, D) /\ c.removedImages \subseteq D
    <3>1. Sane(b.replica, D) /\ Sane(e.out, D)
      BY <2>2, <2>3, SaneMore DEF Ready
    <3>2. c.replica = b.replica /\ f.out = e.out
      BY <1>4, <1>7, <1>10 DEF Alike, Level
    <3>3. c.removedImages \subseteq D
      BY <1>4, <1>7, <2>2, <2>3 DEF Alike, Ready
    <3>. QED  BY <3>1, <3>2, <3>3
  <2>5. y.space = "local" \/ ToPush' => Alone(c, f)
    BY <1>4, <1>6, <1>7, <1>10, <1>11, <2>3 DEF Ready, Alone, Alike
  <2>6. \A j \in (DOMAIN y.images \cap Busy(f)) \ D : y.images[j].bytes \/ Lists(c.replica, j)
    BY <1>4, <1>5, <1>6, <1>7, <1>10, <2>2, <2>3 DEF Ready, Alike
  <2>7. Ready(y, c, f, D, ToPush')
    BY <1>4, <1>7, <1>10, <2>3, <2>4, <2>5, <2>6 DEF Ready, Alike, Level
  <2>8. ASSUME c.live, y.space = "mapped", NEW j \in ImageIds \ D
        PROVE  Shows(y, c, f, j)
    <3>1. Shows(x, b, e, j)
      BY <1>4, <1>6, <1>7, <2>2, <2>3, <2>8 DEF Holds, Alike
    <3>2. j # i /\ c.replica = b.replica /\ f.fetching = e.fetching
      BY <1>4, <1>7, <1>10, <2>2, <2>8 DEF Alike, Level
    <3>. QED  BY <1>5, <1>6, <3>1, <3>2 DEF Shows
  <2>. QED  BY <2>7, <2>8 DEF Holds
<1>14. deleted \subseteq deleted' /\ (server.exists => server'.exists) /\ (server'.exists => Ahead)
  BY <1>3, <1>11 DEF Ahead
<1>15. Ahead => Holds(y, c, f, deleted', ToPush')
  <2>. HIDE DEF D
  <2>. QED  BY <1>11, <1>13
<1>. QED  BY <1>3, <1>11, <1>12, <1>14, <1>15, OneHolds

LEMMA PushSpaceImages ==
    ASSUME IInv, IInv', MInv, AInv, NEW d \in Devices, PushSpace(d)
    PROVE  AInv'
<1>. DEFINE x == db[d]
            b == bridge[d]
            e == engine[d]
            made == [e EXCEPT !.knows = TRUE, !.open = TRUE, !.seen = 0, !.target = 0]
            f == IF e.up THEN made ELSE e
            up == e.up
            c == [b EXCEPT !.pushing = up]
            items == Only(NameKey, x.name)
<1>1. /\ "push" \in start.kinds /\ Acts(d, "push") /\ NameKey \notin DOMAIN intents
      /\ Changes(d, x, c, f) /\ ~server.exists
      /\ server' = [server EXCEPT !.exists = up /\ ~server.refuses]
      /\ Intends(d, items, {}, {})
  BY DEF PushSpace, Acts
<1>2. /\ DOMAIN b = BridgeFields /\ DOMAIN e = EngineFields
      /\ DOMAIN server = {"exists", "refuses", "log", "stored"}
  BY GoodIs DEF IInv, ServerGood
<1>. HIDE DEF up
<1>3. Alike(b, c)
  BY <1>2 DEF BridgeFields, Alike
<1>4. made.knows /\ made.open /\ made.out = e.out /\ Busy(made) = Busy(e)
  BY <1>2 DEF EngineFields, Busy
<1>. HIDE DEF made
<1>5. f.out = e.out /\ Busy(f) = Busy(e) /\ (e.open => e.knows) => (f.open => f.knows)
  BY <1>4
<1>6. f.out = e.out /\ Busy(f) = Busy(e)
  BY <1>4
<1>. HIDE DEF f, c
<1>7. ToPush /\ server'.log = server.log
  BY <1>1, <1>2 DEF ToPush
<1>. HIDE DEF items
<1>8. deleted' = deleted \cup {} /\ (ToPush' => ToPush)
  BY <1>1, ActApart
<1>9. Holds(x, c, f, deleted', ToPush')
  <2>1. Ahead
    BY <1>7 DEF Ahead
  <2>2. Holds(x, b, e, deleted, ToPush) /\ Ready(x, b, e, deleted, ToPush)
    BY <2>1, HoldsNow
  <2>3. Alone(b, e)
    BY <1>7, <2>2 DEF Ready
  <2>4. Alone(c, f) /\ ~c.live
    BY <1>3, <1>6, <2>3 DEF Alone, Alike
  <2>5. f.open => f.knows
    BY <1>5, <1>6, <2>2 DEF Ready
  <2>6. c.replica = b.replica /\ c.removedImages = b.removedImages
    BY <1>3 DEF Alike
  <2>. DEFINE D == deleted
  <2>7. D \subseteq deleted' /\ (ToPush' => ToPush)
    BY <1>8
  <2>. HIDE DEF D, x, b, e
  <2>8. Holds(x, b, e, D, ToPush)
    BY <2>2 DEF D
  <2>. QED  BY <1>6, <2>4, <2>5, <2>6, <2>7, <2>8, QuietHolds
<1>10. Sets(d, x, c, f)
  BY <1>1, ChangesIs
<1>11. Ahead /\ (server.exists => server'.exists) /\ deleted \subseteq deleted'
  BY <1>1, <1>7, <1>8 DEF Ahead
<1>. HIDE DEF x
<1>. QED  BY <1>7, <1>8, <1>9, <1>10, <1>11, OneHolds

\* Asking for a space, or for a look at it.
LEMMA AsksImages ==
    ASSUME IInv, IInv', AInv, NEW d \in Devices, FetchSpace(d) \/ PeekSpace(d)
    PROVE  AInv'
<1>. DEFINE b == bridge[d]
            asks == [b EXCEPT !.joining = "asked"]
            looks == [b EXCEPT !.peeked = TRUE, !.peeking = TRUE]
<1>1. DOMAIN b = BridgeFields
  BY GoodIs
<1>2. PICK c : /\ bridge' = [bridge EXCEPT ![d] = c] /\ c \in {asks, looks}
  BY DEF FetchSpace, PeekSpace, IInv
<1>3. /\ UNCHANGED <<db, engine, server, history>> /\ Spends
      /\ server.exists /\ db[d].space = "absent"
  BY DEF FetchSpace, PeekSpace, Acts, Spends
<1>4. /\ c.replica = b.replica /\ c.removedImages = b.removedImages /\ c.has = b.has
      /\ c.live = b.live
  BY <1>1, <1>2 DEF BridgeFields
<1>. HIDE DEF asks, looks, b
<1>5. Sets(d, db[d], c, engine[d])
  BY <1>2, <1>3 DEF Sets, IInv
<1>6. /\ deleted \subseteq deleted' /\ server'.log = server.log
      /\ server'.exists = server.exists /\ ToPush' = ToPush
  BY <1>3, Apart
<1>7. Ahead /\ ~ToPush
  BY <1>3 DEF Ahead, IInv, ServerGood
<1>8. Holds(db[d], c, engine[d], deleted', ToPush')
  <2>1. Holds(db[d], b, engine[d], deleted, ToPush) /\ Ready(db[d], b, engine[d], deleted, ToPush)
    BY <1>7, HoldsNow DEF b
  <2>2. c.live => b.live /\ c.has /\ engine[d].up /\ engine[d].knows
    BY <1>4, <2>1 DEF Ready
  <2>3. engine[d].open => engine[d].knows
    BY <2>1 DEF Ready
  <2>4. ~(db[d].space = "local" \/ ToPush)
    BY <1>3, <1>7
  <2>. DEFINE e == engine[d]
              x == db[d]
              D == deleted
  <2>5. /\ Holds(x, b, e, D, ToPush) /\ (c.live => b.live /\ c.has /\ e.up /\ e.knows)
        /\ (e.open => e.knows) /\ ~(x.space = "local" \/ ToPush) /\ D \subseteq deleted'
    BY <1>6, <2>1, <2>2, <2>3, <2>4
  <2>. HIDE DEF e, x, D
  <2>6. Holds(x, c, e, deleted', ToPush')
    BY <1>4, <1>6, <2>5, QuietHolds
  <2>. QED  BY <2>6 DEF e, x
<1>. QED  BY <1>5, <1>6, <1>7, <1>8, OneHolds

\* A device that is left with nothing.
LEMMA NoneHolds ==
    ASSUME NEW x, NEW b, NEW e, NEW D, NEW P, b.replica = EmptyDoc, b.removedImages = {},
           ~b.live, e.out = Nothing, ~e.open, x.space = "local" \/ P => Alone(b, e),
           DOMAIN x.images \cap Busy(e) = {}
    PROVE  Holds(x, b, e, D, P)
<1>1. Sane(b.replica, D) /\ Sane(e.out, D) /\ b.removedImages \subseteq D
  BY SaneNothing
<1>. QED  BY <1>1 DEF Holds, Ready

LEMMA ForgetSpaceImages ==
    ASSUME IInv, IInv', AInv, NEW d \in Devices, ForgetSpace(d)
    PROVE  AInv'
<1>. DEFINE b == bridge[d]
            e == engine[d]
            drop == Dropped(b)
            c == Moves(drop, {"spaces", "folders", "images"})
            told == Results(e, e.waiting, "error")
            g == Forgotten(e)
<1>1. /\ Spends /\ UNCHANGED <<server, history>> /\ db[d].space = "mapped"
      /\ \E k \in Clients \ clients : Changes(d, Empty, c, [g EXCEPT !.client = k])
  BY DEF ForgetSpace, Spends
<1>2. PICK k \in Clients \ clients : Changes(d, Empty, c, [g EXCEPT !.client = k])
  BY <1>1
<1>. DEFINE f == [g EXCEPT !.client = k]
<1>3. DOMAIN b = BridgeFields /\ DOMAIN e = EngineFields /\ Unpushed(db[d], b, ToPush)
      /\ BridgeGood(b, used, Kept)
  BY GoodIs DEF Fits, Device
<1>4. ~f.open /\ f.out = Nothing
  <2>1. DOMAIN told = EngineFields
    BY <1>3, CalmResults
  <2>2. g = [told EXCEPT !.knows = FALSE, !.open = FALSE, !.opening = FALSE, !.seen = 0,
                         !.target = 0, !.out = Nothing, !.waiting = {}, !.fetching = {}]
    BY DEF Forgotten
  <2>. HIDE DEF told, g
  <2>3. DOMAIN g = EngineFields /\ g.open = FALSE /\ g.out = Nothing
    BY <2>1, <2>2 DEF EngineFields
  <2>. QED  BY <2>3 DEF EngineFields
<1>5. drop.replica = EmptyDoc /\ drop.removedImages = {} /\ ~drop.live /\ DOMAIN drop = BridgeFields
  <2>1. drop.replica = EmptyDoc /\ drop.removedImages = {} /\ DOMAIN drop = BridgeFields
    BY <1>3, DroppedIs
  <2>. DEFINE h == NoRuntime
  <2>2. "live" \in DOMAIN h /\ h.live = FALSE
    BY DEF NoRuntime
  <2>3. drop = Over(b, h)
    BY DEF Dropped
  <2>. HIDE DEF h, drop, b
  <2>4. \A m \in DOMAIN h : Over(b, h)[m] = h[m]
    BY OverIs
  <2>. QED  BY <2>1, <2>2, <2>3, <2>4
<1>. HIDE DEF drop, g
<1>6. c.replica = EmptyDoc /\ c.removedImages = {} /\ ~c.live
  BY <1>5, LikeMoves DEF Alike
<1>7. Empty.space = "absent" /\ DOMAIN Empty.images = {}
  BY NothingIs DEF Empty
<1>. HIDE DEF c, f
<1>8. /\ deleted \subseteq deleted' /\ server'.log = server.log
      /\ server'.exists = server.exists /\ ToPush' = ToPush /\ ~ToPush
  BY <1>1, <1>3, Apart DEF Unpushed
<1>9. Holds(Empty, c, f, deleted', ToPush')
  BY <1>4, <1>6, <1>7, <1>8, NoneHolds
<1>10. Sets(d, Empty, c, f)
  BY <1>2, ChangesIs DEF f
<1>. QED  BY <1>8, <1>9, <1>10, OneHolds DEF Ahead

LEMMA NewIs ==
    LET c == [NewBridge EXCEPT !.moved = {"spaces", "folders", "images"}]
    IN  /\ NewBridge.has = FALSE /\ NewBridge.live = FALSE /\ NewBridge.joining = "no"
        /\ NewBridge.peeking = FALSE /\ NewBridge.replica = EmptyDoc /\ NewBridge.removedImages = {}
        /\ Alike(NewBridge, c) /\ DOMAIN NewBridge = BridgeFields
<1>. DEFINE own == [pushing |-> FALSE, peeking |-> FALSE, refused |-> FALSE, creating |-> Nothing,
                   dirty |-> FALSE, moved |-> {}, due |-> FALSE,
                   uploading |-> {}, failed |-> {}, tries |-> [i \in ImageIds |-> 0]]
            base == NoRuntime
            b == NewBridge
<1>1. DOMAIN b = BridgeFields /\ b.replica = EmptyDoc /\ b.joining = "no" /\ b.removedImages = {}
  BY NewReplica, NewBridgeIs
<1>2. {"has", "live"} \subseteq DOMAIN base \ DOMAIN own /\ base.has = FALSE /\ base.live = FALSE
  BY DEF NoRuntime
<1>3. "peeking" \in DOMAIN own /\ own.peeking = FALSE
  OBVIOUS
<1>4. b = Over(base, own)
  BY DEF NewBridge
<1>. HIDE DEF own, base, b
<1>5. b["has"] = base["has"] /\ b["live"] = base["live"] /\ b["peeking"] = own["peeking"]
  BY <1>2, <1>3, <1>4, OverIs
<1>. DEFINE c == [b EXCEPT !.moved = {"spaces", "folders", "images"}]
<1>6. Alike(b, c)
  BY <1>1 DEF BridgeFields, Alike
<1>. HIDE DEF c
<1>. QED  BY <1>1, <1>2, <1>3, <1>5, <1>6 DEF b, c

LEMMA NewAlone ==
    ASSUME NEW k
    PROVE  LET e == NewEngine(k)
           IN  /\ e.out = Nothing /\ ~e.open /\ ~e.knows /\ Busy(e) = {} /\ e.fetching = {}
               /\ DOMAIN e = EngineFields
<1>. DEFINE e == NewEngine(k)
<1>1. /\ e.out = Nothing /\ e.open = FALSE /\ e.knows = FALSE /\ e.waiting = {}
      /\ e.results = << >> /\ e.fetching = {} /\ DOMAIN e = EngineFields
  BY DEF NewEngine, EngineFields
<1>. HIDE DEF e
<1>2. Busy(e) = {}
  BY <1>1 DEF Busy
<1>. QED  BY <1>1, <1>2 DEF e

LEMMA FreshHolds ==
    ASSUME NEW x, NEW k, NEW D, NEW P
    PROVE  Holds(x, [NewBridge EXCEPT !.moved = {"spaces", "folders", "images"}], NewEngine(k), D, P)
<1>. DEFINE b == NewBridge
            c == [NewBridge EXCEPT !.moved = {"spaces", "folders", "images"}]
            e == NewEngine(k)
<1>1. /\ b.has = FALSE /\ b.live = FALSE /\ b.joining = "no" /\ b.peeking = FALSE
      /\ b.replica = EmptyDoc /\ b.removedImages = {} /\ Alike(b, c)
  BY NewIs
<1>2. e.out = Nothing /\ ~e.open /\ Busy(e) = {}
  BY NewAlone
<1>. HIDE DEF b, c, e
<1>3. c.replica = EmptyDoc /\ c.removedImages = {} /\ ~c.live /\ Alone(c, e)
  BY <1>1, <1>2 DEF Alike, Alone
<1>4. Holds(x, c, e, D, P)
  BY <1>2, <1>3, NoneHolds
<1>. QED  BY <1>4 DEF c, e

LEMMA RestartImages ==
    ASSUME IInv, IInv', AInv, NEW d \in Devices, Restart(d)
    PROVE  AInv'
<1>. DEFINE c == [NewBridge EXCEPT !.moved = {"spaces", "folders", "images"}]
<1>1. /\ Spends /\ UNCHANGED <<server, history>>
      /\ \E k \in Clients \ clients : Changes(d, db[d], c, NewEngine(k))
  BY DEF Restart, Spends
<1>2. PICK k \in Clients \ clients : Changes(d, db[d], c, NewEngine(k))
  BY <1>1
<1>3. Holds(db[d], c, NewEngine(k), deleted', ToPush')
  BY FreshHolds
<1>. HIDE DEF c
<1>4. Sets(d, db[d], c, NewEngine(k))
  BY <1>2, ChangesIs
<1>5. /\ deleted \subseteq deleted' /\ server'.log = server.log
      /\ server'.exists = server.exists /\ ToPush' = ToPush
  BY <1>1, Apart
<1>. QED  BY <1>3, <1>4, <1>5, OneHolds DEF Ahead

-----------------------------------------------------------------------------
(* Every step, and the beginning. *)

LEMMA EngineImages ==
    ASSUME IInv, IInv', MInv, AInv, NEW d \in Devices, EngineSteps(d)
    PROVE  AInv'
<1>1. CASE Connect(d)
  BY <1>1, ConnectImages
<1>2. CASE Disconnect(d)
  BY <1>2, DisconnectImages
<1>3. CASE Push(d)
  BY <1>3, PushImages
<1>4. CASE OpenIndex(d)
  BY <1>4, OpenIndexImages
<1>5. CASE Refuse(d)
  BY <1>5, GoneImages
<1>6. ASSUME NEW n \in DOMAIN bridge[d].creating, MakeDoc(d, n)
      PROVE  AInv'
  BY <1>6, MakeDocImages
<1>7. ASSUME NEW i \in ImageIds, StoreImage(d, i)
      PROVE  AInv'
  BY <1>7, StoreImageImages
<1>. QED  BY <1>1, <1>2, <1>3, <1>4, <1>5, <1>6, <1>7 DEF EngineSteps

LEMMA BridgeImages ==
    ASSUME IInv, IInv', MInv, AInv, NEW d \in Devices, BridgeSteps(d)
    PROVE  AInv'
<1>1. CASE Deliver(d)
  BY <1>1, DeliverImages
<1>2. CASE Synced(d)
  BY <1>2, SyncedImages
<1>3. CASE Idle(d)
  BY <1>3, IdleImages
<1>4. CASE SpacePushed(d)
  BY <1>4, SpacePushedImages
<1>5. CASE SpaceJoined(d)
  BY <1>5, SpaceJoinedImages
<1>6. CASE SpacePeeked(d)
  BY <1>6, SpacePeekedImages
<1>7. CASE SpaceRejected(d) \/ SpaceDeleted(d)
  BY <1>7, GoneImages
<1>8. ASSUME NEW n \in DOMAIN bridge[d].creating, DocCreated(d, n)
      PROVE  AInv'
  BY <1>8, DocCreatedImages
<1>9. CASE BlobUploaded(d)
  BY <1>9, BlobUploadedImages
<1>10. ASSUME NEW i \in ImageIds, BlobFetched(d, i)
       PROVE  AInv'
  BY <1>10, BlobFetchedImages
<1>11. CASE Reconcile(d)
  BY <1>11, ReconcileImages
<1>. QED  BY <1>1, <1>2, <1>3, <1>4, <1>5, <1>6, <1>7, <1>8, <1>9, <1>10, <1>11 DEF BridgeSteps

LEMMA UserImages ==
    ASSUME IInv, IInv', MInv, AInv, NEW d \in Devices, UserSteps(d)
    PROVE  AInv'
<1>1. CASE PushSpace(d) \/ FetchSpace(d) \/ PeekSpace(d) \/ ForgetSpace(d) \/ DestroySpace(d)
  BY <1>1, PushSpaceImages, AsksImages, ForgetSpaceImages, GoneImages
<1>2. ASSUME NEW f \in FolderIds, DeleteFolder(d, f)
      PROVE  AInv'
  BY <1>2, DeleteFolderImages
<1>3. ASSUME NEW i \in ImageIds, NEW name \in Names, PasteImage(d, i, name) \/ RenameImage(d, i, name)
      PROVE  AInv'
  BY <1>3, PasteImageImages, RenameImageImages
<1>4. ASSUME NEW i \in ImageIds, DeleteImage(d, i)
      PROVE  AInv'
  BY <1>4, DeleteImageImages
<1>. QED  BY <1>1, <1>2, <1>3, <1>4, EditsImages DEF UserSteps

LEMMA ImagesInductive ==
    IInv /\ IInv' /\ MInv /\ AInv /\ [Next]_vars => AInv'
<1>. SUFFICES ASSUME IInv, IInv', MInv, AInv, [Next]_vars PROVE AInv'
  OBVIOUS
<1>1. CASE Next
  BY <1>1, EngineImages, BridgeImages, UserImages, RestartImages DEF Next
<1>2. CASE UNCHANGED vars
  <2>1. UNCHANGED <<db, bridge, engine, server, start, deleted, intents>>
    BY <1>2 DEF vars, history
  <2>2. ToPush' = ToPush
    BY <2>1 DEF ToPush
  <2>3. Ahead' = Ahead
    BY <2>1, <2>2 DEF Ahead
  <2>. QED  BY <2>1, <2>2, <2>3 DEF AInv
<1>. QED  BY <1>1, <1>2

\* A device that begins caught up has what is listed.
LEMMA ReadyHolds ==
    ASSUME NEW x, NEW log, NEW k, NEW D, Sane(DocOf(log), D), x.space = "mapped",
           \A i \in ImageIds : Lists(DocOf(log), i) => i \in DOMAIN x.images /\ x.images[i].bytes,
           \A i \in DOMAIN x.images : x.images[i].push \/ x.images[i].bytes
    PROVE  Holds(x, CaughtUp(x, log), Online(NewEngine(k), log), D, FALSE)
<1>. DEFINE doc == DocOf(log)
            b == NewBridge
            e == NewEngine(k)
            T == [n \in Mapped(x) |-> doc[NoteKey(n)].value]
            c == CaughtUp(x, log)
            f == Online(e, log)
<1>1. c = [b EXCEPT !.has = TRUE, !.replica = doc, !.live = TRUE,
                    !.author = doc[NameKey].value # None, !.titles = T]
  BY DEF CaughtUp
<1>2. f = [e EXCEPT !.up = TRUE, !.knows = TRUE, !.open = TRUE, !.seen = Len(log),
                    !.target = Len(log)]
  BY DEF Online
<1>3. DOMAIN b = BridgeFields /\ b.removedImages = {}
  BY NewIs
<1>4. /\ e.out = Nothing /\ e.waiting = {} /\ e.results = << >> /\ DOMAIN e = EngineFields
  BY DEF NewEngine, EngineFields
<1>. HIDE DEF b, e, doc, T, c, f
<1>5. c.replica = doc /\ c.removedImages = {} /\ c.has = TRUE /\ c.live = TRUE
  BY <1>1, <1>3 DEF BridgeFields
<1>6. /\ f.up = TRUE /\ f.knows = TRUE /\ f.out = Nothing /\ f.waiting = {} /\ f.results = << >>
  BY <1>2, <1>4 DEF EngineFields
<1>7. Sane(c.replica, D) /\ Sane(f.out, D) /\ c.removedImages \subseteq D
  BY <1>5, <1>6, SaneNothing DEF doc
<1>8. Busy(f) = {}
  BY <1>6 DEF Busy
<1>9. Ready(x, c, f, D, FALSE)
  BY <1>5, <1>6, <1>7, <1>8 DEF Ready
<1>10. \A i \in ImageIds \ D : Shows(x, c, f, i)
  BY <1>5 DEF Shows, doc
<1>. QED  BY <1>9, <1>10 DEF Holds, c, f, e

LEMMA ImagesInit ==
    ASSUME Init
    PROVE  AInv
<1>1. PICK s \in Starts, client \in [Devices -> Clients] :
        /\ start.kinds = s.kinds /\ db = s.db /\ server = s.server
        /\ bridge = [d \in Devices |->
              IF d \in s.ready THEN CaughtUp(s.db[d], s.server.log)
              ELSE [NewBridge EXCEPT !.moved = {"spaces", "folders", "images"}]]
        /\ engine = [d \in Devices |->
              IF d \in s.ready THEN Online(NewEngine(client[d]), s.server.log)
              ELSE NewEngine(client[d])]
        /\ deleted = Removals(s.server.log)
  <2>1. PICK s \in Starts, client \in [Devices -> Clients] :
        /\ start = [kinds |-> s.kinds, ops |-> s.ops, drops |-> s.drops,
                    restarts |-> s.restarts, late |-> s.late, big |-> s.big]
        /\ db = s.db /\ server = s.server
        /\ bridge = [d \in Devices |->
              IF d \in s.ready THEN CaughtUp(s.db[d], s.server.log)
              ELSE [NewBridge EXCEPT !.moved = {"spaces", "folders", "images"}]]
        /\ engine = [d \in Devices |->
              IF d \in s.ready THEN Online(NewEngine(client[d]), s.server.log)
              ELSE NewEngine(client[d])]
        /\ deleted = Removals(s.server.log)
    BY DEF Init
  <2>2. start.kinds = s.kinds
    BY <2>1
  <2>. QED  BY <2>1, <2>2
<1>2. IsStart(s) /\ IsSettled(s) /\ IsServer(server)
  BY <1>1, StartsAssumption DEF IsStart
<1>. DEFINE L == server.log
            D == deleted
<1>3. Len(L) \in Nat /\ DOMAIN L = 1..Len(L) /\ \A j \in DOMAIN L : IsUpdate(L[j].update)
  BY <1>2 DEF IsServer
<1>4. s.server.log = L /\ s.server = server /\ s.db = db
  BY <1>1
<1>5. D = Removals(L)
  BY <1>1
<1>. HIDE DEF L, D
<1>6. \A j \in DOMAIN L : \A k \in DOMAIN L[j].update : L[j].update[k].path # << >>
  BY <1>2, <1>4 DEF IsSettled
<1>7. \A j \in DOMAIN L : Sane(L[j].update, D)
  <2>1. ASSUME NEW j \in DOMAIN L, NEW i \in ImageIds, ImageKey(i) \in DOMAIN L[j].update
        PROVE  /\ L[j].update[ImageKey(i)].path # << >>
               /\ ~Lists(L[j].update, i) => i \in D
    BY <1>5, <1>6, <2>1 DEF Lists, Removals
  <2>. QED  BY <2>1 DEF Sane
<1>8. Sound(L)
  <2>1. \A j, m \in DOMAIN L : \A k \in DOMAIN L[j].update :
            k \in DOMAIN L[m].update => Agree(L[j].update[k], L[m].update[k])
    BY <1>2, <1>4 DEF IsSettled
  <2>. QED  BY <1>3, <2>1 DEF Sound, AgreeAll
<1>9. ~server.exists => L = << >> /\ s.ready = {}
  BY <1>2, <1>4 DEF IsSettled
<1>10. ASSUME NEW d \in Devices PROVE Holds(db[d], bridge[d], engine[d], D, ToPush)
  <2>1. CASE d \in s.ready
    <3>. DEFINE x == db[d]
                cc == CaughtUp(x, L)
                ff == Online(NewEngine(client[d]), L)
    <3>1. bridge[d] = cc /\ engine[d] = ff
      BY <1>1, <1>4, <2>1
    <3>2. x.space = "mapped"
      BY <1>2, <1>4, <2>1 DEF IsStart
    <3>3. ~ToPush
      <4>1. "push" \notin s.kinds
        BY <1>2, <1>4, <1>9, <2>1 DEF IsSettled
      <4>. QED  BY <1>1, <4>1 DEF ToPush
    <3>4. /\ \A i \in Listed(DocOf(L), "image", ImageIds) : i \in DOMAIN x.images /\ x.images[i].bytes
          /\ \A i \in DOMAIN x.images : x.images[i].push \/ x.images[i].bytes
      BY <1>2, <1>4, <2>1 DEF IsSettled
    <3>. HIDE DEF x
    <3>5. \A i \in ImageIds : Lists(DocOf(L), i) => i \in DOMAIN x.images /\ x.images[i].bytes
      BY <3>4 DEF Lists, Listed, ImageKey
    <3>6. Sane(DocOf(L), D)
      BY <1>7, <1>8, SaneDocOf
    <3>7. Holds(x, cc, ff, D, FALSE)
      BY <3>2, <3>4, <3>5, <3>6, ReadyHolds
    <3>8. ToPush = FALSE
      BY <3>3 DEF ToPush
    <3>. QED  BY <3>1, <3>7, <3>8 DEF x
  <2>2. CASE d \notin s.ready
    <3>1. /\ bridge[d] = [NewBridge EXCEPT !.moved = {"spaces", "folders", "images"}]
          /\ engine[d] = NewEngine(client[d])
      BY <1>1, <2>2
    <3>. QED  BY <3>1, FreshHolds
  <2>. QED  BY <2>1, <2>2
<1>. QED  BY <1>7, <1>9, <1>10 DEF AInv, L, D

LEMMA ArriveHolds == Spec => []AInv
<1>1. Spec => []IInv
  BY InvHolds
<1>2. Spec => []MInv
  BY MergeHolds
<1>3. Init => AInv
  BY ImagesInit
<1>4. IInv /\ IInv' /\ MInv /\ AInv /\ [Next]_vars => AInv'
  BY ImagesInductive
<1>. QED  BY <1>1, <1>2, <1>3, <1>4, PTL DEF Spec

\* When everything is still, every image that is listed and that nobody has
\* deleted is there with its content (sync/app.rs, adopt_remote_blobs and
\* request_blob): it was pasted there, or was asked for when the index listed
\* it, at every connection anew, and the answer has come.
THEOREM ListedImagesArrive == Spec => []ImagesArrive
<1>1. ASSUME IInv, AInv, ReplicasConverge PROVE ImagesArrive
  <2>1. SUFFICES ASSUME Whole, \A d \in Devices : Still(d) /\ ~engine[d].lost, NEW d \in Devices,
                        NEW i \in Listed(DocOf(server.log), "image", ImageIds) \ deleted
                 PROVE  i \in DOMAIN db[d].images /\ db[d].images[i].bytes
    BY DEF ImagesArrive
  <2>2. i \in ImageIds \ deleted /\ Lists(DocOf(server.log), i)
    BY DEF Listed, Lists, ImageKey
  <2>3. /\ engine[d].open /\ ~engine[d].lost /\ engine[d].out = Nothing
        /\ engine[d].seen = Len(server.log) /\ engine[d].fetching = {}
        /\ db[d].space = "mapped" /\ bridge[d].live
    BY <2>1 DEF Still
  <2>4. CASE server.exists
    <3>1. bridge[d].replica = DocOf(server.log)
      BY <1>1, <2>1, <2>3, <2>4 DEF ReplicasConverge
    <3>2. Shows(db[d], bridge[d], engine[d], i)
      BY <1>1, <2>2, <2>3, <2>4 DEF AInv, Ahead, Holds
    <3>. QED  BY <2>2, <2>3, <3>1, <3>2 DEF Shows
  <2>5. CASE ~server.exists
    <3>1. server.log = << >>
      BY <1>1, <2>5 DEF AInv
    <3>. DEFINE L == server.log
    <3>2. Sound(L)
      <4>1. Logged(L, used, Kept)
        BY <1>1 DEF IInv, ServerGood
      <4>2. Len(L) \in Nat /\ DOMAIN L = 1..Len(L) /\ DOMAIN L = {}
        BY <3>1
      <4>. HIDE DEF L
      <4>. QED  BY <4>2 DEF Sound
    <3>3. DOMAIN L = {}
      BY <3>1
    <3>. HIDE DEF L
    <3>4. DocOf(L)[ImageKey(i)] \in MadeOf(L, ImageKey(i)) /\ ImageKey(i) \in Keys
      BY <2>2, <3>2, DocOfIsDoc, KeysAre
    <3>5. DocOf(L)[ImageKey(i)] = EmptyDoc[ImageKey(i)]
      BY <3>3, <3>4 DEF MadeOf
    <3>6. EmptyDoc[ImageKey(i)].value = None
      BY <3>4, EmptyItem
    <3>. QED  BY <2>2, <3>5, <3>6 DEF Lists, L
  <2>. QED  BY <2>4, <2>5
<1>. QED  BY <1>1, InvHolds, ArriveHolds, ReplicasAgree, PTL
=============================================================================
