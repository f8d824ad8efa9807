-------------------------- MODULE SpaceKeysProofs ---------------------------
(***************************************************************************)
(* What holds of the keys and the log of a space for any number of         *)
(* clients, changes, frames and faults.                                    *)
(*                                                                         *)
(* With one owner every copy of the log is a prefix of the owner's own, or *)
(* of the relay's after the owner has restarted, and each key in it was    *)
(* made once.  So who holds a key was wrapped it by the owner, who had the *)
(* change that made the key in its log and the holder as a member there.   *)
(***************************************************************************)
EXTENDS SpaceKeys, TLAPS, FiniteSetTheorems, WellFoundedInduction

-----------------------------------------------------------------------------
(* The inductive invariant. *)

\* The epoch a log is in after its first n changes.
EpochAt(l, n) == Cardinality({i \in 1..n : l[i].role = "None"})

\* t is a prefix of l.
Extends(l, t) == Len(t) <= Len(l) /\ \A i \in 1..Len(t) : t[i] = l[i]

\* A log of one owner: the creation, then changes of others' roles by the creator, in
\* sequence; a removal, and nothing else, starts the next epoch with a key of its own.
Genuine(l) ==
    /\ l # <<>> => l[1] = Create
    /\ \A i \in DOMAIN l : i # 1 =>
        /\ l[i].by = Creator /\ l[i].who # Creator
        /\ l[i].seq = i - 1
        /\ l[i].role = "None" => l[i].epoch = EpochAt(l, i) /\ l[i].key # NoKey
        /\ l[i].role # "None" => l[i].key = NoKey
    /\ \A i, j \in DOMAIN l : l[i].key = l[j].key /\ l[i].key # NoKey => i = j

LogsGenuine ==
    /\ relayLog # <<>>
    /\ \A l \in {relayLog, log[Creator]} :
        Genuine(l) /\ \A i \in DOMAIN l : l[i].key <= keysMade

\* The owner is ahead of the relay, the relay of everyone else and of what is on its way;
\* an owner that has restarted knows nothing until it is served the whole log.
LogsAgree ==
    /\ log[Creator] # <<>> => Extends(log[Creator], relayLog)
    /\ \A c \in Client : c # Creator => Extends(relayLog, log[c])
    /\ \A c \in Client : Extends(relayLog, served[c])
    /\ \A c \in Client : \A d \in Range(down[c]) :
        d.type = "Membership" =>
            /\ Extends(relayLog, d.ops)
            /\ c = Creator /\ log[c] = <<>> => d.ops = relayLog
    /\ log[Creator] = <<>> => faults # 0

\* A change on its way is one of the owner's log, with rows for members of that time and
\* keys that log commits to.
IsChange(q) == q.type = "Change"
OwnChange(l, q) ==
    /\ q.op.seq + 1 \in DOMAIN l
    /\ q.op = l[q.op.seq + 1]
    /\ \A r \in q.rows :
        /\ \E i \in 1..q.op.seq + 1 : l[i].key = r.key
        /\ Role(SubSeq(l, 1, q.op.seq + 1), r.to) # "None"
ChangesFromOwner ==
    \A c \in Client : \A q \in Range(up[c]) :
        IsChange(q) => c = Creator /\ OwnChange(log[Creator], q)

\* m was a member at or after the change that made key k.
Placed(m, k) ==
    \E i \in DOMAIN relayLog : \E j \in i..Len(relayLog) :
        relayLog[i].key = k /\ Role(SubSeq(relayLog, 1, j), m) # "None"
RowsPlaced == \A r \in rows : Placed(r.to, r.key)

\* An engine holds the keys its log commits to.
KeysFromLogs ==
    \A c \in Client : \A e \in DOMAIN keys[c] :
        \E i \in DOMAIN log[c] : log[c][i].epoch = e /\ log[c][i].key = keys[c][e]

\* What anyone but the owner holds, or is on its way to it, the relay has stored for it.
Wrapped(m, k) == \E r \in rows : r.to = m /\ r.key = k
KeysFromRows ==
    \A c \in Client : c # Creator =>
        /\ \A e \in DOMAIN keys[c] : Wrapped(c, keys[c][e])
        /\ \A v \in Range(parked[c]) : Wrapped(c, v.key)
        /\ \A d \in Range(down[c]) : d.type = "Envelopes" =>
            \A v \in Range(d.envelopes) : Wrapped(c, v.key)

\* The changes on their way in u are those from n to m - 1, in order.
Queued(u, n, m) ==
    /\ \A j \in DOMAIN u : IsChange(u[j]) => u[j].op.seq >= n
    /\ \A j, k \in DOMAIN u :
        IsChange(u[j]) /\ IsChange(u[k]) /\ j < k => u[j].op.seq < u[k].op.seq
    /\ \A i \in n..m - 1 : \E j \in DOMAIN u : IsChange(u[j]) /\ u[j].op.seq = i
ChangesQueued ==
    faults = 0 => Queued(up[Creator], Len(relayLog), Len(log[Creator])) /\ ~refused

InformedInv ==
    Informed => /\ LogsGenuine /\ LogsAgree /\ ChangesFromOwner
                /\ RowsPlaced /\ KeysFromLogs /\ KeysFromRows /\ ChangesQueued

\* There is a number left for every edit that waits to be sealed.
SealedFits == sealed + Cardinality({d \in Client : pending[d]}) <= MaxFrames

IInv == TypeOK /\ SealedFits /\ InformedInv

-----------------------------------------------------------------------------
(* Natural numbers and sequences. *)

LEMMA LeastNat ==
    ASSUME NEW T \in SUBSET Nat, T # {}
    PROVE  \E n \in T : \A m \in T : n <= m
<1>. DEFINE R == OpToRel(<, Nat)
<1>1. IsWellFoundedOn(R, Nat)
  BY NatLessThanWellFounded
<1>2. PICK n \in T : \A m \in T : ~(<<m, n>> \in R)
  <2>. HIDE DEF R
  <2>. QED  BY <1>1, WFMin
<1>3. \A m \in T : ~(m < n)
  BY <1>2 DEF OpToRel
<1>. QED  BY <1>3

LEMMA LargestExists ==
    ASSUME NEW n \in Nat, NEW I \in SUBSET (1..n), I # {}
    PROVE  /\ Max(I) \in I
           /\ \A i \in I : i <= Max(I)
<1>. DEFINE T == {b \in Nat : \A i \in I : i <= b}
<1>1. n \in T /\ T \in SUBSET Nat
  OBVIOUS
<1>2. PICK b \in T : \A m \in T : b <= m
  BY <1>1, LeastNat
<1>3. b \in I
  <2>1. SUFFICES ASSUME b \notin I PROVE FALSE
    OBVIOUS
  <2>2. PICK i \in I : i <= b
    BY <1>2
  <2>3. b - 1 \in T
    BY <1>2, <2>1, <2>2
  <2>. QED  BY <1>2, <2>3
<1>4. b \in I /\ \A y \in I : b >= y
  BY <1>2, <1>3
<1>. QED  BY <1>4 DEF Max

LEMMA Members2 ==
    ASSUME NEW S, NEW s \in Seq(S), NEW x
    PROVE  x \in Range(s) <=> \E i \in 1..Len(s) : s[i] = x
BY DEF Range

LEMMA PrefixIs ==
    ASSUME NEW S, NEW s \in Seq(S), NEW n \in 0..Len(s)
    PROVE  /\ SubSeq(s, 1, n) \in Seq(S)
           /\ Len(SubSeq(s, 1, n)) = n
           /\ \A i \in 1..n : SubSeq(s, 1, n)[i] = s[i]
OBVIOUS

LEMMA ExtendsIsPrefix ==
    ASSUME NEW S, NEW s \in Seq(S), NEW t \in Seq(S)
    PROVE  IsPrefix(t, s) <=> Extends(s, t)
<1>1. CASE Len(t) <= Len(s)
  <2>1. /\ Len(SubSeq(s, 1, Len(t))) = Len(t) /\ SubSeq(s, 1, Len(t)) \in Seq(S)
        /\ \A i \in 1..Len(t) : SubSeq(s, 1, Len(t))[i] = s[i]
    BY <1>1, PrefixIs
  <2>2. SubSeq(t, 1, Len(t)) = t
    OBVIOUS
  <2>3. SubSeq(s, 1, Len(t)) = t <=> \A i \in 1..Len(t) : t[i] = s[i]
    BY <2>1
  <2>. QED  BY <1>1, <2>2, <2>3 DEF IsPrefix, Extends
<1>2. CASE ~(Len(t) <= Len(s))
  BY <1>2 DEF IsPrefix, Extends
<1>. QED  BY <1>1, <1>2

-----------------------------------------------------------------------------
(* The membership that a log results in. *)

LEMMA LastRole ==
    ASSUME NEW l \in Seq(Op), NEW m, NEW p \in 1..Len(l), l[p].who = m,
           \A q \in 1..Len(l) : l[q].who = m => q <= p
    PROVE  Role(l, m) = l[p].role
<1>. DEFINE I == {i \in DOMAIN l : l[i].who = m}
<1>1. p \in I /\ I \in SUBSET (1..Len(l)) /\ Len(l) \in Nat /\ \A q \in I : q <= p
  OBVIOUS
<1>2. Max(I) \in I /\ \A i \in I : i <= Max(I)
  BY <1>1, LargestExists
<1>3. Role(l, m) = l[Max(I)].role
  BY <1>1 DEF Role
<1>. HIDE DEF I
<1>4. \A x \in I : (\A i \in I : i <= x) => x = p
  BY <1>1
<1>5. Max(I) = p
  BY <1>2, <1>4
<1>. QED  BY <1>3, <1>5

LEMMA RoleFrom ==
    ASSUME NEW l \in Seq(Op), NEW m, Role(l, m) # "None"
    PROVE  \E p \in 1..Len(l) :
              /\ l[p].who = m /\ l[p].role = Role(l, m)
              /\ \A q \in 1..Len(l) : l[q].who = m => q <= p
<1>. DEFINE I == {i \in DOMAIN l : l[i].who = m}
<1>1. I # {} /\ I \in SUBSET (1..Len(l)) /\ Len(l) \in Nat
  BY DEF Role
<1>2. Max(I) \in I /\ \A i \in I : i <= Max(I)
  BY <1>1, LargestExists
<1>3. Role(l, m) = l[Max(I)].role
  BY <1>1 DEF Role
<1>4. \A q \in 1..Len(l) : q \in I <=> l[q].who = m
  OBVIOUS
<1>. HIDE DEF I
<1>. QED  BY <1>1, <1>2, <1>3, <1>4

\* A role lost is the last entry's.
LEMMA NoRole ==
    ASSUME NEW l \in Seq(Op), NEW m, Role(l, m) = "None", NEW i \in 1..Len(l), l[i].who = m
    PROVE  \E p \in 1..Len(l) :
              /\ l[p].who = m /\ l[p].role = "None"
              /\ \A q \in 1..Len(l) : l[q].who = m => q <= p
<1>. DEFINE I == {j \in DOMAIN l : l[j].who = m}
<1>1. I # {} /\ I \in SUBSET (1..Len(l)) /\ Len(l) \in Nat
  OBVIOUS
<1>2. Max(I) \in I /\ \A j \in I : j <= Max(I)
  BY <1>1, LargestExists
<1>3. Role(l, m) = l[Max(I)].role
  BY <1>1 DEF Role
<1>4. \A q \in 1..Len(l) : q \in I <=> l[q].who = m
  OBVIOUS
<1>. HIDE DEF I
<1>. QED  BY <1>1, <1>2, <1>3, <1>4

LEMMA AppendIs ==
    ASSUME NEW S, NEW l \in Seq(S), NEW x \in S
    PROVE  /\ Append(l, x) \in Seq(S) /\ Len(l) \in Nat /\ DOMAIN l = 1..Len(l)
           /\ Len(Append(l, x)) = Len(l) + 1 /\ DOMAIN Append(l, x) = 1..Len(l) + 1
           /\ Append(l, x)[Len(l) + 1] = x
           /\ \A i \in 1..Len(l) : Append(l, x)[i] = l[i]
<1>1. /\ Append(l, x) \in Seq(S) /\ Len(l) \in Nat /\ DOMAIN l = 1..Len(l)
      /\ Len(Append(l, x)) = Len(l) + 1
  OBVIOUS
<1>2. DOMAIN Append(l, x) = 1..Len(l) + 1
  BY <1>1
<1>3. Append(l, x)[Len(l) + 1] = x
  BY <1>1
<1>4. \A i \in 1..Len(l) : Append(l, x)[i] = l[i]
  BY <1>1
<1>. QED  BY <1>1, <1>2, <1>3, <1>4

LEMMA RoleAppended ==
    ASSUME NEW l \in Seq(Op), NEW op \in Op
    PROVE  Role(Append(l, op), op.who) = op.role
<1>. DEFINE t == Append(l, op)
<1>1. t \in Seq(Op) /\ Len(t) = Len(l) + 1 /\ t[Len(l) + 1] = op /\ Len(l) \in Nat
  BY AppendIs
<1>. HIDE DEF t
<1>2. /\ Len(l) + 1 \in 1..Len(t) /\ t[Len(l) + 1].who = op.who
      /\ \A q \in 1..Len(t) : t[q].who = op.who => q <= Len(l) + 1
  BY <1>1
<1>3. Role(t, op.who) = t[Len(l) + 1].role
  BY <1>1, <1>2, LastRole
<1>. QED  BY <1>1, <1>3 DEF t

LEMMA SameRole ==
    ASSUME NEW l \in Seq(Op), NEW t \in Seq(Op), Extends(t, l), NEW n \in 0..Len(l), NEW m
    PROVE  Role(SubSeq(l, 1, n), m) = Role(SubSeq(t, 1, n), m)
<1>1. SubSeq(l, 1, n) = SubSeq(t, 1, n)
  BY DEF Extends
<1>. QED  BY <1>1

LEMMA Removals ==
    ASSUME NEW l \in Seq(Op), NEW n \in 0..Len(l)
    PROVE  /\ EpochAt(l, n) \in 0..n
           /\ n # 0 => EpochAt(l, n) = EpochAt(l, n - 1) + (IF l[n].role = "None" THEN 1 ELSE 0)
           /\ n = 0 => EpochAt(l, n) = 0
<1>. DEFINE R(k) == {i \in 1..k : l[i].role = "None"}
<1>1. \A k \in 0..n : IsFiniteSet(R(k)) /\ Cardinality(R(k)) \in 0..k
  <2>1. TAKE k \in 0..n
  <2>2. IsFiniteSet(1..k) /\ Cardinality(1..k) = k
    BY FS_Interval
  <2>3. R(k) \in SUBSET (1..k)
    OBVIOUS
  <2>. HIDE DEF R
  <2>4. IsFiniteSet(R(k)) /\ Cardinality(R(k)) <= k
    BY <2>2, <2>3, FS_Subset
  <2>. QED  BY <2>4, FS_CardinalityType
<1>2. ASSUME n # 0, l[n].role = "None"
      PROVE  Cardinality(R(n)) = Cardinality(R(n - 1)) + 1
  <2>1. R(n) = R(n - 1) \cup {n} /\ n \notin R(n - 1) /\ n - 1 \in 0..n
    BY <1>2
  <2>. HIDE DEF R
  <2>. QED  BY <2>1, <1>1, FS_AddElement
<1>3. ASSUME n # 0, l[n].role # "None"
      PROVE  R(n) = R(n - 1)
  BY <1>3
<1>4. n = 0 => R(n) = {}
  OBVIOUS
<1>5. \A k \in 0..n : EpochAt(l, k) = Cardinality(R(k))
  BY DEF EpochAt
<1>. HIDE DEF R
<1>6. n # 0 => n - 1 \in 0..n
  OBVIOUS
<1>. QED  BY <1>1, <1>2, <1>3, <1>4, <1>5, <1>6, FS_EmptySet

-----------------------------------------------------------------------------
(* Genuine logs. *)

LEMMA EpochGrows ==
    ASSUME NEW l \in Seq(Op), NEW n \in 0..Len(l), NEW m \in 0..n
    PROVE  EpochAt(l, m) <= EpochAt(l, n)
<1>. DEFINE R(k) == {i \in 1..k : l[i].role = "None"}
<1>1. IsFiniteSet(1..n)
  BY FS_Interval
<1>2. R(n) \in SUBSET (1..n) /\ R(m) \in SUBSET R(n)
  OBVIOUS
<1>3. EpochAt(l, m) = Cardinality(R(m)) /\ EpochAt(l, n) = Cardinality(R(n))
  BY DEF EpochAt
<1>. HIDE DEF R
<1>4. IsFiniteSet(R(n))
  BY <1>1, <1>2, FS_Subset
<1>5. Cardinality(R(m)) <= Cardinality(R(n))
  BY <1>2, <1>4, FS_Subset
<1>. QED  BY <1>3, <1>5

LEMMA EpochOfPrefix ==
    ASSUME NEW l \in Seq(Op), NEW t \in Seq(Op), Extends(t, l), NEW n \in 0..Len(l)
    PROVE  EpochAt(l, n) = EpochAt(t, n)
<1>1. {i \in 1..n : l[i].role = "None"} = {i \in 1..n : t[i].role = "None"}
  BY DEF Extends
<1>. QED  BY <1>1 DEF EpochAt

LEMMA EpochOfLog ==
    ASSUME NEW l \in Seq(Op)
    PROVE  Epoch(l) = EpochAt(l, Len(l))
<1>1. {i \in DOMAIN l : l[i].role = "None"} = {i \in 1..Len(l) : l[i].role = "None"}
  OBVIOUS
<1>. QED  BY <1>1 DEF Epoch, EpochAt

LEMMA PrefixExtends ==
    ASSUME NEW l \in Seq(Op), NEW n \in 0..Len(l)
    PROVE  /\ SubSeq(l, 1, n) \in Seq(Op) /\ Len(SubSeq(l, 1, n)) = n
           /\ Extends(l, SubSeq(l, 1, n))
BY PrefixIs DEF Extends

LEMMA ExtendsTransitive ==
    ASSUME NEW r \in Seq(Op), NEW s \in Seq(Op), NEW t \in Seq(Op),
           Extends(r, s), Extends(s, t)
    PROVE  Extends(r, t)
BY DEF Extends

\* Two copies of one log: the longer one extends the shorter.
LEMMA PrefixesCompare ==
    ASSUME NEW r \in Seq(Op), NEW s \in Seq(Op), NEW t \in Seq(Op),
           Extends(r, s), Extends(r, t), Len(s) <= Len(t)
    PROVE  Extends(t, s)
BY DEF Extends

LEMMA ExtendsEqual ==
    ASSUME NEW s \in Seq(Op), NEW t \in Seq(Op), Extends(s, t), Len(s) <= Len(t)
    PROVE  s = t
BY DEF Extends

LEMMA GenuinePrefix ==
    ASSUME NEW l \in Seq(Op), NEW t \in Seq(Op), Genuine(t), Extends(t, l)
    PROVE  Genuine(l)
<1>1. \A i \in 1..Len(l) : l[i] = t[i] /\ i \in 1..Len(t) /\ i \in 0..Len(l)
  BY DEF Extends
<1>2. \A i \in 1..Len(l) : EpochAt(l, i) = EpochAt(t, i)
  BY <1>1, EpochOfPrefix
<1>3. l # <<>> => l[1] = Create
  BY <1>1 DEF Genuine
<1>4. /\ DOMAIN l = 1..Len(l) /\ DOMAIN t = 1..Len(t)
  OBVIOUS
<1>5. ASSUME NEW i \in 1..Len(l), i # 1
      PROVE  /\ l[i].by = Creator /\ l[i].who # Creator /\ l[i].seq = i - 1
             /\ l[i].role = "None" => l[i].epoch = EpochAt(l, i) /\ l[i].key # NoKey
             /\ l[i].role # "None" => l[i].key = NoKey
  <2>1. l[i] = t[i] /\ i \in DOMAIN t /\ EpochAt(l, i) = EpochAt(t, i)
    BY <1>1, <1>2, <1>4
  <2>. QED  BY <2>1, <1>5 DEF Genuine
<1>6. ASSUME NEW i \in 1..Len(l), NEW j \in 1..Len(l), l[i].key = l[j].key, l[i].key # NoKey
      PROVE  i = j
  <2>1. l[i] = t[i] /\ i \in DOMAIN t /\ l[j] = t[j] /\ j \in DOMAIN t
    BY <1>1, <1>4
  <2>. QED  BY <2>1, <1>6 DEF Genuine
<1>. QED  BY <1>3, <1>4, <1>5, <1>6 DEF Genuine

LEMMA FirstEpoch ==
    ASSUME NEW l \in Seq(Op), Genuine(l), l # <<>>
    PROVE  l[1] = Create /\ EpochAt(l, 1) = 0
<1>1. l[1] = Create
  BY DEF Genuine
<1>2. {i \in 1..1 : l[i].role = "None"} = {}
  BY <1>1 DEF Create
<1>. QED  BY <1>1, <1>2, FS_EmptySet DEF EpochAt

\* An entry with a key has the epoch that it started.
LEMMA KeyedEntry ==
    ASSUME NEW l \in Seq(Op), Genuine(l), NEW i \in 1..Len(l), l[i].key # NoKey
    PROVE  l[i].epoch = EpochAt(l, i)
<1>1. CASE i = 1
  <2>1. l[1] = Create /\ EpochAt(l, 1) = 0
    BY FirstEpoch
  <2>. QED  BY <1>1, <2>1 DEF Create
<1>2. CASE i # 1
  BY <1>2 DEF Genuine
<1>. QED  BY <1>1, <1>2

\* Every epoch up to the log's has an entry that commits to its key.
LEMMA Commits ==
    ASSUME NEW l \in Seq(Op), Genuine(l), l # <<>>, NEW e \in 0..Epoch(l)
    PROVE  \E i \in 1..Len(l) :
              l[i].epoch = e /\ l[i].key # NoKey /\ l[i].key = Commitment(l, e)
<1>. DEFINE T == {n \in Nat : n \in 1..Len(l) /\ e <= EpochAt(l, n)}
<1>1. Len(l) \in T /\ T \in SUBSET Nat /\ Len(l) \in 1..Len(l)
  BY EpochOfLog
<1>2. PICK n \in T : \A m \in T : n <= m
  BY <1>1, LeastNat
<1>3. n \in 1..Len(l) /\ n \in 0..Len(l) /\ EpochAt(l, n) \in Nat /\ e <= EpochAt(l, n)
  BY <1>2, Removals
<1>4. l[n].epoch = e /\ l[n].key # NoKey
  <2>1. CASE n = 1
    <3>1. l[1] = Create /\ EpochAt(l, 1) = 0
      BY FirstEpoch
    <3>. QED  BY <1>3, <2>1, <3>1 DEF Create, NoKey
  <2>2. CASE n # 1
    <3>1. n - 1 \notin T /\ n - 1 \in 1..Len(l)
      BY <1>2, <1>3, <2>2
    <3>2. EpochAt(l, n - 1) < e
      <4>1. EpochAt(l, n - 1) \in Nat
        BY <3>1, Removals
      <4>. QED  BY <3>1, <4>1
    <3>3. EpochAt(l, n) = EpochAt(l, n - 1) + (IF l[n].role = "None" THEN 1 ELSE 0)
      BY <1>3, <2>2, Removals
    <3>4. EpochAt(l, n - 1) \in Nat
      BY <3>1, Removals
    <3>5. l[n].role = "None" /\ EpochAt(l, n) = e
      BY <1>3, <3>2, <3>3, <3>4
    <3>. QED  BY <1>3, <2>2, <3>5 DEF Genuine
  <2>. QED  BY <2>1, <2>2
<1>5. \E o \in Range(l) : o.epoch = e /\ o.key # NoKey
  BY <1>3, <1>4, Members2
<1>6. PICK o \in Range(l) : o.epoch = e /\ o.key # NoKey /\ Commitment(l, e) = o.key
  BY <1>5 DEF Commitment
<1>. QED  BY <1>6, Members2

\* No entry after the one with the current key removes anybody.
LEMMA CurrentKey ==
    ASSUME NEW l \in Seq(Op), Genuine(l),
           NEW i \in 1..Len(l), l[i].key # NoKey, l[i].epoch = Epoch(l),
           NEW p \in 1..Len(l), l[p].role = "None"
    PROVE  p <= i
<1>1. SUFFICES ASSUME i < p PROVE FALSE
  OBVIOUS
<1>2. EpochAt(l, i) = EpochAt(l, Len(l))
  BY KeyedEntry, EpochOfLog
<1>3. p \in 0..Len(l) /\ p # 0 /\ p - 1 \in 0..Len(l) /\ i \in 0..p - 1 /\ p \in 0..Len(l)
      /\ Len(l) \in 0..Len(l) /\ p \in 0..Len(l) /\ i \in 0..Len(l)
  BY <1>1
<1>4. EpochAt(l, p) = EpochAt(l, p - 1) + 1
  BY <1>3, Removals
<1>5. EpochAt(l, i) <= EpochAt(l, p - 1) /\ EpochAt(l, p) <= EpochAt(l, Len(l))
  BY <1>3, EpochGrows
<1>6. EpochAt(l, i) \in Nat /\ EpochAt(l, p - 1) \in Nat
  BY <1>3, Removals
<1>. QED  BY <1>2, <1>4, <1>5, <1>6

\* The creator is an owner for good.
LEMMA CreatorStays ==
    ASSUME NEW l \in Seq(Op), Genuine(l), NEW n \in 1..Len(l)
    PROVE  Role(SubSeq(l, 1, n), Creator) = "Owner"
<1>. DEFINE t == SubSeq(l, 1, n)
<1>1. /\ t \in Seq(Op) /\ Len(t) = n /\ \A i \in 1..n : t[i] = l[i]
      /\ n \in 0..Len(l) /\ l # <<>>
  OBVIOUS
<1>2. l[1] = Create /\ \A i \in 1..Len(l) : i # 1 => l[i].who # Creator
  BY <1>1 DEF Genuine
<1>. HIDE DEF t
<1>3. /\ 1 \in 1..Len(t) /\ t[1].who = Creator /\ t[1].role = "Owner"
      /\ \A q \in 1..Len(t) : t[q].who = Creator => q <= 1
  BY <1>1, <1>2 DEF Create
<1>4. Role(t, Creator) = "Owner"
  BY <1>1, <1>3, LastRole
<1>. QED  BY <1>4 DEF t

LEMMA GenuineAppend ==
    ASSUME NEW l \in Seq(Op), Genuine(l), l # <<>>, NEW op \in Op,
           op.by = Creator, op.who # Creator, op.seq = Len(l),
           op.role = "None" => op.epoch = Epoch(l) + 1 /\ op.key # NoKey,
           op.role # "None" => op.key = NoKey,
           \A i \in 1..Len(l) : op.key # NoKey => l[i].key # op.key
    PROVE  Genuine(Append(l, op)) /\ Extends(Append(l, op), l)
<1>. DEFINE t == Append(l, op)
            n == Len(l) + 1
<1>1. /\ t \in Seq(Op) /\ Len(t) = n /\ t[n] = op /\ Len(l) \in Nat
      /\ \A i \in 1..Len(l) : t[i] = l[i]
  BY AppendIs
<1>2. Extends(t, l)
  BY <1>1 DEF Extends
<1>3. \A i \in 0..Len(l) : EpochAt(l, i) = EpochAt(t, i)
  <2>. HIDE DEF t
  <2>. QED  BY <1>1, <1>2, EpochOfPrefix
<1>4. EpochAt(t, n) = EpochAt(t, n - 1) + (IF t[n].role = "None" THEN 1 ELSE 0)
  <2>1. n \in 0..Len(t) /\ n # 0
    BY <1>1
  <2>. HIDE DEF t, n
  <2>. QED  BY <1>1, <2>1, Removals
<1>5. EpochAt(t, n - 1) = Epoch(l)
  <2>1. n - 1 = Len(l) /\ Len(l) \in 0..Len(l)
    BY <1>1
  <2>. HIDE DEF t, n
  <2>. QED  BY <1>3, <2>1, EpochOfLog
<1>6. Len(l) # 0 /\ t[1] = Create
  BY <1>1 DEF Genuine
<1>. HIDE DEF t
<1>7. ASSUME NEW i \in 1..Len(t), i # 1
      PROVE  /\ t[i].by = Creator /\ t[i].who # Creator /\ t[i].seq = i - 1
             /\ t[i].role = "None" => t[i].epoch = EpochAt(t, i) /\ t[i].key # NoKey
             /\ t[i].role # "None" => t[i].key = NoKey
  <2>1. CASE i = n
    BY <1>1, <1>4, <1>5, <2>1
  <2>2. CASE i # n
    <3>1. i \in 1..Len(l) /\ t[i] = l[i]
      BY <1>1, <2>2
    <3>2. EpochAt(l, i) = EpochAt(t, i)
      BY <1>3, <3>1
    <3>. QED  BY <1>7, <3>1, <3>2 DEF Genuine
  <2>. QED  BY <2>1, <2>2
<1>8. ASSUME NEW i \in 1..Len(t), NEW j \in 1..Len(t), t[i].key = t[j].key, t[i].key # NoKey
      PROVE  i = j
  <2>1. CASE i = n \/ j = n
    BY <1>1, <1>8, <2>1
  <2>2. CASE i # n /\ j # n
    BY <1>1, <1>8, <2>2 DEF Genuine
  <2>. QED  BY <2>1, <2>2
<1>9. DOMAIN t = 1..Len(t)
  BY <1>1
<1>10. Genuine(t)
  BY <1>6, <1>7, <1>8, <1>9 DEF Genuine
<1>. QED  BY <1>2, <1>10 DEF t

-----------------------------------------------------------------------------
(* Types of what the helpers return. *)

\* The indices of I up to k.
Below(I, k) == {j \in I : j <= k}

LEMMA BelowEnds ==
    ASSUME NEW n \in Nat, NEW I \in SUBSET (1..n)
    PROVE  Below(I, n) = I /\ Below(I, 0) = {}
<1>1. \A i \in I : i <= n /\ ~(i <= 0)
  OBVIOUS
<1>2. \A x : x \in Below(I, n) <=> x \in I
  BY <1>1 DEF Below
<1>3. \A x : ~(x \in Below(I, 0))
  BY <1>1 DEF Below
<1>. QED  BY <1>2, <1>3

LEMMA BelowStep ==
    ASSUME NEW I \in SUBSET Nat, NEW k \in Nat, k # 0
    PROVE  /\ k \notin I => Below(I, k) = Below(I, k - 1)
           /\ k \in I => Below(I, k) = Below(I, k - 1) \cup {k} /\ k \notin Below(I, k - 1)
<1>1. \A i \in I : i <= k <=> i <= k - 1 \/ i = k
  OBVIOUS
<1>2. \A x : x \in Below(I, k) <=> x \in Below(I, k - 1) \/ (x \in I /\ x = k)
  BY <1>1 DEF Below
<1>3. k \notin Below(I, k - 1)
  BY DEF Below
<1>. QED  BY <1>2, <1>3

LEMMA RankExists ==
    ASSUME NEW n \in Nat, NEW I \in SUBSET (1..n), NEW m \in 1..Cardinality(I)
    PROVE  \E i \in I : Cardinality({j \in I : j <= i}) = m
<1>. DEFINE T == {k \in Nat : k <= n /\ m <= Cardinality(Below(I, k))}
<1>1. IsFiniteSet(I)
  <2>1. IsFiniteSet(1..n)
    BY FS_Interval
  <2>. QED  BY <2>1, FS_Subset
<1>2. ASSUME NEW k \in Nat
      PROVE  IsFiniteSet(Below(I, k)) /\ Cardinality(Below(I, k)) \in Nat
  <2>1. Below(I, k) \in SUBSET I
    BY DEF Below
  <2>. QED  BY <1>1, <2>1, FS_Subset, FS_CardinalityType
<1>3. Below(I, n) = I /\ Below(I, 0) = {}
  BY BelowEnds
<1>4. n \in T /\ T \in SUBSET Nat
  BY <1>1, <1>3, FS_CardinalityType
<1>5. PICK k \in T : \A j \in T : k <= j
  BY <1>4, LeastNat
<1>6. k \in Nat /\ m <= Cardinality(Below(I, k)) /\ k <= n
  BY <1>5
<1>7. k # 0
  BY <1>3, <1>6, FS_EmptySet
<1>8. k - 1 \in Nat /\ k - 1 \notin T
  BY <1>5, <1>6, <1>7
<1>9. Cardinality(Below(I, k - 1)) < m /\ Cardinality(Below(I, k - 1)) \in Nat
  BY <1>2, <1>6, <1>8
<1>10. I \in SUBSET Nat
  OBVIOUS
<1>11. k \in I
  <2>1. SUFFICES ASSUME k \notin I PROVE FALSE
    OBVIOUS
  <2>2. Below(I, k) = Below(I, k - 1)
    BY <1>6, <1>7, <1>10, <2>1, BelowStep
  <2>. QED  BY <1>6, <1>9, <2>2
<1>12. Below(I, k) = Below(I, k - 1) \cup {k} /\ k \notin Below(I, k - 1)
  BY <1>6, <1>7, <1>10, <1>11, BelowStep
<1>13. IsFiniteSet(Below(I, k - 1))
  BY <1>2, <1>8
<1>14. Cardinality(Below(I, k)) = Cardinality(Below(I, k - 1)) + 1
  BY <1>12, <1>13, FS_AddElement
<1>15. Cardinality(Below(I, k)) = m
  BY <1>6, <1>9, <1>14
<1>. QED  BY <1>11, <1>15 DEF Below

LEMMA InOrderIs ==
    ASSUME NEW S, NEW s \in Seq(S), NEW I \in SUBSET (1..Len(s))
    PROVE  /\ InOrder(s, I) \in Seq(S)
           /\ \A v \in Range(InOrder(s, I)) : \E i \in I : v = s[i]
<1>. DEFINE pick(m) == CHOOSE i \in I : Cardinality({j \in I : j <= i}) = m
            o == [m \in 1..Cardinality(I) |-> s[pick(m)]]
<1>1. Len(s) \in Nat /\ IsFiniteSet(1..Len(s))
  BY FS_Interval
<1>2. Cardinality(I) \in Nat
  BY <1>1, FS_Subset, FS_CardinalityType
<1>3. \A m \in 1..Cardinality(I) : pick(m) \in I
  BY <1>1, RankExists
<1>4. InOrder(s, I) = o
  BY DEF InOrder
<1>. HIDE DEF pick
<1>4a. \A m \in 1..Cardinality(I) : s[pick(m)] \in S
  <2>1. \A m \in 1..Cardinality(I) : pick(m) \in 1..Len(s)
    BY <1>3
  <2>2. \A i \in 1..Len(s) : s[i] \in S
    OBVIOUS
  <2>. QED  BY <2>1, <2>2
<1>5. /\ o \in [1..Cardinality(I) -> S]
      /\ \A m \in 1..Cardinality(I) : o[m] = s[pick(m)]
  BY <1>2, <1>4a
<1>. HIDE DEF o
<1>6. o \in Seq(S) /\ Len(o) = Cardinality(I)
  BY <1>2, <1>5
<1>7. \A v \in Range(o) : \E m \in 1..Cardinality(I) : v = o[m]
  BY <1>6, Members2
<1>8. ASSUME NEW v \in Range(o) PROVE \E i \in I : v = s[i]
  <2>1. PICK m \in 1..Cardinality(I) : v = o[m]
    BY <1>7
  <2>2. v = s[pick(m)]
    BY <1>5, <2>1
  <2>3. pick(m) \in I
    BY <1>3
  <2>. QED  BY <2>2, <2>3
<1>9. o \in Seq(S)
  BY <1>6
<1>. QED  BY <1>4, <1>8, <1>9

LEMMA KeyRingIs ==
    ASSUME NEW k
    PROVE  k \in KeyRing <=> DOMAIN k \in SUBSET Epochs /\ k \in [DOMAIN k -> Keys]
BY DEF KeyRing

\* A key is kept, or taken from an envelope that the log commits to.
LEMMA AbsorbedIs ==
    ASSUME NEW c, keys[c] \in KeyRing, NEW l \in Seq(Op), NEW held \in Seq(Envelope)
    PROVE  /\ Absorbed(c, l, held) \in KeyRing
           /\ DOMAIN keys[c] \in SUBSET DOMAIN Absorbed(c, l, held)
           /\ \A e \in DOMAIN keys[c] : Absorbed(c, l, held)[e] = keys[c][e]
           /\ \A e \in DOMAIN Absorbed(c, l, held) \ DOMAIN keys[c] :
                /\ l # <<>> /\ e <= Epoch(l)
                /\ Absorbed(c, l, held)[e] = Commitment(l, e)
                /\ \E v \in Range(held) : v.epoch = e /\ v.key = Absorbed(c, l, held)[e]
<1>1. CASE l = <<>>
  BY <1>1 DEF Absorbed
<1>2. CASE l # <<>>
  <2>. DEFINE good == {i \in DOMAIN held : /\ held[i].epoch <= Epoch(l)
                                           /\ held[i].key = Commitment(l, held[i].epoch)}
              new == {held[i].epoch : i \in good} \ DOMAIN keys[c]
              k == [e \in DOMAIN keys[c] \cup new |->
                      IF e \in new THEN Commitment(l, e) ELSE keys[c][e]]
  <2>1. Absorbed(c, l, held) = k
    BY <1>2 DEF Absorbed
  <2>2. \A i \in DOMAIN held : held[i] \in Range(held) /\ held[i] \in Envelope
    BY Members2
  <2>3. \A e \in new : /\ e \in Epochs /\ Commitment(l, e) \in Keys /\ e <= Epoch(l)
                       /\ \E v \in Range(held) : v.epoch = e /\ v.key = Commitment(l, e)
    BY <2>2 DEF Envelope
  <2>4. DOMAIN keys[c] \in SUBSET Epochs /\ keys[c] \in [DOMAIN keys[c] -> Keys]
    BY KeyRingIs
  <2>5. new \cap DOMAIN keys[c] = {}
    OBVIOUS
  <2>. HIDE DEF good, new
  <2>6. DOMAIN k \in SUBSET Epochs /\ k \in [DOMAIN k -> Keys]
    BY <2>3, <2>4
  <2>7. k \in KeyRing
    <3>. HIDE DEF k
    <3>. QED  BY <2>6, KeyRingIs
  <2>8. DOMAIN k = DOMAIN keys[c] \cup new
    OBVIOUS
  <2>9. /\ \A e \in DOMAIN keys[c] : k[e] = keys[c][e]
        /\ \A e \in new : k[e] = Commitment(l, e)
    BY <2>5
  <2>10. DOMAIN k \ DOMAIN keys[c] \in SUBSET new
    BY <2>8
  <2>. HIDE DEF k
  <2>. QED  BY <2>1, <2>3, <2>7, <2>8, <2>9, <2>10, <1>2
<1>. QED  BY <1>1, <1>2

LEMMA StillParkedIs ==
    ASSUME NEW l \in Seq(Op), NEW held \in Seq(Envelope)
    PROVE  /\ StillParked(l, held) \in Seq(Envelope)
           /\ Range(StillParked(l, held)) \in SUBSET Range(held)
<1>. DEFINE ahead == {i \in DOMAIN held :
                         held[i].epoch \in Epoch(l) + 1..Epoch(l) + MaxAhead}
<1>1. ahead \in SUBSET (1..Len(held))
  OBVIOUS
<1>2. StillParked(l, held) = IF l = <<>> THEN held ELSE InOrder(held, ahead)
  BY DEF StillParked
<1>. HIDE DEF ahead
<1>3. /\ InOrder(held, ahead) \in Seq(Envelope)
      /\ \A v \in Range(InOrder(held, ahead)) : \E i \in ahead : v = held[i]
  BY <1>1, InOrderIs
<1>4. Range(InOrder(held, ahead)) \in SUBSET Range(held)
  BY <1>1, <1>3, Members2
<1>. QED  BY <1>2, <1>3, <1>4

LEMMA UpMessageIs ==
    /\ \A a \in Answers : Fetch(a) \in UpMessages
    /\ \A op \in Op : \A s \in SUBSET Row : [type |-> "Change", op |-> op, rows |-> s] \in UpMessages
    /\ \A f \in Frame : [type |-> "PushUpdate", frame |-> f] \in UpMessages
    /\ \A q \in UpMessages :
        /\ q.type = "Change" => q.op \in Op /\ q.rows \in SUBSET Row
        /\ q.type = "PushUpdate" => q.frame \in Frame
<1>1. /\ \A a \in Answers : Fetch(a) \in [type : Answers]
      /\ \A q \in [type : Answers] : q.type # "Change" /\ q.type # "PushUpdate"
  BY DEF Fetch, Answers
<1>. QED  BY <1>1 DEF UpMessages

LEMMA DownMessageIs ==
    /\ [type |-> "EpochBump"] \in DownMessages
    /\ [type |-> "NotMember"] \in DownMessages
    /\ \A l \in Seq(Op) : [type |-> "Membership", ops |-> l] \in DownMessages
    /\ \A s \in Seq(Envelope) : [type |-> "Envelopes", envelopes |-> s] \in DownMessages
    /\ \A f \in Frame : [type |-> "Frame", frame |-> f] \in DownMessages
    /\ \A d \in DownMessages :
        /\ d.type = "Membership" => d.ops \in Seq(Op)
        /\ d.type = "Envelopes" => d.envelopes \in Seq(Envelope)
        /\ d.type = "Frame" => d.frame \in Frame
BY DEF DownMessages

LEMMA DataFinite == IsFiniteSet(Envelope) /\ IsFiniteSet(Frame)
<1>1. /\ IsFiniteSet(Epochs) /\ IsFiniteSet(Keys) /\ IsFiniteSet(Client)
      /\ IsFiniteSet(1..MaxFrames)
  BY FS_Interval, BoundsAssumption, ClientAssumption DEF Epochs, Keys
<1>2. IsFiniteSet(Epochs \X Keys) /\ IsFiniteSet(Client \X (1..MaxFrames))
  BY <1>1, FS_Product
<1>3. IsFiniteSet((Client \X (1..MaxFrames)) \X (Epochs \X Keys))
  BY <1>2, FS_Product
<1>4. IsFiniteSet(Envelope)
  <2>. DEFINE f == [t \in Epochs \X Keys |-> [epoch |-> t[1], key |-> t[2]]]
  <2>1. f \in [Epochs \X Keys -> Envelope]
    BY DEF Envelope
  <2>2. ASSUME NEW v \in Envelope PROVE \E t \in Epochs \X Keys : f[t] = v
    <3>1. <<v.epoch, v.key>> \in Epochs \X Keys /\ f[<<v.epoch, v.key>>] = v
      BY DEF Envelope
    <3>. QED  BY <3>1
  <2>3. f \in Surjection(Epochs \X Keys, Envelope)
    <3>. HIDE DEF f
    <3>. QED  BY <2>1, <2>2 DEF Surjection
  <2>. QED  BY <1>2, <2>3, FS_Surjection
<1>5. IsFiniteSet(Frame)
  <2>. DEFINE D == (Client \X (1..MaxFrames)) \X (Epochs \X Keys)
              f == [t \in D |-> [by |-> t[1][1], n |-> t[1][2], epoch |-> t[2][1], key |-> t[2][2]]]
  <2>1. f \in [D -> Frame]
    BY DEF Frame
  <2>2. ASSUME NEW v \in Frame PROVE \E t \in D : f[t] = v
    <3>. DEFINE t == <<<<v.by, v.n>>, <<v.epoch, v.key>>>>
    <3>1. t \in D /\ f[t] = v
      BY DEF Frame
    <3>. QED  BY <3>1
  <2>3. f \in Surjection(D, Frame)
    <3>. HIDE DEF f, D
    <3>. QED  BY <2>1, <2>2 DEF Surjection
  <2>. QED  BY <1>3, <2>3, FS_Surjection
<1>. QED  BY <1>4, <1>5

LEMMA SetToSeqIs ==
    ASSUME NEW S, IsFiniteSet(S)
    PROVE  SetToSeq(S) \in Seq(S)
<1>1. Cardinality(S) \in Nat
  BY FS_CardinalityType
<1>2. \E f \in [1..Cardinality(S) -> S] : IsInjective(f)
  BY FS_NatBijection, FS_CountingElements DEF IsInjective, ExistsBijection, Bijection, Injection
<1>3. SetToSeq(S) \in [1..Cardinality(S) -> S]
  BY <1>2 DEF SetToSeq
<1>. QED  BY <1>1, <1>3

LEMMA SetToSeqsIs ==
    ASSUME NEW S, IsFiniteSet(S), NEW s \in SetToSeqs(S)
    PROVE  s \in Seq(S)
<1>1. Cardinality(S) \in Nat
  BY FS_CardinalityType
<1>2. s \in [1..Cardinality(S) -> S]
  BY DEF SetToSeqs
<1>. QED  BY <1>1, <1>2

\* Of a log with an owner at least one entry removes nobody.
LEMMA EpochFits ==
    ASSUME NEW l \in Seq(Op), NEW m, Role(l, m) = "Owner"
    PROVE  Epoch(l) \in 0..Len(l) - 1
<1>. DEFINE R == {i \in 1..Len(l) : l[i].role = "None"}
<1>1. PICK p \in 1..Len(l) : l[p].role = "Owner"
  BY RoleFrom
<1>5. R \in SUBSET (1..Len(l)) /\ p \notin R /\ p \in 1..Len(l)
  BY <1>1
<1>2. IsFiniteSet(1..Len(l)) /\ Cardinality(1..Len(l)) = Len(l)
  <2>. HIDE DEF R
  <2>1. Len(l) \in Nat /\ 1 \in Int
    OBVIOUS
  <2>. QED  BY <2>1, FS_Interval
<1>3. Epoch(l) = Cardinality(R)
  BY EpochOfLog DEF EpochAt
<1>. HIDE DEF R
<1>4. IsFiniteSet(R) /\ Cardinality(R) <= Len(l) /\ Cardinality(R) # Len(l) /\ Cardinality(R) \in Nat
  BY <1>2, <1>5, FS_Subset, FS_CardinalityType
<1>. QED  BY <1>3, <1>4

-----------------------------------------------------------------------------
(* Types. *)

\* The edits that wait, and the frames that may still be sealed.
Waiting == {d \in Client : pending[d]}

LEMMA WaitingCount ==
    ASSUME TypeOK
    PROVE  IsFiniteSet(Waiting) /\ Cardinality(Waiting) \in Nat
           /\ \A c \in Waiting : Cardinality(Waiting) >= 1
<1>1. Waiting \in SUBSET Client
  BY DEF Waiting
<1>2. IsFiniteSet(Waiting) /\ Cardinality(Waiting) \in Nat
  BY <1>1, ClientAssumption, FS_Subset, FS_CardinalityType
<1>3. Waiting # {} => Cardinality(Waiting) # 0
  BY <1>2, FS_EmptySet
<1>. QED  BY <1>2, <1>3

LEMMA WaitsLess ==
    ASSUME TypeOK, NEW c \in Client, pending' = [pending EXCEPT ![c] = FALSE]
    PROVE  /\ pending' \in [Client -> BOOLEAN]
           /\ Cardinality(Waiting') = Cardinality(Waiting) - (IF pending[c] THEN 1 ELSE 0)
<1>1. pending \in [Client -> BOOLEAN] /\ pending' \in [Client -> BOOLEAN]
  BY DEF TypeOK
<1>2. Waiting' = Waiting \ {c} /\ (c \in Waiting <=> pending[c])
  BY <1>1 DEF Waiting
<1>3. IsFiniteSet(Waiting) /\ Cardinality(Waiting) \in Nat
  BY WaitingCount
<1>4. Cardinality(Waiting \ {c}) = IF c \in Waiting THEN Cardinality(Waiting) - 1
                                   ELSE Cardinality(Waiting)
  BY <1>3, FS_RemoveElement
<1>. QED  BY <1>1, <1>2, <1>3, <1>4

LEMMA SealedFitsIs == SealedFits <=> sealed + Cardinality(Waiting) <= MaxFrames
BY DEF SealedFits, Waiting

LEMMA SealedFitsNextIs == SealedFits' <=> sealed' + Cardinality(Waiting') <= MaxFrames
BY DEF SealedFits, Waiting

LEMMA SendTyped ==
    ASSUME TypeOK, NEW c \in Client, NEW msgs \in Seq(UpMessages), Send(c, msgs)
    PROVE  up' \in [Client -> Seq(UpMessages)]
<1>1. up[c] \o msgs \in Seq(UpMessages)
  BY DEF TypeOK
<1>. QED  BY <1>1 DEF TypeOK, Send

LEMMA TakeTyped ==
    ASSUME TypeOK, NEW c \in Client, down[c] # <<>>, Take(c)
    PROVE  down' \in [Client -> Seq(DownMessages)]
<1>1. Tail(down[c]) \in Seq(DownMessages)
  BY DEF TypeOK
<1>. QED  BY <1>1 DEF TypeOK, Take

LEMMA HeadTyped ==
    ASSUME TypeOK, NEW c \in Client
    PROVE  /\ up[c] # <<>> => Head(up[c]) \in UpMessages
           /\ down[c] # <<>> => Head(down[c]) \in DownMessages
<1>1. up[c] \in Seq(UpMessages) /\ down[c] \in Seq(DownMessages)
  BY DEF TypeOK
<1>. QED  BY <1>1

LEMMA AnswerTyped ==
    ASSUME TypeOK, NEW c \in Client, NEW d \in DownMessages, Answer(c, d)
    PROVE  down' \in [Client -> Seq(DownMessages)]
<1>1. Append(down[c], d) \in Seq(DownMessages)
  BY DEF TypeOK
<1>. QED  BY <1>1 DEF TypeOK, Answer

LEMMA RelayTakeTyped ==
    ASSUME TypeOK, NEW c \in Client, NEW type, RelayTake(c, type)
    PROVE  up' \in [Client -> Seq(UpMessages)] /\ Head(up[c]) \in UpMessages
           /\ Head(up[c]).type = type /\ up[c] # <<>>
<1>1. Tail(up[c]) \in Seq(UpMessages)
  BY DEF TypeOK, RelayTake
<1>. QED  BY <1>1, HeadTyped DEF TypeOK, RelayTake

LEMMA NotMemberTyped ==
    ASSUME TypeOK, NEW c \in Client, NotMember(c)
    PROVE  down' \in [Client -> Seq(DownMessages)]
BY DownMessageIs, AnswerTyped DEF NotMember

LEMMA FetchesTyped ==
    /\ <<Fetch("Membership"), Fetch("Envelopes")>> \in Seq(UpMessages)
    /\ <<Fetch("Envelopes"), Fetch("Membership")>> \in Seq(UpMessages)
    /\ \A a \in Answers : <<Fetch(a)>> \in Seq(UpMessages)
<1>1. Fetch("Membership") \in UpMessages /\ Fetch("Envelopes") \in UpMessages
      /\ \A a \in Answers : Fetch(a) \in UpMessages
  BY UpMessageIs DEF Answers
<1>. QED  BY <1>1

LEMMA RequestTyped ==
    ASSUME TypeOK, NEW c \in Client, NEW a \in Answers, Request(c, a)
    PROVE  up' \in [Client -> Seq(UpMessages)] /\ fetching' \in [Client -> SUBSET Answers]
<1>1. fetching' \in [Client -> SUBSET Answers]
  BY DEF TypeOK, Request
<1>2. CASE UNCHANGED up
  BY <1>1, <1>2 DEF TypeOK
<1>3. CASE Send(c, <<Fetch(a)>>)
  BY <1>1, <1>3, FetchesTyped, SendTyped
<1>. QED  BY <1>2, <1>3 DEF Request

LEMMA CreatorIsClient == Creator \in Client /\ Running \in SUBSET Client
BY ClientAssumption

LEMMA InitTyped == Init => TypeOK /\ SealedFits
<1>. SUFFICES ASSUME Init PROVE TypeOK /\ SealedFits
  OBVIOUS
<1>1. 0 \in Epochs /\ 1 \in Keys
  BY BoundsAssumption DEF Epochs, Keys
<1>2. Create \in Op /\ [to |-> Creator, epoch |-> 0, key |-> 1] \in Row
  BY <1>1, CreatorIsClient DEF Create, Op, Row, Roles
<1>3. [e \in {0} |-> 1] \in KeyRing /\ NoKeys \in KeyRing
  <2>1. [e \in {0} |-> 1] \in KeyRing
    BY <1>1, KeyRingIs
  <2>2. NoKeys \in KeyRing
    BY KeyRingIs DEF NoKeys
  <2>. QED  BY <2>1, <2>2
<1>4. <<Create>> \in Seq(Op) /\ <<>> \in Seq(Op)
  BY <1>2
<1>5. relayLog \in Seq(Op) /\ rows \subseteq Row /\ frames \subseteq Frame
  BY <1>2, <1>4 DEF Init
<1>6. connected \in [Client -> BOOLEAN] /\ pending \in [Client -> BOOLEAN]
  BY DEF Init
<1>7. up \in [Client -> Seq(UpMessages)] /\ down \in [Client -> Seq(DownMessages)]
      /\ parked \in [Client -> Seq(Envelope)]
  BY DEF Init
<1>8. log \in [Client -> Seq(Op)] /\ served \in [Client -> Seq(Op)]
  BY <1>4 DEF Init
<1>9. keys \in [Client -> KeyRing]
  BY <1>3 DEF Init
<1>10. join \in [Client -> (SUBSET Answers) \cup {NoJoin}] /\ fetching \in [Client -> SUBSET Answers]
  BY DEF Init
<1>11. /\ outbox \in [Client -> SUBSET Frame] /\ waiting \in [Client -> SUBSET Frame]
       /\ opened \in [Client -> SUBSET Frame] /\ offered \in [Client -> SUBSET Frame]
  BY DEF Init
<1>12. keysMade \in Keys /\ sealed \in 0..MaxFrames
       /\ faults \in 0..MaxFaults /\ stale \in 0..MaxFaults
  BY <1>1, BoundsAssumption DEF Init
<1>13. refused \in BOOLEAN
  BY DEF Init
<1>14. SealedFits
  <2>1. Waiting = {}
    BY DEF Init, Waiting
  <2>2. Cardinality(Waiting) = 0
    BY <2>1, FS_EmptySet
  <2>3. sealed = 0
    BY DEF Init
  <2>. QED  BY <2>2, <2>3, BoundsAssumption, SealedFitsIs
<1>. QED  BY <1>5, <1>6, <1>7, <1>8, <1>9, <1>10, <1>11, <1>12, <1>13, <1>14
          DEF TypeOK

-----------------------------------------------------------------------------
(* Types after each step. *)

LEMMA SealedFitsKept ==
    ASSUME SealedFits, UNCHANGED <<pending, sealed>>
    PROVE  SealedFits'
BY DEF SealedFits

LEMMA JoinSpaceTyped ==
    ASSUME TypeOK, SealedFits, NEW c \in Running, JoinSpace(c)
    PROVE  TypeOK' /\ SealedFits'
<1>1. c \in Client
  BY CreatorIsClient
<1>2. up' \in [Client -> Seq(UpMessages)]
  BY <1>1, FetchesTyped, SendTyped DEF JoinSpace
<1>3. join' \in [Client -> (SUBSET Answers) \cup {NoJoin}]
  BY <1>1 DEF TypeOK, JoinSpace
<1>4. SealedFits'
  BY SealedFitsKept DEF JoinSpace, docVars, boundVars
<1>. QED  BY <1>2, <1>3, <1>4 DEF TypeOK, JoinSpace, relayVars, spaceVars, docVars, boundVars

LEMMA AddMemberTyped ==
    ASSUME TypeOK, SealedFits, NEW c \in Running, NEW m \in Client, NEW role \in GivenRoles,
           AddMember(c, m, role)
    PROVE  TypeOK' /\ SealedFits'
<1>. DEFINE op == [seq |-> Len(log[c]), by |-> c, who |-> m, role |-> role,
                   epoch |-> 0, key |-> NoKey]
            s == {[to |-> m, epoch |-> e, key |-> keys[c][e]] : e \in DOMAIN keys[c]}
            q == [type |-> "Change", op |-> op, rows |-> s]
<1>1. c \in Client
  BY CreatorIsClient
<1>2. log[c] \in Seq(Op) /\ keys[c] \in KeyRing
  BY <1>1 DEF TypeOK
<1>3. op \in Op
  BY <1>1, <1>2, RolesAssumption, BoundsAssumption DEF Op, Roles, Epochs
<1>4. s \in SUBSET Row
  BY <1>2, KeyRingIs DEF Row
<1>5. log' = [log EXCEPT ![c] = Append(@, op)] /\ Send(c, <<q>>)
  BY DEF AddMember
<1>. HIDE DEF op, s
<1>6. q \in UpMessages
  BY <1>3, <1>4, UpMessageIs
<1>. HIDE DEF q
<1>7. up' \in [Client -> Seq(UpMessages)]
  <2>1. <<q>> \in Seq(UpMessages)
    BY <1>6
  <2>. QED  BY <1>1, <1>5, <2>1, SendTyped
<1>8. Append(log[c], op) \in Seq(Op)
  BY <1>2, <1>3
<1>9. log' \in [Client -> Seq(Op)]
  BY <1>1, <1>5, <1>8 DEF TypeOK
<1>10. SealedFits'
  BY SealedFitsKept DEF AddMember, docVars, boundVars
<1>. QED  BY <1>7, <1>9, <1>10 DEF TypeOK, AddMember, relayVars, docVars, boundVars

LEMMA RemoveMemberTyped ==
    ASSUME TypeOK, SealedFits, NEW c \in Running, NEW m \in Client, RemoveMember(c, m)
    PROVE  TypeOK' /\ SealedFits'
<1>. DEFINE new == Epoch(log[c]) + 1
            op == [seq |-> Len(log[c]), by |-> c, who |-> m, role |-> "None",
                   epoch |-> new, key |-> keysMade + 1]
            s == {[to |-> n, epoch |-> new, key |-> op.key] : n \in Staying(log[c], op)}
            q == [type |-> "Change", op |-> op, rows |-> s]
            k == [e \in DOMAIN keys[c] \cup {new} |-> IF e = new THEN op.key ELSE keys[c][e]]
<1>1. c \in Client
  BY CreatorIsClient
<1>2. log[c] \in Seq(Op) /\ keys[c] \in KeyRing /\ keysMade \in Keys
  BY <1>1 DEF TypeOK
<1>3. keysMade + 1 \in Keys
  BY <1>2, BoundsAssumption DEF RemoveMember, Keys
<1>4. new \in Epochs
  <2>1. Role(log[c], c) = "Owner" /\ Len(log[c]) <= MaxOps
    BY DEF RemoveMember, Applies
  <2>2. Epoch(log[c]) \in 0..Len(log[c]) - 1
    BY <1>2, <2>1, EpochFits
  <2>. QED  BY <1>2, <2>1, <2>2, BoundsAssumption DEF Epochs
<1>. HIDE DEF new
<1>5. op \in Op /\ op.key \in Keys
  BY <1>1, <1>2, <1>3, <1>4 DEF Op, Roles
<1>6. Staying(log[c], op) \in SUBSET Client
  BY DEF Staying, Members
<1>7. s \in SUBSET Row
  <2>. HIDE DEF op
  <2>. QED  BY <1>4, <1>5, <1>6 DEF Row
<1>8. k \in KeyRing
  <2>1. DOMAIN keys[c] \in SUBSET Epochs /\ keys[c] \in [DOMAIN keys[c] -> Keys]
    BY <1>2, KeyRingIs
  <2>. HIDE DEF op
  <2>2. DOMAIN k \in SUBSET Epochs /\ k \in [DOMAIN k -> Keys]
    BY <2>1, <1>4, <1>5
  <2>. HIDE DEF k
  <2>. QED  BY <2>2, KeyRingIs
<1>9. /\ log' = [log EXCEPT ![c] = Append(@, op)] /\ Send(c, <<q>>)
      /\ keys' = [keys EXCEPT ![c] = k] /\ keysMade' = keysMade + 1
  BY DEF RemoveMember, new
<1>. HIDE DEF op, s, k
<1>10. q \in UpMessages
  BY <1>5, <1>7, UpMessageIs
<1>. HIDE DEF q
<1>11. up' \in [Client -> Seq(UpMessages)]
  <2>1. <<q>> \in Seq(UpMessages)
    BY <1>10
  <2>. QED  BY <1>1, <1>9, <2>1, SendTyped
<1>12. Append(log[c], op) \in Seq(Op)
  BY <1>2, <1>5
<1>13. log' \in [Client -> Seq(Op)] /\ keys' \in [Client -> KeyRing] /\ keysMade' \in Keys
  BY <1>1, <1>3, <1>8, <1>9, <1>12 DEF TypeOK
<1>14. SealedFits'
  BY SealedFitsKept DEF RemoveMember, docVars
<1>. QED  BY <1>11, <1>13, <1>14 DEF TypeOK, RemoveMember, relayVars, docVars

LEMMA EditTyped ==
    ASSUME TypeOK, SealedFits, NEW c \in Running, Edit(c)
    PROVE  TypeOK' /\ SealedFits'
<1>1. c \in Client /\ pending \in [Client -> BOOLEAN] /\ sealed \in Nat
  BY CreatorIsClient DEF TypeOK
<1>2. pending' = [pending EXCEPT ![c] = TRUE] /\ ~pending[c]
  BY DEF Edit
<1>3. Waiting' = Waiting \cup {c} /\ c \notin Waiting
  BY <1>1, <1>2 DEF Waiting
<1>4. IsFiniteSet(Waiting) /\ Cardinality(Waiting) \in Nat
  BY WaitingCount
<1>5. Cardinality(Waiting') = Cardinality(Waiting) + 1
  BY <1>3, <1>4, FS_AddElement
<1>6. sealed + Cardinality(Waiting) < MaxFrames /\ sealed' = sealed
  BY DEF Edit, Waiting, boundVars
<1>7. SealedFits'
  BY <1>1, <1>4, <1>5, <1>6, BoundsAssumption, SealedFitsNextIs
<1>8. pending' \in [Client -> BOOLEAN]
  BY <1>1, <1>2
<1>. QED  BY <1>7, <1>8 DEF TypeOK, Edit, relayVars, linkVars, spaceVars, boundVars

LEMMA FlushDropsTyped ==
    ASSUME TypeOK, SealedFits, NEW c \in Running, FlushDrops(c)
    PROVE  TypeOK' /\ SealedFits'
<1>1. c \in Client /\ pending' = [pending EXCEPT ![c] = FALSE] /\ sealed' = sealed /\ sealed \in Nat
  BY CreatorIsClient DEF TypeOK, FlushDrops, boundVars
<1>2. /\ pending' \in [Client -> BOOLEAN] /\ Cardinality(Waiting) \in Nat
      /\ Cardinality(Waiting') = Cardinality(Waiting) - (IF pending[c] THEN 1 ELSE 0)
  BY <1>1, WaitsLess, WaitingCount
<1>3. SealedFits'
  BY <1>1, <1>2, BoundsAssumption, SealedFitsIs, SealedFitsNextIs
<1>. QED  BY <1>2, <1>3 DEF TypeOK, FlushDrops, relayVars, linkVars, spaceVars, boundVars

LEMMA FlushStallsTyped ==
    ASSUME TypeOK, SealedFits, NEW c \in Running, FlushStalls(c)
    PROVE  TypeOK' /\ SealedFits'
<1>1. c \in Client /\ "Envelopes" \in Answers
  BY CreatorIsClient DEF Answers
<1>2. up' \in [Client -> Seq(UpMessages)] /\ fetching' \in [Client -> SUBSET Answers]
  BY <1>1, RequestTyped DEF FlushStalls
<1>3. SealedFits'
  BY SealedFitsKept DEF FlushStalls, docVars, boundVars
<1>. QED  BY <1>2, <1>3 DEF TypeOK, FlushStalls, relayVars, spaceVars, docVars, boundVars

LEMMA SealingKey ==
    ASSUME TypeOK, NEW c \in Client, CanSeal(c)
    PROVE  /\ Max(SealingEpochs(c)) = Epoch(log[c])
           /\ Epoch(log[c]) \in DOMAIN keys[c]
<1>1. PICK e \in SealingEpochs(c) : TRUE
  BY DEF CanSeal
<1>2. e = Epoch(log[c]) /\ e \in DOMAIN keys[c]
  BY <1>1 DEF SealingEpochs
<1>3. keys[c] \in KeyRing
  BY DEF TypeOK
<1>4. e \in Int
  BY <1>2, <1>3, KeyRingIs DEF Epochs
<1>5. SealingEpochs(c) = {e}
  BY <1>1, <1>2 DEF SealingEpochs
<1>6. Max({e}) = e
  BY <1>4 DEF Max
<1>. QED  BY <1>2, <1>5, <1>6

LEMMA FlushSealsTyped ==
    ASSUME TypeOK, SealedFits, NEW c \in Running, FlushSeals(c)
    PROVE  TypeOK' /\ SealedFits'
<1>. DEFINE e == Max(SealingEpochs(c))
            f == [by |-> c, n |-> sealed + 1, epoch |-> e, key |-> keys[c][e]]
<1>1. c \in Client /\ pending[c] /\ CanSeal(c)
  BY CreatorIsClient DEF FlushSeals
<1>2. sealed \in Nat /\ keys[c] \in KeyRing
  BY <1>1 DEF TypeOK
<1>3. e \in DOMAIN keys[c]
  BY <1>1, SealingKey
<1>4. pending' = [pending EXCEPT ![c] = FALSE] /\ sealed' = sealed + 1
  BY DEF FlushSeals
<1>5. c \in Waiting
  BY <1>1 DEF Waiting
<1>6. /\ pending' \in [Client -> BOOLEAN]
      /\ Cardinality(Waiting) \in Nat /\ Cardinality(Waiting) >= 1
      /\ Cardinality(Waiting') = Cardinality(Waiting) - 1
  BY <1>1, <1>4, <1>5, WaitsLess, WaitingCount
<1>7. SealedFits' /\ sealed + 1 \in 1..MaxFrames
  BY <1>2, <1>4, <1>6, BoundsAssumption, SealedFitsIs, SealedFitsNextIs
<1>8. e \in Epochs /\ keys[c][e] \in Keys
  <2>. HIDE DEF e
  <2>. QED  BY <1>2, <1>3, KeyRingIs
<1>9. f \in Frame
  <2>. HIDE DEF e
  <2>. QED  BY <1>1, <1>7, <1>8 DEF Frame
<1>10. /\ outbox' = [outbox EXCEPT ![c] = @ \cup {f}]
       /\ opened' = [opened EXCEPT ![c] = @ \cup {f}]
       /\ IF connected[c] THEN Send(c, <<[type |-> "PushUpdate", frame |-> f]>>)
          ELSE UNCHANGED up
  BY DEF FlushSeals
<1>. HIDE DEF f, e
<1>11. outbox' \in [Client -> SUBSET Frame] /\ opened' \in [Client -> SUBSET Frame]
  BY <1>1, <1>9, <1>10 DEF TypeOK
<1>12. up' \in [Client -> Seq(UpMessages)]
  <2>1. <<[type |-> "PushUpdate", frame |-> f]>> \in Seq(UpMessages)
    <3>1. [type |-> "PushUpdate", frame |-> f] \in UpMessages
      BY <1>9, UpMessageIs
    <3>. QED  BY <3>1
  <2>2. CASE UNCHANGED up
    BY <2>2 DEF TypeOK
  <2>3. CASE Send(c, <<[type |-> "PushUpdate", frame |-> f]>>)
    BY <1>1, <2>1, <2>3, SendTyped
  <2>. QED  BY <1>10, <2>2, <2>3
<1>13. sealed' \in 0..MaxFrames
  BY <1>2, <1>4, <1>7
<1>14. \A sent \in {outbox', waiting', opened', offered'} : sent \in [Client -> SUBSET Frame]
  BY <1>11 DEF TypeOK, FlushSeals
<1>15. UNCHANGED <<relayVars, connected, down, spaceVars, fetching, join, keysMade,
                  faults, stale, refused>>
  BY DEF FlushSeals
<1>. QED  BY <1>6, <1>7, <1>12, <1>13, <1>14, <1>15
          DEF TypeOK, relayVars, spaceVars

LEMMA AcceptChangeTyped ==
    ASSUME TypeOK, SealedFits, NEW c \in Running, AcceptChange(c)
    PROVE  TypeOK' /\ SealedFits'
<1>1. c \in Client
  BY CreatorIsClient
<1>2. /\ up' \in [Client -> Seq(UpMessages)]
      /\ Head(up[c]).op \in Op /\ Head(up[c]).rows \in SUBSET Row
  BY <1>1, RelayTakeTyped, UpMessageIs DEF AcceptChange
<1>3. relayLog' \in Seq(Op) /\ rows' \subseteq Row
  BY <1>2 DEF TypeOK, AcceptChange
<1>4. down' \in [Client -> Seq(DownMessages)]
  <2>. DEFINE told == IF Head(up[c]).op.role = "None"
                      THEN {m \in Members(relayLog) : connected[m]} ELSE {}
  <2>1. down' = [m \in Client |-> IF m \in told THEN Append(down[m], [type |-> "EpochBump"])
                                  ELSE down[m]]
    BY DEF AcceptChange
  <2>2. [type |-> "EpochBump"] \in DownMessages
    BY DownMessageIs
  <2>3. \A m \in Client : /\ down[m] \in Seq(DownMessages)
                          /\ Append(down[m], [type |-> "EpochBump"]) \in Seq(DownMessages)
    BY <2>2 DEF TypeOK
  <2>. HIDE DEF told
  <2>. QED  BY <2>1, <2>3
<1>5. SealedFits'
  BY SealedFitsKept DEF AcceptChange, EngineUnchanged, boundVars
<1>. QED  BY <1>2, <1>3, <1>4, <1>5
          DEF TypeOK, AcceptChange, EngineUnchanged, spaceVars, boundVars

LEMMA RefuseChangeTyped ==
    ASSUME TypeOK, SealedFits, NEW c \in Running, RefuseChange(c)
    PROVE  TypeOK' /\ SealedFits'
<1>1. c \in Client
  BY CreatorIsClient
<1>2. up' \in [Client -> Seq(UpMessages)]
  BY <1>1, RelayTakeTyped DEF RefuseChange
<1>3. down' \in [Client -> Seq(DownMessages)]
  <2>1. CASE UNCHANGED down
    BY <2>1 DEF TypeOK
  <2>2. CASE NotMember(c)
    BY <1>1, <2>2, NotMemberTyped
  <2>. QED  BY <2>1, <2>2 DEF RefuseChange
<1>4. SealedFits'
  BY SealedFitsKept DEF RefuseChange, EngineUnchanged
<1>. QED  BY <1>2, <1>3, <1>4 DEF TypeOK, RefuseChange, EngineUnchanged, relayVars, spaceVars

LEMMA ServeMembershipTyped ==
    ASSUME TypeOK, SealedFits, NEW c \in Running, ServeMembership(c)
    PROVE  TypeOK' /\ SealedFits'
<1>1. c \in Client /\ relayLog \in Seq(Op) /\ stale \in Nat /\ faults \in Nat
  BY CreatorIsClient DEF TypeOK
<1>2. up' \in [Client -> Seq(UpMessages)]
  BY <1>1, RelayTakeTyped DEF ServeMembership
<1>3. PICK n \in 1..Len(relayLog) :
        /\ n < Len(relayLog) => IsMember(c) /\ faults + stale < MaxFaults
        /\ stale' = IF n < Len(relayLog) THEN stale + 1 ELSE stale
        /\ IF IsMember(c) THEN Answer(c, [type |-> "Membership", ops |-> SubSeq(relayLog, 1, n)])
           ELSE NotMember(c)
  BY DEF ServeMembership
<1>4. stale' \in 0..MaxFaults
  BY <1>1, <1>3, BoundsAssumption DEF TypeOK
<1>5. down' \in [Client -> Seq(DownMessages)]
  <2>1. SubSeq(relayLog, 1, n) \in Seq(Op)
    BY <1>1, <1>3
  <2>2. [type |-> "Membership", ops |-> SubSeq(relayLog, 1, n)] \in DownMessages
    BY <2>1, DownMessageIs
  <2>3. CASE IsMember(c)
    BY <1>1, <1>3, <2>2, <2>3, AnswerTyped
  <2>4. CASE ~IsMember(c)
    BY <1>1, <1>3, <2>4, NotMemberTyped
  <2>. QED  BY <2>3, <2>4
<1>6. SealedFits'
  BY SealedFitsKept DEF ServeMembership, EngineUnchanged
<1>. QED  BY <1>2, <1>4, <1>5, <1>6
          DEF TypeOK, ServeMembership, EngineUnchanged, relayVars, spaceVars

\* The envelopes that the relay stores for c.
Mine(c) == {[epoch |-> r.epoch, key |-> r.key] : r \in {x \in rows : x.to = c}}

LEMMA MineIs ==
    ASSUME TypeOK, NEW c \in Client, NEW mine \in SetToSeqs(Mine(c))
    PROVE  /\ mine \in Seq(Envelope)
           /\ \A v \in Range(mine) : \E r \in rows : r.to = c /\ r.epoch = v.epoch /\ r.key = v.key
<1>1. Mine(c) \in SUBSET Envelope
  BY DEF TypeOK, Mine, Row, Envelope
<1>2. IsFiniteSet(Mine(c))
  BY <1>1, DataFinite, FS_Subset
<1>3. mine \in Seq(Mine(c))
  BY <1>2, SetToSeqsIs
<1>4. mine \in Seq(Envelope)
  BY <1>1, <1>3
<1>5. \A v \in Range(mine) : v \in Mine(c)
  BY <1>3, Members2
<1>. QED  BY <1>4, <1>5 DEF Mine

LEMMA ServeEnvelopesTyped ==
    ASSUME TypeOK, SealedFits, NEW c \in Running, ServeEnvelopes(c)
    PROVE  TypeOK' /\ SealedFits'
<1>1. c \in Client
  BY CreatorIsClient
<1>2. up' \in [Client -> Seq(UpMessages)]
  BY <1>1, RelayTakeTyped DEF ServeEnvelopes
<1>3. down' \in [Client -> Seq(DownMessages)]
  <2>1. CASE IsMember(c)
    <3>1. PICK mine \in SetToSeqs(Mine(c)) : Answer(c, [type |-> "Envelopes", envelopes |-> mine])
      BY <2>1 DEF ServeEnvelopes, Mine
    <3>2. mine \in Seq(Envelope)
      BY <1>1, MineIs
    <3>3. [type |-> "Envelopes", envelopes |-> mine] \in DownMessages
      BY <3>2, DownMessageIs
    <3>. QED  BY <1>1, <3>1, <3>3, AnswerTyped
  <2>2. CASE ~IsMember(c)
    BY <1>1, <2>2, NotMemberTyped DEF ServeEnvelopes
  <2>. QED  BY <2>1, <2>2
<1>4. SealedFits'
  BY SealedFitsKept DEF ServeEnvelopes, EngineUnchanged, boundVars
<1>. QED  BY <1>2, <1>3, <1>4
          DEF TypeOK, ServeEnvelopes, EngineUnchanged, relayVars, spaceVars, boundVars

LEMMA StoreFrameTyped ==
    ASSUME TypeOK, SealedFits, NEW c \in Running, StoreFrame(c)
    PROVE  TypeOK' /\ SealedFits'
<1>1. c \in Client
  BY CreatorIsClient
<1>2. up' \in [Client -> Seq(UpMessages)] /\ Head(up[c]).frame \in Frame
  BY <1>1, RelayTakeTyped, UpMessageIs DEF StoreFrame
<1>3. frames' \subseteq Frame /\ outbox' \in [Client -> SUBSET Frame]
  <2>. DEFINE f == Head(up[c]).frame
  <2>1. \/ frames' = frames \cup {f} /\ outbox' = [outbox EXCEPT ![c] = @ \ {f}]
        \/ UNCHANGED <<frames, outbox>>
    BY DEF StoreFrame
  <2>. HIDE DEF f
  <2>. QED  BY <1>1, <1>2, <2>1 DEF f, TypeOK
<1>4. down' \in [Client -> Seq(DownMessages)]
  <2>1. CASE UNCHANGED down
    BY <2>1 DEF TypeOK
  <2>2. CASE NotMember(c)
    BY <1>1, <2>2, NotMemberTyped
  <2>. QED  BY <2>1, <2>2 DEF StoreFrame
<1>5. SealedFits'
  BY SealedFitsKept DEF StoreFrame, EngineUnchanged, boundVars
<1>. QED  BY <1>2, <1>3, <1>4, <1>5 DEF TypeOK, StoreFrame, EngineUnchanged, spaceVars, boundVars

LEMMA ServeFrameTyped ==
    ASSUME TypeOK, SealedFits, NEW c \in Running, NEW f \in frames, ServeFrame(c, f)
    PROVE  TypeOK' /\ SealedFits'
<1>1. c \in Client /\ f \in Frame
  BY CreatorIsClient DEF TypeOK
<1>2. down' \in [Client -> Seq(DownMessages)]
  BY <1>1, DownMessageIs, AnswerTyped DEF ServeFrame
<1>3. offered' \in [Client -> SUBSET Frame]
  BY <1>1 DEF TypeOK, ServeFrame
<1>4. SealedFits'
  BY SealedFitsKept DEF ServeFrame, EngineUnchanged, boundVars
<1>. QED  BY <1>2, <1>3, <1>4
          DEF TypeOK, ServeFrame, EngineUnchanged, relayVars, spaceVars, boundVars

LEMMA TakenTyped ==
    ASSUME TypeOK, NEW c \in Client, NEW type, Arrives(c, type), Take(c)
    PROVE  /\ down[c] # <<>> /\ Head(down[c]) \in DownMessages /\ Head(down[c]).type = type
           /\ down' \in [Client -> Seq(DownMessages)]
BY HeadTyped, TakeTyped DEF Arrives

LEMMA RecvFrameTyped ==
    ASSUME TypeOK, SealedFits, NEW c \in Running, RecvFrame(c)
    PROVE  TypeOK' /\ SealedFits'
<1>. DEFINE f == Head(down[c]).frame
            lacking == Lacks(c, log[c], keys[c], f)
<1>1. c \in Client
  BY CreatorIsClient
<1>2. down' \in [Client -> Seq(DownMessages)] /\ f \in Frame
  BY <1>1, TakenTyped, DownMessageIs DEF RecvFrame
<1>3. SealedFits'
  BY SealedFitsKept DEF RecvFrame, boundVars
<1>4. /\ up' \in [Client -> Seq(UpMessages)] /\ fetching' \in [Client -> SUBSET Answers]
      /\ waiting' \in [Client -> SUBSET Frame] /\ opened' \in [Client -> SUBSET Frame]
  <2>1. CASE f \in opened[c]
    BY <2>1 DEF TypeOK, RecvFrame
  <2>2. CASE f \notin opened[c] /\ lacking = {}
    <3>1. Opens(keys[c], {f}) \in SUBSET Frame
      BY <1>2 DEF Opens
    <3>2. opened' = [opened EXCEPT ![c] = @ \cup Opens(keys[c], {f})] /\ UNCHANGED <<up, fetching, waiting>>
      BY <2>2 DEF RecvFrame
    <3>. QED  BY <1>1, <3>1, <3>2 DEF TypeOK
  <2>3. CASE f \notin opened[c] /\ lacking # {}
    <3>1. PICK a \in lacking : TRUE
      BY <2>3
    <3>2. a \in Answers
      BY <3>1 DEF Lacks, Answers
    <3>3. Request(c, a)
      BY <2>3, <3>1 DEF RecvFrame
    <3>4. up' \in [Client -> Seq(UpMessages)] /\ fetching' \in [Client -> SUBSET Answers]
      BY <1>1, <3>2, <3>3, RequestTyped
    <3>5. waiting' = [waiting EXCEPT ![c] = @ \cup {f}] /\ UNCHANGED opened
      BY <2>3 DEF RecvFrame
    <3>. QED  BY <1>1, <1>2, <3>4, <3>5 DEF TypeOK
  <2>. QED  BY <2>1, <2>2, <2>3
<1>. QED  BY <1>2, <1>3, <1>4 DEF TypeOK, RecvFrame, relayVars, spaceVars, boundVars

LEMMA LearnTyped ==
    ASSUME TypeOK, NEW c \in Client, NEW l \in Seq(Op), NEW held \in Seq(Envelope),
           Learn(c, l, held)
    PROVE  /\ log' \in [Client -> Seq(Op)] /\ keys' \in [Client -> KeyRing]
           /\ parked' \in [Client -> Seq(Envelope)]
           /\ waiting' \in [Client -> SUBSET Frame] /\ opened' \in [Client -> SUBSET Frame]
<1>. DEFINE k == Absorbed(c, l, held)
            ready == {f \in waiting[c] : Lacks(c, l, k, f) = {}}
<1>1. keys[c] \in KeyRing /\ waiting[c] \in SUBSET Frame
  BY DEF TypeOK
<1>2. k \in KeyRing /\ StillParked(l, held) \in Seq(Envelope)
  BY <1>1, AbsorbedIs, StillParkedIs
<1>3. ready \in SUBSET Frame /\ Opens(k, ready) \in SUBSET Frame
  BY <1>1 DEF Opens
<1>4. /\ log' = [log EXCEPT ![c] = l] /\ keys' = [keys EXCEPT ![c] = k]
      /\ parked' = [parked EXCEPT ![c] = StillParked(l, held)]
      /\ waiting' = [waiting EXCEPT ![c] = @ \ ready]
      /\ opened' = [opened EXCEPT ![c] = @ \cup Opens(k, ready)]
  BY DEF Learn
<1>. HIDE DEF k, ready
<1>. QED  BY <1>2, <1>3, <1>4 DEF TypeOK

LEMMA FinishJoinTyped ==
    ASSUME TypeOK, NEW c \in Client, NEW a \in Answers, FinishJoin(c, a)
    PROVE  join' \in [Client -> (SUBSET Answers) \cup {NoJoin}]
<1>1. join[c] \in (SUBSET Answers) \cup {NoJoin}
  BY DEF TypeOK
<1>2. (IF join[c] = NoJoin \/ join[c] \cup {a} = Answers THEN NoJoin ELSE join[c] \cup {a})
        \in (SUBSET Answers) \cup {NoJoin}
  BY <1>1
<1>. QED  BY <1>2 DEF TypeOK, FinishJoin

LEMMA ConcatIs ==
    ASSUME NEW S, NEW p \in Seq(S), NEW q \in Seq(S)
    PROVE  /\ p \o q \in Seq(S) /\ Len(p \o q) = Len(p) + Len(q)
           /\ \A i \in 1..Len(p) + Len(q) :
                 (p \o q)[i] = IF i <= Len(p) THEN p[i] ELSE q[i - Len(p)]
<1>1. p \o q \in Seq(S) /\ Len(p) \in Nat /\ Len(q) \in Nat
  OBVIOUS
<1>2. Len(p \o q) = Len(p) + Len(q)
  OBVIOUS
<1>3. ASSUME NEW i \in 1..Len(p) + Len(q)
      PROVE  (p \o q)[i] = IF i <= Len(p) THEN p[i] ELSE q[i - Len(p)]
  OBVIOUS
<1>. QED  BY <1>1, <1>2, <1>3

\* The envelopes taken from an answer.
LEMMA TakenEnvelopes ==
    ASSUME NEW S, NEW came \in Seq(S), NEW p \in Seq(S)
    PROVE  LET room == IF Len(p) < MaxParked THEN MaxParked - Len(p) ELSE 0
               taken == SubSeq(came, 1, Min({room, Len(came)}))
           IN  /\ p \o taken \in Seq(S)
               /\ Range(p \o taken) \in SUBSET (Range(p) \cup Range(came))
<1>. DEFINE room == IF Len(p) < MaxParked THEN MaxParked - Len(p) ELSE 0
            n == Min({room, Len(came)})
            taken == SubSeq(came, 1, n)
<1>1. room \in Nat /\ Len(came) \in Nat
  BY CapsAssumption
<1>. HIDE DEF room
<1>2. n \in 0..Len(came)
  <2>1. \E x \in {room, Len(came)} : \A y \in {room, Len(came)} : x <= y
    BY <1>1
  <2>2. n \in {room, Len(came)} /\ n <= Len(came)
    BY <2>1 DEF Min
  <2>. QED  BY <1>1, <2>2
<1>. HIDE DEF n
<1>3. /\ taken \in Seq(S) /\ Len(taken) = n
      /\ \A i \in 1..n : taken[i] = came[i]
  BY <1>2, PrefixIs
<1>. HIDE DEF taken
<1>4. /\ p \o taken \in Seq(S) /\ Len(p \o taken) = Len(p) + n
      /\ \A i \in 1..Len(p) + n :
            (p \o taken)[i] = IF i <= Len(p) THEN p[i] ELSE taken[i - Len(p)]
  BY <1>3, ConcatIs
<1>5. ASSUME NEW v \in Range(p \o taken) PROVE v \in Range(p) \cup Range(came)
  <2>1. PICK i \in 1..Len(p) + n : v = (p \o taken)[i]
    BY <1>4, Members2
  <2>2. CASE i <= Len(p)
    BY <1>4, <2>1, <2>2, Members2
  <2>3. CASE i > Len(p)
    <3>1. i - Len(p) \in 1..n /\ i - Len(p) \in 1..Len(came) /\ v = came[i - Len(p)]
      BY <1>2, <1>3, <1>4, <2>1, <2>3
    <3>. QED  BY <3>1, Members2
  <2>4. i <= Len(p) \/ i > Len(p)
    BY <1>2, <2>1
  <2>. QED  BY <2>2, <2>3, <2>4
<1>. QED  BY <1>4, <1>5 DEF room, n, taken

LEMMA RecvEnvelopesTyped ==
    ASSUME TypeOK, SealedFits, NEW c \in Running, RecvEnvelopes(c)
    PROVE  TypeOK' /\ SealedFits'
<1>. DEFINE came == Head(down[c]).envelopes
            room == IF Len(parked[c]) < MaxParked THEN MaxParked - Len(parked[c]) ELSE 0
            taken == SubSeq(came, 1, Min({room, Len(came)}))
<1>1. c \in Client /\ log[c] \in Seq(Op) /\ parked[c] \in Seq(Envelope)
  BY CreatorIsClient DEF TypeOK
<1>2. down' \in [Client -> Seq(DownMessages)] /\ came \in Seq(Envelope)
  BY <1>1, TakenTyped, DownMessageIs DEF RecvEnvelopes
<1>3. parked[c] \o taken \in Seq(Envelope)
  <2>. HIDE DEF came
  <2>. QED  BY <1>1, <1>2, TakenEnvelopes
<1>4. Learn(c, log[c], parked[c] \o taken)
  BY DEF RecvEnvelopes
<1>. HIDE DEF taken
<1>5. /\ log' \in [Client -> Seq(Op)] /\ keys' \in [Client -> KeyRing]
      /\ parked' \in [Client -> Seq(Envelope)]
      /\ waiting' \in [Client -> SUBSET Frame] /\ opened' \in [Client -> SUBSET Frame]
  BY <1>1, <1>3, <1>4, LearnTyped
<1>6. join' \in [Client -> (SUBSET Answers) \cup {NoJoin}] /\ fetching' \in [Client -> SUBSET Answers]
  <2>1. "Envelopes" \in Answers
    BY DEF Answers
  <2>. QED  BY <1>1, <2>1, FinishJoinTyped DEF TypeOK, RecvEnvelopes
<1>7. SealedFits'
  BY SealedFitsKept DEF RecvEnvelopes, boundVars
<1>. QED  BY <1>2, <1>5, <1>6, <1>7 DEF TypeOK, RecvEnvelopes, relayVars, boundVars

LEMMA RecvMembershipTyped ==
    ASSUME TypeOK, SealedFits, NEW c \in Running, RecvMembership(c)
    PROVE  TypeOK' /\ SealedFits'
<1>. DEFINE ops == Head(down[c]).ops
            l == Newer(log[c], ops)
<1>1. c \in Client /\ log[c] \in Seq(Op) /\ parked[c] \in Seq(Envelope)
  BY CreatorIsClient DEF TypeOK
<1>2. down' \in [Client -> Seq(DownMessages)] /\ ops \in Seq(Op)
  BY <1>1, TakenTyped, DownMessageIs DEF RecvMembership
<1>3. served' \in [Client -> Seq(Op)]
  BY <1>1, <1>2 DEF TypeOK, RecvMembership
<1>4. l \in Seq(Op)
  BY <1>1, <1>2 DEF Newer
<1>5. Learn(c, l, parked[c])
  BY DEF RecvMembership
<1>. HIDE DEF l
<1>6. /\ log' \in [Client -> Seq(Op)] /\ keys' \in [Client -> KeyRing]
      /\ parked' \in [Client -> Seq(Envelope)]
      /\ waiting' \in [Client -> SUBSET Frame] /\ opened' \in [Client -> SUBSET Frame]
  BY <1>1, <1>4, <1>5, LearnTyped
<1>7. join' \in [Client -> (SUBSET Answers) \cup {NoJoin}] /\ fetching' \in [Client -> SUBSET Answers]
  <2>1. "Membership" \in Answers
    BY DEF Answers
  <2>. QED  BY <1>1, <2>1, FinishJoinTyped DEF TypeOK, RecvMembership
<1>8. SealedFits'
  BY SealedFitsKept DEF RecvMembership, boundVars
<1>. QED  BY <1>2, <1>3, <1>6, <1>7, <1>8 DEF TypeOK, RecvMembership, relayVars, boundVars

LEMMA RejectMembershipTyped ==
    ASSUME TypeOK, SealedFits, NEW c \in Running, RejectMembership(c)
    PROVE  TypeOK' /\ SealedFits'
<1>1. c \in Client
  BY CreatorIsClient
<1>2. down' \in [Client -> Seq(DownMessages)]
  BY <1>1, TakenTyped DEF RejectMembership
<1>3. join' \in [Client -> (SUBSET Answers) \cup {NoJoin}] /\ fetching' \in [Client -> SUBSET Answers]
  BY <1>1 DEF TypeOK, RejectMembership
<1>4. SealedFits'
  BY SealedFitsKept DEF RejectMembership, docVars, boundVars
<1>. QED  BY <1>2, <1>3, <1>4 DEF TypeOK, RejectMembership, relayVars, spaceVars, docVars, boundVars

LEMMA RecvEpochBumpTyped ==
    ASSUME TypeOK, SealedFits, NEW c \in Running, RecvEpochBump(c)
    PROVE  TypeOK' /\ SealedFits'
<1>1. c \in Client
  BY CreatorIsClient
<1>2. down' \in [Client -> Seq(DownMessages)]
  BY <1>1, TakenTyped DEF RecvEpochBump
<1>3. up' \in [Client -> Seq(UpMessages)]
  BY <1>1, FetchesTyped, SendTyped DEF RecvEpochBump
<1>4. fetching' \in [Client -> SUBSET Answers]
  BY <1>1 DEF TypeOK, RecvEpochBump, Answers
<1>5. SealedFits'
  BY SealedFitsKept DEF RecvEpochBump, docVars, boundVars
<1>. QED  BY <1>2, <1>3, <1>4, <1>5 DEF TypeOK, RecvEpochBump, relayVars, spaceVars, docVars, boundVars

LEMMA RecvNotMemberTyped ==
    ASSUME TypeOK, SealedFits, NEW c \in Running, RecvNotMember(c)
    PROVE  TypeOK' /\ SealedFits'
<1>1. c \in Client
  BY CreatorIsClient
<1>2. down' \in [Client -> Seq(DownMessages)]
  BY <1>1, TakenTyped DEF RecvNotMember
<1>3. join' \in [Client -> (SUBSET Answers) \cup {NoJoin}] /\ fetching' \in [Client -> SUBSET Answers]
  BY <1>1 DEF TypeOK, RecvNotMember
<1>4. SealedFits'
  BY SealedFitsKept DEF RecvNotMember, docVars, boundVars
<1>. QED  BY <1>2, <1>3, <1>4 DEF TypeOK, RecvNotMember, relayVars, spaceVars, docVars, boundVars

LEMMA DisconnectTyped ==
    ASSUME TypeOK, SealedFits, NEW c \in Running, Disconnect(c)
    PROVE  TypeOK' /\ SealedFits'
<1>1. c \in Client
  BY CreatorIsClient
<1>2. /\ up' \in [Client -> Seq(UpMessages)] /\ down' \in [Client -> Seq(DownMessages)]
      /\ connected' \in [Client -> BOOLEAN] /\ offered' \in [Client -> SUBSET Frame]
  BY <1>1 DEF TypeOK, Disconnect
<1>3. faults' \in 0..MaxFaults
  BY BoundsAssumption DEF TypeOK, Disconnect
<1>4. SealedFits'
  BY SealedFitsKept DEF Disconnect, docVars
<1>. QED  BY <1>2, <1>3, <1>4 DEF TypeOK, Disconnect, relayVars, spaceVars, docVars

LEMMA ConnectTyped ==
    ASSUME TypeOK, SealedFits, NEW c \in Running, Connect(c)
    PROVE  TypeOK' /\ SealedFits'
<1>. DEFINE M == {[type |-> "PushUpdate", frame |-> f] : f \in outbox[c]}
<1>1. c \in Client /\ outbox[c] \in SUBSET Frame
  BY CreatorIsClient DEF TypeOK
<1>2. IsFiniteSet(outbox[c])
  BY <1>1, DataFinite, FS_Subset
<1>3. IsFiniteSet(M)
  <2>. DEFINE g == [f \in outbox[c] |-> [type |-> "PushUpdate", frame |-> f]]
  <2>1. g \in Surjection(outbox[c], M)
    BY DEF Surjection
  <2>. HIDE DEF g, M
  <2>. QED  BY <1>2, <2>1, FS_Surjection
<1>4. M \in SUBSET UpMessages
  BY <1>1, UpMessageIs
<1>5. Send(c, SetToSeq(M))
  BY DEF Connect
<1>. HIDE DEF M
<1>6. SetToSeq(M) \in Seq(M)
  BY <1>3, SetToSeqIs
<1>7. SetToSeq(M) \in Seq(UpMessages)
  BY <1>4, <1>6
<1>8. up' \in [Client -> Seq(UpMessages)]
  BY <1>1, <1>5, <1>7, SendTyped
<1>9. connected' \in [Client -> BOOLEAN]
  BY <1>1 DEF TypeOK, Connect
<1>10. SealedFits'
  BY SealedFitsKept DEF Connect, docVars, boundVars
<1>. QED  BY <1>8, <1>9, <1>10 DEF TypeOK, Connect, relayVars, spaceVars, docVars, boundVars

LEMMA RestartTyped ==
    ASSUME TypeOK, SealedFits, NEW c \in Running, Restart(c)
    PROVE  TypeOK' /\ SealedFits'
<1>1. c \in Client /\ NoKeys \in KeyRing /\ sealed \in Nat
  <2>1. NoKeys \in KeyRing
    BY KeyRingIs DEF NoKeys
  <2>. QED  BY <2>1, CreatorIsClient DEF TypeOK
<1>2. /\ up' \in [Client -> Seq(UpMessages)] /\ down' \in [Client -> Seq(DownMessages)]
      /\ connected' \in [Client -> BOOLEAN]
      /\ log' \in [Client -> Seq(Op)] /\ served' \in [Client -> Seq(Op)]
      /\ keys' \in [Client -> KeyRing] /\ parked' \in [Client -> Seq(Envelope)]
  BY <1>1 DEF TypeOK, Restart
<1>3. /\ fetching' \in [Client -> SUBSET Answers]
      /\ join' \in [Client -> (SUBSET Answers) \cup {NoJoin}]
  BY <1>1 DEF TypeOK, Restart
<1>4. \A sent \in {outbox', waiting', opened', offered'} : sent \in [Client -> SUBSET Frame]
  BY <1>1 DEF TypeOK, Restart
<1>5. faults' \in 0..MaxFaults
  BY BoundsAssumption DEF TypeOK, Restart
<1>6. pending' = [pending EXCEPT ![c] = FALSE] /\ sealed' = sealed
  BY DEF Restart
<1>7. /\ pending' \in [Client -> BOOLEAN] /\ Cardinality(Waiting) \in Nat
      /\ Cardinality(Waiting') = Cardinality(Waiting) - (IF pending[c] THEN 1 ELSE 0)
  BY <1>1, <1>6, WaitsLess, WaitingCount
<1>8. SealedFits'
  BY <1>1, <1>6, <1>7, BoundsAssumption, SealedFitsIs, SealedFitsNextIs
<1>9. UNCHANGED <<relayVars, keysMade, sealed, stale, refused>>
  BY DEF Restart
<1>. QED  BY <1>2, <1>3, <1>4, <1>5, <1>7, <1>8, <1>9 DEF TypeOK, relayVars

LEMMA NextTyped == TypeOK /\ SealedFits /\ [Next]_vars => TypeOK' /\ SealedFits'
<1>. SUFFICES ASSUME TypeOK, SealedFits, [Next]_vars PROVE TypeOK' /\ SealedFits'
  OBVIOUS
<1>1. CASE UNCHANGED vars
  BY <1>1 DEF TypeOK, SealedFits, vars, relayVars, linkVars, spaceVars, docVars, boundVars
<1>2. ASSUME NEW c \in Running, HandleCmd(c) PROVE TypeOK' /\ SealedFits'
  BY <1>2, JoinSpaceTyped, AddMemberTyped, RemoveMemberTyped, EditTyped DEF HandleCmd
<1>3. ASSUME NEW c \in Running, Flush(c) PROVE TypeOK' /\ SealedFits'
  BY <1>3, FlushDropsTyped, FlushStallsTyped, FlushSealsTyped DEF Flush
<1>4. ASSUME NEW c \in Running, Relay(c) PROVE TypeOK' /\ SealedFits'
  BY <1>4, AcceptChangeTyped, RefuseChangeTyped, ServeMembershipTyped, ServeEnvelopesTyped,
     StoreFrameTyped, ServeFrameTyped DEF Relay
<1>5. ASSUME NEW c \in Running, Recv(c) PROVE TypeOK' /\ SealedFits'
  BY <1>5, RecvFrameTyped, RecvEnvelopesTyped, RecvMembershipTyped, RejectMembershipTyped,
     RecvEpochBumpTyped, RecvNotMemberTyped DEF Recv
<1>6. ASSUME NEW c \in Running, Disconnect(c) \/ Connect(c) \/ Restart(c)
      PROVE  TypeOK' /\ SealedFits'
  BY <1>6, DisconnectTyped, ConnectTyped, RestartTyped
<1>. QED  BY <1>1, <1>2, <1>3, <1>4, <1>5, <1>6 DEF Next

-----------------------------------------------------------------------------
(* What is in flight. *)

LEMMA RangeOfTail ==
    ASSUME NEW S, NEW s \in Seq(S), s # <<>>
    PROVE  Range(Tail(s)) \in SUBSET Range(s) /\ Head(s) \in Range(s)
<1>1. /\ Tail(s) \in Seq(S) /\ Len(Tail(s)) = Len(s) - 1 /\ Head(s) = s[1] /\ 1 \in 1..Len(s)
      /\ \A i \in 1..Len(Tail(s)) : Tail(s)[i] = s[i + 1] /\ i + 1 \in 1..Len(s)
  OBVIOUS
<1>2. ASSUME NEW v \in Range(Tail(s)) PROVE v \in Range(s)
  <2>1. PICK i \in 1..Len(Tail(s)) : v = Tail(s)[i]
    BY <1>1, Members2
  <2>. QED  BY <1>1, <2>1, Members2
<1>3. Head(s) \in Range(s)
  BY <1>1, Members2
<1>. QED  BY <1>2, <1>3

LEMMA RangeOfBoth ==
    ASSUME NEW S, NEW s \in Seq(S), NEW t \in Seq(S)
    PROVE  Range(s \o t) \in SUBSET (Range(s) \cup Range(t))
<1>1. /\ s \o t \in Seq(S) /\ Len(s \o t) = Len(s) + Len(t) /\ Len(s) \in Nat /\ Len(t) \in Nat
      /\ \A i \in 1..Len(s) + Len(t) : (s \o t)[i] = IF i <= Len(s) THEN s[i] ELSE t[i - Len(s)]
  BY ConcatIs
<1>2. ASSUME NEW v \in Range(s \o t) PROVE v \in Range(s) \cup Range(t)
  <2>1. PICK i \in 1..Len(s) + Len(t) : v = (s \o t)[i]
    BY <1>1, Members2
  <2>2. CASE i <= Len(s)
    BY <1>1, <2>1, <2>2, Members2
  <2>3. CASE ~(i <= Len(s))
    <3>1. i - Len(s) \in 1..Len(t) /\ v = t[i - Len(s)]
      BY <1>1, <2>1, <2>3
    <3>. QED  BY <3>1, Members2
  <2>. QED  BY <2>2, <2>3
<1>. QED  BY <1>2

LEMMA RangeOfOne ==
    ASSUME NEW x
    PROVE  Range(<<x>>) = {x}
BY DEF Range

LEMMA UpTaken ==
    ASSUME TypeOK, NEW c \in Client, NEW type, RelayTake(c, type)
    PROVE  /\ \A d \in Client : Range(up'[d]) \in SUBSET Range(up[d])
           /\ Head(up[c]) \in Range(up[c]) /\ Head(up[c]).type = type
           /\ up[c] # <<>> /\ up'[c] = Tail(up[c])
           /\ \A d \in Client : d # c => up'[d] = up[d]
<1>1. /\ up \in [Client -> Seq(UpMessages)] /\ up[c] \in Seq(UpMessages) /\ up[c] # <<>>
      /\ up' = [up EXCEPT ![c] = Tail(@)] /\ Head(up[c]).type = type
  BY DEF TypeOK, RelayTake
<1>2. Range(Tail(up[c])) \in SUBSET Range(up[c]) /\ Head(up[c]) \in Range(up[c])
  BY <1>1, RangeOfTail
<1>3. up'[c] = Tail(up[c]) /\ \A d \in Client : d # c => up'[d] = up[d]
  BY <1>1
<1>. QED  BY <1>1, <1>2, <1>3

LEMMA UpSent ==
    ASSUME TypeOK, NEW c \in Client, NEW msgs \in Seq(UpMessages), Send(c, msgs)
    PROVE  /\ \A d \in Client : Range(up'[d]) \in SUBSET (Range(up[d]) \cup Range(msgs))
           /\ up'[c] = up[c] \o msgs
           /\ \A d \in Client : d # c => up'[d] = up[d]
<1>1. /\ up \in [Client -> Seq(UpMessages)] /\ up[c] \in Seq(UpMessages)
      /\ up' = [up EXCEPT ![c] = @ \o msgs]
  BY DEF TypeOK, Send
<1>2. Range(up[c] \o msgs) \in SUBSET (Range(up[c]) \cup Range(msgs))
  BY <1>1, RangeOfBoth
<1>3. up'[c] = up[c] \o msgs /\ \A d \in Client : d # c => up'[d] = up[d]
  BY <1>1
<1>. QED  BY <1>2, <1>3

LEMMA DownTaken ==
    ASSUME TypeOK, NEW c \in Client, NEW type, Arrives(c, type), Take(c)
    PROVE  /\ \A d \in Client : Range(down'[d]) \in SUBSET Range(down[d])
           /\ Head(down[c]) \in Range(down[c]) /\ Head(down[c]).type = type
<1>1. /\ down \in [Client -> Seq(DownMessages)] /\ down[c] \in Seq(DownMessages) /\ down[c] # <<>>
      /\ down' = [down EXCEPT ![c] = Tail(@)] /\ Head(down[c]).type = type
  BY DEF TypeOK, Arrives, Take
<1>2. Range(Tail(down[c])) \in SUBSET Range(down[c]) /\ Head(down[c]) \in Range(down[c])
  BY <1>1, RangeOfTail
<1>3. down'[c] = Tail(down[c]) /\ \A d \in Client : d # c => down'[d] = down[d]
  BY <1>1
<1>. QED  BY <1>1, <1>2, <1>3

LEMMA DownAnswered ==
    ASSUME TypeOK, NEW c \in Client, NEW m \in DownMessages, Answer(c, m)
    PROVE  \A d \in Client : \A x \in Range(down'[d]) : x \in Range(down[d]) \/ (d = c /\ x = m)
<1>1. /\ down \in [Client -> Seq(DownMessages)] /\ down[c] \in Seq(DownMessages)
      /\ down' = [down EXCEPT ![c] = Append(@, m)]
  BY DEF TypeOK, Answer
<1>2. Append(down[c], m) = down[c] \o <<m>> /\ <<m>> \in Seq(DownMessages)
  BY <1>1
<1>3. Range(Append(down[c], m)) \in SUBSET (Range(down[c]) \cup {m})
  BY <1>1, <1>2, RangeOfBoth, RangeOfOne
<1>4. down'[c] = Append(down[c], m) /\ \A d \in Client : d # c => down'[d] = down[d]
  BY <1>1
<1>. QED  BY <1>3, <1>4

-----------------------------------------------------------------------------
(* The queue of the owner's changes. *)

LEMMA ChangeNumber ==
    ASSUME NEW u \in Seq(UpMessages), NEW j \in 1..Len(u), IsChange(u[j])
    PROVE  u[j].op.seq \in Nat /\ u[j].op \in Op
<1>1. u[j] \in UpMessages
  OBVIOUS
<1>2. u[j].op \in Op
  BY <1>1, UpMessageIs DEF IsChange
<1>. QED  BY <1>2 DEF Op

LEMMA QueuedTail ==
    ASSUME NEW u \in Seq(UpMessages), u # <<>>, NEW n \in Nat, NEW m \in Nat, Queued(u, n, m)
    PROVE  /\ ~IsChange(Head(u)) => Queued(Tail(u), n, m)
           /\ IsChange(Head(u)) /\ Head(u).op.seq = n => Queued(Tail(u), n + 1, m)
<1>. DEFINE t == Tail(u)
<1>1. /\ t \in Seq(UpMessages) /\ Len(t) = Len(u) - 1 /\ Len(u) \in Nat \ {0}
      /\ \A i \in 1..Len(t) : t[i] = u[i + 1] /\ i + 1 \in 1..Len(u)
      /\ Head(u) = u[1] /\ DOMAIN t = 1..Len(t) /\ DOMAIN u = 1..Len(u)
  OBVIOUS
<1>. HIDE DEF t
<1>2. /\ \A j \in 1..Len(u) : IsChange(u[j]) => u[j].op.seq >= n
      /\ \A j, k \in 1..Len(u) :
            IsChange(u[j]) /\ IsChange(u[k]) /\ j < k => u[j].op.seq < u[k].op.seq
      /\ \A i \in n..m - 1 : \E j \in 1..Len(u) : IsChange(u[j]) /\ u[j].op.seq = i
  BY <1>1 DEF Queued
<1>3. \A j, k \in 1..Len(t) :
            IsChange(t[j]) /\ IsChange(t[k]) /\ j < k => t[j].op.seq < t[k].op.seq
  <2>1. TAKE j, k \in 1..Len(t)
  <2>2. t[j] = u[j + 1] /\ t[k] = u[k + 1] /\ j + 1 \in 1..Len(u) /\ k + 1 \in 1..Len(u)
        /\ (j < k => j + 1 < k + 1)
    BY <1>1
  <2>. QED  BY <1>2, <2>2
<1>4. ASSUME NEW i \in n..m - 1, i # n \/ ~IsChange(Head(u)),
             IsChange(Head(u)) => Head(u).op.seq = n
      PROVE  \E j \in 1..Len(t) : IsChange(t[j]) /\ t[j].op.seq = i
  <2>1. PICK j \in 1..Len(u) : IsChange(u[j]) /\ u[j].op.seq = i
    BY <1>2
  <2>2. j # 1
    BY <1>1, <1>4, <2>1
  <2>3. j - 1 \in 1..Len(t) /\ t[j - 1] = u[(j - 1) + 1] /\ (j - 1) + 1 = j
    BY <1>1, <2>2
  <2>. QED  BY <2>1, <2>3
<1>5. ASSUME ~IsChange(Head(u)) PROVE Queued(t, n, m)
  <2>1. \A j \in 1..Len(t) : IsChange(t[j]) => t[j].op.seq >= n
    BY <1>1, <1>2
  <2>2. \A i \in n..m - 1 : \E j \in 1..Len(t) : IsChange(t[j]) /\ t[j].op.seq = i
    BY <1>4, <1>5
  <2>. QED  BY <1>1, <1>3, <2>1, <2>2 DEF Queued
<1>6. ASSUME IsChange(Head(u)), Head(u).op.seq = n PROVE Queued(t, n + 1, m)
  <2>1. \A j \in 1..Len(t) : IsChange(t[j]) => t[j].op.seq >= n + 1
    <3>1. TAKE j \in 1..Len(t)
    <3>2. HAVE IsChange(t[j])
    <3>3. t[j] = u[j + 1] /\ j + 1 \in 1..Len(u) /\ 1 \in 1..Len(u) /\ 1 < j + 1
      BY <1>1
    <3>4. u[1].op.seq < u[j + 1].op.seq
      BY <1>1, <1>2, <1>6, <3>2, <3>3
    <3>5. u[j + 1].op.seq \in Nat
      BY <3>2, <3>3, ChangeNumber
    <3>. QED  BY <1>1, <1>6, <3>3, <3>4, <3>5
  <2>2. \A i \in n + 1..m - 1 : \E j \in 1..Len(t) : IsChange(t[j]) /\ t[j].op.seq = i
    <3>1. TAKE i \in n + 1..m - 1
    <3>2. i \in n..m - 1 /\ i # n
      OBVIOUS
    <3>. QED  BY <1>4, <1>6, <3>2
  <2>. QED  BY <1>1, <1>3, <2>1, <2>2 DEF Queued
<1>. QED  BY <1>5, <1>6 DEF t

LEMMA QueuedMore ==
    ASSUME NEW u \in Seq(UpMessages), NEW v \in Seq(UpMessages), NEW n \in Nat, NEW m \in Nat,
           Queued(u, n, m), \A j \in 1..Len(v) : ~IsChange(v[j])
    PROVE  Queued(u \o v, n, m)
<1>. DEFINE t == u \o v
<1>1. /\ DOMAIN t = 1..Len(u) + Len(v) /\ DOMAIN u = 1..Len(u) /\ Len(u) \in Nat /\ Len(v) \in Nat
      /\ \A i \in 1..Len(u) + Len(v) : t[i] = IF i <= Len(u) THEN u[i] ELSE v[i - Len(u)]
  OBVIOUS
<1>. HIDE DEF t
<1>2. \A i \in DOMAIN t : IsChange(t[i]) => i \in DOMAIN u /\ t[i] = u[i]
  <2>1. TAKE i \in DOMAIN t
  <2>2. CASE i <= Len(u)
    BY <1>1, <2>2
  <2>3. CASE ~(i <= Len(u))
    <3>1. i - Len(u) \in 1..Len(v) /\ t[i] = v[i - Len(u)]
      BY <1>1, <2>3
    <3>. QED  BY <3>1
  <2>. QED  BY <2>2, <2>3
<1>3. \A i \in DOMAIN u : i \in DOMAIN t /\ t[i] = u[i]
  BY <1>1
<1>4. Queued(t, n, m)
  <2>1. \A j \in DOMAIN t : IsChange(t[j]) => t[j].op.seq >= n
    BY <1>2 DEF Queued
  <2>2. \A j, k \in DOMAIN t :
            IsChange(t[j]) /\ IsChange(t[k]) /\ j < k => t[j].op.seq < t[k].op.seq
    BY <1>2 DEF Queued
  <2>3. \A i \in n..m - 1 : \E j \in DOMAIN t : IsChange(t[j]) /\ t[j].op.seq = i
    BY <1>3 DEF Queued
  <2>. QED  BY <2>1, <2>2, <2>3 DEF Queued
<1>. QED  BY <1>4 DEF t

LEMMA QueuedChange ==
    ASSUME NEW u \in Seq(UpMessages), NEW q \in UpMessages, NEW n \in Nat, NEW m \in Nat,
           Queued(u, n, m), n <= m, IsChange(q), q.op.seq = m,
           \A j \in 1..Len(u) : IsChange(u[j]) => u[j].op.seq < m
    PROVE  Queued(u \o <<q>>, n, m + 1)
<1>. DEFINE t == u \o <<q>>
            k0 == Len(u) + 1
<1>1. /\ DOMAIN t = 1..k0 /\ DOMAIN u = 1..Len(u) /\ Len(u) \in Nat
      /\ t[k0] = q /\ \A i \in 1..Len(u) : t[i] = u[i]
  OBVIOUS
<1>. HIDE DEF t
<1>2. \A j \in DOMAIN t : IsChange(t[j]) => t[j].op.seq >= n
  BY <1>1 DEF Queued
<1>3. \A j, k \in DOMAIN t :
          IsChange(t[j]) /\ IsChange(t[k]) /\ j < k => t[j].op.seq < t[k].op.seq
  BY <1>1 DEF Queued
<1>4. ASSUME NEW i \in n..(m + 1) - 1 PROVE \E j \in DOMAIN t : IsChange(t[j]) /\ t[j].op.seq = i
  <2>1. CASE i = m
    BY <1>1, <2>1
  <2>2. CASE i # m
    <3>1. i \in n..m - 1
      BY <2>2
    <3>2. PICK j \in 1..Len(u) : IsChange(u[j]) /\ u[j].op.seq = i
      BY <1>1, <3>1 DEF Queued
    <3>. QED  BY <1>1, <3>2
  <2>. QED  BY <2>1, <2>2
<1>5. Queued(t, n, m + 1)
  BY <1>2, <1>3, <1>4 DEF Queued
<1>. QED  BY <1>5 DEF t

-----------------------------------------------------------------------------
(* Steps that leave the logs, the keys and the rows alone. *)

LEMMA Monotone ==
    ASSUME TypeOK, TypeOK', faults' >= faults, stale' >= stale, Extends(relayLog', relayLog), Informed'
    PROVE  Informed /\ (faults' = 0 => faults = 0)
<1>1. \A i \in DOMAIN relayLog : i \in DOMAIN relayLog' /\ relayLog'[i] = relayLog[i]
  <2>1. relayLog \in Seq(Op) /\ relayLog' \in Seq(Op)
    BY DEF TypeOK
  <2>. QED  BY <2>1 DEF Extends
<1>2. SoleOwner
  BY <1>1 DEF Informed, SoleOwner
<1>3. faults \in Nat /\ stale \in Nat /\ faults' \in Nat /\ stale' \in Nat
  BY DEF TypeOK
<1>4. (faults' = 0 => faults = 0) /\ (stale' = 0 => stale = 0)
  BY <1>3
<1>. QED  BY <1>2, <1>4 DEF Informed

LEMMA ExtendsSelf == ASSUME NEW l PROVE Len(l) \in Nat => Extends(l, l)
BY DEF Extends

LEMMA LogTypes ==
    ASSUME TypeOK
    PROVE  /\ relayLog \in Seq(Op) /\ Len(relayLog) \in Nat /\ DOMAIN relayLog = 1..Len(relayLog)
           /\ \A c \in Client : /\ log[c] \in Seq(Op) /\ Len(log[c]) \in Nat
                                /\ DOMAIN log[c] = 1..Len(log[c])
                                /\ served[c] \in Seq(Op) /\ keys[c] \in KeyRing
                                /\ up[c] \in Seq(UpMessages) /\ down[c] \in Seq(DownMessages)
                                /\ parked[c] \in Seq(Envelope)
           /\ Creator \in Client
BY CreatorIsClient DEF TypeOK

LEMMA InFlightTypes ==
    ASSUME TypeOK, NEW c \in Client
    PROVE  /\ \A q \in Range(up[c]) : q \in UpMessages
           /\ \A d \in Range(down[c]) : d \in DownMessages
<1>1. up[c] \in Seq(UpMessages) /\ down[c] \in Seq(DownMessages)
  BY LogTypes
<1>2. /\ \A q \in Range(up[c]) : \E i \in 1..Len(up[c]) : q = up[c][i]
      /\ \A d \in Range(down[c]) : \E i \in 1..Len(down[c]) : d = down[c][i]
  BY <1>1, Members2
<1>. QED  BY <1>1, <1>2

\* An answer that says nothing that the relay does not hold.
Harmless(c, d) ==
    /\ d.type = "Membership" =>
        /\ Extends(relayLog, d.ops)
        /\ c = Creator /\ log[c] = <<>> => d.ops = relayLog
    /\ d.type = "Envelopes" =>
        (c # Creator => \A v \in Range(d.envelopes) : Wrapped(c, v.key))

LEMMA CalmStep ==
    ASSUME TypeOK, TypeOK', InformedInv,
           UNCHANGED <<relayLog, rows, log, served, keys, parked, keysMade>>,
           faults' >= faults, stale' >= stale,
           \A c \in Client : \A q \in Range(up'[c]) : IsChange(q) => q \in Range(up[c]),
           Informed' => \A c \in Client : \A d \in Range(down'[c]) :
                            d \in Range(down[c]) \/ Harmless(c, d),
           Informed' => ChangesQueued'
    PROVE  InformedInv'
<1>1. SUFFICES ASSUME Informed'
               PROVE  /\ LogsGenuine' /\ LogsAgree' /\ ChangesFromOwner'
                      /\ RowsPlaced' /\ KeysFromLogs' /\ KeysFromRows' /\ ChangesQueued'
  BY DEF InformedInv
<1>2. Extends(relayLog', relayLog)
  BY LogTypes, ExtendsSelf
<1>3. /\ LogsGenuine /\ LogsAgree /\ ChangesFromOwner
      /\ RowsPlaced /\ KeysFromLogs /\ KeysFromRows
      /\ faults' = 0 => faults = 0
  BY <1>1, <1>2, Monotone DEF InformedInv
<1>4. LogsGenuine'
  BY <1>3 DEF LogsGenuine, Genuine, EpochAt
<1>5. LogsAgree'
  <2>1. ASSUME NEW c \in Client, NEW d \in Range(down'[c]), d.type = "Membership"
        PROVE  Extends(relayLog, d.ops) /\ (c = Creator /\ log[c] = <<>> => d.ops = relayLog)
    BY <1>1, <1>3, <2>1 DEF Harmless, LogsAgree
  <2>2. \A c \in Client : \A d \in Range(down'[c]) :
          d.type = "Membership" =>
            Extends(relayLog', d.ops) /\ (c = Creator /\ log'[c] = <<>> => d.ops = relayLog')
    BY <2>1
  <2>3. /\ log'[Creator] # <<>> => Extends(log'[Creator], relayLog')
        /\ \A c \in Client : c # Creator => Extends(relayLog', log'[c])
        /\ \A c \in Client : Extends(relayLog', served'[c])
        /\ log'[Creator] = <<>> => faults' # 0
    BY <1>3 DEF LogsAgree
  <2>. QED  BY <2>2, <2>3 DEF LogsAgree, Extends
<1>6. ChangesFromOwner'
  <2>1. \A c \in Client : \A q \in Range(up'[c]) :
            IsChange(q) => c = Creator /\ OwnChange(log[Creator], q)
    BY <1>3 DEF ChangesFromOwner
  <2>. QED  BY <2>1 DEF ChangesFromOwner, OwnChange, IsChange
<1>7. RowsPlaced'
  BY <1>3 DEF RowsPlaced, Placed
<1>8. KeysFromLogs'
  BY <1>3 DEF KeysFromLogs
<1>9. KeysFromRows'
  <2>1. ASSUME NEW c \in Client, NEW d \in Range(down'[c]), c # Creator, d.type = "Envelopes",
               NEW v \in Range(d.envelopes)
        PROVE  Wrapped(c, v.key)
    BY <1>1, <1>3, <2>1 DEF Harmless, KeysFromRows
  <2>2. \A c \in Client : c # Creator =>
            /\ \A e \in DOMAIN keys[c] : Wrapped(c, keys[c][e])
            /\ \A v \in Range(parked[c]) : Wrapped(c, v.key)
    BY <1>3 DEF KeysFromRows
  <2>3. \A m, k : Wrapped(m, k) => Wrapped(m, k)'
    BY DEF Wrapped
  <2>4. ASSUME NEW c \in Client, c # Creator
        PROVE  /\ \A e \in DOMAIN keys'[c] : (Wrapped(c, keys[c][e]))'
               /\ \A v \in Range(parked'[c]) : (Wrapped(c, v.key))'
               /\ \A d \in Range(down'[c]) : d.type = "Envelopes" =>
                    \A v \in Range(d.envelopes) : (Wrapped(c, v.key))'
    <3>1. \A e \in DOMAIN keys'[c] : (Wrapped(c, keys[c][e]))'
      BY <2>2, <2>4 DEF Wrapped
    <3>2. \A v \in Range(parked'[c]) : (Wrapped(c, v.key))'
      BY <2>2, <2>4 DEF Wrapped
    <3>3. \A d \in Range(down'[c]) : d.type = "Envelopes" =>
                    \A v \in Range(d.envelopes) : (Wrapped(c, v.key))'
      BY <2>1, <2>4 DEF Wrapped
    <3>. QED  BY <3>1, <3>2, <3>3
  <2>. QED  BY <2>4 DEF KeysFromRows
<1>. QED  BY <1>1, <1>4, <1>5, <1>6, <1>7, <1>8, <1>9

-----------------------------------------------------------------------------
(* The queue in calm steps. *)

LEMMA QueueSame ==
    ASSUME TypeOK, ChangesQueued, UNCHANGED <<relayLog, log, refused>>,
           faults' = 0 => faults = 0, faults' = 0 => up'[Creator] = up[Creator]
    PROVE  ChangesQueued'
BY DEF ChangesQueued, Queued, IsChange

LEMMA QueueShorter ==
    ASSUME TypeOK, ChangesQueued, UNCHANGED <<relayLog, log, refused>>,
           faults' = 0 => faults = 0,
           NEW c \in Client, NEW type, type # "Change", RelayTake(c, type)
    PROVE  ChangesQueued'
<1>1. CASE c # Creator
  BY <1>1, LogTypes, UpTaken, QueueSame
<1>2. CASE c = Creator /\ faults' = 0
  <2>1. /\ up'[Creator] = Tail(up[Creator]) /\ up[Creator] # <<>>
        /\ ~IsChange(Head(up[Creator]))
    BY <1>2, UpTaken DEF IsChange
  <2>2. /\ up[Creator] \in Seq(UpMessages) /\ Len(relayLog) \in Nat /\ Len(log[Creator]) \in Nat
    BY LogTypes
  <2>3. Queued(up[Creator], Len(relayLog), Len(log[Creator])) /\ ~refused
    BY <1>2 DEF ChangesQueued
  <2>4. Queued(Tail(up[Creator]), Len(relayLog), Len(log[Creator]))
    BY <2>1, <2>2, <2>3, QueuedTail
  <2>. QED  BY <2>1, <2>3, <2>4 DEF ChangesQueued, Queued, IsChange
<1>3. CASE faults' # 0
  BY <1>3 DEF ChangesQueued
<1>. QED  BY <1>1, <1>2, <1>3

LEMMA QueueLonger ==
    ASSUME TypeOK, ChangesQueued, UNCHANGED <<relayLog, log, refused>>,
           faults' = 0 => faults = 0,
           NEW c \in Client, NEW msgs \in Seq(UpMessages), Send(c, msgs),
           \A q \in Range(msgs) : ~IsChange(q)
    PROVE  ChangesQueued'
<1>1. CASE c # Creator
  BY <1>1, LogTypes, UpSent, QueueSame
<1>2. CASE c = Creator /\ faults' = 0
  <2>1. up'[Creator] = up[Creator] \o msgs
    BY <1>2, UpSent
  <2>2. /\ up[Creator] \in Seq(UpMessages) /\ Len(relayLog) \in Nat /\ Len(log[Creator]) \in Nat
    BY LogTypes
  <2>3. Queued(up[Creator], Len(relayLog), Len(log[Creator])) /\ ~refused
    BY <1>2 DEF ChangesQueued
  <2>4. \A j \in 1..Len(msgs) : ~IsChange(msgs[j])
    BY Members2
  <2>5. Queued(up[Creator] \o msgs, Len(relayLog), Len(log[Creator]))
    BY <2>2, <2>3, <2>4, QueuedMore
  <2>. QED  BY <2>1, <2>3, <2>5 DEF ChangesQueued, Queued, IsChange
<1>3. CASE faults' # 0
  BY <1>3 DEF ChangesQueued
<1>. QED  BY <1>1, <1>2, <1>3

-----------------------------------------------------------------------------
(* The calm steps. *)

LEMMA CalmSend ==
    ASSUME TypeOK, TypeOK', InformedInv,
           UNCHANGED <<relayLog, rows, log, served, keys, parked, keysMade, refused>>,
           faults' = faults, stale' = stale,
           NEW c \in Client,
           \/ UNCHANGED up
           \/ \E msgs \in Seq(UpMessages) : Send(c, msgs) /\ \A q \in Range(msgs) : ~IsChange(q),
           \A d \in Client : \A x \in Range(down'[d]) : x \in Range(down[d]) \/ Harmless(d, x)
    PROVE  InformedInv'
<1>1. \A d \in Client : \A q \in Range(up'[d]) : IsChange(q) => q \in Range(up[d])
  <2>1. CASE UNCHANGED up
    BY <2>1
  <2>2. ASSUME NEW msgs \in Seq(UpMessages), Send(c, msgs), \A q \in Range(msgs) : ~IsChange(q)
        PROVE  \A d \in Client : \A q \in Range(up'[d]) : IsChange(q) => q \in Range(up[d])
    BY <2>2, UpSent
  <2>. QED  BY <2>1, <2>2
<1>2. ASSUME Informed' PROVE ChangesQueued'
  <2>1. Extends(relayLog', relayLog) /\ faults' >= faults /\ stale' >= stale
    BY LogTypes, ExtendsSelf DEF TypeOK
  <2>2. ChangesQueued /\ (faults' = 0 => faults = 0)
    BY <1>2, <2>1, Monotone DEF InformedInv
  <2>3. CASE UNCHANGED up
    BY <2>2, <2>3, QueueSame
  <2>4. ASSUME NEW msgs \in Seq(UpMessages), Send(c, msgs), \A q \in Range(msgs) : ~IsChange(q)
        PROVE  ChangesQueued'
    BY <2>2, <2>4, QueueLonger
  <2>. QED  BY <2>3, <2>4
<1>3. faults' >= faults /\ stale' >= stale
  BY DEF TypeOK
<1>. QED  BY <1>1, <1>2, <1>3, CalmStep

LEMMA CalmTake ==
    ASSUME TypeOK, TypeOK', InformedInv,
           UNCHANGED <<relayLog, rows, log, served, keys, parked, keysMade, refused>>,
           faults' = faults, stale' >= stale,
           NEW c \in Client, NEW type, type # "Change", RelayTake(c, type),
           Informed' => \A d \in Client : \A x \in Range(down'[d]) :
                            x \in Range(down[d]) \/ Harmless(d, x)
    PROVE  InformedInv'
<1>1. \A d \in Client : \A q \in Range(up'[d]) : q \in Range(up[d])
  BY UpTaken
<1>2. ASSUME Informed' PROVE ChangesQueued'
  <2>1. Extends(relayLog', relayLog) /\ faults' >= faults
    BY LogTypes, ExtendsSelf DEF TypeOK
  <2>2. ChangesQueued /\ (faults' = 0 => faults = 0)
    BY <1>2, <2>1, Monotone DEF InformedInv
  <2>. QED  BY <2>2, QueueShorter
<1>3. faults' >= faults
  BY DEF TypeOK
<1>. QED  BY <1>1, <1>2, <1>3, CalmStep

LEMMA FetchesCalm ==
    /\ \A q \in Range(<<Fetch("Membership"), Fetch("Envelopes")>>) : ~IsChange(q)
    /\ \A q \in Range(<<Fetch("Envelopes"), Fetch("Membership")>>) : ~IsChange(q)
    /\ \A a \in Answers : \A q \in Range(<<Fetch(a)>>) : ~IsChange(q)
<1>1. \A a \in Answers : ~IsChange(Fetch(a))
  BY DEF Answers, Fetch, IsChange
<1>2. "Membership" \in Answers /\ "Envelopes" \in Answers
  BY DEF Answers
<1>3. \A x, y : Range(<<x, y>>) = {x, y}
  BY DEF Range
<1>. QED  BY <1>1, <1>2, <1>3, RangeOfOne

LEMMA RequestCalm ==
    ASSUME TypeOK, NEW c \in Client, NEW a \in Answers, Request(c, a)
    PROVE  \/ UNCHANGED up
           \/ \E msgs \in Seq(UpMessages) : Send(c, msgs) /\ \A q \in Range(msgs) : ~IsChange(q)
<1>1. <<Fetch(a)>> \in Seq(UpMessages) /\ \A q \in Range(<<Fetch(a)>>) : ~IsChange(q)
  BY FetchesTyped, FetchesCalm
<1>. QED  BY <1>1 DEF Request

LEMMA JoinSpaceKeeps ==
    ASSUME TypeOK, TypeOK', InformedInv, NEW c \in Running, JoinSpace(c)
    PROVE  InformedInv'
<1>1. c \in Client /\ Send(c, <<Fetch("Membership"), Fetch("Envelopes")>>)
  BY CreatorIsClient DEF JoinSpace
<1>2. \E msgs \in Seq(UpMessages) : Send(c, msgs) /\ \A q \in Range(msgs) : ~IsChange(q)
  BY <1>1, FetchesTyped, FetchesCalm
<1>3. UNCHANGED <<relayVars, down, spaceVars, boundVars>>
  BY DEF JoinSpace
<1>. QED  BY <1>1, <1>2, <1>3, CalmSend DEF relayVars, spaceVars, boundVars

LEMMA EditKeeps ==
    ASSUME TypeOK, TypeOK', InformedInv, NEW c \in Running, Edit(c) \/ FlushDrops(c)
    PROVE  InformedInv'
<1>1. c \in Client /\ UNCHANGED <<relayVars, linkVars, spaceVars, boundVars>>
  BY CreatorIsClient DEF Edit, FlushDrops
<1>. QED  BY <1>1, CalmSend DEF relayVars, linkVars, spaceVars, boundVars

LEMMA FlushStallsKeeps ==
    ASSUME TypeOK, TypeOK', InformedInv, NEW c \in Running, FlushStalls(c)
    PROVE  InformedInv'
<1>1. c \in Client /\ "Envelopes" \in Answers
  BY CreatorIsClient DEF Answers
<1>2. \/ UNCHANGED up
      \/ \E msgs \in Seq(UpMessages) : Send(c, msgs) /\ \A q \in Range(msgs) : ~IsChange(q)
  BY <1>1, RequestCalm DEF FlushStalls
<1>3. UNCHANGED <<relayVars, down, spaceVars, boundVars>>
  BY DEF FlushStalls
<1>. QED  BY <1>1, <1>2, <1>3, CalmSend DEF relayVars, spaceVars, boundVars

LEMMA PushCalm ==
    ASSUME NEW f \in Frame
    PROVE  /\ <<[type |-> "PushUpdate", frame |-> f]>> \in Seq(UpMessages)
           /\ \A q \in Range(<<[type |-> "PushUpdate", frame |-> f]>>) : ~IsChange(q)
<1>. DEFINE q0 == [type |-> "PushUpdate", frame |-> f]
<1>1. q0 \in UpMessages /\ ~IsChange(q0)
  BY UpMessageIs DEF IsChange
<1>. HIDE DEF q0
<1>2. <<q0>> \in Seq(UpMessages) /\ \A q \in Range(<<q0>>) : ~IsChange(q)
  BY <1>1, RangeOfOne
<1>. QED  BY <1>2 DEF q0

LEMMA FlushSealsKeeps ==
    ASSUME TypeOK, TypeOK', InformedInv, NEW c \in Running, FlushSeals(c)
    PROVE  InformedInv'
<1>. DEFINE e == Max(SealingEpochs(c))
            f == [by |-> c, n |-> sealed + 1, epoch |-> e, key |-> keys[c][e]]
<1>1. c \in Client
  BY CreatorIsClient
<1>2. f \in Frame
  <2>1. outbox' = [outbox EXCEPT ![c] = @ \cup {f}]
    BY DEF FlushSeals
  <2>. HIDE DEF f
  <2>2. outbox' \in [Client -> SUBSET Frame] /\ outbox \in [Client -> SUBSET Frame]
    BY DEF TypeOK
  <2>3. f \in outbox'[c]
    BY <1>1, <2>1, <2>2
  <2>. QED  BY <1>1, <2>2, <2>3
<1>3. IF connected[c] THEN Send(c, <<[type |-> "PushUpdate", frame |-> f]>>) ELSE UNCHANGED up
  BY DEF FlushSeals
<1>4. UNCHANGED <<relayVars, down, spaceVars, keysMade, faults, stale, refused>>
  BY DEF FlushSeals
<1>. HIDE DEF f
<1>5. \/ UNCHANGED up
      \/ \E msgs \in Seq(UpMessages) : Send(c, msgs) /\ \A q \in Range(msgs) : ~IsChange(q)
  BY <1>2, <1>3, PushCalm
<1>. QED  BY <1>1, <1>4, <1>5, CalmSend DEF relayVars, spaceVars

LEMMA StoreFrameKeeps ==
    ASSUME TypeOK, TypeOK', InformedInv, NEW c \in Running, StoreFrame(c)
    PROVE  InformedInv'
<1>1. c \in Client /\ RelayTake(c, "PushUpdate")
  BY CreatorIsClient DEF StoreFrame
<1>2. UNCHANGED <<relayLog, rows, boundVars, spaceVars>>
  BY DEF StoreFrame, EngineUnchanged
<1>3. \A d \in Client : \A x \in Range(down'[d]) : x \in Range(down[d]) \/ Harmless(d, x)
  <2>1. [type |-> "NotMember"] \in DownMessages
    BY DownMessageIs
  <2>2. \A d : Harmless(d, [type |-> "NotMember"])
    BY DEF Harmless
  <2>3. CASE UNCHANGED down
    BY <2>3
  <2>4. CASE NotMember(c)
    BY <1>1, <2>1, <2>2, <2>4, DownAnswered DEF NotMember
  <2>. QED  BY <2>3, <2>4 DEF StoreFrame
<1>4. faults' = faults /\ stale' >= stale
  BY <1>2 DEF TypeOK, boundVars
<1>. QED  BY <1>1, <1>2, <1>3, <1>4, CalmTake DEF boundVars, spaceVars

LEMMA ServeFrameKeeps ==
    ASSUME TypeOK, TypeOK', InformedInv, NEW c \in Running, NEW f \in frames, ServeFrame(c, f)
    PROVE  InformedInv'
<1>1. c \in Client /\ f \in Frame
  BY CreatorIsClient DEF TypeOK
<1>2. UNCHANGED <<relayVars, up, boundVars, spaceVars>>
  BY DEF ServeFrame, EngineUnchanged
<1>3. \A d \in Client : \A x \in Range(down'[d]) : x \in Range(down[d]) \/ Harmless(d, x)
  <2>1. [type |-> "Frame", frame |-> f] \in DownMessages
    BY <1>1, DownMessageIs
  <2>2. \A d : Harmless(d, [type |-> "Frame", frame |-> f])
    BY DEF Harmless
  <2>. QED  BY <1>1, <2>1, <2>2, DownAnswered DEF ServeFrame
<1>. QED  BY <1>1, <1>2, <1>3, CalmSend DEF relayVars, boundVars, spaceVars

LEMMA RecvFrameKeeps ==
    ASSUME TypeOK, TypeOK', InformedInv, NEW c \in Running, RecvFrame(c)
    PROVE  InformedInv'
<1>. DEFINE f == Head(down[c]).frame
            lacking == Lacks(c, log[c], keys[c], f)
<1>1. c \in Client /\ Arrives(c, "Frame") /\ Take(c)
  BY CreatorIsClient DEF RecvFrame
<1>2. UNCHANGED <<relayVars, boundVars, spaceVars>>
  BY DEF RecvFrame
<1>3. \A d \in Client : \A x \in Range(down'[d]) : x \in Range(down[d])
  BY <1>1, DownTaken
<1>4. \/ UNCHANGED up
      \/ \E msgs \in Seq(UpMessages) : Send(c, msgs) /\ \A q \in Range(msgs) : ~IsChange(q)
  <2>1. CASE f \in opened[c] \/ lacking = {}
    BY <2>1 DEF RecvFrame
  <2>2. CASE ~(f \in opened[c] \/ lacking = {})
    <3>1. PICK a \in lacking : TRUE
      BY <2>2
    <3>2. a \in Answers
      BY <3>1 DEF Lacks, Answers
    <3>3. Request(c, a)
      BY <2>2, <3>1 DEF RecvFrame
    <3>. QED  BY <1>1, <3>2, <3>3, RequestCalm
  <2>. QED  BY <2>1, <2>2
<1>. QED  BY <1>1, <1>2, <1>3, <1>4, CalmSend DEF relayVars, boundVars, spaceVars

LEMMA RejectMembershipKeeps ==
    ASSUME TypeOK, TypeOK', InformedInv, NEW c \in Running, RejectMembership(c) \/ RecvNotMember(c)
    PROVE  InformedInv'
<1>1. c \in Client /\ UNCHANGED <<relayVars, up, boundVars, spaceVars>>
  BY CreatorIsClient DEF RejectMembership, RecvNotMember
<1>2. \A d \in Client : \A x \in Range(down'[d]) : x \in Range(down[d])
  BY <1>1, DownTaken DEF RejectMembership, RecvNotMember
<1>. QED  BY <1>1, <1>2, CalmSend DEF relayVars, boundVars, spaceVars

LEMMA RecvEpochBumpKeeps ==
    ASSUME TypeOK, TypeOK', InformedInv, NEW c \in Running, RecvEpochBump(c)
    PROVE  InformedInv'
<1>1. c \in Client /\ Send(c, <<Fetch("Envelopes"), Fetch("Membership")>>)
  BY CreatorIsClient DEF RecvEpochBump
<1>2. \E msgs \in Seq(UpMessages) : Send(c, msgs) /\ \A q \in Range(msgs) : ~IsChange(q)
  BY <1>1, FetchesTyped, FetchesCalm
<1>3. UNCHANGED <<relayVars, spaceVars, boundVars>>
  BY DEF RecvEpochBump
<1>4. \A d \in Client : \A x \in Range(down'[d]) : x \in Range(down[d])
  BY <1>1, DownTaken DEF RecvEpochBump
<1>. QED  BY <1>1, <1>2, <1>3, <1>4, CalmSend DEF relayVars, spaceVars, boundVars

LEMMA ConnectKeeps ==
    ASSUME TypeOK, TypeOK', InformedInv, NEW c \in Running, Connect(c)
    PROVE  InformedInv'
<1>. DEFINE M == {[type |-> "PushUpdate", frame |-> f] : f \in outbox[c]}
<1>1. c \in Client /\ outbox[c] \in SUBSET Frame /\ Send(c, SetToSeq(M))
  BY CreatorIsClient DEF TypeOK, Connect
<1>2. IsFiniteSet(M)
  <2>. DEFINE g == [f \in outbox[c] |-> [type |-> "PushUpdate", frame |-> f]]
  <2>1. g \in Surjection(outbox[c], M)
    BY DEF Surjection
  <2>2. IsFiniteSet(outbox[c])
    BY <1>1, DataFinite, FS_Subset
  <2>. HIDE DEF g, M
  <2>. QED  BY <2>1, <2>2, FS_Surjection
<1>3. M \in SUBSET UpMessages /\ \A q \in M : ~IsChange(q)
  BY <1>1, UpMessageIs DEF IsChange
<1>. HIDE DEF M
<1>4. SetToSeq(M) \in Seq(M)
  BY <1>2, SetToSeqIs
<1>5. SetToSeq(M) \in Seq(UpMessages)
  BY <1>3, <1>4
<1>6. \A q \in Range(SetToSeq(M)) : ~IsChange(q)
  BY <1>3, <1>4, Members2
<1>7. UNCHANGED <<relayVars, down, spaceVars, boundVars>>
  BY DEF Connect
<1>. QED  BY <1>1, <1>5, <1>6, <1>7, CalmSend DEF relayVars, spaceVars, boundVars

LEMMA DisconnectKeeps ==
    ASSUME TypeOK, TypeOK', InformedInv, NEW c \in Running, Disconnect(c)
    PROVE  InformedInv'
<1>1. c \in Client /\ faults \in Nat /\ stale \in Nat /\ faults' = faults + 1 /\ stale' = stale
  BY CreatorIsClient DEF TypeOK, Disconnect
<1>2. UNCHANGED <<relayVars, spaceVars, keysMade>>
  BY DEF Disconnect
<1>3. \A d \in Client : /\ d # c => up'[d] = up[d] /\ down'[d] = down[d]
                        /\ d = c => up'[d] = <<>> /\ down'[d] = <<>>
  BY DEF TypeOK, Disconnect
<1>4. Range(<<>>) = {}
  BY DEF Range
<1>5. \A d \in Client : Range(up'[d]) \in SUBSET Range(up[d]) /\ Range(down'[d]) \in SUBSET Range(down[d])
  BY <1>3, <1>4
<1>6. faults' >= faults /\ stale' >= stale /\ faults' # 0
  BY <1>1
<1>7. ChangesQueued'
  BY <1>6 DEF ChangesQueued
<1>. QED  BY <1>2, <1>5, <1>6, <1>7, CalmStep DEF relayVars, spaceVars

LEMMA ServeMembershipKeeps ==
    ASSUME TypeOK, TypeOK', InformedInv, NEW c \in Running, ServeMembership(c)
    PROVE  InformedInv'
<1>1. c \in Client /\ RelayTake(c, "Membership") /\ faults \in Nat /\ stale \in Nat
  BY CreatorIsClient DEF TypeOK, ServeMembership
<1>2. UNCHANGED <<relayVars, spaceVars, keysMade, faults, refused>>
  BY DEF ServeMembership, EngineUnchanged
<1>3. PICK n \in 1..Len(relayLog) :
        /\ stale' = IF n < Len(relayLog) THEN stale + 1 ELSE stale
        /\ IF IsMember(c) THEN Answer(c, [type |-> "Membership", ops |-> SubSeq(relayLog, 1, n)])
           ELSE NotMember(c)
  BY DEF ServeMembership
<1>4. stale' >= stale
  BY <1>1, <1>3
<1>5. ASSUME Informed', NEW d \in Client, NEW x \in Range(down'[d])
      PROVE  x \in Range(down[d]) \/ Harmless(d, x)
  <2>1. relayLog \in Seq(Op)
    BY LogTypes
  <2>2. CASE ~IsMember(c)
    <3>1. [type |-> "NotMember"] \in DownMessages
      BY DownMessageIs
    <3>2. Harmless(d, [type |-> "NotMember"])
      BY DEF Harmless
    <3>3. Answer(c, [type |-> "NotMember"])
      BY <1>3, <2>2 DEF NotMember
    <3>. QED  BY <1>1, <3>1, <3>2, <3>3, DownAnswered
  <2>3. CASE IsMember(c)
    <3>. DEFINE ops == SubSeq(relayLog, 1, n)
                a == [type |-> "Membership", ops |-> ops]
    <3>1. ops \in Seq(Op) /\ Extends(relayLog, ops)
      BY <2>1, PrefixExtends
    <3>2. a \in DownMessages
      BY <3>1, DownMessageIs
    <3>3. Answer(c, a)
      BY <1>3, <2>3
    <3>4. ASSUME c = Creator, log[c] = <<>> PROVE ops = relayLog
      <4>1. Informed /\ LogsAgree
        <5>1. Extends(relayLog', relayLog)
          BY <1>2, LogTypes, ExtendsSelf DEF relayVars
        <5>2. faults' >= faults
          BY <1>1, <1>2
        <5>. QED  BY <1>4, <1>5, <5>1, <5>2, Monotone DEF InformedInv
      <4>2. faults' # 0
        BY <1>2, <3>4, <4>1 DEF LogsAgree
      <4>3. stale' = 0
        BY <1>5, <4>2 DEF Informed
      <4>4. n = Len(relayLog)
        BY <1>1, <1>3, <2>1, <4>3
      <4>. QED  BY <2>1, <4>4
    <3>. HIDE DEF ops
    <3>5. Harmless(c, a)
      BY <3>1, <3>4 DEF Harmless
    <3>. HIDE DEF a
    <3>. QED  BY <1>1, <3>2, <3>3, <3>5, DownAnswered
  <2>. QED  BY <2>2, <2>3
<1>. QED  BY <1>1, <1>2, <1>4, <1>5, CalmTake DEF relayVars, spaceVars

LEMMA ServeEnvelopesKeeps ==
    ASSUME TypeOK, TypeOK', InformedInv, NEW c \in Running, ServeEnvelopes(c)
    PROVE  InformedInv'
<1>1. c \in Client /\ RelayTake(c, "Envelopes")
  BY CreatorIsClient DEF ServeEnvelopes
<1>2. UNCHANGED <<relayVars, spaceVars, boundVars>>
  BY DEF ServeEnvelopes, EngineUnchanged
<1>3. \A d \in Client : \A x \in Range(down'[d]) : x \in Range(down[d]) \/ Harmless(d, x)
  <2>1. CASE ~IsMember(c)
    <3>1. [type |-> "NotMember"] \in DownMessages
      BY DownMessageIs
    <3>2. \A d : Harmless(d, [type |-> "NotMember"])
      BY DEF Harmless
    <3>3. Answer(c, [type |-> "NotMember"])
      BY <2>1 DEF ServeEnvelopes, NotMember
    <3>. QED  BY <1>1, <3>1, <3>2, <3>3, DownAnswered
  <2>2. CASE IsMember(c)
    <3>1. PICK mine \in SetToSeqs(Mine(c)) : Answer(c, [type |-> "Envelopes", envelopes |-> mine])
      BY <2>2 DEF ServeEnvelopes, Mine
    <3>. DEFINE a == [type |-> "Envelopes", envelopes |-> mine]
    <3>2. /\ mine \in Seq(Envelope)
          /\ \A v \in Range(mine) : \E r \in rows : r.to = c /\ r.epoch = v.epoch /\ r.key = v.key
      BY <1>1, MineIs
    <3>3. a \in DownMessages
      BY <3>2, DownMessageIs
    <3>4. Harmless(c, a)
      BY <3>2 DEF Harmless, Wrapped
    <3>5. Answer(c, a)
      BY <3>1
    <3>. HIDE DEF a
    <3>. QED  BY <1>1, <3>3, <3>4, <3>5, DownAnswered
  <2>. QED  BY <2>1, <2>2
<1>4. faults' = faults /\ stale' >= stale
  BY <1>2 DEF TypeOK, boundVars
<1>. QED  BY <1>1, <1>2, <1>3, <1>4, CalmTake DEF relayVars, boundVars, spaceVars

-----------------------------------------------------------------------------
(* Changes of the membership. *)

LEMMA OwnersAct ==
    ASSUME TypeOK, InformedInv, Informed, NEW c \in Client, Role(log[c], c) = "Owner"
    PROVE  c = Creator /\ log[c] # <<>>
<1>1. log[c] \in Seq(Op) /\ relayLog \in Seq(Op)
  BY LogTypes
<1>2. PICK p \in 1..Len(log[c]) : log[c][p].who = c /\ log[c][p].role = "Owner"
  BY <1>1, RoleFrom
<1>3. CASE c # Creator
  <2>1. Extends(relayLog, log[c])
    BY <1>3 DEF InformedInv, LogsAgree
  <2>2. p \in DOMAIN relayLog /\ relayLog[p] = log[c][p]
    BY <1>1, <2>1 DEF Extends
  <2>. QED  BY <1>2, <1>3, <2>2 DEF Informed, SoleOwner
<1>. QED  BY <1>2, <1>3

\* With one owner and nothing lost, the next change of an owner is one that applies.
LEMMA HeadApplies ==
    ASSUME TypeOK, InformedInv, Informed, faults = 0, NEW c \in Client,
           up[c] # <<>>, IsChange(Head(up[c]))
    PROVE  Applies(relayLog, Head(up[c]).op)
<1>. DEFINE q == Head(up[c])
            l == log[Creator]
            n == Len(relayLog)
<1>1. up[c] \in Seq(UpMessages) /\ relayLog \in Seq(Op) /\ l \in Seq(Op) /\ n \in Nat
  BY LogTypes
<1>2. q \in Range(up[c]) /\ q = up[c][1] /\ 1 \in 1..Len(up[c]) /\ 1 \in DOMAIN up[c]
      /\ DOMAIN up[c] = 1..Len(up[c])
  <2>1. q \in Range(up[c])
    BY <1>1, RangeOfTail
  <2>. QED  BY <1>1, <2>1
<1>3. c = Creator /\ OwnChange(l, q)
  BY <1>2 DEF InformedInv, ChangesFromOwner
<1>4. /\ LogsGenuine /\ LogsAgree /\ Queued(up[Creator], n, Len(l))
  BY DEF InformedInv, ChangesQueued
<1>5. Extends(l, relayLog) /\ Genuine(l) /\ Genuine(relayLog) /\ relayLog # <<>>
  BY <1>4 DEF LogsGenuine, LogsAgree
<1>6. q.op.seq \in Nat /\ q.op \in Op
  BY <1>1, <1>2, ChangeNumber
<1>7. q.op.seq + 1 \in 1..Len(l) /\ q.op = l[q.op.seq + 1]
  BY <1>1, <1>3 DEF OwnChange
<1>8. q.op.seq = n
  <2>1. q.op.seq >= n
    BY <1>2, <1>3, <1>4 DEF Queued
  <2>2. SUFFICES ASSUME q.op.seq > n PROVE FALSE
    BY <1>1, <1>6, <2>1
  <2>3. n \in n..Len(l) - 1
    BY <1>1, <1>6, <1>7, <2>2
  <2>4. PICK j \in DOMAIN up[c] : IsChange(up[c][j]) /\ up[c][j].op.seq = n
    BY <1>3, <1>4, <2>3 DEF Queued
  <2>5. j # 1
    BY <1>2, <2>2, <2>4
  <2>6. 1 < j
    BY <1>2, <2>4, <2>5
  <2>7. q.op.seq < n
    BY <1>2, <1>3, <1>4, <2>4, <2>6 DEF Queued
  <2>. QED  BY <1>1, <1>6, <2>2, <2>7
<1>9. n + 1 # 1 /\ n + 1 \in DOMAIN l /\ l[n + 1] = q.op /\ n \in 1..Len(relayLog)
  BY <1>1, <1>5, <1>7, <1>8
<1>10. q.op.by = Creator /\ (q.op.role = "None" => q.op.epoch = EpochAt(l, n + 1))
  BY <1>5, <1>9 DEF Genuine
<1>11. Role(relayLog, Creator) = "Owner"
  <2>1. Role(SubSeq(relayLog, 1, n), Creator) = "Owner"
    BY <1>1, <1>5, <1>9, CreatorStays
  <2>2. SubSeq(relayLog, 1, n) = relayLog
    BY <1>1
  <2>. QED  BY <2>1, <2>2
<1>12. ASSUME q.op.role = "None" PROVE q.op.epoch = Epoch(relayLog) + 1
  <2>1. n + 1 \in 0..Len(l) /\ n + 1 # 0 /\ (n + 1) - 1 = n /\ n \in 0..Len(relayLog)
    BY <1>1, <1>9
  <2>2. EpochAt(l, n + 1) = EpochAt(l, n) + 1
    BY <1>1, <1>9, <1>12, <2>1, Removals
  <2>3. EpochAt(relayLog, n) = EpochAt(l, n)
    BY <1>1, <1>5, <2>1, EpochOfPrefix
  <2>. QED  BY <1>1, <1>10, <1>12, <2>2, <2>3, EpochOfLog
<1>. QED  BY <1>8, <1>10, <1>11, <1>12 DEF Applies

LEMMA RefuseChangeKeeps ==
    ASSUME TypeOK, TypeOK', InformedInv, NEW c \in Running, RefuseChange(c)
    PROVE  InformedInv'
<1>1. c \in Client /\ RelayTake(c, "Change") /\ ~Applies(relayLog, Head(up[c]).op)
  BY CreatorIsClient DEF RefuseChange
<1>2. UNCHANGED <<relayVars, spaceVars, keysMade, faults, stale>>
  BY DEF RefuseChange, EngineUnchanged
<1>3. \A d \in Client : \A q \in Range(up'[d]) : q \in Range(up[d])
  BY <1>1, UpTaken
<1>4. \A d \in Client : \A x \in Range(down'[d]) : x \in Range(down[d]) \/ Harmless(d, x)
  <2>1. [type |-> "NotMember"] \in DownMessages
    BY DownMessageIs
  <2>2. \A d : Harmless(d, [type |-> "NotMember"])
    BY DEF Harmless
  <2>3. CASE UNCHANGED down
    BY <2>3
  <2>4. CASE NotMember(c)
    BY <1>1, <2>1, <2>2, <2>4, DownAnswered DEF NotMember
  <2>. QED  BY <2>3, <2>4 DEF RefuseChange
<1>5. faults' >= faults /\ stale' >= stale
  BY <1>2 DEF TypeOK
<1>6. ASSUME Informed' PROVE ChangesQueued'
  <2>1. Extends(relayLog', relayLog)
    BY <1>2, LogTypes, ExtendsSelf DEF relayVars
  <2>2. Informed /\ (faults' = 0 => faults = 0)
    BY <1>5, <1>6, <2>1, Monotone
  <2>3. faults # 0
    BY <1>1, <2>2, UpTaken, HeadApplies DEF IsChange
  <2>. QED  BY <2>2, <2>3 DEF ChangesQueued
<1>. QED  BY <1>2, <1>3, <1>4, <1>5, <1>6, CalmStep DEF relayVars, spaceVars

\* The relay's log grows by the next change of the owner's.
LEMMA PlacedStays ==
    ASSUME TypeOK, TypeOK', Extends(relayLog', relayLog), NEW m, NEW k, Placed(m, k)
    PROVE  Placed(m, k)'
<1>1. relayLog \in Seq(Op) /\ relayLog' \in Seq(Op)
  BY DEF TypeOK
<1>2. PICK i \in DOMAIN relayLog : \E j \in i..Len(relayLog) :
        relayLog[i].key = k /\ Role(SubSeq(relayLog, 1, j), m) # "None"
  BY DEF Placed
<1>3. PICK j \in i..Len(relayLog) :
        relayLog[i].key = k /\ Role(SubSeq(relayLog, 1, j), m) # "None"
  BY <1>2
<1>4. /\ i \in DOMAIN relayLog' /\ relayLog'[i] = relayLog[i]
      /\ j \in i..Len(relayLog') /\ j \in 0..Len(relayLog)
  BY <1>1, <1>3 DEF Extends
<1>5. Role(SubSeq(relayLog, 1, j), m) = Role(SubSeq(relayLog', 1, j), m)
  BY <1>1, <1>4, SameRole
<1>6. \E x \in DOMAIN relayLog' : \E y \in x..Len(relayLog') :
         relayLog'[x].key = k /\ Role(SubSeq(relayLog', 1, y), m) # "None"
  BY <1>3, <1>4, <1>5
<1>. QED  BY <1>6 DEF Placed

LEMMA AcceptChangeKeeps ==
    ASSUME TypeOK, TypeOK', InformedInv, NEW c \in Running, AcceptChange(c)
    PROVE  InformedInv'
<1>. DEFINE q == Head(up[c])
            l == log[Creator]
            n == Len(relayLog)
<1>1. /\ c \in Client /\ RelayTake(c, "Change") /\ Applies(relayLog, q.op)
      /\ relayLog' = Append(relayLog, q.op) /\ rows' = rows \cup q.rows
      /\ UNCHANGED <<spaceVars, boundVars>>
  BY CreatorIsClient DEF AcceptChange, EngineUnchanged
<1>2. SUFFICES ASSUME Informed'
               PROVE  /\ LogsGenuine' /\ LogsAgree' /\ ChangesFromOwner'
                      /\ RowsPlaced' /\ KeysFromLogs' /\ KeysFromRows' /\ ChangesQueued'
  BY DEF InformedInv
<1>3. /\ relayLog \in Seq(Op) /\ l \in Seq(Op) /\ n \in Nat /\ relayLog' \in Seq(Op)
      /\ Len(relayLog') = n + 1 /\ relayLog'[n + 1] = q.op
      /\ \A i \in 1..n : relayLog'[i] = relayLog[i]
  <2>1. relayLog \in Seq(Op) /\ l \in Seq(Op) /\ relayLog' \in Seq(Op)
    BY LogTypes DEF TypeOK
  <2>2. q.op \in Op
    BY <1>1, UpTaken, InFlightTypes, UpMessageIs
  <2>. HIDE DEF q
  <2>. QED  BY <1>1, <2>1, <2>2
<1>4. Extends(relayLog', relayLog)
  BY <1>3 DEF Extends
<1>5. faults' = faults /\ stale' = stale /\ faults' >= faults /\ stale' >= stale
  BY <1>1 DEF TypeOK, boundVars
<1>6. /\ LogsGenuine /\ LogsAgree /\ ChangesFromOwner
      /\ RowsPlaced /\ KeysFromLogs /\ KeysFromRows /\ ChangesQueued
  BY <1>2, <1>4, <1>5, Monotone DEF InformedInv
<1>7. q \in Range(up[c]) /\ IsChange(q)
  BY <1>1, UpTaken DEF IsChange
<1>8. c = Creator /\ OwnChange(l, q)
  BY <1>1, <1>6, <1>7 DEF ChangesFromOwner
<1>9. q.op.seq = n
  BY <1>1 DEF Applies
<1>10. n + 1 \in 1..Len(l) /\ q.op = l[n + 1] /\ l # <<>>
  BY <1>3, <1>8, <1>9 DEF OwnChange
<1>. HIDE DEF q
<1>11. Extends(l, relayLog')
  <2>1. Extends(l, relayLog)
    BY <1>6, <1>10 DEF LogsAgree
  <2>. QED  BY <1>3, <1>10, <2>1 DEF Extends
<1>12. UNCHANGED <<log, keys, served, parked, keysMade, refused>>
  BY <1>1 DEF spaceVars, boundVars
<1>13. LogsGenuine'
  <2>1. Genuine(l) /\ \A i \in DOMAIN l : l[i].key <= keysMade
    BY <1>6 DEF LogsGenuine
  <2>2. Genuine(relayLog')
    BY <1>3, <1>11, <2>1, GenuinePrefix
  <2>3. \A i \in DOMAIN relayLog' : relayLog'[i].key <= keysMade'
    <3>1. \A i \in DOMAIN relayLog' : i \in DOMAIN l /\ relayLog'[i] = l[i]
      BY <1>3, <1>11 DEF Extends
    <3>. QED  BY <2>1, <3>1, <1>12
  <2>4. relayLog' # <<>>
    BY <1>3
  <2>. QED  BY <1>12, <2>1, <2>2, <2>3, <2>4 DEF LogsGenuine
<1>14. \A d \in Client : \A x \in Range(down'[d]) :
          x \in Range(down[d]) \/ x = [type |-> "EpochBump"]
  <2>. DEFINE told == IF q.op.role = "None" THEN {m \in Members(relayLog) : connected[m]} ELSE {}
              b == [type |-> "EpochBump"]
  <2>1. down' = [m \in Client |-> IF m \in told THEN Append(down[m], b) ELSE down[m]]
    BY DEF AcceptChange, q
  <2>2. b \in DownMessages
    BY DownMessageIs
  <2>. HIDE DEF told, b
  <2>3. ASSUME NEW d \in Client PROVE \A x \in Range(down'[d]) : x \in Range(down[d]) \/ x = b
    <3>1. down[d] \in Seq(DownMessages) /\ <<b>> \in Seq(DownMessages)
          /\ Append(down[d], b) = down[d] \o <<b>>
      BY <2>2, LogTypes
    <3>2. Range(Append(down[d], b)) \in SUBSET (Range(down[d]) \cup {b})
      BY <3>1, RangeOfBoth, RangeOfOne
    <3>3. down'[d] = IF d \in told THEN Append(down[d], b) ELSE down[d]
      BY <2>1
    <3>. QED  BY <3>2, <3>3
  <2>. QED  BY <2>3 DEF b
<1>15. LogsAgree'
  <2>1. ASSUME NEW d \in Client, d # Creator PROVE Extends(relayLog', log[d])
    <3>1. Extends(relayLog, log[d]) /\ log[d] \in Seq(Op)
      BY <1>6, <2>1, LogTypes DEF LogsAgree
    <3>. QED  BY <1>3, <1>4, <3>1, ExtendsTransitive
  <2>2. ASSUME NEW d \in Client PROVE Extends(relayLog', served[d])
    <3>1. Extends(relayLog, served[d]) /\ served[d] \in Seq(Op)
      BY <1>6, LogTypes DEF LogsAgree
    <3>. QED  BY <1>3, <1>4, <3>1, ExtendsTransitive
  <2>3. ASSUME NEW d \in Client, NEW x \in Range(down'[d]), x.type = "Membership"
        PROVE  Extends(relayLog', x.ops)
    <3>1. x \in Range(down[d])
      BY <1>14, <2>3
    <3>2. Extends(relayLog, x.ops)
      BY <1>6, <2>3, <3>1 DEF LogsAgree
    <3>3. x.ops \in Seq(Op)
      BY <2>3, <3>1, InFlightTypes, DownMessageIs
    <3>. QED  BY <1>3, <1>4, <3>2, <3>3, ExtendsTransitive
  <2>4. log'[Creator] = l /\ l # <<>> /\ \A d \in Client : log'[d] = log[d] /\ served'[d] = served[d]
    BY <1>10, <1>12
  <2>. QED  BY <1>11, <2>1, <2>2, <2>3, <2>4 DEF LogsAgree, Extends
<1>16. ChangesFromOwner'
  <2>1. \A d \in Client : \A x \in Range(up'[d]) :
            IsChange(x) => d = Creator /\ OwnChange(l, x)
    BY <1>1, <1>6, UpTaken DEF ChangesFromOwner
  <2>. QED  BY <1>12, <2>1 DEF ChangesFromOwner, OwnChange, IsChange
<1>17. RowsPlaced'
  <2>1. ASSUME NEW r \in rows PROVE Placed(r.to, r.key)'
    <3>1. Placed(r.to, r.key)
      BY <1>6 DEF RowsPlaced
    <3>. QED  BY <1>4, <3>1, PlacedStays
  <2>2. ASSUME NEW r \in q.rows PROVE Placed(r.to, r.key)'
    <3>1. PICK i \in 1..n + 1 : l[i].key = r.key
      BY <1>8, <1>9 DEF OwnChange
    <3>2. Role(SubSeq(l, 1, n + 1), r.to) # "None"
      BY <1>8, <1>9 DEF OwnChange
    <3>3. n + 1 \in 0..Len(relayLog') /\ i \in DOMAIN relayLog' /\ n + 1 \in i..Len(relayLog')
      BY <1>3
    <3>4. Role(SubSeq(relayLog', 1, n + 1), r.to) = Role(SubSeq(l, 1, n + 1), r.to)
      BY <1>3, <1>11, <3>3, SameRole
    <3>5. relayLog'[i] = l[i]
      BY <1>3, <1>11 DEF Extends
    <3>6. \E x \in DOMAIN relayLog' : \E y \in x..Len(relayLog') :
             relayLog'[x].key = r.key /\ Role(SubSeq(relayLog', 1, y), r.to) # "None"
      BY <3>1, <3>2, <3>3, <3>4, <3>5
    <3>. QED  BY <3>6 DEF Placed
  <2>. QED  BY <1>1, <2>1, <2>2 DEF RowsPlaced, q
<1>18. KeysFromLogs'
  BY <1>6, <1>12 DEF KeysFromLogs
<1>19. KeysFromRows'
  <2>1. \A m, k : Wrapped(m, k) => Wrapped(m, k)'
    BY <1>1 DEF Wrapped
  <2>2. ASSUME NEW d \in Client, d # Creator
        PROVE  /\ \A e \in DOMAIN keys[d] : Wrapped(d, keys[d][e])
               /\ \A v \in Range(parked[d]) : Wrapped(d, v.key)
               /\ \A x \in Range(down'[d]) : x.type = "Envelopes" =>
                    \A v \in Range(x.envelopes) : Wrapped(d, v.key)
    <3>1. \A x \in Range(down'[d]) : x.type = "Envelopes" => x \in Range(down[d])
      BY <1>14
    <3>. QED  BY <1>6, <2>2, <3>1 DEF KeysFromRows
  <2>3. ASSUME NEW d \in Client, d # Creator
        PROVE  /\ \A e \in DOMAIN keys'[d] : (Wrapped(d, keys[d][e]))'
               /\ \A v \in Range(parked'[d]) : (Wrapped(d, v.key))'
               /\ \A x \in Range(down'[d]) : x.type = "Envelopes" =>
                    \A v \in Range(x.envelopes) : (Wrapped(d, v.key))'
    <3>1. rows \subseteq rows'
      BY <1>1
    <3>2. \A e \in DOMAIN keys'[d] : (Wrapped(d, keys[d][e]))'
      BY <1>12, <2>2, <2>3, <3>1 DEF Wrapped
    <3>3. \A v \in Range(parked'[d]) : (Wrapped(d, v.key))'
      BY <1>12, <2>2, <2>3, <3>1 DEF Wrapped
    <3>4. \A x \in Range(down'[d]) : x.type = "Envelopes" =>
              \A v \in Range(x.envelopes) : (Wrapped(d, v.key))'
      BY <2>2, <2>3, <3>1 DEF Wrapped
    <3>. QED  BY <3>2, <3>3, <3>4
  <2>. QED  BY <2>3 DEF KeysFromRows
<1>20. ChangesQueued'
  <2>1. CASE faults = 0
    <3>1. Queued(up[Creator], n, Len(l)) /\ ~refused
      BY <1>6, <2>1 DEF ChangesQueued
    <3>2. up[Creator] \in Seq(UpMessages) /\ up[Creator] # <<>> /\ up'[Creator] = Tail(up[Creator])
          /\ q = Head(up[Creator])
      BY <1>1, <1>8, LogTypes, UpTaken DEF q
    <3>3. Queued(Tail(up[Creator]), n + 1, Len(l))
      BY <1>3, <1>7, <1>9, <3>1, <3>2, QueuedTail
    <3>. QED  BY <1>3, <1>12, <3>1, <3>2, <3>3 DEF ChangesQueued, Queued, IsChange
  <2>2. CASE faults # 0
    BY <1>5, <2>2 DEF ChangesQueued
  <2>. QED  BY <2>1, <2>2
<1>. QED  BY <1>13, <1>15, <1>16, <1>17, <1>18, <1>19, <1>20

LEMMA OwnChangeStays ==
    ASSUME NEW l \in Seq(Op), NEW t \in Seq(Op), Extends(t, l), NEW q, q.op.seq \in Nat, OwnChange(l, q)
    PROVE  OwnChange(t, q)
<1>. DEFINE n == q.op.seq + 1
<1>1. n \in 1..Len(l) /\ q.op = l[n]
  BY DEF OwnChange
<1>2. n \in 0..Len(l) /\ n \in 1..Len(t) /\ \A i \in 1..n : i \in 1..Len(l) /\ t[i] = l[i]
  BY <1>1 DEF Extends
<1>3. \A m : Role(SubSeq(l, 1, n), m) = Role(SubSeq(t, 1, n), m)
  BY <1>2, SameRole
<1>4. /\ n \in DOMAIN t /\ q.op = t[n]
      /\ \A r \in q.rows : (\E i \in 1..n : t[i].key = r.key) /\ Role(SubSeq(t, 1, n), r.to) # "None"
  BY <1>1, <1>2, <1>3 DEF OwnChange
<1>. QED  BY <1>4 DEF OwnChange

LEMMA OpIs == \A op \in Op : op.key \in Nat /\ op.seq \in Nat /\ op.epoch \in Nat
BY BoundsAssumption DEF Op, Keys, NoKey, Epochs

\* An owner appends a change to its own log and sends it.
LEMMA ChangeKeeps ==
    ASSUME TypeOK, TypeOK', InformedInv,
           NEW c \in Client, NEW op \in Op, NEW s \in SUBSET Row,
           Role(log[c], c) = "Owner",
           op.by = c, op.who # c, op.seq = Len(log[c]),
           op.role = "None" => op.epoch = Epoch(log[c]) + 1 /\ op.key # NoKey,
           op.role # "None" => op.key = NoKey,
           op.key # NoKey => op.key > keysMade,
           op.key <= keysMade', keysMade <= keysMade',
           log' = [log EXCEPT ![c] = Append(@, op)],
           Send(c, <<[type |-> "Change", op |-> op, rows |-> s]>>),
           Informed => \A r \in s : /\ Role(Append(log[c], op), r.to) # "None"
                                    /\ \E i \in 1..Len(log[c]) + 1 : Append(log[c], op)[i].key = r.key,
           \A d \in Client : d # c => keys'[d] = keys[d],
           \A e \in DOMAIN keys'[c] : \/ e \in DOMAIN keys[c] /\ keys'[c][e] = keys[c][e]
                                      \/ op.epoch = e /\ op.key = keys'[c][e],
           UNCHANGED <<relayLog, rows, down, served, parked, faults, stale, refused>>
    PROVE  InformedInv'
<1>. DEFINE l == log[c]
            t == Append(l, op)
            n == Len(l)
            q == [type |-> "Change", op |-> op, rows |-> s]
<1>1. SUFFICES ASSUME Informed'
               PROVE  /\ LogsGenuine' /\ LogsAgree' /\ ChangesFromOwner'
                      /\ RowsPlaced' /\ KeysFromLogs' /\ KeysFromRows' /\ ChangesQueued'
  BY DEF InformedInv
<1>2. Informed
  BY <1>1 DEF Informed, SoleOwner
<1>3. /\ LogsGenuine /\ LogsAgree /\ ChangesFromOwner
      /\ RowsPlaced /\ KeysFromLogs /\ KeysFromRows /\ ChangesQueued
  BY <1>2 DEF InformedInv
<1>4. c = Creator /\ l # <<>>
  BY <1>2, OwnersAct
<1>5. /\ relayLog \in Seq(Op) /\ l \in Seq(Op) /\ n \in Nat /\ Len(relayLog) \in Nat
      /\ up[c] \in Seq(UpMessages)
  BY LogTypes
<1>6. /\ t \in Seq(Op) /\ Len(t) = n + 1 /\ t[n + 1] = op /\ \A i \in 1..n : t[i] = l[i]
      /\ DOMAIN t = 1..n + 1 /\ t # <<>> /\ DOMAIN l = 1..n
  <2>1. /\ t \in Seq(Op) /\ DOMAIN l = 1..n /\ Len(t) = n + 1 /\ DOMAIN t = 1..n + 1
        /\ t[n + 1] = op /\ \A i \in 1..n : t[i] = l[i]
    <3>1. l \in Seq(Op)
      BY <1>5
    <3>. HIDE DEF l
    <3>. QED  BY <3>1, AppendIs
  <2>2. Len(t) # 0
    <3>. HIDE DEF t, n
    <3>. QED  BY <1>5, <2>1
  <2>3. t # <<>>
    <3>. HIDE DEF t
    <3>. QED  BY <2>2
  <2>. QED  BY <2>1, <2>3
<1>7. Genuine(l) /\ \A i \in 1..n : l[i].key <= keysMade
  BY <1>3, <1>4, <1>6 DEF LogsGenuine
<1>8. keysMade \in Nat /\ keysMade' \in Nat /\ op.key \in Nat
  <2>1. keysMade \in Keys /\ keysMade' \in Keys
    BY DEF TypeOK
  <2>2. Keys \subseteq Nat
    BY BoundsAssumption DEF Keys
  <2>3. op.key \in Nat
    BY OpIs
  <2>. QED  BY <2>1, <2>2, <2>3
<1>9. \A i \in 1..n : l[i].key \in Nat
  <2>1. \A i \in 1..n : l[i] \in Op
    BY <1>5
  <2>. QED  BY <2>1, OpIs
<1>10. Genuine(t) /\ Extends(t, l)
  <2>1. \A i \in 1..Len(l) : op.key # NoKey => l[i].key # op.key
    BY <1>7, <1>8, <1>9
  <2>. QED  BY <1>4, <1>5, <1>7, <2>1, GenuineAppend
<1>11. q \in UpMessages /\ IsChange(q) /\ q.op = op /\ q.rows = s
  BY UpMessageIs DEF IsChange
<1>12. log'[c] = t /\ \A d \in Client : d # c => log'[d] = log[d]
  BY DEF TypeOK
<1>13. Send(c, <<q>>)
  OBVIOUS
<1>14. \A r \in s : Role(t, r.to) # "None" /\ \E i \in 1..n + 1 : t[i].key = r.key
  BY <1>2
<1>. HIDE DEF q, t
<1>15. /\ <<q>> \in Seq(UpMessages)
       /\ up'[c] = up[c] \o <<q>>
       /\ \A d \in Client : d # c => up'[d] = up[d]
       /\ \A x \in Range(up'[c]) : x \in Range(up[c]) \/ x = q
  <2>1. <<q>> \in Seq(UpMessages)
    BY <1>11
  <2>2. /\ Range(up'[c]) \in SUBSET (Range(up[c]) \cup Range(<<q>>))
        /\ up'[c] = up[c] \o <<q>>
        /\ \A d \in Client : d # c => up'[d] = up[d]
    BY <1>13, <2>1, UpSent
  <2>3. Range(<<q>>) = {q}
    BY RangeOfOne
  <2>. QED  BY <2>1, <2>2, <2>3
<1>16. LogsGenuine'
  <2>1. \A i \in DOMAIN t : t[i].key <= keysMade'
    BY <1>6, <1>7, <1>8, <1>9
  <2>2. \A i \in DOMAIN relayLog : relayLog[i].key <= keysMade'
    <3>1. \A i \in DOMAIN relayLog : relayLog[i].key <= keysMade /\ relayLog[i].key \in Nat
      <4>1. \A i \in DOMAIN relayLog : relayLog[i] \in Op
        BY <1>5
      <4>. QED  BY <1>3, <4>1, OpIs DEF LogsGenuine
    <3>. QED  BY <1>8, <3>1
  <2>3. Genuine(relayLog) /\ relayLog # <<>>
    BY <1>3 DEF LogsGenuine
  <2>4. relayLog' = relayLog /\ log'[Creator] = t
    BY <1>4, <1>12
  <2>5. \A z \in {relayLog', log'[Creator]} :
          Genuine(z) /\ \A i \in DOMAIN z : z[i].key <= keysMade'
    <3>1. TAKE z \in {relayLog', log'[Creator]}
    <3>2. CASE z = relayLog
      BY <2>2, <2>3, <3>2
    <3>3. CASE z = t
      BY <1>10, <2>1, <3>3
    <3>. QED  BY <2>4, <3>2, <3>3
  <2>. QED  BY <2>3, <2>4, <2>5 DEF LogsGenuine
<1>17. LogsAgree'
  <2>1. Extends(t, relayLog)
    <3>1. Extends(l, relayLog)
      BY <1>3, <1>4 DEF LogsAgree
    <3>. QED  BY <1>5, <1>6, <1>10, <3>1, ExtendsTransitive
  <2>2. log'[Creator] # <<>> /\ Extends(log'[Creator], relayLog')
    BY <1>4, <1>6, <1>12, <2>1
  <2>3. \A d \in Client : d # Creator => Extends(relayLog', log'[d])
    BY <1>3, <1>4, <1>12 DEF LogsAgree
  <2>4. \A d \in Client : Extends(relayLog', served'[d])
    BY <1>3 DEF LogsAgree
  <2>5. \A d \in Client : \A x \in Range(down'[d]) :
          x.type = "Membership" =>
            Extends(relayLog', x.ops) /\ (d = Creator /\ log'[d] = <<>> => x.ops = relayLog')
    BY <1>3, <2>2 DEF LogsAgree
  <2>. QED  BY <2>2, <2>3, <2>4, <2>5 DEF LogsAgree
<1>18. ChangesFromOwner'
  <2>1. ASSUME NEW d \in Client, NEW x \in Range(up'[d]), IsChange(x)
        PROVE  d = Creator /\ OwnChange(t, x)
    <3>1. CASE x \in Range(up[d])
      <4>1. d = Creator /\ OwnChange(l, x)
        BY <1>3, <1>4, <2>1, <3>1 DEF ChangesFromOwner
      <4>2. x.op.seq \in Nat
        BY <2>1, <3>1, InFlightTypes, UpMessageIs DEF IsChange, Op
      <4>. QED  BY <1>5, <1>6, <1>10, <4>1, <4>2, OwnChangeStays
    <3>2. CASE d = c /\ x = q
      <4>1. SubSeq(t, 1, n + 1) = t
        BY <1>6
      <4>2. x.op = op /\ x.rows = s /\ op.seq = n
        BY <1>11, <3>2
      <4>3. x.op.seq + 1 = n + 1 /\ n + 1 \in DOMAIN t
        BY <1>6, <4>2
      <4>4. OwnChange(t, x)
        <5>1. x.op.seq + 1 \in DOMAIN t /\ x.op = t[x.op.seq + 1]
          BY <1>6, <4>2, <4>3
        <5>2. SubSeq(t, 1, x.op.seq + 1) = t
          BY <4>1, <4>3
        <5>3. \A r \in x.rows : Role(t, r.to) # "None" /\ \E i \in 1..x.op.seq + 1 : t[i].key = r.key
          BY <1>14, <4>2, <4>3
        <5>. QED  BY <5>1, <5>2, <5>3 DEF OwnChange
      <4>. QED  BY <1>4, <3>2, <4>4
    <3>. QED  BY <1>15, <3>1, <3>2
  <2>. QED  BY <1>4, <1>12, <2>1 DEF ChangesFromOwner
<1>19. RowsPlaced'
  BY <1>3 DEF RowsPlaced, Placed
<1>20. KeysFromLogs'
  <2>1. ASSUME NEW d \in Client, NEW e \in DOMAIN keys'[d]
        PROVE  \E i \in DOMAIN log'[d] : log'[d][i].epoch = e /\ log'[d][i].key = keys'[d][e]
    <3>1. CASE d # c
      BY <1>3, <1>12, <3>1 DEF KeysFromLogs
    <3>2. CASE d = c /\ e \in DOMAIN keys[c] /\ keys'[c][e] = keys[c][e]
      <4>1. PICK i \in DOMAIN log[c] : log[c][i].epoch = e /\ log[c][i].key = keys[c][e]
        BY <1>3, <3>2 DEF KeysFromLogs
      <4>2. i \in DOMAIN t /\ t[i] = log[c][i]
        BY <1>6, <4>1
      <4>. QED  BY <1>12, <3>2, <4>1, <4>2
    <3>3. CASE d = c /\ op.epoch = e /\ op.key = keys'[c][e]
      BY <1>6, <1>12, <3>3
    <3>. QED  BY <3>1, <3>2, <3>3
  <2>. QED  BY <2>1 DEF KeysFromLogs
<1>21. KeysFromRows'
  <2>1. \A m, k : Wrapped(m, k) => Wrapped(m, k)'
    BY DEF Wrapped
  <2>2. ASSUME NEW d \in Client, d # Creator
        PROVE  /\ \A e \in DOMAIN keys'[d] : (Wrapped(d, keys[d][e]))'
               /\ \A v \in Range(parked'[d]) : (Wrapped(d, v.key))'
               /\ \A x \in Range(down'[d]) : x.type = "Envelopes" =>
                    \A v \in Range(x.envelopes) : (Wrapped(d, v.key))'
    <3>1. keys'[d] = keys[d]
      BY <1>4, <2>2
    <3>2. \A e \in DOMAIN keys'[d] : (Wrapped(d, keys[d][e]))'
      BY <1>3, <2>2, <3>1 DEF KeysFromRows, Wrapped
    <3>3. \A v \in Range(parked'[d]) : (Wrapped(d, v.key))'
      BY <1>3, <2>2 DEF KeysFromRows, Wrapped
    <3>4. \A x \in Range(down'[d]) : x.type = "Envelopes" =>
              \A v \in Range(x.envelopes) : (Wrapped(d, v.key))'
      BY <1>3, <2>2 DEF KeysFromRows, Wrapped
    <3>. QED  BY <3>2, <3>3, <3>4
  <2>. QED  BY <2>2 DEF KeysFromRows
<1>22. ChangesQueued'
  <2>1. SUFFICES ASSUME faults = 0 PROVE Queued(up'[Creator], Len(relayLog), n + 1) /\ ~refused
    BY <1>4, <1>6, <1>12 DEF ChangesQueued
  <2>2. Queued(up[c], Len(relayLog), n) /\ ~refused
    BY <1>3, <1>4, <2>1 DEF ChangesQueued
  <2>3. Len(relayLog) <= n
    BY <1>3, <1>4 DEF LogsAgree, Extends
  <2>4. ASSUME NEW j \in 1..Len(up[c]), IsChange(up[c][j]) PROVE up[c][j].op.seq < n
    <3>1. up[c][j] \in Range(up[c])
      BY <1>5, Members2
    <3>2. OwnChange(l, up[c][j])
      BY <1>3, <1>4, <2>4, <3>1 DEF ChangesFromOwner
    <3>3. up[c][j].op.seq \in Nat
      BY <1>5, <2>4, ChangeNumber
    <3>. QED  BY <1>6, <3>2, <3>3 DEF OwnChange
  <2>5. q.op.seq = n
    BY <1>11
  <2>6. Queued(up[c] \o <<q>>, Len(relayLog), n + 1)
    BY <1>5, <1>11, <2>2, <2>3, <2>4, <2>5, QueuedChange
  <2>. QED  BY <1>4, <1>15, <2>2, <2>6
<1>. QED  BY <1>16, <1>17, <1>18, <1>19, <1>20, <1>21, <1>22

LEMMA AddMemberKeeps ==
    ASSUME TypeOK, TypeOK', InformedInv, NEW c \in Running, NEW m \in Client,
           NEW role \in GivenRoles, AddMember(c, m, role)
    PROVE  InformedInv'
<1>. DEFINE op == [seq |-> Len(log[c]), by |-> c, who |-> m, role |-> role,
                   epoch |-> 0, key |-> NoKey]
            s == {[to |-> m, epoch |-> e, key |-> keys[c][e]] : e \in DOMAIN keys[c]}
            t == Append(log[c], op)
<1>1. c \in Client /\ log[c] \in Seq(Op) /\ keys[c] \in KeyRing /\ Len(log[c]) \in Nat
      /\ keysMade \in Nat
  BY CreatorIsClient, LogTypes, BoundsAssumption DEF TypeOK, Keys
<1>2. op \in Op
  BY <1>1, RolesAssumption, BoundsAssumption DEF Op, Roles, Epochs
<1>3. s \in SUBSET Row
  BY <1>1, KeyRingIs DEF Row
<1>4. /\ log' = [log EXCEPT ![c] = Append(@, op)]
      /\ Send(c, <<[type |-> "Change", op |-> op, rows |-> s]>>)
      /\ Role(log[c], c) = "Owner" /\ m # c
      /\ UNCHANGED <<relayLog, rows, down, served, keys, parked, keysMade, faults, stale, refused>>
  BY DEF AddMember, Applies, relayVars, boundVars
<1>5. /\ op.by = c /\ op.who = m /\ op.seq = Len(log[c]) /\ op.role # "None" /\ op.key = NoKey
  BY RolesAssumption
<1>6. \A r \in s : r.to = m /\ \E e \in DOMAIN keys[c] : r.key = keys[c][e]
  OBVIOUS
<1>. HIDE DEF op, s
<1>7. ASSUME Informed
      PROVE  \A r \in s : Role(t, r.to) # "None" /\ \E i \in 1..Len(log[c]) + 1 : t[i].key = r.key
  <2>1. TAKE r \in s
  <2>2. Role(t, m) # "None"
    BY <1>1, <1>2, <1>5, RoleAppended
  <2>3. PICK e \in DOMAIN keys[c] : r.key = keys[c][e]
    BY <1>6
  <2>4. PICK i \in DOMAIN log[c] : log[c][i].key = r.key
    BY <1>1, <1>7, <2>3 DEF InformedInv, KeysFromLogs
  <2>5. i \in 1..Len(log[c]) + 1 /\ t[i] = log[c][i]
    BY <1>1, <1>2
  <2>. QED  BY <1>6, <2>2, <2>4, <2>5
<1>8. op.key <= keysMade' /\ keysMade <= keysMade'
  BY <1>1, <1>4, <1>5 DEF NoKey
<1>9. /\ \A d \in Client : d # c => keys'[d] = keys[d]
      /\ \A e \in DOMAIN keys'[c] : e \in DOMAIN keys[c] /\ keys'[c][e] = keys[c][e]
  BY <1>4
<1>10. op.who # c
  BY <1>4, <1>5
<1>. QED  BY <1>1, <1>2, <1>3, <1>4, <1>5, <1>7, <1>8, <1>9, <1>10, ChangeKeeps

LEMMA RemoveMemberKeeps ==
    ASSUME TypeOK, TypeOK', InformedInv, NEW c \in Running, NEW m \in Client, RemoveMember(c, m)
    PROVE  InformedInv'
<1>. DEFINE new == Epoch(log[c]) + 1
            op == [seq |-> Len(log[c]), by |-> c, who |-> m, role |-> "None",
                   epoch |-> new, key |-> keysMade + 1]
            s == {[to |-> n, epoch |-> new, key |-> op.key] : n \in Staying(log[c], op)}
            t == Append(log[c], op)
            k == [e \in DOMAIN keys[c] \cup {new} |-> IF e = new THEN op.key ELSE keys[c][e]]
<1>1. c \in Client /\ log[c] \in Seq(Op) /\ keys[c] \in KeyRing /\ Len(log[c]) \in Nat
      /\ keysMade \in Nat /\ keysMade \in Keys
  BY CreatorIsClient, LogTypes, BoundsAssumption DEF TypeOK, Keys
<1>2. keysMade + 1 \in Keys
  BY <1>1, BoundsAssumption DEF RemoveMember, Keys
<1>3. new \in Epochs
  <2>1. Role(log[c], c) = "Owner" /\ Len(log[c]) <= MaxOps
    BY DEF RemoveMember, Applies
  <2>2. Epoch(log[c]) \in 0..Len(log[c]) - 1
    BY <1>1, <2>1, EpochFits
  <2>. QED  BY <1>1, <2>1, <2>2, BoundsAssumption DEF Epochs
<1>4. /\ log' = [log EXCEPT ![c] = Append(@, op)]
      /\ Send(c, <<[type |-> "Change", op |-> op, rows |-> s]>>)
      /\ keys' = [keys EXCEPT ![c] = k]
      /\ Role(log[c], c) = "Owner" /\ m # c /\ keysMade' = keysMade + 1
      /\ UNCHANGED <<relayLog, rows, down, served, parked, faults, stale, refused>>
  BY DEF RemoveMember, Applies, relayVars
<1>. HIDE DEF new
<1>5. op \in Op /\ op.key \in Keys
  BY <1>1, <1>2, <1>3 DEF Op, Roles
<1>6. /\ op.by = c /\ op.who = m /\ op.seq = Len(log[c]) /\ op.role = "None"
      /\ op.key = keysMade + 1 /\ op.epoch = new
  OBVIOUS
<1>7. /\ keys'[c] = k /\ \A d \in Client : d # c => keys'[d] = keys[d]
  BY <1>1, <1>4 DEF TypeOK
<1>8. \A e \in DOMAIN k : (e \in DOMAIN keys[c] /\ k[e] = keys[c][e]) \/ (op.epoch = e /\ op.key = k[e])
  <2>. HIDE DEF op
  <2>. QED  BY <1>6
<1>9. \A r \in s : r.to \in Members(t) /\ r.key = op.key
  BY DEF Staying
<1>10. s \in SUBSET Row
  BY <1>3, <1>5 DEF Row, Staying, Members
<1>. HIDE DEF op, s, k
<1>11. \A r \in s : Role(t, r.to) # "None" /\ \E i \in 1..Len(log[c]) + 1 : t[i].key = r.key
  <2>1. Len(log[c]) + 1 \in 1..Len(log[c]) + 1 /\ t[Len(log[c]) + 1] = op
    BY <1>1, <1>5
  <2>. QED  BY <1>9, <2>1 DEF Members
<1>12. op.key > keysMade /\ op.key # NoKey /\ op.key <= keysMade' /\ keysMade <= keysMade'
  BY <1>1, <1>4, <1>6 DEF NoKey
<1>13. op.epoch = Epoch(log[c]) + 1
  BY <1>6 DEF new
<1>14. \A e \in DOMAIN keys'[c] : \/ e \in DOMAIN keys[c] /\ keys'[c][e] = keys[c][e]
                                  \/ op.epoch = e /\ op.key = keys'[c][e]
  BY <1>7, <1>8
<1>. QED  BY <1>1, <1>4, <1>5, <1>6, <1>7, <1>10, <1>11, <1>12, <1>13, <1>14, ChangeKeeps

\* An engine learns a log or envelopes that the relay has served.
LEMMA LearnKeeps ==
    ASSUME TypeOK, TypeOK', InformedInv,
           NEW c \in Client, NEW l \in Seq(Op), NEW held \in Seq(Envelope), Learn(c, l, held),
           UNCHANGED <<relayLog, rows, up, keysMade, faults, stale, refused>>,
           \A d \in Client : Range(down'[d]) \in SUBSET Range(down[d]),
           Informed => (c = Creator => l = log[c] \/ (log[c] = <<>> /\ l = relayLog)),
           Informed => (c # Creator => Extends(relayLog, l) /\ Extends(l, log[c])),
           Informed => \A d \in Client : Extends(relayLog, served'[d]),
           Informed => (c # Creator => \A v \in Range(held) : Wrapped(c, v.key))
    PROVE  InformedInv'
<1>. DEFINE k == Absorbed(c, l, held)
            p == StillParked(l, held)
<1>1. SUFFICES ASSUME Informed'
               PROVE  /\ LogsGenuine' /\ LogsAgree' /\ ChangesFromOwner'
                      /\ RowsPlaced' /\ KeysFromLogs' /\ KeysFromRows' /\ ChangesQueued'
  BY DEF InformedInv
<1>2. Informed
  BY <1>1 DEF Informed, SoleOwner
<1>3. /\ LogsGenuine /\ LogsAgree /\ ChangesFromOwner
      /\ RowsPlaced /\ KeysFromLogs /\ KeysFromRows /\ ChangesQueued
  BY <1>2 DEF InformedInv
<1>4. /\ relayLog \in Seq(Op) /\ log[c] \in Seq(Op) /\ keys[c] \in KeyRing /\ Creator \in Client
  BY LogTypes
<1>5. /\ log'[c] = l /\ keys'[c] = k /\ parked'[c] = p
      /\ \A d \in Client : d # c => log'[d] = log[d] /\ keys'[d] = keys[d] /\ parked'[d] = parked[d]
  BY DEF Learn, TypeOK
<1>6. Range(p) \in SUBSET Range(held)
  BY StillParkedIs
<1>7. /\ \A e \in DOMAIN keys[c] : k[e] = keys[c][e]
      /\ \A e \in DOMAIN k \ DOMAIN keys[c] :
           /\ l # <<>> /\ e <= Epoch(l) /\ k[e] = Commitment(l, e)
           /\ \E v \in Range(held) : v.epoch = e /\ v.key = k[e]
      /\ k \in KeyRing
  BY <1>4, AbsorbedIs
<1>. HIDE DEF k, p
<1>8. Extends(l, log[c])
  <2>1. CASE c = Creator /\ l = log[c]
    BY <1>4, <2>1, ExtendsSelf
  <2>2. CASE c = Creator /\ log[c] = <<>>
    BY <2>2 DEF Extends
  <2>3. CASE c # Creator
    BY <1>2, <2>3
  <2>. QED  BY <1>2, <2>1, <2>2, <2>3
<1>9. relayLog # <<>> /\ Genuine(relayLog) /\ Genuine(log[Creator]) /\ Genuine(l)
  <2>1. relayLog # <<>> /\ Genuine(relayLog) /\ Genuine(log[Creator])
    BY <1>3 DEF LogsGenuine
  <2>2. CASE c = Creator
    BY <1>2, <2>1, <2>2
  <2>3. CASE c # Creator
    BY <1>2, <1>4, <2>1, <2>3, GenuinePrefix
  <2>. QED  BY <2>1, <2>2, <2>3
<1>10. log'[Creator] = log[Creator] \/ (log[Creator] = <<>> /\ log'[Creator] = relayLog)
  BY <1>2, <1>4, <1>5
<1>11. LogsGenuine'
  <2>1. /\ \A i \in DOMAIN relayLog : relayLog[i].key <= keysMade
        /\ \A i \in DOMAIN log[Creator] : log[Creator][i].key <= keysMade
    BY <1>3 DEF LogsGenuine
  <2>2. \A z \in {relayLog', log'[Creator]} :
          Genuine(z) /\ \A i \in DOMAIN z : z[i].key <= keysMade'
    <3>1. TAKE z \in {relayLog', log'[Creator]}
    <3>2. CASE z = relayLog
      BY <1>9, <2>1, <3>2
    <3>3. CASE z = log[Creator]
      BY <1>9, <2>1, <3>3
    <3>. QED  BY <1>10, <3>2, <3>3
  <2>. QED  BY <1>9, <2>2 DEF LogsGenuine
<1>12. LogsAgree'
  <2>1. Extends(relayLog, relayLog)
    BY <1>4, ExtendsSelf
  <2>2. log'[Creator] # <<>> => Extends(log'[Creator], relayLog')
    BY <1>3, <1>10, <2>1 DEF LogsAgree
  <2>3. \A d \in Client : d # Creator => Extends(relayLog', log'[d])
    BY <1>2, <1>3, <1>5 DEF LogsAgree
  <2>4. \A d \in Client : Extends(relayLog', served'[d])
    BY <1>2
  <2>5. ASSUME NEW d \in Client, NEW x \in Range(down'[d]), x.type = "Membership"
        PROVE  Extends(relayLog', x.ops) /\ (d = Creator /\ log'[d] = <<>> => x.ops = relayLog')
    <3>1. x \in Range(down[d])
      OBVIOUS
    <3>2. Extends(relayLog, x.ops) /\ (d = Creator /\ log[d] = <<>> => x.ops = relayLog)
      BY <1>3, <2>5, <3>1 DEF LogsAgree
    <3>. QED  BY <1>9, <1>10, <3>2
  <2>6. log'[Creator] = <<>> => faults' # 0
    BY <1>3, <1>9, <1>10 DEF LogsAgree
  <2>. QED  BY <2>2, <2>3, <2>4, <2>5, <2>6 DEF LogsAgree
<1>13. ChangesFromOwner'
  <2>1. ASSUME NEW d \in Client, NEW q \in Range(up'[d]), IsChange(q)
        PROVE  d = Creator /\ OwnChange(log'[Creator], q)
    <3>1. d = Creator /\ OwnChange(log[Creator], q)
      BY <1>3, <2>1 DEF ChangesFromOwner
    <3>2. log[Creator] # <<>>
      BY <3>1 DEF OwnChange
    <3>. QED  BY <1>10, <3>1, <3>2
  <2>. QED  BY <2>1 DEF ChangesFromOwner
<1>14. RowsPlaced'
  BY <1>3 DEF RowsPlaced, Placed
<1>15. KeysFromLogs'
  <2>1. ASSUME NEW d \in Client, NEW e \in DOMAIN keys'[d]
        PROVE  \E i \in DOMAIN log'[d] : log'[d][i].epoch = e /\ log'[d][i].key = keys'[d][e]
    <3>1. CASE d # c
      BY <1>3, <1>5, <3>1 DEF KeysFromLogs
    <3>2. CASE d = c /\ e \in DOMAIN keys[c]
      <4>1. PICK i \in DOMAIN log[c] : log[c][i].epoch = e /\ log[c][i].key = keys[c][e]
        BY <1>3, <3>2 DEF KeysFromLogs
      <4>2. i \in DOMAIN l /\ l[i] = log[c][i]
        <5>1. i \in 1..Len(log[c])
          BY <1>4, <4>1
        <5>. QED  BY <1>8, <5>1 DEF Extends
      <4>. QED  BY <1>5, <1>7, <3>2, <4>1, <4>2
    <3>3. CASE d = c /\ e \notin DOMAIN keys[c]
      <4>1. e \in DOMAIN k \ DOMAIN keys[c]
        BY <1>5, <3>3
      <4>2. l # <<>> /\ e <= Epoch(l) /\ k[e] = Commitment(l, e)
        BY <1>7, <4>1
      <4>3. e \in 0..Epoch(l)
        <5>1. e \in Nat
          BY <1>7, <4>1, KeyRingIs, BoundsAssumption DEF Epochs
        <5>2. Len(l) \in 0..Len(l)
          OBVIOUS
        <5>3. Epoch(l) \in Nat
          BY <5>2, Removals, EpochOfLog
        <5>. QED  BY <4>2, <5>1, <5>3
      <4>4. PICK i \in 1..Len(l) : l[i].epoch = e /\ l[i].key = Commitment(l, e)
        BY <1>9, <4>2, <4>3, Commits
      <4>. QED  BY <1>5, <3>3, <4>2, <4>4
    <3>. QED  BY <3>1, <3>2, <3>3
  <2>. QED  BY <2>1 DEF KeysFromLogs
<1>16. KeysFromRows'
  <2>1. \A m, x : Wrapped(m, x) => Wrapped(m, x)'
    BY DEF Wrapped
  <2>2. ASSUME NEW d \in Client, d # Creator
        PROVE  /\ \A e \in DOMAIN keys'[d] : Wrapped(d, keys'[d][e])
               /\ \A v \in Range(parked'[d]) : Wrapped(d, v.key)
               /\ \A x \in Range(down'[d]) : x.type = "Envelopes" =>
                    \A v \in Range(x.envelopes) : Wrapped(d, v.key)
    <3>1. CASE d # c
      BY <1>3, <1>5, <2>2, <3>1 DEF KeysFromRows
    <3>2. CASE d = c
      <4>1. \A v \in Range(held) : Wrapped(c, v.key)
        BY <1>2, <2>2, <3>2
      <4>2. ASSUME NEW e \in DOMAIN k PROVE Wrapped(c, k[e])
        <5>1. CASE e \in DOMAIN keys[c]
          BY <1>3, <1>7, <2>2, <3>2, <5>1 DEF KeysFromRows
        <5>2. CASE e \notin DOMAIN keys[c]
          BY <1>7, <4>1, <5>2
        <5>. QED  BY <5>1, <5>2
      <4>3. \A v \in Range(p) : Wrapped(c, v.key)
        BY <1>6, <4>1
      <4>4. \A x \in Range(down'[c]) : x.type = "Envelopes" =>
              \A v \in Range(x.envelopes) : Wrapped(c, v.key)
        BY <1>3, <2>2, <3>2 DEF KeysFromRows
      <4>. QED  BY <1>5, <3>2, <4>2, <4>3, <4>4
    <3>. QED  BY <3>1, <3>2
  <2>3. ASSUME NEW d \in Client, d # Creator
        PROVE  /\ \A e \in DOMAIN keys'[d] : (Wrapped(d, keys[d][e]))'
               /\ \A v \in Range(parked'[d]) : (Wrapped(d, v.key))'
               /\ \A x \in Range(down'[d]) : x.type = "Envelopes" =>
                    \A v \in Range(x.envelopes) : (Wrapped(d, v.key))'
    <3>1. \A e \in DOMAIN keys'[d] : (Wrapped(d, keys[d][e]))'
      BY <2>2, <2>3 DEF Wrapped
    <3>2. \A v \in Range(parked'[d]) : (Wrapped(d, v.key))'
      BY <2>2, <2>3 DEF Wrapped
    <3>3. \A x \in Range(down'[d]) : x.type = "Envelopes" =>
              \A v \in Range(x.envelopes) : (Wrapped(d, v.key))'
      BY <2>2, <2>3 DEF Wrapped
    <3>. QED  BY <3>1, <3>2, <3>3
  <2>. QED  BY <2>3 DEF KeysFromRows
<1>17. ChangesQueued'
  <2>1. CASE faults # 0
    BY <2>1 DEF ChangesQueued
  <2>2. CASE faults = 0
    <3>1. log[Creator] # <<>>
      BY <1>3, <2>2 DEF LogsAgree
    <3>2. log'[Creator] = log[Creator]
      BY <1>10, <3>1
    <3>. QED  BY <1>3, <2>2, <3>2 DEF ChangesQueued
  <2>. QED  BY <2>1, <2>2
<1>. QED  BY <1>11, <1>12, <1>13, <1>14, <1>15, <1>16, <1>17

LEMMA RecvEnvelopesKeeps ==
    ASSUME TypeOK, TypeOK', InformedInv, NEW c \in Running, RecvEnvelopes(c)
    PROVE  InformedInv'
<1>. DEFINE came == Head(down[c]).envelopes
            room == IF Len(parked[c]) < MaxParked THEN MaxParked - Len(parked[c]) ELSE 0
            taken == SubSeq(came, 1, Min({room, Len(came)}))
            held == parked[c] \o taken
<1>1. /\ c \in Client /\ Arrives(c, "Envelopes") /\ Take(c) /\ Learn(c, log[c], held)
      /\ UNCHANGED <<relayVars, up, served, boundVars>>
  BY CreatorIsClient DEF RecvEnvelopes
<1>2. /\ \A d \in Client : Range(down'[d]) \in SUBSET Range(down[d])
      /\ Head(down[c]) \in Range(down[c]) /\ Head(down[c]).type = "Envelopes"
  BY <1>1, DownTaken
<1>3. came \in Seq(Envelope)
  BY <1>1, <1>2, InFlightTypes, DownMessageIs
<1>4. parked[c] \in Seq(Envelope) /\ log[c] \in Seq(Op)
  BY <1>1, LogTypes
<1>5. held \in Seq(Envelope) /\ Range(held) \in SUBSET (Range(parked[c]) \cup Range(came))
  BY <1>3, <1>4, TakenEnvelopes
<1>. HIDE DEF held
<1>6. ASSUME Informed, c # Creator PROVE \A v \in Range(held) : Wrapped(c, v.key)
  <2>1. KeysFromRows
    BY <1>6 DEF InformedInv
  <2>2. \A v \in Range(parked[c]) : Wrapped(c, v.key)
    BY <1>1, <1>6, <2>1 DEF KeysFromRows
  <2>3. \A v \in Range(came) : Wrapped(c, v.key)
    BY <1>1, <1>2, <1>6, <2>1 DEF KeysFromRows
  <2>. QED  BY <1>5, <2>2, <2>3
<1>7. Extends(log[c], log[c])
  BY <1>4, ExtendsSelf
<1>8. ASSUME Informed
      PROVE  /\ c # Creator => Extends(relayLog, log[c]) /\ Extends(log[c], log[c])
             /\ \A d \in Client : Extends(relayLog, served'[d])
  BY <1>1, <1>7, <1>8 DEF InformedInv, LogsAgree
<1>9. UNCHANGED <<relayLog, rows, up, keysMade, faults, stale, refused>>
  BY <1>1 DEF relayVars, boundVars
<1>. QED  BY <1>1, <1>2, <1>4, <1>5, <1>6, <1>8, <1>9, LearnKeeps

\* The log an engine learns extends its own; the owner's is the longest there is.
LEMMA LearntLog ==
    ASSUME TypeOK, InformedInv, NEW c \in Client, Arrives(c, "Membership"), Take(c)
    PROVE  LET ops == Head(down[c]).ops
               l == Newer(log[c], ops)
           IN  /\ l \in Seq(Op)
               /\ Informed =>
                    /\ Extends(relayLog, ops) /\ Extends(l, log[c])
                    /\ c = Creator => l = log[c] \/ (log[c] = <<>> /\ l = relayLog)
                    /\ c # Creator => Extends(relayLog, l)
<1>. DEFINE ops == Head(down[c]).ops
            l == Newer(log[c], ops)
<1>1. Head(down[c]) \in Range(down[c]) /\ Head(down[c]).type = "Membership"
  BY DownTaken
<1>2. ops \in Seq(Op)
  BY <1>1, InFlightTypes, DownMessageIs
<1>3. log[c] \in Seq(Op) /\ relayLog \in Seq(Op)
  BY LogTypes
<1>4. Informed => LogsAgree
  BY DEF InformedInv
<1>5. Informed => Extends(relayLog, ops) /\ (c = Creator /\ log[c] = <<>> => ops = relayLog)
  BY <1>1, <1>4 DEF LogsAgree
<1>. HIDE DEF ops
<1>6. l = (IF Len(ops) >= Len(log[c]) THEN ops ELSE log[c]) /\ l \in Seq(Op)
  BY <1>2, <1>3 DEF Newer
<1>. HIDE DEF l
<1>7. ASSUME Informed, c = Creator
      PROVE  (l = log[c] \/ (log[c] = <<>> /\ l = relayLog)) /\ Extends(l, log[c])
  <2>1. CASE log[c] = <<>>
    <3>1. l = relayLog
      BY <1>2, <1>5, <1>6, <1>7, <2>1
    <3>. QED  BY <1>3, <2>1, <3>1 DEF Extends
  <2>2. CASE log[c] # <<>>
    <3>1. Extends(log[c], relayLog)
      BY <1>4, <1>7, <2>2 DEF LogsAgree
    <3>2. Extends(log[c], ops)
      BY <1>2, <1>3, <1>5, <1>7, <3>1, ExtendsTransitive
    <3>3. l = log[c]
      BY <1>2, <1>3, <1>6, <3>2, ExtendsEqual
    <3>. QED  BY <1>3, <3>3, ExtendsSelf
  <2>. QED  BY <2>1, <2>2
<1>8. ASSUME Informed, c # Creator PROVE Extends(relayLog, l) /\ Extends(l, log[c])
  <2>1. Extends(relayLog, log[c]) /\ Extends(relayLog, ops)
    BY <1>4, <1>5, <1>8 DEF LogsAgree
  <2>2. CASE Len(ops) >= Len(log[c])
    BY <1>2, <1>3, <1>6, <2>1, <2>2, PrefixesCompare
  <2>3. CASE ~(Len(ops) >= Len(log[c]))
    BY <1>3, <1>6, <2>1, <2>3, ExtendsSelf
  <2>. QED  BY <2>2, <2>3
<1>. QED  BY <1>5, <1>6, <1>7, <1>8 DEF l, ops

LEMMA RecvMembershipKeeps ==
    ASSUME TypeOK, TypeOK', InformedInv, NEW c \in Running, RecvMembership(c)
    PROVE  InformedInv'
<1>. DEFINE ops == Head(down[c]).ops
            l == Newer(log[c], ops)
<1>1. /\ c \in Client /\ Arrives(c, "Membership") /\ Take(c) /\ Learn(c, l, parked[c])
      /\ served' = [served EXCEPT ![c] = ops]
      /\ UNCHANGED <<relayVars, up, boundVars>>
  BY CreatorIsClient DEF RecvMembership
<1>2. /\ l \in Seq(Op)
      /\ Informed =>
           /\ Extends(relayLog, ops) /\ Extends(l, log[c])
           /\ c = Creator => l = log[c] \/ (log[c] = <<>> /\ l = relayLog)
           /\ c # Creator => Extends(relayLog, l)
  BY <1>1, LearntLog
<1>3. \A d \in Client : Range(down'[d]) \in SUBSET Range(down[d])
  BY <1>1, DownTaken
<1>4. parked[c] \in Seq(Envelope)
  BY <1>1, LogTypes
<1>. HIDE DEF ops, l
<1>5. ASSUME Informed PROVE \A d \in Client : Extends(relayLog, served'[d])
  BY <1>1, <1>2, <1>5 DEF InformedInv, LogsAgree, TypeOK
<1>6. ASSUME Informed, c # Creator PROVE \A v \in Range(parked[c]) : Wrapped(c, v.key)
  BY <1>1, <1>6 DEF InformedInv, KeysFromRows
<1>7. UNCHANGED <<relayLog, rows, up, keysMade, faults, stale, refused>>
  BY <1>1 DEF relayVars, boundVars
<1>. QED  BY <1>1, <1>2, <1>3, <1>4, <1>5, <1>6, <1>7, LearnKeeps

LEMMA RestartKeeps ==
    ASSUME TypeOK, TypeOK', InformedInv, NEW c \in Running, Restart(c)
    PROVE  InformedInv'
<1>1. /\ c \in Client
      /\ faults' = faults + 1 /\ faults \in Nat /\ stale \in Nat
      /\ UNCHANGED <<relayLog, rows, keysMade, stale>>
  BY CreatorIsClient DEF Restart, relayVars, TypeOK
<1>2. /\ up'[c] = <<>> /\ down'[c] = <<>> /\ log'[c] = <<>> /\ served'[c] = <<>>
      /\ keys'[c] = NoKeys /\ parked'[c] = <<>>
      /\ \A d \in Client : d # c =>
            /\ up'[d] = up[d] /\ down'[d] = down[d] /\ log'[d] = log[d]
            /\ served'[d] = served[d] /\ keys'[d] = keys[d] /\ parked'[d] = parked[d]
  <2>1. /\ up'[c] = <<>> /\ down'[c] = <<>> /\ log'[c] = <<>>
        /\ \A d \in Client : d # c =>
              up'[d] = up[d] /\ down'[d] = down[d] /\ log'[d] = log[d]
    BY <1>1 DEF Restart, TypeOK
  <2>2. /\ served'[c] = <<>> /\ keys'[c] = NoKeys /\ parked'[c] = <<>>
        /\ \A d \in Client : d # c =>
              served'[d] = served[d] /\ keys'[d] = keys[d] /\ parked'[d] = parked[d]
    BY <1>1 DEF Restart, TypeOK
  <2>. QED  BY <2>1, <2>2
<1>3. SUFFICES ASSUME Informed'
               PROVE  /\ LogsGenuine' /\ LogsAgree' /\ ChangesFromOwner'
                      /\ RowsPlaced' /\ KeysFromLogs' /\ KeysFromRows' /\ ChangesQueued'
  BY DEF InformedInv
<1>4. relayLog \in Seq(Op) /\ relayLog' = relayLog /\ Creator \in Client
  BY <1>1, LogTypes
<1>5. Informed
  <2>1. Extends(relayLog', relayLog) /\ faults' >= faults /\ stale' >= stale
    BY <1>1, <1>4, ExtendsSelf
  <2>. QED  BY <1>3, <2>1, Monotone
<1>6. /\ LogsGenuine /\ LogsAgree /\ ChangesFromOwner
      /\ RowsPlaced /\ KeysFromLogs /\ KeysFromRows
  BY <1>5 DEF InformedInv
<1>7. Range(<<>>) = {} /\ DOMAIN <<>> = {} /\ DOMAIN NoKeys = {} /\ faults' # 0
  BY <1>1 DEF Range, NoKeys
<1>8. LogsGenuine'
  <2>1. Genuine(<<>>)
    BY <1>7 DEF Genuine
  <2>2. log'[Creator] = log[Creator] \/ log'[Creator] = <<>>
    BY <1>2, <1>4
  <2>3. \A z \in {relayLog', log'[Creator]} :
          Genuine(z) /\ \A i \in DOMAIN z : z[i].key <= keysMade'
    <3>1. TAKE z \in {relayLog', log'[Creator]}
    <3>2. CASE z = relayLog
      BY <1>1, <1>6, <3>2 DEF LogsGenuine
    <3>3. CASE z = log[Creator]
      BY <1>1, <1>6, <3>3 DEF LogsGenuine
    <3>4. CASE z = <<>>
      BY <1>7, <2>1, <3>4
    <3>. QED  BY <1>4, <2>2, <3>2, <3>3, <3>4
  <2>. QED  BY <1>4, <1>6, <2>3 DEF LogsGenuine
<1>9. LogsAgree'
  <2>1. Extends(relayLog, <<>>)
    BY <1>4 DEF Extends
  <2>2. log'[Creator] # <<>> => Extends(log'[Creator], relayLog')
    BY <1>2, <1>4, <1>6 DEF LogsAgree
  <2>3. \A d \in Client : d # Creator => Extends(relayLog', log'[d])
    BY <1>2, <1>4, <1>6, <2>1 DEF LogsAgree
  <2>4. \A d \in Client : Extends(relayLog', served'[d])
    BY <1>2, <1>4, <1>6, <2>1 DEF LogsAgree
  <2>5. ASSUME NEW d \in Client, NEW x \in Range(down'[d]), x.type = "Membership"
        PROVE  Extends(relayLog', x.ops) /\ (d = Creator /\ log'[d] = <<>> => x.ops = relayLog')
    <3>1. d # c
      BY <1>2, <1>7
    <3>2. x \in Range(down[d]) /\ log'[d] = log[d]
      BY <1>2, <3>1
    <3>. QED  BY <1>4, <1>6, <2>5, <3>2 DEF LogsAgree
  <2>. QED  BY <1>7, <2>2, <2>3, <2>4, <2>5 DEF LogsAgree
<1>10. ChangesFromOwner'
  <2>1. ASSUME NEW d \in Client, NEW q \in Range(up'[d]), IsChange(q)
        PROVE  d = Creator /\ OwnChange(log'[Creator], q)
    <3>1. d # c
      BY <1>2, <1>7
    <3>2. q \in Range(up[d])
      BY <1>2, <3>1
    <3>3. d = Creator /\ OwnChange(log[Creator], q)
      BY <1>6, <2>1, <3>2 DEF ChangesFromOwner
    <3>. QED  BY <1>2, <3>1, <3>3
  <2>. QED  BY <2>1 DEF ChangesFromOwner
<1>11. RowsPlaced'
  BY <1>1, <1>6 DEF RowsPlaced, Placed
<1>12. KeysFromLogs'
  <2>1. ASSUME NEW d \in Client, NEW e \in DOMAIN keys'[d]
        PROVE  \E i \in DOMAIN log'[d] : log'[d][i].epoch = e /\ log'[d][i].key = keys'[d][e]
    <3>1. d # c
      BY <1>2, <1>7
    <3>. QED  BY <1>2, <1>6, <3>1 DEF KeysFromLogs
  <2>. QED  BY <2>1 DEF KeysFromLogs
<1>13. KeysFromRows'
  <2>1. ASSUME NEW d \in Client, d # Creator
        PROVE  /\ \A e \in DOMAIN keys'[d] : Wrapped(d, keys'[d][e])
               /\ \A v \in Range(parked'[d]) : Wrapped(d, v.key)
               /\ \A x \in Range(down'[d]) : x.type = "Envelopes" =>
                    \A v \in Range(x.envelopes) : Wrapped(d, v.key)
    <3>1. CASE d # c
      BY <1>2, <1>6, <2>1, <3>1 DEF KeysFromRows
    <3>2. CASE d = c
      BY <1>2, <1>7, <3>2
    <3>. QED  BY <3>1, <3>2
  <2>2. ASSUME NEW d \in Client, d # Creator
        PROVE  /\ \A e \in DOMAIN keys'[d] : (Wrapped(d, keys[d][e]))'
               /\ \A v \in Range(parked'[d]) : (Wrapped(d, v.key))'
               /\ \A x \in Range(down'[d]) : x.type = "Envelopes" =>
                    \A v \in Range(x.envelopes) : (Wrapped(d, v.key))'
    <3>1. \A e \in DOMAIN keys'[d] : (Wrapped(d, keys[d][e]))'
      BY <1>1, <2>1, <2>2 DEF Wrapped
    <3>2. \A v \in Range(parked'[d]) : (Wrapped(d, v.key))'
      BY <1>1, <2>1, <2>2 DEF Wrapped
    <3>3. \A x \in Range(down'[d]) : x.type = "Envelopes" =>
              \A v \in Range(x.envelopes) : (Wrapped(d, v.key))'
      BY <1>1, <2>1, <2>2 DEF Wrapped
    <3>. QED  BY <3>1, <3>2, <3>3
  <2>. QED  BY <2>2 DEF KeysFromRows
<1>14. ChangesQueued'
  BY <1>7 DEF ChangesQueued
<1>. QED  BY <1>8, <1>9, <1>10, <1>11, <1>12, <1>13, <1>14

-----------------------------------------------------------------------------
(* The invariant. *)

LEMMA InitKeeps == Init => InformedInv
<1>. SUFFICES ASSUME Init PROVE InformedInv
  OBVIOUS
<1>. DEFINE l == <<Create>>
<1>1. /\ relayLog = l /\ rows = {[to |-> Creator, epoch |-> 0, key |-> 1]}
      /\ log = [c \in Client |-> IF c = Creator THEN l ELSE <<>>]
      /\ served = [c \in Client |-> <<>>]
      /\ keys = [c \in Client |-> IF c = Creator THEN [e \in {0} |-> 1] ELSE NoKeys]
      /\ up = [c \in Client |-> <<>>] /\ down = [c \in Client |-> <<>>]
      /\ parked = [c \in Client |-> <<>>]
      /\ keysMade = 1 /\ faults = 0 /\ refused = FALSE /\ Creator \in Client
  BY CreatorIsClient DEF Init
<1>2. Create \in Op
  BY CreatorIsClient, BoundsAssumption DEF Create, Op, Roles, Epochs, Keys
<1>3. /\ l \in Seq(Op) /\ Len(l) = 1 /\ DOMAIN l = {1} /\ l[1] = Create /\ l # <<>>
      /\ Create.key = 1 /\ Create.epoch = 0 /\ Create.role = "Owner" /\ Create.who = Creator
      /\ Create.seq = 0
  BY <1>2 DEF Create
<1>. HIDE DEF l
<1>4. Genuine(l)
  BY <1>3 DEF Genuine
<1>5. Range(<<>>) = {} /\ DOMAIN <<>> = {} /\ DOMAIN NoKeys = {}
  BY DEF Range, NoKeys
<1>6. LogsGenuine
  <2>1. relayLog = l /\ log[Creator] = l
    BY <1>1
  <2>2. \A i \in DOMAIN l : l[i].key <= keysMade
    BY <1>1, <1>3
  <2>. QED  BY <1>3, <1>4, <2>1, <2>2 DEF LogsGenuine
<1>7. LogsAgree
  <2>1. Extends(l, l) /\ Extends(l, <<>>)
    BY <1>3 DEF Extends
  <2>2. log[Creator] = l /\ \A c \in Client : c # Creator => log[c] = <<>>
    BY <1>1
  <2>3. \A c \in Client : served[c] = <<>> /\ down[c] = <<>>
    BY <1>1
  <2>. QED  BY <1>1, <1>3, <1>5, <2>1, <2>2, <2>3 DEF LogsAgree
<1>8. ChangesFromOwner
  BY <1>1, <1>5 DEF ChangesFromOwner
<1>9. Role(SubSeq(l, 1, 1), Creator) = "Owner"
  BY <1>3, <1>4, CreatorStays
<1>10. RowsPlaced
  <2>1. 1 \in DOMAIN relayLog /\ 1 \in 1..Len(relayLog) /\ relayLog[1].key = 1
    BY <1>1, <1>3
  <2>2. \E i \in DOMAIN relayLog : \E j \in i..Len(relayLog) :
          relayLog[i].key = 1 /\ Role(SubSeq(relayLog, 1, j), Creator) # "None"
    BY <1>1, <1>9, <2>1
  <2>3. Placed(Creator, 1)
    BY <2>2 DEF Placed
  <2>. QED  BY <1>1, <2>3 DEF RowsPlaced
<1>11. KeysFromLogs
  <2>1. ASSUME NEW c \in Client, NEW e \in DOMAIN keys[c]
        PROVE  \E i \in DOMAIN log[c] : log[c][i].epoch = e /\ log[c][i].key = keys[c][e]
    <3>1. c = Creator
      BY <1>1, <1>5
    <3>2. e = 0 /\ keys[c][e] = 1 /\ log[c] = l
      BY <1>1, <3>1
    <3>. QED  BY <1>3, <3>2
  <2>. QED  BY <2>1 DEF KeysFromLogs
<1>12. KeysFromRows
  BY <1>1, <1>5 DEF KeysFromRows
<1>13. ChangesQueued
  <2>1. up[Creator] = <<>> /\ Len(relayLog) = 1 /\ Len(log[Creator]) = 1
    BY <1>1, <1>3
  <2>2. Queued(<<>>, 1, 1)
    BY <1>5 DEF Queued
  <2>. QED  BY <1>1, <2>1, <2>2 DEF ChangesQueued
<1>. QED  BY <1>6, <1>7, <1>8, <1>10, <1>11, <1>12, <1>13 DEF InformedInv

LEMMA NextKeeps == IInv /\ [Next]_vars => IInv'
<1>. SUFFICES ASSUME IInv, [Next]_vars PROVE IInv'
  OBVIOUS
<1>1. TypeOK /\ SealedFits /\ InformedInv /\ TypeOK' /\ SealedFits'
  BY NextTyped DEF IInv
<1>2. CASE UNCHANGED vars
  <2>1. UNCHANGED <<relayLog, rows, log, served, keys, parked, keysMade, refused, up, down,
                    faults, stale>>
    BY <1>2 DEF vars, relayVars, linkVars, spaceVars, docVars, boundVars
  <2>2. \A d \in Client : \A x \in Range(down'[d]) : x \in Range(down[d]) \/ Harmless(d, x)
    BY <2>1
  <2>. QED  BY <1>1, <2>1, <2>2, LogTypes, CalmSend DEF IInv
<1>3. ASSUME NEW c \in Running, HandleCmd(c) PROVE InformedInv'
  BY <1>1, <1>3, JoinSpaceKeeps, AddMemberKeeps, RemoveMemberKeeps, EditKeeps DEF HandleCmd
<1>4. ASSUME NEW c \in Running, Flush(c) PROVE InformedInv'
  BY <1>1, <1>4, EditKeeps, FlushStallsKeeps, FlushSealsKeeps DEF Flush
<1>5. ASSUME NEW c \in Running, Relay(c) PROVE InformedInv'
  BY <1>1, <1>5, AcceptChangeKeeps, RefuseChangeKeeps, ServeMembershipKeeps, ServeEnvelopesKeeps,
     StoreFrameKeeps, ServeFrameKeeps DEF Relay
<1>6. ASSUME NEW c \in Running, Recv(c) PROVE InformedInv'
  BY <1>1, <1>6, RecvFrameKeeps, RecvEnvelopesKeeps, RecvMembershipKeeps, RejectMembershipKeeps,
     RecvEpochBumpKeeps DEF Recv
<1>7. ASSUME NEW c \in Running, Disconnect(c) \/ Connect(c) \/ Restart(c) PROVE InformedInv'
  BY <1>1, <1>7, DisconnectKeeps, ConnectKeeps, RestartKeeps
<1>. QED  BY <1>1, <1>2, <1>3, <1>4, <1>5, <1>6, <1>7 DEF Next, IInv

LEMMA InvHolds == Spec => []IInv
<1>1. Init => IInv
  BY InitTyped, InitKeeps DEF IInv
<1>. QED  BY <1>1, NextKeeps, PTL DEF Spec

-----------------------------------------------------------------------------
(* Every variable keeps its type, and the bounds are bounds: the keys of an  *)
(* engine map epochs to keys, and nothing is sealed that was not an edit.    *)
THEOREM TypesCorrect == Spec => []TypeOK
<1>1. IInv => TypeOK
  BY DEF IInv
<1>. QED  BY <1>1, InvHolds, PTL

\* What somebody other than the creator holds was wrapped for a member of its time.
LEMMA KeysPlaced ==
    ASSUME InformedInv, Informed, NEW m \in Client, m # Creator, NEW k \in KeysOf(m)
    PROVE  Placed(m, k)
<1>1. RowsPlaced /\ KeysFromRows
  BY DEF InformedInv
<1>2. CASE k \in {r.key : r \in {x \in rows : x.to = m}}
  BY <1>1, <1>2 DEF RowsPlaced
<1>3. CASE k \in Range(keys[m])
  <2>1. PICK e \in DOMAIN keys[m] : k = keys[m][e]
    BY <1>3 DEF Range
  <2>2. Wrapped(m, k)
    BY <1>1, <2>1 DEF KeysFromRows
  <2>. QED  BY <1>1, <2>2 DEF Wrapped, RowsPlaced
<1>. QED  BY <1>2, <1>3 DEF KeysOf

(* With one owner, a key the log commits to is out only to those who were    *)
(* members at or after the change that made it, for any number of members,   *)
(* changes, lost connections and restarts (engine.rs remove_member,          *)
(* add_member, handle_envelopes).                                            *)
THEOREM KeysAreOutToMembers == Spec => []HoldersWereMembers
<1>1. IInv => HoldersWereMembers
  <2>1. SUFFICES ASSUME TypeOK, InformedInv, Informed, NEW m \in Client, NEW i \in DOMAIN relayLog,
                        relayLog[i].key # NoKey, relayLog[i].key \in KeysOf(m)
                 PROVE  \E j \in i..Len(relayLog) : m \in Members(SubSeq(relayLog, 1, j))
    BY DEF IInv, HoldersWereMembers
  <2>2. relayLog \in Seq(Op) /\ i \in 1..Len(relayLog) /\ Genuine(relayLog)
    BY <2>1, LogTypes DEF InformedInv, LogsGenuine
  <2>3. CASE m = Creator
    <3>1. Role(SubSeq(relayLog, 1, i), m) = "Owner"
      BY <2>2, <2>3, CreatorStays
    <3>2. i \in i..Len(relayLog)
      BY <2>2
    <3>. QED  BY <3>1, <3>2 DEF Members
  <2>4. CASE m # Creator
    <3>1. Placed(m, relayLog[i].key)
      BY <2>1, <2>4, KeysPlaced
    <3>2. PICK p \in DOMAIN relayLog : \E j \in p..Len(relayLog) :
            relayLog[p].key = relayLog[i].key /\ Role(SubSeq(relayLog, 1, j), m) # "None"
      BY <3>1 DEF Placed
    <3>3. p = i
      BY <2>1, <2>2, <3>2 DEF Genuine
    <3>. QED  BY <3>2, <3>3 DEF Members
  <2>. QED  BY <2>3, <2>4
<1>. QED  BY <1>1, InvHolds, PTL

(* With one owner and no connection lost the relay refuses none of the       *)
(* owner's changes: they reach it in the order of its own log, each the next *)
(* one of the relay's (engine.rs add_member, remove_member,                  *)
(* handle_membership).                                                       *)
THEOREM OwnersChangesLand == Spec => []ChangesLand
<1>1. IInv => ChangesLand
  BY DEF IInv, InformedInv, Informed, ChangesQueued, ChangesLand
<1>. QED  BY <1>1, InvHolds, PTL

LEMMA RemovalIs ==
    ASSUME TypeOK, NEW c \in Running, NEW m \in Client, RemoveMember(c, m)
    PROVE  [seq |-> Len(log[c]), by |-> c, who |-> m, role |-> "None",
            epoch |-> Epoch(log[c]) + 1, key |-> keysMade + 1] \in Op
<1>1. c \in Client /\ log[c] \in Seq(Op) /\ Len(log[c]) \in Nat /\ keysMade \in Nat
  BY CreatorIsClient, LogTypes, BoundsAssumption DEF TypeOK, Keys
<1>2. keysMade + 1 \in Keys
  BY <1>1, BoundsAssumption DEF RemoveMember, Keys
<1>3. Role(log[c], c) = "Owner" /\ Len(log[c]) <= MaxOps
  BY DEF RemoveMember, Applies
<1>4. Epoch(log[c]) \in 0..Len(log[c]) - 1
  BY <1>1, <1>3, EpochFits
<1>5. Epoch(log[c]) + 1 \in Epochs
  BY <1>1, <1>3, <1>4, BoundsAssumption DEF Epochs
<1>. QED  BY <1>1, <1>2, <1>5 DEF Op, Roles

(* With one owner the log an engine holds only grows while the engine lives, *)
(* whatever copies of it are served late, out of date or after a restart     *)
(* (engine.rs handle_membership).                                            *)
THEOREM LogsAreNotTakenBack == Spec => LogsOnlyGrow
<1>1. IInv /\ [Next]_vars =>
        [Informed' => \A c \in Client : IsPrefix(log[c], log'[c]) \/ log'[c] = <<>>]_vars
  <2>1. SUFFICES ASSUME TypeOK, InformedInv, Next, Informed', NEW d \in Client
                 PROVE  IsPrefix(log[d], log'[d]) \/ log'[d] = <<>>
    BY DEF IInv
  <2>2. log[d] \in Seq(Op)
    BY <2>1, LogTypes
  <2>3. CASE UNCHANGED log
    <3>1. Extends(log[d], log[d])
      BY <2>2, ExtendsSelf
    <3>. QED  BY <2>2, <2>3, <3>1, ExtendsIsPrefix
  <2>4. ASSUME NEW c \in Running, NEW op, op \in Op, log' = [log EXCEPT ![c] = Append(@, op)]
        PROVE  IsPrefix(log[d], log'[d])
    <3>1. log'[d] \in Seq(Op) /\ Extends(log'[d], log[d])
      BY <2>2, <2>4 DEF TypeOK, Extends
    <3>. QED  BY <2>2, <3>1, ExtendsIsPrefix
  <2>5. ASSUME NEW c \in Running, HandleCmd(c)
        PROVE  IsPrefix(log[d], log'[d]) \/ log'[d] = <<>>
    <3>1. c \in Client
      BY CreatorIsClient
    <3>2. CASE UNCHANGED log
      BY <2>3, <3>2
    <3>3. ASSUME NEW m \in Client, NEW role \in GivenRoles, AddMember(c, m, role)
          PROVE  IsPrefix(log[d], log'[d])
      <4>. DEFINE op == [seq |-> Len(log[c]), by |-> c, who |-> m, role |-> role,
                         epoch |-> 0, key |-> NoKey]
      <4>1. op \in Op
        BY <3>1, LogTypes, RolesAssumption, BoundsAssumption DEF Op, Roles, Epochs
      <4>2. log' = [log EXCEPT ![c] = Append(@, op)]
        BY <3>3 DEF AddMember
      <4>. HIDE DEF op
      <4>. QED  BY <2>4, <4>1, <4>2
    <3>4. ASSUME NEW m \in Client, RemoveMember(c, m) PROVE IsPrefix(log[d], log'[d])
      <4>. DEFINE new == Epoch(log[c]) + 1
                  op == [seq |-> Len(log[c]), by |-> c, who |-> m, role |-> "None",
                         epoch |-> new, key |-> keysMade + 1]
      <4>1. log' = [log EXCEPT ![c] = Append(@, op)]
        BY <3>4 DEF RemoveMember
      <4>2. op \in Op
        BY <2>1, <3>4, RemovalIs
      <4>. HIDE DEF op
      <4>. QED  BY <2>4, <4>1, <4>2
    <3>. QED  BY <2>5, <3>2, <3>3, <3>4 DEF HandleCmd, JoinSpace, Edit, spaceVars
  <2>6. ASSUME NEW c \in Running, Flush(c) \/ Relay(c) \/ Disconnect(c) \/ Connect(c)
        PROVE  UNCHANGED log
    BY <2>6 DEF Flush, FlushDrops, FlushStalls, FlushSeals, Relay, AcceptChange, RefuseChange,
       ServeMembership, ServeEnvelopes, StoreFrame, ServeFrame, EngineUnchanged, Disconnect, Connect,
       spaceVars
  <2>7. ASSUME NEW c \in Running, Recv(c)
        PROVE  IsPrefix(log[d], log'[d])
    <3>1. c \in Client
      BY CreatorIsClient
    <3>2. CASE UNCHANGED log
      <4>1. Extends(log[d], log[d])
        BY <2>2, ExtendsSelf
      <4>. QED  BY <2>2, <3>2, <4>1, ExtendsIsPrefix
    <3>3. CASE RecvEnvelopes(c)
      <4>1. UNCHANGED log
        BY <2>1, <3>3 DEF RecvEnvelopes, Learn, TypeOK
      <4>. QED  BY <3>2, <4>1
    <3>4. CASE RecvMembership(c)
      <4>. DEFINE ops == Head(down[c]).ops
                  l == Newer(log[c], ops)
      <4>1. /\ Arrives(c, "Membership") /\ Take(c) /\ log' = [log EXCEPT ![c] = l]
            /\ UNCHANGED <<relayLog, faults, stale>>
        BY <3>4 DEF RecvMembership, Learn, relayVars, boundVars
      <4>2. Informed
        BY <2>1, <4>1 DEF Informed, SoleOwner
      <4>3. l \in Seq(Op) /\ Extends(l, log[c])
        BY <2>1, <3>1, <4>1, <4>2, LearntLog
      <4>4. Extends(log[d], log[d])
        BY <2>2, ExtendsSelf
      <4>. HIDE DEF l
      <4>5. log'[d] \in Seq(Op) /\ Extends(log'[d], log[d])
        BY <2>2, <3>1, <4>1, <4>3, <4>4 DEF TypeOK
      <4>. QED  BY <2>2, <4>5, ExtendsIsPrefix
    <3>. QED  BY <2>7, <3>2, <3>3, <3>4
              DEF Recv, RecvFrame, RejectMembership, RecvEpochBump, RecvNotMember, spaceVars
  <2>8. ASSUME NEW c \in Running, Restart(c)
        PROVE  IsPrefix(log[d], log'[d]) \/ log'[d] = <<>>
    <3>1. log' = [log EXCEPT ![c] = <<>>]
      BY <2>8 DEF Restart
    <3>2. log'[d] = log[d] \/ log'[d] = <<>>
      BY <3>1 DEF TypeOK
    <3>3. Extends(log[d], log[d])
      BY <2>2, ExtendsSelf
    <3>. QED  BY <2>2, <3>2, <3>3, ExtendsIsPrefix
  <2>. QED  BY <2>1, <2>3, <2>5, <2>6, <2>7, <2>8 DEF Next
<1>. QED  BY <1>1, InvHolds, PTL DEF Spec, LogsOnlyGrow

\* Frames enter an outbox when they are sealed, and nowhere else.
LEMMA SealedNow ==
    ASSUME TypeOK, Next, NEW d \in Client, NEW f \in outbox'[d] \ outbox[d]
    PROVE  /\ FlushSeals(d) /\ Epoch(log[d]) \in DOMAIN keys[d]
           /\ f.key = keys[d][Epoch(log[d])]
<1>1. ~UNCHANGED outbox
  OBVIOUS
<1>2. ASSUME NEW c \in Running, HandleCmd(c) PROVE FALSE
  BY <1>1, <1>2 DEF HandleCmd, JoinSpace, AddMember, RemoveMember, Edit, docVars
<1>3. ASSUME NEW c \in Running, FlushSeals(c) PROVE d = c /\ f.key = keys[d][Max(SealingEpochs(d))]
  <2>. DEFINE e == Max(SealingEpochs(c))
              g == [by |-> c, n |-> sealed + 1, epoch |-> e, key |-> keys[c][e]]
  <2>1. outbox' = [outbox EXCEPT ![c] = @ \cup {g}]
    BY <1>3 DEF FlushSeals
  <2>2. g.key = keys[c][e]
    OBVIOUS
  <2>. HIDE DEF g, e
  <2>3. d = c /\ f = g
    BY <2>1 DEF TypeOK
  <2>. QED  BY <2>2, <2>3 DEF e
<1>4. ASSUME NEW c \in Running, FlushDrops(c) \/ FlushStalls(c) PROVE FALSE
  BY <1>1, <1>4 DEF FlushDrops, FlushStalls, docVars
<1>5. ASSUME NEW c \in Running, Relay(c) PROVE FALSE
  <2>1. CASE StoreFrame(c)
    <3>1. outbox' = [outbox EXCEPT ![c] = @ \ {Head(up[c]).frame}] \/ UNCHANGED outbox
      BY <2>1 DEF StoreFrame
    <3>. QED  BY <3>1 DEF TypeOK
  <2>. QED  BY <1>1, <1>5, <2>1
            DEF Relay, AcceptChange, RefuseChange, ServeMembership, ServeEnvelopes, ServeFrame
<1>6. ASSUME NEW c \in Running, Recv(c) PROVE FALSE
  BY <1>1, <1>6 DEF Recv, RecvFrame, RecvEnvelopes, RecvMembership, RejectMembership, RecvEpochBump,
     RecvNotMember, docVars
<1>7. ASSUME NEW c \in Running, Disconnect(c) \/ Connect(c) PROVE FALSE
  BY <1>1, <1>7 DEF Disconnect, Connect, docVars
<1>8. ASSUME NEW c \in Running, Restart(c) PROVE FALSE
  <2>1. outbox' = [outbox EXCEPT ![c] = {}]
    BY <1>8 DEF Restart
  <2>. QED  BY <2>1 DEF TypeOK
<1>9. PICK c \in Running : FlushSeals(c)
  BY <1>2, <1>4, <1>5, <1>6, <1>7, <1>8 DEF Next, Flush
<1>10. d = c /\ f.key = keys[d][Max(SealingEpochs(d))]
  BY <1>3, <1>9
<1>11. FlushSeals(d) /\ CanSeal(d)
  BY <1>9, <1>10 DEF FlushSeals
<1>. QED  BY <1>10, <1>11, SealingKey

\* The key of the epoch a log is in, out to someone the log shows as removed, is out to
\* someone admitted by a change the log does not have yet.
LEMMA OutToTheAdmitted ==
    ASSUME TypeOK, InformedInv, Informed, NEW c \in Client, NEW m \in Client,
           log[c] # <<>>, Epoch(log[c]) \in DOMAIN keys[c],
           keys[c][Epoch(log[c])] \in KeysOf(m), Removed(log[c], m)
    PROVE  AdmittedSince(log[c], m)
<1>. DEFINE l == log[c]
            e == Epoch(l)
            k == keys[c][e]
<1>1. /\ l \in Seq(Op) /\ relayLog \in Seq(Op) /\ keys[c] \in KeyRing
      /\ DOMAIN l = 1..Len(l) /\ Len(l) \in Nat
      /\ DOMAIN relayLog = 1..Len(relayLog) /\ Len(relayLog) \in Nat
  BY LogTypes
<1>2. /\ LogsGenuine /\ LogsAgree /\ KeysFromLogs
  BY DEF InformedInv
<1>3. Genuine(relayLog) /\ Genuine(l)
  <2>1. Genuine(relayLog) /\ Genuine(log[Creator])
    BY <1>2 DEF LogsGenuine
  <2>2. CASE c = Creator
    BY <2>1, <2>2
  <2>3. CASE c # Creator
    <3>1. Extends(relayLog, l)
      BY <1>2, <2>3 DEF LogsAgree
    <3>. QED  BY <1>1, <2>1, <3>1, GenuinePrefix
  <2>. QED  BY <2>1, <2>2, <2>3
<1>4. Role(l, m) = "None" /\ \E i \in 1..Len(l) : l[i].who = m
  BY <1>1 DEF Removed, Members
<1>5. m # Creator
  <2>1. Len(l) \in 1..Len(l) /\ SubSeq(l, 1, Len(l)) = l
    BY <1>1
  <2>2. Role(l, Creator) = "Owner"
    BY <1>1, <1>3, <2>1, CreatorStays
  <2>. QED  BY <1>4, <2>2
<1>6. k # NoKey
  BY <1>1, KeyRingIs DEF Keys, NoKey
<1>7. PICK i \in 1..Len(l) : l[i].epoch = e /\ l[i].key = k
  BY <1>1, <1>2 DEF KeysFromLogs
<1>8. PICK p \in 1..Len(l) :
        /\ l[p].who = m /\ l[p].role = "None"
        /\ \A q \in 1..Len(l) : l[q].who = m => q <= p
  BY <1>1, <1>4, NoRole
<1>9. p <= i
  BY <1>1, <1>3, <1>6, <1>7, <1>8, CurrentKey
<1>10. Placed(m, k)
  BY <1>5, KeysPlaced
<1>11. PICK i2 \in DOMAIN relayLog : \E j \in i2..Len(relayLog) :
         relayLog[i2].key = k /\ Role(SubSeq(relayLog, 1, j), m) # "None"
  BY <1>10 DEF Placed
<1>12. PICK j \in i2..Len(relayLog) :
         relayLog[i2].key = k /\ Role(SubSeq(relayLog, 1, j), m) # "None"
  BY <1>11
<1>. HIDE DEF l, e, k
<1>13. /\ i = i2
       /\ \A x \in 1..Len(l) : x \in 1..Len(relayLog) => relayLog[x] = l[x]
  <2>1. CASE c # Creator
    <3>1. Extends(relayLog, l)
      BY <1>2, <2>1 DEF LogsAgree, l
    <3>2. \A x \in 1..Len(l) : x \in 1..Len(relayLog) /\ relayLog[x] = l[x]
      BY <1>1, <3>1 DEF Extends
    <3>3. relayLog[i].key = relayLog[i2].key /\ i \in DOMAIN relayLog /\ relayLog[i].key # NoKey
      BY <1>1, <1>6, <1>7, <1>12, <3>2
    <3>. QED  BY <1>3, <3>2, <3>3 DEF Genuine
  <2>2. CASE c = Creator
    <3>1. Extends(l, relayLog)
      BY <1>2, <2>2 DEF LogsAgree, l
    <3>2. \A x \in 1..Len(relayLog) : x \in 1..Len(l) /\ relayLog[x] = l[x]
      BY <1>1, <3>1 DEF Extends
    <3>3. l[i].key = l[i2].key /\ i2 \in DOMAIN l /\ i \in DOMAIN l /\ l[i].key # NoKey
      BY <1>1, <1>6, <1>7, <1>12, <3>2
    <3>. QED  BY <1>3, <3>2, <3>3 DEF Genuine
  <2>. QED  BY <2>1, <2>2
<1>14. PICK q \in 1..j :
         /\ relayLog[q].who = m /\ relayLog[q].role # "None"
         /\ \A x \in 1..j : relayLog[x].who = m => x <= q
  <2>. DEFINE t == SubSeq(relayLog, 1, j)
  <2>1. j \in 0..Len(relayLog)
    BY <1>1, <1>12
  <2>2. t \in Seq(Op) /\ Len(t) = j /\ \A x \in 1..j : t[x] = relayLog[x]
    BY <1>1, <2>1, PrefixIs
  <2>3. Role(t, m) # "None"
    BY <1>12
  <2>. HIDE DEF t
  <2>. QED  BY <2>2, <2>3, RoleFrom
<1>15. p \in 1..j /\ relayLog[p] = l[p] /\ j \in 1..Len(relayLog)
  BY <1>1, <1>8, <1>9, <1>12, <1>13
<1>16. p < q
  BY <1>8, <1>14, <1>15
<1>17. q \notin 1..Len(l)
  <2>1. SUFFICES ASSUME q \in 1..Len(l) PROVE FALSE
    OBVIOUS
  <2>2. q \in 1..Len(relayLog)
    BY <1>15
  <2>3. l[q].who = m
    BY <1>13, <1>14, <2>1, <2>2
  <2>. QED  BY <1>8, <1>16, <2>1, <2>3
<1>18. q \in Len(l) + 1..Len(relayLog)
  BY <1>1, <1>15, <1>17
<1>. QED  BY <1>14, <1>18 DEF AdmittedSince, l

(* With one owner, nothing is sealed under a key that is out to someone the  *)
(* author's own log shows as removed, unless a change the author has not     *)
(* seen admitted it again (engine.rs sealing_key, flush_doc, remove_member). *)
THEOREM SealedKeysAreKept == Spec => SealedForMembers
<1>1. IInv /\ [Next]_vars =>
        [Informed => \A c, m \in Client : \A f \in outbox'[c] \ outbox[c] :
            f.key \in KeysOf(m) /\ Removed(log[c], m) => AdmittedSince(log[c], m)]_vars
  <2>1. SUFFICES ASSUME TypeOK, InformedInv, Next, Informed, NEW c \in Client, NEW m \in Client,
                        NEW f \in outbox'[c] \ outbox[c],
                        f.key \in KeysOf(m), Removed(log[c], m)
                 PROVE  AdmittedSince(log[c], m)
    BY DEF IInv
  <2>2. /\ FlushSeals(c) /\ Epoch(log[c]) \in DOMAIN keys[c]
        /\ f.key = keys[c][Epoch(log[c])]
    BY <2>1, SealedNow
  <2>3. log[c] # <<>>
    <3>1. log[c] \in Seq(Op) /\ Role(log[c], c) # "None"
      BY <2>1, <2>2, LogTypes DEF FlushSeals, CanWrite, Writing
    <3>2. PICK p \in 1..Len(log[c]) : TRUE
      BY <3>1, RoleFrom
    <3>. QED  BY <3>1, <3>2
  <2>. QED  BY <2>1, <2>2, <2>3, OutToTheAdmitted
<1>. QED  BY <1>1, InvHolds, PTL DEF Spec, SealedForMembers
=============================================================================
