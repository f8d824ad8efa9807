------------------------- MODULE SpaceCurrentProofs --------------------------
(***************************************************************************)
(* A member that has nothing on its way is current, for any number of      *)
(* clients, changes and frames.                                            *)
(*                                                                         *)
(* The invariant follows one member's connection: what the answers in      *)
(* `down` and the requests in `up` will have taught the engine once they   *)
(* have all been handled.  A removal announces an epoch to every member,   *)
(* the announcement makes the engine ask for the envelopes and the log,    *)
(* and both answers are as new as the announcement.  What has to be shown  *)
(* is that no envelope the engine needs is dropped on the way, for want of *)
(* the log that commits to its key or of a place to park it.               *)
(***************************************************************************)
EXTENDS SpaceKeysProofs

-----------------------------------------------------------------------------
(* The inductive invariant. *)

\* Where the property speaks: one owner, nothing lost, nothing outdated, and no more
\* epochs than there are places for parked envelopes.
Undisturbed ==
    /\ SoleOwner
    /\ faults = 0 /\ stale = 0
    /\ Epoch(relayLog) < MaxParked

Named(m) == \E i \in DOMAIN relayLog : relayLog[i].who = m

\* A member of the space that was never removed from it, and runs.
Lasting(c) ==
    /\ connected[c]
    /\ c # Creator
    /\ Named(c)
    /\ \A i \in DOMAIN relayLog : relayLog[i].who = c => relayLog[i].role # "None"

Has(s, type) == \E i \in DOMAIN s : s[i].type = type
EpochsOf(s) == {v.epoch : v \in Range(s)}

\* Someone the relay's log does not name has no part in the space.
Blank(c) ==
    /\ log[c] = <<>> /\ up[c] = <<>> /\ down[c] = <<>> /\ parked[c] = <<>>
    /\ DOMAIN keys[c] = {}
    /\ ~pending[c] /\ waiting[c] = {} /\ fetching[c] = {}

\* The rows, stored or on their way, hold the keys the log commits to.
KeyAt(l, e, k) == \E i \in DOMAIN l : l[i].epoch = e /\ l[i].key = k
RowsCommitted ==
    /\ \A r \in rows : KeyAt(relayLog, r.epoch, r.key)
    /\ \A q \in Range(up[Creator]) : IsChange(q) =>
        \A r \in q.rows : KeyAt(SubSeq(log[Creator], 1, q.op.seq + 1), r.epoch, r.key)

\* Every member has a row for every epoch: an addition brings those of the epochs so far, a
\* removal that of its own epoch for everyone who stays.
HasRow(R, m, e) == \E r \in R : r.to = m /\ r.epoch = e
RowsFor(q) ==
    IF q.op.role = "None"
    THEN \A m \in Members(SubSeq(log[Creator], 1, q.op.seq + 1)) : HasRow(q.rows, m, q.op.epoch)
    ELSE \A e \in 0..EpochAt(log[Creator], q.op.seq) : HasRow(q.rows, q.op.who, e)
RowsThere ==
    /\ \A m \in Members(relayLog) : \A e \in 0..Epoch(relayLog) : HasRow(rows, m, e)
    /\ \A q \in Range(up[Creator]) : IsChange(q) => RowsFor(q)

\* The owner holds the key of every epoch of its log, and opens every frame.
OwnerCurrent == DOMAIN keys[Creator] = 0..Epoch(log[Creator]) /\ waiting[Creator] = {}

\* A frame of the owner goes to the relay after the changes that made its epoch.
IsPush(q) == q.type = "PushUpdate"
PushesAfter(l, u) ==
    \A i \in DOMAIN u : IsPush(u[i]) =>
        /\ u[i].frame.epoch <= Epoch(l)
        /\ \A j \in DOMAIN u : j > i /\ IsChange(u[j]) =>
            u[i].frame.epoch <= EpochAt(l, u[j].op.seq)
OwnerFrames == PushesAfter(log[Creator], up[Creator])

\* The relay's log knows the epoch and the author of every frame, stored or on its way.
FramesKnown == \A f \in frames : f.epoch <= Epoch(relayLog) /\ CanAuthorContent(relayLog, f.by)
FramesOf(c) ==
    /\ waiting[c] \subseteq frames
    /\ \A d \in Range(down[c]) : d.type = "Frame" => d.frame \in frames
    /\ \A q \in Range(up[c]) : IsPush(q) =>
        q.frame.by = c /\ (c # Creator => q.frame.epoch <= Epoch(relayLog))

\* Envelopes parked or on their way are rows of the client; an answer holds those of all
\* epochs up to some, the older ones first.
Committed(c, v) == [to |-> c, epoch |-> v.epoch, key |-> v.key] \in rows
Whole(s) ==
    /\ Len(s) <= MaxParked
    /\ \A k \in DOMAIN s : \A e \in 0..s[k].epoch : \E j \in 1..k : s[j].epoch = e
EnvelopesOf(c) ==
    /\ \A v \in Range(parked[c]) : Committed(c, v)
    /\ \A d \in Range(down[c]) : d.type = "Envelopes" =>
        Whole(d.envelopes) /\ \A v \in Range(d.envelopes) : Committed(c, v)

\* Nobody but the owner changes the log.
Aligned(c) ==
    /\ c # Creator => log[c] = served[c]
    /\ c # Creator /\ ~Named(c) => Blank(c)
    /\ FramesOf(c) /\ EnvelopesOf(c)

OwnerGround == RowsCommitted /\ RowsThere /\ OwnerCurrent /\ OwnerFrames
Ground ==
    /\ \A c \in Running : connected[c]
    /\ OwnerGround /\ FramesKnown
    /\ \A c \in Client : Aligned(c)

-----------------------------------------------------------------------------
(* What is on its way to and from one member with log l, keys for the epochs K and    *)
(* envelopes parked for the epochs A: its requests u, the answers d to it.  The relay *)
(* is in epoch e.                                                                     *)

\* Without a log nothing was written, no frame came and no key was taken.
NothingYet(l, K, d, edits, parkedFrames) ==
    /\ l = <<>> => ~edits /\ ~Has(d, "Frame") /\ parkedFrames = {} /\ K = {}
    /\ ~Has(d, "NotMember")

\* Answers come in the order of what they show.
InOrderOf(l, A, d) ==
    \A i \in DOMAIN d : d[i].type = "Membership" =>
        /\ d[i].ops # <<>> /\ Len(l) <= Len(d[i].ops)
        /\ \A a \in A : a <= Epoch(d[i].ops)
        /\ \A j \in 1..i - 1 :
            /\ d[j].type = "Membership" => Len(d[j].ops) <= Len(d[i].ops)
            /\ d[j].type = "Envelopes" => \A a \in EpochsOf(d[j].envelopes) : a <= Epoch(d[i].ops)
            /\ d[j].type = "Frame" => CanAuthorContent(d[i].ops, d[j].frame.by)

\* The engine knows the log now or once it has handled what is on its way.
Knows(l, d) == l # <<>> \/ Has(d, "Membership")

\* After the first n answers its log is in epoch a or later.
Reaches(l, d, n, a) ==
    \/ l # <<>> /\ a <= Epoch(l)
    \/ \E j \in DOMAIN d : j <= n /\ d[j].type = "Membership" /\ a <= Epoch(d[j].ops)

\* It will be in the relay's epoch, or ask for the log again.  With one announcement on its
\* way it lacks one epoch.
TwoBumps(d) ==
    \E i, j \in DOMAIN d : i # j /\ d[i].type = "EpochBump" /\ d[j].type = "EpochBump"
Announced(e, l, u, d) ==
    Knows(l, d) =>
        \/ Has(u, "Membership")
        \/ Reaches(l, d, Len(d), e)
        \/ Has(d, "EpochBump") /\ Reaches(l, d, Len(d), e - 1)
        \/ TwoBumps(d)

\* The envelopes it is sent next will be for its log's epoch, for the one after, or not the last.
AsksAfter(u) ==
    \E i, j \in DOMAIN u : i < j /\ u[i].type = "Membership" /\ u[j].type = "Envelopes"
Close(e, l, u, d) ==
    Knows(l, d) => Reaches(l, d, Len(d), e - 1) \/ Has(d, "EpochBump") \/ AsksAfter(u)

\* Before it knows the log, one answer with envelopes comes at most.
Led(u) ==
    \A j \in DOMAIN u : u[j].type = "Envelopes" =>
        \E i \in DOMAIN u : i < j /\ u[i].type = "Membership"
OneFirst(u) ==
    \A i, j \in DOMAIN u : i < j /\ u[i].type = "Envelopes" /\ u[j].type = "Envelopes" =>
        \E k \in DOMAIN u : k < j /\ u[k].type = "Membership"
AtMostOne(d) ==
    \A i, j \in DOMAIN d : d[i].type = "Envelopes" /\ d[j].type = "Envelopes" => i = j
FirstAnswers(l, A, u, d) ==
    ~Knows(l, d) =>
        /\ AtMostOne(d)
        /\ Has(d, "Envelopes") => A = {}
        /\ A # {} \/ Has(d, "Envelopes") => Has(u, "Membership") /\ Led(u)
        /\ OneFirst(u)
        /\ Has(u, "Envelopes") => Has(u, "Membership")

\* Of the epochs it holds or has parked none is left out, and the parked are ahead of the log.
Downward(l, K, A) ==
    /\ \A a \in K \cup A : 0..a \subseteq K \cup A
    /\ l # <<>> => \A a \in A : a \in Epoch(l) + 1..Epoch(l) + MaxAhead

\* Answer i brings the key of epoch a, and the engine will take or park it.
Useful(l, A, d, i, a) ==
    /\ d[i].type = "Envelopes" /\ a \in EpochsOf(d[i].envelopes)
    /\ \/ Reaches(l, d, i, a - 1)
       \/ /\ l = <<>> /\ A = {}
          /\ \A j \in 1..i - 1 : d[j].type \notin Answers
Provided(e, l, K, A, u, d) ==
    Knows(l, d) \/ Has(u, "Membership") =>
        \A a \in 0..e :
            \/ a \in K \cup A
            \/ Has(d, "EpochBump") \/ Has(u, "Envelopes")
            \/ \E i \in DOMAIN d : Useful(l, A, d, i, a)

\* A frame waits for what is on its way.
Wants(c, l, K, f) ==
    \/ f.by # c /\ ~CanAuthorContent(l, f.by)
    \/ f.epoch \notin K
Asked(c, l, K, u, d, W, F) ==
    /\ "Membership" \in F => Has(u, "Membership") \/ Has(d, "Membership")
    /\ \A f \in W :
        /\ Wants(c, l, K, f)
        /\ f.by # c /\ ~CanAuthorContent(l, f.by) =>
            \/ Has(u, "Membership")
            \/ \E i \in DOMAIN d : d[i].type = "Membership" /\ CanAuthorContent(d[i].ops, f.by)

PathOf(c, e, l, K, A, u, d, edits, W, F) ==
    /\ NothingYet(l, K, d, edits, W)
    /\ InOrderOf(l, A, d)
    /\ Announced(e, l, u, d) /\ Close(e, l, u, d)
    /\ FirstAnswers(l, A, u, d)
    /\ Downward(l, K, A) /\ Provided(e, l, K, A, u, d)
    /\ Asked(c, l, K, u, d, W, F)
Path(c) ==
    PathOf(c, Epoch(relayLog), log[c], DOMAIN keys[c], EpochsOf(parked[c]), up[c], down[c],
           pending[c], waiting[c], fetching[c])

Sound == Ground /\ \A c \in Client : Lasting(c) => Path(c)
CurrentInv == Undisturbed => Sound

-----------------------------------------------------------------------------
(* Messages in sequences. *)

LEMMA TailElements ==
    ASSUME NEW S, NEW s \in Seq(S), s # <<>>
    PROVE  /\ Len(s) \in Nat /\ Len(s) >= 1 /\ DOMAIN s = 1..Len(s) /\ Head(s) = s[1]
           /\ Tail(s) \in Seq(S) /\ Len(Tail(s)) = Len(s) - 1 /\ DOMAIN Tail(s) = 1..Len(s) - 1
           /\ \A i \in 1..Len(s) - 1 : Tail(s)[i] = s[i + 1]
<1>1. Len(s) \in Nat /\ Len(s) >= 1 /\ DOMAIN s = 1..Len(s) /\ Head(s) = s[1]
  OBVIOUS
<1>2. Tail(s) \in Seq(S) /\ Len(Tail(s)) = Len(s) - 1 /\ DOMAIN Tail(s) = 1..Len(s) - 1
  BY <1>1
<1>3. \A i \in 1..Len(s) - 1 : Tail(s)[i] = s[i + 1]
  BY <1>1
<1>. QED  BY <1>1, <1>2, <1>3

LEMMA BothElements ==
    ASSUME NEW S, NEW s \in Seq(S), NEW t \in Seq(S)
    PROVE  /\ s \o t \in Seq(S) /\ Len(s) \in Nat /\ Len(t) \in Nat
           /\ DOMAIN s = 1..Len(s) /\ DOMAIN t = 1..Len(t)
           /\ DOMAIN (s \o t) = 1..Len(s) + Len(t) /\ Len(s \o t) = Len(s) + Len(t)
           /\ \A i \in 1..Len(s) : (s \o t)[i] = s[i]
           /\ \A i \in 1..Len(t) : (s \o t)[Len(s) + i] = t[i]
           /\ \A i \in 1..Len(s) + Len(t) : i \notin 1..Len(s) => i - Len(s) \in 1..Len(t)
<1>1. /\ s \o t \in Seq(S) /\ Len(s \o t) = Len(s) + Len(t)
      /\ \A i \in 1..Len(s) + Len(t) : (s \o t)[i] = IF i <= Len(s) THEN s[i] ELSE t[i - Len(s)]
  BY ConcatIs
<1>2. Len(s) \in Nat /\ Len(t) \in Nat /\ DOMAIN s = 1..Len(s) /\ DOMAIN t = 1..Len(t)
  OBVIOUS
<1>3. DOMAIN (s \o t) = 1..Len(s) + Len(t)
  <2>. DEFINE b == s \o t
  <2>1. b \in Seq(S) /\ Len(b) = Len(s) + Len(t)
    BY <1>1
  <2>. HIDE DEF b
  <2>2. DOMAIN b = 1..Len(s) + Len(t)
    BY <2>1
  <2>. QED  BY <2>2 DEF b
<1>4. ASSUME NEW i \in 1..Len(s)
      PROVE  (s \o t)[i] = s[i]
  <2>1. i \in 1..Len(s) + Len(t) /\ i <= Len(s)
    BY <1>2, <1>4
  <2>. QED  BY <1>1, <2>1
<1>5. ASSUME NEW i \in 1..Len(t)
      PROVE  (s \o t)[Len(s) + i] = t[i]
  <2>1. Len(s) + i \in 1..Len(s) + Len(t) /\ ~(Len(s) + i <= Len(s)) /\ (Len(s) + i) - Len(s) = i
    BY <1>2, <1>5
  <2>2. (s \o t)[Len(s) + i] = t[(Len(s) + i) - Len(s)]
    BY <1>1, <2>1
  <2>. QED  BY <2>1, <2>2
<1>6. \A i \in 1..Len(s) + Len(t) : i \notin 1..Len(s) => i - Len(s) \in 1..Len(t)
  BY <1>2
<1>. QED  BY <1>1, <1>2, <1>3, <1>4, <1>5, <1>6

LEMMA AppendElements ==
    ASSUME NEW S, NEW s \in Seq(S), NEW x \in S
    PROVE  /\ Append(s, x) \in Seq(S) /\ Len(s) \in Nat /\ DOMAIN s = 1..Len(s)
           /\ Len(Append(s, x)) = Len(s) + 1 /\ DOMAIN Append(s, x) = 1..Len(s) + 1
           /\ Append(s, x)[Len(s) + 1] = x
           /\ \A i \in 1..Len(s) : Append(s, x)[i] = s[i]
           /\ \A i \in 1..Len(s) + 1 : i \in 1..Len(s) \/ i = Len(s) + 1
BY AppendIs

LEMMA HasAppended ==
    ASSUME NEW S, NEW s \in Seq(S), NEW x \in S, NEW type
    PROVE  Has(Append(s, x), type) <=> Has(s, type) \/ x.type = type
<1>. DEFINE b == Append(s, x)
<1>1. /\ Len(s) \in Nat /\ DOMAIN s = 1..Len(s) /\ DOMAIN b = 1..Len(s) + 1
      /\ b[Len(s) + 1] = x /\ \A i \in 1..Len(s) : b[i] = s[i]
      /\ \A i \in 1..Len(s) + 1 : i \in 1..Len(s) \/ i = Len(s) + 1
  BY AppendElements
<1>. HIDE DEF b
<1>2. 1..Len(s) \in SUBSET (1..Len(s) + 1) /\ Len(s) + 1 \in 1..Len(s) + 1
  BY <1>1
<1>3. Has(b, type) <=> \E i \in 1..Len(s) + 1 : b[i].type = type
  BY <1>1 DEF Has
<1>4. Has(s, type) <=> \E i \in 1..Len(s) : s[i].type = type
  BY <1>1 DEF Has
<1>5. Has(b, type) <=> Has(s, type) \/ x.type = type
  BY <1>1, <1>2, <1>3, <1>4
<1>. QED  BY <1>5 DEF b

LEMMA HasTail ==
    ASSUME NEW S, NEW s \in Seq(S), s # <<>>, NEW type
    PROVE  Has(s, type) <=> Has(Tail(s), type) \/ Head(s).type = type
<1>. DEFINE t == Tail(s)
<1>1. /\ Len(s) \in Nat /\ Len(s) >= 1 /\ DOMAIN s = 1..Len(s) /\ Head(s) = s[1]
      /\ DOMAIN t = 1..Len(s) - 1 /\ \A i \in 1..Len(s) - 1 : t[i] = s[i + 1]
  BY TailElements
<1>. HIDE DEF t
<1>2. ASSUME NEW i \in 1..Len(s)
      PROVE  i = 1 \/ (i - 1 \in 1..Len(s) - 1 /\ t[i - 1] = s[i])
  <2>1. i = 1 \/ (i - 1 \in 1..Len(s) - 1 /\ (i - 1) + 1 = i)
    BY <1>1, <1>2
  <2>. QED  BY <1>1, <2>1
<1>3. \A i \in 1..Len(s) - 1 : i + 1 \in 1..Len(s)
  BY <1>1
<1>4. Has(t, type) <=> \E i \in 1..Len(s) - 1 : t[i].type = type
  BY <1>1 DEF Has
<1>5. Has(s, type) <=> \E i \in 1..Len(s) : s[i].type = type
  BY <1>1 DEF Has
<1>6. Has(s, type) <=> Has(t, type) \/ Head(s).type = type
  BY <1>1, <1>2, <1>3, <1>4, <1>5
<1>. QED  BY <1>6 DEF t

LEMMA HasBoth ==
    ASSUME NEW S, NEW s \in Seq(S), NEW t \in Seq(S), NEW type
    PROVE  Has(s \o t, type) <=> Has(s, type) \/ Has(t, type)
<1>. DEFINE b == s \o t
<1>1. /\ Len(s) \in Nat /\ Len(t) \in Nat /\ DOMAIN s = 1..Len(s) /\ DOMAIN t = 1..Len(t)
      /\ DOMAIN b = 1..Len(s) + Len(t)
      /\ \A i \in 1..Len(s) : b[i] = s[i]
      /\ \A i \in 1..Len(t) : b[Len(s) + i] = t[i]
      /\ \A i \in 1..Len(s) + Len(t) : i \notin 1..Len(s) => i - Len(s) \in 1..Len(t)
  BY BothElements
<1>. HIDE DEF b
<1>2. ASSUME NEW i \in 1..Len(s) + Len(t)
      PROVE  (i \in 1..Len(s) /\ b[i] = s[i]) \/ (i - Len(s) \in 1..Len(t) /\ b[i] = t[i - Len(s)])
  <2>1. Len(s) + (i - Len(s)) = i
    BY <1>1, <1>2
  <2>. QED  BY <1>1, <1>2, <2>1
<1>3. /\ \A i \in 1..Len(s) : i \in 1..Len(s) + Len(t)
      /\ \A i \in 1..Len(t) : Len(s) + i \in 1..Len(s) + Len(t)
  BY <1>1
<1>4. Has(t, type) <=> \E i \in 1..Len(t) : t[i].type = type
  BY <1>1 DEF Has
<1>5. Has(s, type) <=> \E i \in 1..Len(s) : s[i].type = type
  BY <1>1 DEF Has
<1>6. Has(b, type) <=> \E i \in 1..Len(s) + Len(t) : b[i].type = type
  BY <1>1 DEF Has
<1>7. Has(b, type) <=> Has(s, type) \/ Has(t, type)
  <2>1. Has(b, type) => Has(s, type) \/ Has(t, type)
    BY <1>2, <1>4, <1>5, <1>6
  <2>2. Has(s, type) => Has(b, type)
    BY <1>1, <1>3, <1>5, <1>6
  <2>3. Has(t, type) => Has(b, type)
    BY <1>1, <1>3, <1>4, <1>6
  <2>. QED  BY <2>1, <2>2, <2>3
<1>. QED  BY <1>7 DEF b

LEMMA EpochIsNat ==
    ASSUME NEW l \in Seq(Op)
    PROVE  Epoch(l) \in Nat /\ Epoch(<<>>) = 0
<1>1. Len(l) \in Nat /\ Len(l) \in 0..Len(l)
  OBVIOUS
<1>2. EpochAt(l, Len(l)) \in Nat
  BY <1>1, Removals
<1>3. <<>> \in Seq(Op) /\ Len(<<>>) = 0 /\ 0 \in 0..Len(<<>>)
  OBVIOUS
<1>4. EpochAt(<<>>, 0) = 0
  BY <1>3, Removals
<1>. QED  BY <1>2, <1>3, <1>4, EpochOfLog

\* A longer log of the same history is in the same epoch or in a later one.
LEMMA EpochsCompare ==
    ASSUME NEW l \in Seq(Op), NEW t \in Seq(Op), Extends(t, l)
    PROVE  Epoch(l) <= Epoch(t)
<1>1. Len(l) \in Nat /\ Len(t) \in Nat /\ Len(l) <= Len(t)
  BY DEF Extends
<1>2. Len(l) \in 0..Len(t) /\ Len(t) \in 0..Len(t) /\ Len(l) \in 0..Len(l)
  BY <1>1
<1>3. EpochAt(t, Len(l)) <= EpochAt(t, Len(t))
  BY <1>2, EpochGrows
<1>4. EpochAt(l, Len(l)) = EpochAt(t, Len(l))
  BY <1>2, EpochOfPrefix
<1>. QED  BY <1>3, <1>4, EpochOfLog

LEMMA AuthorsStay ==
    ASSUME NEW l \in Seq(Op), NEW t \in Seq(Op), Extends(t, l), NEW m, CanAuthorContent(l, m)
    PROVE  CanAuthorContent(t, m)
<1>1. PICK i \in DOMAIN l : l[i].who = m /\ l[i].role \in Writing
  BY DEF CanAuthorContent
<1>2. i \in 1..Len(l) /\ Len(l) <= Len(t) /\ t[i] = l[i] /\ i \in DOMAIN t
  BY <1>1 DEF Extends
<1>. QED  BY <1>1, <1>2 DEF CanAuthorContent

-----------------------------------------------------------------------------
(* Requests: what is taken from the front and what is added at the end. *)

LEMMA RequestsTaken ==
    ASSUME NEW u \in Seq(UpMessages), u # <<>>
    PROVE  /\ OneFirst(u) /\ Head(u).type # "Membership" => OneFirst(Tail(u))
           /\ Led(u) /\ Head(u).type # "Membership" => Led(Tail(u))
           /\ AsksAfter(u) /\ Head(u).type # "Membership" => AsksAfter(Tail(u))
           /\ OneFirst(u) /\ Head(u).type = "Envelopes" => Led(Tail(u))
           /\ Led(u) => Head(u).type # "Envelopes"
           /\ AsksAfter(u) => Has(Tail(u), "Envelopes")
<1>. DEFINE t == Tail(u)
<1>1. /\ Len(u) \in Nat /\ Len(u) >= 1 /\ DOMAIN u = 1..Len(u) /\ Head(u) = u[1]
      /\ DOMAIN t = 1..Len(u) - 1 /\ \A i \in 1..Len(u) - 1 : t[i] = u[i + 1]
  BY TailElements
<1>. HIDE DEF t
<1>2. ASSUME NEW i \in DOMAIN t
      PROVE  i + 1 \in DOMAIN u /\ t[i] = u[i + 1] /\ i \in Nat /\ i + 1 > 1
  BY <1>1, <1>2
<1>3. ASSUME NEW i \in DOMAIN u, i # 1
      PROVE  i - 1 \in DOMAIN t /\ t[i - 1] = u[i] /\ i \in Nat /\ (i - 1) + 1 = i
  <2>1. i - 1 \in 1..Len(u) - 1 /\ (i - 1) + 1 = i /\ i \in Nat
    BY <1>1, <1>3
  <2>. QED  BY <1>1, <2>1
<1>4. 1 \in DOMAIN u /\ Head(u) = u[1] /\ \A i \in DOMAIN u : i \in Nat /\ i >= 1
  BY <1>1
<1>5. ASSUME OneFirst(u), Head(u).type # "Membership"
      PROVE  OneFirst(t)
  <2>1. SUFFICES ASSUME NEW i \in DOMAIN t, NEW j \in DOMAIN t, i < j,
                        t[i].type = "Envelopes", t[j].type = "Envelopes"
                 PROVE  \E k \in DOMAIN t : k < j /\ t[k].type = "Membership"
    BY DEF OneFirst
  <2>2. i + 1 < j + 1 /\ u[i + 1].type = "Envelopes" /\ u[j + 1].type = "Envelopes"
    BY <1>2, <2>1
  <2>3. PICK k \in DOMAIN u : k < j + 1 /\ u[k].type = "Membership"
    BY <1>2, <1>5, <2>2 DEF OneFirst
  <2>4. k # 1
    BY <1>4, <1>5, <2>3
  <2>5. k - 1 < j
    BY <1>2, <1>4, <2>3
  <2>. QED  BY <1>3, <2>3, <2>4, <2>5
<1>6. ASSUME Led(u), Head(u).type # "Membership"
      PROVE  Led(t)
  <2>1. SUFFICES ASSUME NEW j \in DOMAIN t, t[j].type = "Envelopes"
                 PROVE  \E i \in DOMAIN t : i < j /\ t[i].type = "Membership"
    BY DEF Led
  <2>2. u[j + 1].type = "Envelopes" /\ j + 1 \in DOMAIN u
    BY <1>2, <2>1
  <2>3. PICK i \in DOMAIN u : i < j + 1 /\ u[i].type = "Membership"
    BY <1>6, <2>2 DEF Led
  <2>4. i # 1
    BY <1>4, <1>6, <2>3
  <2>5. i - 1 < j
    BY <1>2, <1>4, <2>3
  <2>. QED  BY <1>3, <2>3, <2>4, <2>5
<1>7. ASSUME AsksAfter(u)
      PROVE  Has(t, "Envelopes") /\ (Head(u).type # "Membership" => AsksAfter(t))
  <2>1. PICK i \in DOMAIN u, j \in DOMAIN u : i < j /\ u[i].type = "Membership" /\ u[j].type = "Envelopes"
    BY <1>7 DEF AsksAfter
  <2>2. j # 1
    BY <1>4, <2>1
  <2>3. j - 1 \in DOMAIN t /\ t[j - 1].type = "Envelopes"
    BY <1>3, <2>1, <2>2
  <2>4. ASSUME Head(u).type # "Membership"
        PROVE  AsksAfter(t)
    <3>1. i # 1
      BY <1>4, <2>1, <2>4
    <3>2. i - 1 \in DOMAIN t /\ t[i - 1].type = "Membership" /\ i - 1 < j - 1
      BY <1>3, <1>4, <2>1, <3>1
    <3>. QED  BY <2>3, <3>2 DEF AsksAfter
  <2>. QED  BY <2>3, <2>4 DEF Has
<1>8. ASSUME OneFirst(u), Head(u).type = "Envelopes"
      PROVE  Led(t)
  <2>1. SUFFICES ASSUME NEW j \in DOMAIN t, t[j].type = "Envelopes"
                 PROVE  \E i \in DOMAIN t : i < j /\ t[i].type = "Membership"
    BY DEF Led
  <2>2. u[j + 1].type = "Envelopes" /\ j + 1 \in DOMAIN u /\ 1 < j + 1 /\ u[1].type = "Envelopes"
    BY <1>2, <1>4, <1>8, <2>1
  <2>3. PICK k \in DOMAIN u : k < j + 1 /\ u[k].type = "Membership"
    BY <1>4, <1>8, <2>2 DEF OneFirst
  <2>4. k # 1
    BY <2>2, <2>3
  <2>5. k - 1 < j
    BY <1>2, <1>4, <2>3
  <2>. QED  BY <1>3, <2>3, <2>4, <2>5
<1>9. ASSUME Led(u)
      PROVE  Head(u).type # "Envelopes"
  <2>1. SUFFICES ASSUME Head(u).type = "Envelopes" PROVE FALSE
    OBVIOUS
  <2>2. PICK i \in DOMAIN u : i < 1 /\ u[i].type = "Membership"
    BY <1>4, <1>9, <2>1 DEF Led
  <2>. QED  BY <1>4, <2>2
<1>. QED  BY <1>5, <1>6, <1>7, <1>8, <1>9 DEF t

LEMMA RequestsAdded ==
    ASSUME NEW u \in Seq(UpMessages), NEW q \in Seq(UpMessages)
    PROVE  /\ AsksAfter(u) => AsksAfter(u \o q)
           /\ Has(u, "Membership") /\ Has(q, "Envelopes") => AsksAfter(u \o q)
           /\ Has(u, "Membership") /\ Led(u) => Led(u \o q)
           /\ OneFirst(u) /\ OneFirst(q) /\ (Has(u, "Envelopes") => Has(u, "Membership"))
                => OneFirst(u \o q)
<1>. DEFINE b == u \o q
<1>. DEFINE n == Len(u)
<1>1. /\ n \in Nat /\ Len(q) \in Nat /\ DOMAIN u = 1..n /\ DOMAIN q = 1..Len(q)
      /\ DOMAIN b = 1..n + Len(q)
      /\ \A i \in 1..n : b[i] = u[i]
      /\ \A i \in 1..Len(q) : b[n + i] = q[i]
      /\ \A i \in 1..n + Len(q) : i \notin 1..n => i - n \in 1..Len(q)
  BY BothElements
<1>. HIDE DEF b, n
<1>2. ASSUME NEW i \in DOMAIN u
      PROVE  i \in DOMAIN b /\ b[i] = u[i] /\ i \in Nat /\ i <= n
  BY <1>1, <1>2
<1>3. ASSUME NEW i \in DOMAIN q
      PROVE  n + i \in DOMAIN b /\ b[n + i] = q[i] /\ i \in Nat /\ n + i > n
  BY <1>1, <1>3
<1>4. ASSUME NEW i \in DOMAIN b, i \notin DOMAIN u
      PROVE  i - n \in DOMAIN q /\ b[i] = q[i - n] /\ i \in Nat /\ i > n
  <2>1. i - n \in 1..Len(q) /\ n + (i - n) = i /\ i \in Nat /\ i > n
    BY <1>1, <1>4
  <2>. QED  BY <1>1, <2>1
<1>5. AsksAfter(u) => AsksAfter(b)
  BY <1>2 DEF AsksAfter
<1>6. ASSUME Has(u, "Membership"), Has(q, "Envelopes")
      PROVE  AsksAfter(b)
  <2>1. PICK i \in DOMAIN u : u[i].type = "Membership"
    BY <1>6 DEF Has
  <2>2. PICK j \in DOMAIN q : q[j].type = "Envelopes"
    BY <1>6 DEF Has
  <2>3. i < n + j
    BY <1>1, <1>2, <1>3
  <2>. QED  BY <1>2, <1>3, <2>1, <2>2, <2>3 DEF AsksAfter
<1>7. ASSUME Has(u, "Membership"), Led(u)
      PROVE  Led(b)
  <2>1. PICK m \in DOMAIN u : u[m].type = "Membership"
    BY <1>7 DEF Has
  <2>2. SUFFICES ASSUME NEW j \in DOMAIN b, b[j].type = "Envelopes"
                 PROVE  \E i \in DOMAIN b : i < j /\ b[i].type = "Membership"
    BY DEF Led
  <2>3. CASE j \in DOMAIN u
    <3>1. PICK i \in DOMAIN u : i < j /\ u[i].type = "Membership"
      BY <1>2, <1>7, <2>2, <2>3 DEF Led
    <3>. QED  BY <1>2, <3>1
  <2>4. CASE j \notin DOMAIN u
    <3>1. m < j
      BY <1>1, <1>2, <1>4, <2>4
    <3>. QED  BY <1>2, <2>1, <3>1
  <2>. QED  BY <2>3, <2>4
<1>8. ASSUME OneFirst(u), OneFirst(q), Has(u, "Envelopes") => Has(u, "Membership")
      PROVE  OneFirst(b)
  <2>1. SUFFICES ASSUME NEW i \in DOMAIN b, NEW j \in DOMAIN b, i < j,
                        b[i].type = "Envelopes", b[j].type = "Envelopes"
                 PROVE  \E k \in DOMAIN b : k < j /\ b[k].type = "Membership"
    BY DEF OneFirst
  <2>2. CASE j \in DOMAIN u
    <3>1. i \in DOMAIN u
      BY <1>1, <2>1, <2>2
    <3>2. PICK k \in DOMAIN u : k < j /\ u[k].type = "Membership"
      BY <1>2, <1>8, <2>1, <2>2, <3>1 DEF OneFirst
    <3>. QED  BY <1>2, <3>2
  <2>3. CASE i \in DOMAIN u /\ j \notin DOMAIN u
    <3>1. Has(u, "Envelopes")
      BY <1>2, <2>1, <2>3 DEF Has
    <3>2. PICK k \in DOMAIN u : u[k].type = "Membership"
      BY <1>8, <3>1 DEF Has
    <3>3. k < j
      BY <1>1, <1>2, <1>4, <2>3
    <3>. QED  BY <1>2, <3>2, <3>3
  <2>4. CASE i \notin DOMAIN u /\ j \notin DOMAIN u
    <3>1. /\ i - n \in DOMAIN q /\ j - n \in DOMAIN q /\ i - n < j - n
          /\ q[i - n].type = "Envelopes" /\ q[j - n].type = "Envelopes"
      BY <1>1, <1>4, <2>1, <2>4
    <3>2. PICK k \in DOMAIN q : k < j - n /\ q[k].type = "Membership"
      BY <1>8, <3>1 DEF OneFirst
    <3>3. n + k < j
      BY <1>1, <1>3, <1>4, <2>4, <3>2
    <3>. QED  BY <1>3, <3>2, <3>3
  <2>. QED  BY <2>2, <2>3, <2>4
<1>. QED  BY <1>5, <1>6, <1>7, <1>8 DEF b

-----------------------------------------------------------------------------
(* Answers: one more at the end, one less at the front. *)

LEMMA ReachesLower ==
    ASSUME NEW l \in Seq(Op), NEW d \in Seq(DownMessages), NEW n \in Nat, NEW m \in Nat,
           NEW a \in Int, NEW b \in Int, b <= a, n <= m, Reaches(l, d, n, a)
    PROVE  Reaches(l, d, m, b)
<1>1. Epoch(l) \in Nat
  BY EpochIsNat
<1>2. CASE l # <<>> /\ a <= Epoch(l)
  BY <1>1, <1>2 DEF Reaches
<1>3. ASSUME NEW j \in DOMAIN d, j <= n, d[j].type = "Membership", a <= Epoch(d[j].ops)
      PROVE  Reaches(l, d, m, b)
  <2>1. j \in Nat /\ d[j] \in DownMessages
    BY <1>3
  <2>2. d[j].ops \in Seq(Op)
    BY <1>3, <2>1, DownMessageIs
  <2>3. Epoch(d[j].ops) \in Nat
    BY <2>2, EpochIsNat
  <2>4. j <= m /\ b <= Epoch(d[j].ops)
    BY <1>3, <2>1, <2>3
  <2>. QED  BY <1>3, <2>4 DEF Reaches
<1>. QED  BY <1>2, <1>3 DEF Reaches

LEMMA AnswerAdded ==
    ASSUME NEW l \in Seq(Op), NEW A, NEW d \in Seq(DownMessages), NEW x \in DownMessages
    PROVE  LET b == Append(d, x)
           IN  /\ Len(d) \in Nat /\ Len(b) = Len(d) + 1
               /\ \A n \in Nat, a \in Int : Reaches(l, d, n, a) => Reaches(l, b, n, a)
               /\ \A a \in Int : Reaches(l, d, Len(d), a) => Reaches(l, b, Len(b), a)
               /\ \A i \in DOMAIN d : \A a \in Nat : Useful(l, A, d, i, a) => Useful(l, A, b, i, a)
               /\ \A i \in DOMAIN d : i \in DOMAIN b /\ b[i] = d[i]
               /\ TwoBumps(d) => TwoBumps(b)
               /\ Has(d, "EpochBump") /\ x.type = "EpochBump" => TwoBumps(b)
               /\ Knows(l, d) => Knows(l, b)
               /\ AtMostOne(d) /\ ~(Has(d, "Envelopes") /\ x.type = "Envelopes") => AtMostOne(b)
<1>. DEFINE b == Append(d, x)
<1>1. /\ b \in Seq(DownMessages) /\ Len(d) \in Nat /\ DOMAIN d = 1..Len(d)
      /\ Len(b) = Len(d) + 1 /\ DOMAIN b = 1..Len(d) + 1
      /\ b[Len(d) + 1] = x /\ \A i \in 1..Len(d) : b[i] = d[i]
      /\ \A i \in 1..Len(d) + 1 : i \in 1..Len(d) \/ i = Len(d) + 1
  BY AppendElements
<1>2. \A type : Has(b, type) <=> Has(d, type) \/ x.type = type
  BY HasAppended
<1>. HIDE DEF b
<1>3. ASSUME NEW i \in DOMAIN d
      PROVE  i \in DOMAIN b /\ b[i] = d[i] /\ i \in Nat /\ i <= Len(d) /\ i # Len(d) + 1
  BY <1>1, <1>3
<1>4. Len(d) + 1 \in DOMAIN b /\ b[Len(d) + 1] = x
  BY <1>1
<1>5. ASSUME NEW n \in Nat, NEW a \in Int, Reaches(l, d, n, a)
      PROVE  Reaches(l, b, n, a)
  BY <1>3, <1>5 DEF Reaches
<1>6. ASSUME NEW a \in Int, Reaches(l, d, Len(d), a)
      PROVE  Reaches(l, b, Len(b), a)
  <2>1. Reaches(l, b, Len(d), a)
    BY <1>1, <1>5, <1>6
  <2>2. Len(d) <= Len(b) /\ Len(b) \in Nat /\ a <= a
    BY <1>1
  <2>. QED  BY <1>1, <2>1, <2>2, ReachesLower
<1>7. ASSUME NEW i \in DOMAIN d, NEW a \in Nat, Useful(l, A, d, i, a)
      PROVE  Useful(l, A, b, i, a)
  <2>1. b[i] = d[i] /\ i \in Nat /\ a - 1 \in Int
    BY <1>3
  <2>2. CASE Reaches(l, d, i, a - 1)
    <3>1. Reaches(l, b, i, a - 1)
      BY <1>5, <2>1, <2>2
    <3>. QED  BY <1>7, <2>1, <3>1 DEF Useful
  <2>3. CASE l = <<>> /\ A = {} /\ \A j \in 1..i - 1 : d[j].type \notin Answers
    <3>1. \A j \in 1..i - 1 : j \in 1..Len(d)
      BY <1>1, <1>3
    <3>2. \A j \in 1..i - 1 : b[j].type \notin Answers
      BY <1>1, <2>3, <3>1
    <3>. QED  BY <1>7, <2>1, <2>3, <3>2 DEF Useful
  <2>. QED  BY <1>7, <2>2, <2>3 DEF Useful
<1>8. TwoBumps(d) => TwoBumps(b)
  BY <1>3 DEF TwoBumps
<1>9. ASSUME Has(d, "EpochBump"), x.type = "EpochBump"
      PROVE  TwoBumps(b)
  <2>1. PICK i \in DOMAIN d : d[i].type = "EpochBump"
    BY <1>9 DEF Has
  <2>. QED  BY <1>3, <1>4, <1>9, <2>1 DEF TwoBumps
<1>10. Knows(l, d) => Knows(l, b)
  BY <1>2 DEF Knows
<1>11. ASSUME AtMostOne(d), ~(Has(d, "Envelopes") /\ x.type = "Envelopes")
       PROVE  AtMostOne(b)
  <2>1. \A i \in DOMAIN b : i \in DOMAIN d \/ (i = Len(d) + 1 /\ b[i] = x)
    BY <1>1
  <2>2. \A i \in DOMAIN d : d[i].type = "Envelopes" => Has(d, "Envelopes")
    BY DEF Has
  <2>. QED  BY <1>3, <1>11, <2>1, <2>2 DEF AtMostOne
<1>. QED  BY <1>1, <1>3, <1>5, <1>6, <1>7, <1>8, <1>9, <1>10, <1>11 DEF b

\* When the head is not the log, nothing else is learnt of it.
LEMMA AnswerTaken ==
    ASSUME NEW l \in Seq(Op), NEW A, NEW d \in Seq(DownMessages), d # <<>>
    PROVE  LET t == Tail(d)
           IN  /\ Len(d) \in Nat /\ Len(t) = Len(d) - 1 /\ Head(d) = d[1] /\ 1 \in DOMAIN d
               /\ \A i \in DOMAIN d : i # 1 => i - 1 \in DOMAIN t /\ t[i - 1] = d[i]
               /\ \A i \in DOMAIN t : i \in Nat /\ i >= 1 /\ i + 1 \in DOMAIN d /\ t[i] = d[i + 1]
               /\ Head(d).type # "Membership" =>
                    /\ \A n \in Nat \ {0}, a \in Int : Reaches(l, d, n, a) => Reaches(l, t, n - 1, a)
                    /\ \A a \in Int : Reaches(l, d, Len(d), a) => Reaches(l, t, Len(t), a)
                    /\ Knows(l, d) <=> Knows(l, t)
                    /\ \A i \in DOMAIN d : \A a \in Nat :
                        Useful(l, A, d, i, a) /\ i # 1 => Useful(l, A, t, i - 1, a)
               /\ TwoBumps(d) => Has(t, "EpochBump")
               /\ TwoBumps(d) /\ Head(d).type # "EpochBump" => TwoBumps(t)
               /\ AtMostOne(d) => AtMostOne(t)
               /\ AtMostOne(d) /\ Head(d).type = "Envelopes" => ~Has(t, "Envelopes")
<1>. DEFINE t == Tail(d)
<1>1. /\ Len(d) \in Nat /\ Len(d) >= 1 /\ DOMAIN d = 1..Len(d) /\ Head(d) = d[1]
      /\ t \in Seq(DownMessages) /\ Len(t) = Len(d) - 1 /\ DOMAIN t = 1..Len(d) - 1
      /\ \A i \in 1..Len(d) - 1 : t[i] = d[i + 1]
  BY TailElements
<1>2. \A type : Has(d, type) <=> Has(t, type) \/ Head(d).type = type
  BY HasTail
<1>. HIDE DEF t
<1>3. ASSUME NEW i \in DOMAIN d, i # 1
      PROVE  i - 1 \in DOMAIN t /\ t[i - 1] = d[i] /\ i \in Nat /\ i > 1
  <2>1. i - 1 \in 1..Len(d) - 1 /\ (i - 1) + 1 = i /\ i \in Nat /\ i > 1
    BY <1>1, <1>3
  <2>. QED  BY <1>1, <2>1
<1>4. ASSUME NEW i \in DOMAIN t
      PROVE  i \in Nat /\ i >= 1 /\ i + 1 \in DOMAIN d /\ t[i] = d[i + 1]
  BY <1>1, <1>4
<1>5. ASSUME Head(d).type # "Membership", NEW n \in Nat \ {0}, NEW a \in Int, Reaches(l, d, n, a)
      PROVE  Reaches(l, t, n - 1, a)
  <2>1. CASE l # <<>> /\ a <= Epoch(l)
    BY <2>1 DEF Reaches
  <2>2. ASSUME NEW j \in DOMAIN d, j <= n, d[j].type = "Membership", a <= Epoch(d[j].ops)
        PROVE  Reaches(l, t, n - 1, a)
    <3>1. j # 1
      BY <1>1, <1>5, <2>2
    <3>2. j - 1 <= n - 1
      BY <1>3, <2>2, <3>1
    <3>. QED  BY <1>3, <2>2, <3>1, <3>2 DEF Reaches
  <2>. QED  BY <1>5, <2>1, <2>2 DEF Reaches
<1>6. ASSUME Head(d).type # "Membership", NEW a \in Int, Reaches(l, d, Len(d), a)
      PROVE  Reaches(l, t, Len(t), a)
  BY <1>1, <1>5, <1>6
<1>7. Head(d).type # "Membership" => (Knows(l, d) <=> Knows(l, t))
  BY <1>2 DEF Knows
<1>8. ASSUME Head(d).type # "Membership", NEW i \in DOMAIN d, NEW a \in Nat,
             Useful(l, A, d, i, a), i # 1
      PROVE  Useful(l, A, t, i - 1, a)
  <2>1. t[i - 1] = d[i] /\ i \in Nat \ {0} /\ i - 1 \in Nat /\ a - 1 \in Int
    BY <1>3, <1>8
  <2>2. CASE Reaches(l, d, i, a - 1)
    <3>1. Reaches(l, t, i - 1, a - 1)
      BY <1>5, <1>8, <2>1, <2>2
    <3>. QED  BY <1>8, <2>1, <3>1 DEF Useful
  <2>3. CASE l = <<>> /\ A = {} /\ \A j \in 1..i - 1 : d[j].type \notin Answers
    <3>1. \A j \in 1..(i - 1) - 1 : j \in 1..Len(d) - 1 /\ j + 1 \in 1..i - 1
      BY <1>1, <1>8, <2>1
    <3>2. \A j \in 1..(i - 1) - 1 : t[j].type \notin Answers
      BY <1>1, <2>3, <3>1
    <3>. QED  BY <1>8, <2>1, <2>3, <3>2 DEF Useful
  <2>. QED  BY <1>8, <2>2, <2>3 DEF Useful
<1>9. ASSUME TwoBumps(d)
      PROVE  Has(t, "EpochBump") /\ (Head(d).type # "EpochBump" => TwoBumps(t))
  <2>1. PICK i \in DOMAIN d, j \in DOMAIN d :
            i # j /\ d[i].type = "EpochBump" /\ d[j].type = "EpochBump"
    BY <1>9 DEF TwoBumps
  <2>2. i # 1 \/ j # 1
    BY <2>1
  <2>3. Has(t, "EpochBump")
    BY <1>3, <2>1, <2>2 DEF Has
  <2>4. ASSUME Head(d).type # "EpochBump"
        PROVE  TwoBumps(t)
    <3>1. i # 1 /\ j # 1
      BY <1>1, <2>1, <2>4
    <3>2. i - 1 # j - 1
      BY <1>3, <2>1, <3>1
    <3>. QED  BY <1>3, <2>1, <3>1, <3>2 DEF TwoBumps
  <2>. QED  BY <2>3, <2>4
<1>10. ASSUME AtMostOne(d)
       PROVE  AtMostOne(t) /\ (Head(d).type = "Envelopes" => ~Has(t, "Envelopes"))
  <2>1. \A i, j \in DOMAIN t : i + 1 = j + 1 => i = j
    BY <1>4
  <2>2. \A i \in DOMAIN t : i + 1 # 1 /\ 1 \in DOMAIN d
    BY <1>1, <1>4
  <2>. QED  BY <1>1, <1>4, <1>10, <2>1, <2>2 DEF AtMostOne, Has
<1>. QED  BY <1>1, <1>3, <1>4, <1>5, <1>6, <1>7, <1>8, <1>9, <1>10 DEF t

LEMMA OrderTaken ==
    ASSUME NEW l \in Seq(Op), NEW A, NEW d \in Seq(DownMessages), d # <<>>, InOrderOf(l, A, d)
    PROVE  InOrderOf(l, A, Tail(d))
<1>. DEFINE t == Tail(d)
<1>1. \A i \in DOMAIN t : i \in Nat /\ i >= 1 /\ i + 1 \in DOMAIN d /\ t[i] = d[i + 1]
  BY AnswerTaken
<1>2. DOMAIN t = 1..Len(d) - 1 /\ Len(d) \in Nat
  BY TailElements
<1>. HIDE DEF t
<1>3. SUFFICES ASSUME NEW i \in DOMAIN t, t[i].type = "Membership"
               PROVE  /\ t[i].ops # <<>> /\ Len(l) <= Len(t[i].ops)
                      /\ \A a \in A : a <= Epoch(t[i].ops)
                      /\ \A j \in 1..i - 1 :
                          /\ t[j].type = "Membership" => Len(t[j].ops) <= Len(t[i].ops)
                          /\ t[j].type = "Envelopes" =>
                                \A a \in EpochsOf(t[j].envelopes) : a <= Epoch(t[i].ops)
                          /\ t[j].type = "Frame" => CanAuthorContent(t[i].ops, t[j].frame.by)
  BY DEF InOrderOf, t
<1>4. d[i + 1].type = "Membership" /\ t[i] = d[i + 1] /\ i + 1 \in DOMAIN d
  BY <1>1, <1>3
<1>5. ASSUME NEW j \in 1..i - 1
      PROVE  j \in DOMAIN t /\ j + 1 \in 1..(i + 1) - 1 /\ t[j] = d[j + 1]
  <2>1. i \in 1..Len(d) - 1
    BY <1>2
  <2>2. j \in 1..Len(d) - 1 /\ j + 1 \in 1..(i + 1) - 1
    BY <1>2, <2>1
  <2>. QED  BY <1>1, <1>2, <2>2
<1>. QED  BY <1>4, <1>5 DEF InOrderOf

\* Anything but a log may be added.
LEMMA OrderAdded ==
    ASSUME NEW l \in Seq(Op), NEW A, NEW d \in Seq(DownMessages), NEW x \in DownMessages,
           x.type # "Membership", InOrderOf(l, A, d)
    PROVE  InOrderOf(l, A, Append(d, x))
<1>. DEFINE b == Append(d, x)
<1>1. /\ Len(d) \in Nat /\ DOMAIN d = 1..Len(d) /\ DOMAIN b = 1..Len(d) + 1
      /\ b[Len(d) + 1] = x /\ \A i \in 1..Len(d) : b[i] = d[i]
      /\ \A i \in 1..Len(d) + 1 : i \in 1..Len(d) \/ i = Len(d) + 1
  BY AppendElements
<1>. HIDE DEF b
<1>2. SUFFICES ASSUME NEW i \in DOMAIN b, b[i].type = "Membership"
               PROVE  /\ b[i].ops # <<>> /\ Len(l) <= Len(b[i].ops)
                      /\ \A a \in A : a <= Epoch(b[i].ops)
                      /\ \A j \in 1..i - 1 :
                          /\ b[j].type = "Membership" => Len(b[j].ops) <= Len(b[i].ops)
                          /\ b[j].type = "Envelopes" =>
                                \A a \in EpochsOf(b[j].envelopes) : a <= Epoch(b[i].ops)
                          /\ b[j].type = "Frame" => CanAuthorContent(b[i].ops, b[j].frame.by)
  BY DEF InOrderOf, b
<1>3. i \in 1..Len(d) /\ b[i] = d[i] /\ i \in DOMAIN d
  BY <1>1, <1>2
<1>4. \A j \in 1..i - 1 : b[j] = d[j]
  BY <1>1, <1>3
<1>. QED  BY <1>2, <1>3, <1>4 DEF InOrderOf

-----------------------------------------------------------------------------
(* What happens to one member's connection. *)

\* A frame, or the announcement of an epoch.
LEMMA PlainAnswer ==
    ASSUME NEW c, NEW e \in Nat, NEW n \in Nat, NEW l \in Seq(Op), NEW K, NEW A, NEW u,
           NEW d \in Seq(DownMessages), NEW edits, NEW W, NEW F, NEW x \in DownMessages,
           PathOf(c, e, l, K, A, u, d, edits, W, F),
           \/ x.type = "Frame" /\ l # <<>> /\ n = e
           \/ x.type = "EpochBump" /\ (n = e \/ n = e + 1)
    PROVE  PathOf(c, n, l, K, A, u, Append(d, x), edits, W, F)
<1>. DEFINE b == Append(d, x)
<1>1. \A type : Has(b, type) <=> Has(d, type) \/ x.type = type
  BY HasAppended
<1>2. /\ Len(d) \in Nat /\ Len(b) = Len(d) + 1
      /\ \A m \in Nat, a \in Int : Reaches(l, d, m, a) => Reaches(l, b, m, a)
      /\ \A a \in Int : Reaches(l, d, Len(d), a) => Reaches(l, b, Len(b), a)
      /\ \A i \in DOMAIN d : \A a \in Nat : Useful(l, A, d, i, a) => Useful(l, A, b, i, a)
      /\ \A i \in DOMAIN d : i \in DOMAIN b /\ b[i] = d[i]
      /\ TwoBumps(d) => TwoBumps(b)
      /\ Has(d, "EpochBump") /\ x.type = "EpochBump" => TwoBumps(b)
      /\ AtMostOne(d) /\ ~(Has(d, "Envelopes") /\ x.type = "Envelopes") => AtMostOne(b)
  BY AnswerAdded
<1>3. x.type # "Membership" /\ x.type # "Envelopes" /\ x.type # "NotMember"
  OBVIOUS
<1>4. InOrderOf(l, A, b)
  BY <1>3, OrderAdded DEF PathOf
<1>. HIDE DEF b
<1>5. Knows(l, b) <=> Knows(l, d)
  BY <1>1, <1>3 DEF Knows
<1>6. NothingYet(l, K, b, edits, W)
  BY <1>1, <1>3 DEF PathOf, NothingYet
<1>7. Announced(n, l, u, b)
  <2>1. SUFFICES ASSUME Knows(l, d)
                 PROVE  \/ Has(u, "Membership")
                        \/ Reaches(l, b, Len(b), n)
                        \/ Has(b, "EpochBump") /\ Reaches(l, b, Len(b), n - 1)
                        \/ TwoBumps(b)
    BY <1>5 DEF Announced
  <2>2. CASE n = e
    BY <1>1, <1>2, <2>1, <2>2 DEF PathOf, Announced
  <2>3. CASE n = e + 1 /\ x.type = "EpochBump"
    <3>1. n - 1 = e /\ e \in Int /\ Has(b, "EpochBump")
      BY <1>1, <2>3
    <3>2. \/ Has(u, "Membership") \/ Reaches(l, d, Len(d), e)
          \/ Has(d, "EpochBump") \/ TwoBumps(d)
      BY <2>1 DEF PathOf, Announced
    <3>. QED  BY <1>2, <2>3, <3>1, <3>2
  <2>. QED  BY <2>2, <2>3
<1>8. Close(n, l, u, b)
  <2>1. CASE x.type = "EpochBump"
    BY <1>1, <2>1 DEF Close
  <2>2. CASE n = e
    BY <1>1, <1>2, <1>5, <2>2 DEF PathOf, Close
  <2>. QED  BY <2>1, <2>2
<1>9. FirstAnswers(l, A, u, b)
  BY <1>1, <1>2, <1>3, <1>5 DEF PathOf, FirstAnswers
<1>10. Provided(n, l, K, A, u, b)
  <2>1. CASE x.type = "EpochBump"
    BY <1>1, <2>1 DEF Provided
  <2>2. CASE n = e
    <3>1. SUFFICES ASSUME Knows(l, d) \/ Has(u, "Membership"), NEW a \in 0..e
                   PROVE  \/ a \in K \cup A
                          \/ Has(b, "EpochBump") \/ Has(u, "Envelopes")
                          \/ \E i \in DOMAIN b : Useful(l, A, b, i, a)
      BY <1>5, <2>2 DEF Provided
    <3>2. \/ a \in K \cup A
          \/ Has(d, "EpochBump") \/ Has(u, "Envelopes")
          \/ \E i \in DOMAIN d : Useful(l, A, d, i, a)
      BY <3>1 DEF PathOf, Provided
    <3>3. a \in Nat
      OBVIOUS
    <3>. QED  BY <1>1, <1>2, <3>2, <3>3
  <2>. QED  BY <2>1, <2>2
<1>11. Asked(c, l, K, u, b, W, F)
  <2>1. Asked(c, l, K, u, d, W, F)
    BY DEF PathOf
  <2>2. "Membership" \in F => Has(u, "Membership") \/ Has(b, "Membership")
    BY <1>1, <2>1 DEF Asked
  <2>3. ASSUME NEW f \in W
        PROVE  /\ Wants(c, l, K, f)
               /\ f.by # c /\ ~CanAuthorContent(l, f.by) =>
                    \/ Has(u, "Membership")
                    \/ \E i \in DOMAIN b : b[i].type = "Membership" /\ CanAuthorContent(b[i].ops, f.by)
    BY <1>2, <2>1, <2>3 DEF Asked
  <2>. QED  BY <2>2, <2>3 DEF Asked
<1>12. Downward(l, K, A)
  BY DEF PathOf
<1>. QED  BY <1>4, <1>6, <1>7, <1>8, <1>9, <1>10, <1>11, <1>12 DEF PathOf, b

\* The relay takes a frame.
LEMMA PlainRequest ==
    ASSUME NEW c, NEW e \in Nat, NEW l \in Seq(Op), NEW K, NEW A, NEW u \in Seq(UpMessages),
           NEW d, NEW edits, NEW W, NEW F, u # <<>>, Head(u).type \notin Answers,
           PathOf(c, e, l, K, A, u, d, edits, W, F)
    PROVE  PathOf(c, e, l, K, A, Tail(u), d, edits, W, F)
<1>. DEFINE t == Tail(u)
<1>1. Has(t, "Membership") = Has(u, "Membership") /\ Has(t, "Envelopes") = Has(u, "Envelopes")
  <2>1. Head(u).type # "Membership" /\ Head(u).type # "Envelopes"
    BY DEF Answers
  <2>2. /\ Has(u, "Membership") <=> Has(t, "Membership") \/ Head(u).type = "Membership"
        /\ Has(u, "Envelopes") <=> Has(t, "Envelopes") \/ Head(u).type = "Envelopes"
    BY HasTail
  <2>3. \A type : Has(u, type) \in BOOLEAN /\ Has(t, type) \in BOOLEAN
    BY DEF Has
  <2>. QED  BY <2>1, <2>2, <2>3
<1>2. /\ OneFirst(u) => OneFirst(t)
      /\ Led(u) => Led(t)
      /\ AsksAfter(u) => AsksAfter(t)
  BY RequestsTaken DEF Answers
<1>. HIDE DEF t
<1>3. Announced(e, l, t, d) /\ Close(e, l, t, d)
  BY <1>1, <1>2 DEF PathOf, Announced, Close
<1>4. FirstAnswers(l, A, t, d)
  BY <1>1, <1>2 DEF PathOf, FirstAnswers
<1>5. Provided(e, l, K, A, t, d)
  BY <1>1 DEF PathOf, Provided
<1>6. Asked(c, l, K, t, d, W, F)
  BY <1>1 DEF PathOf, Asked
<1>. QED  BY <1>3, <1>4, <1>5, <1>6 DEF PathOf, t

\* The engine asks for more, or sends a frame.
LEMMA MoreRequests ==
    ASSUME NEW c, NEW e \in Nat, NEW l \in Seq(Op), NEW K, NEW A, NEW u \in Seq(UpMessages),
           NEW d, NEW edits, NEW W, NEW F, NEW q \in Seq(UpMessages), NEW G,
           PathOf(c, e, l, K, A, u, d, edits, W, F),
           l # <<>> \/ (OneFirst(q) /\ Has(q, "Membership") /\ Has(q, "Envelopes")),
           "Membership" \in G => "Membership" \in F \/ Has(q, "Membership")
    PROVE  PathOf(c, e, l, K, A, u \o q, d, edits, W, G)
<1>. DEFINE b == u \o q
<1>1. \A type : Has(b, type) <=> Has(u, type) \/ Has(q, type)
  BY HasBoth
<1>2. /\ AsksAfter(u) => AsksAfter(b)
      /\ Has(u, "Membership") /\ Led(u) => Led(b)
      /\ OneFirst(u) /\ OneFirst(q) /\ (Has(u, "Envelopes") => Has(u, "Membership")) => OneFirst(b)
  BY RequestsAdded
<1>. HIDE DEF b
<1>3. Announced(e, l, b, d) /\ Close(e, l, b, d)
  BY <1>1, <1>2 DEF PathOf, Announced, Close
<1>4. FirstAnswers(l, A, b, d)
  BY <1>1, <1>2 DEF PathOf, FirstAnswers, Knows
<1>5. Provided(e, l, K, A, b, d)
  BY <1>1 DEF PathOf, Provided, Knows
<1>6. Asked(c, l, K, b, d, W, G)
  BY <1>1 DEF PathOf, Asked
<1>. QED  BY <1>3, <1>4, <1>5, <1>6 DEF PathOf, b

\* Edits come and go once the log is known.
LEMMA EditsChange ==
    ASSUME NEW c, NEW e, NEW l, NEW K, NEW A, NEW u, NEW d, NEW edits, NEW W, NEW F, NEW more,
           PathOf(c, e, l, K, A, u, d, edits, W, F), l # <<>>
    PROVE  PathOf(c, e, l, K, A, u, d, more, W, F)
BY DEF PathOf, NothingYet

\* A client that has nothing.
LEMMA BlankPath ==
    ASSUME NEW c, NEW e \in Nat
    PROVE  PathOf(c, e, <<>>, {}, {}, <<>>, <<>>, FALSE, {}, {})
<1>1. DOMAIN <<>> = {} /\ \A type : ~Has(<<>>, type)
  BY DEF Has
<1>2. ~Knows(<<>>, <<>>)
  BY <1>1 DEF Knows
<1>3. NothingYet(<<>>, {}, <<>>, FALSE, {}) /\ InOrderOf(<<>>, {}, <<>>)
  BY <1>1 DEF NothingYet, InOrderOf
<1>4. Announced(e, <<>>, <<>>, <<>>) /\ Close(e, <<>>, <<>>, <<>>)
  BY <1>2 DEF Announced, Close
<1>5. FirstAnswers(<<>>, {}, <<>>, <<>>)
  BY <1>1 DEF FirstAnswers, AtMostOne, OneFirst
<1>6. Downward(<<>>, {}, {}) /\ Provided(e, <<>>, {}, {}, <<>>, <<>>)
  BY <1>1, <1>2 DEF Downward, Provided
<1>7. Asked(c, <<>>, {}, <<>>, <<>>, {}, {})
  BY DEF Asked
<1>. QED  BY <1>3, <1>4, <1>5, <1>6, <1>7 DEF PathOf

\* The announcement of an epoch is handled: the envelopes and the log are asked for.
LEMMA BumpTaken ==
    ASSUME NEW c, NEW e \in Nat, NEW l \in Seq(Op), NEW K, NEW A, NEW u \in Seq(UpMessages),
           NEW d \in Seq(DownMessages), NEW edits, NEW W, NEW F, NEW q \in Seq(UpMessages), NEW G,
           PathOf(c, e, l, K, A, u, d, edits, W, F),
           d # <<>>, Head(d).type = "EpochBump",
           OneFirst(q), Has(q, "Membership"), Has(q, "Envelopes")
    PROVE  PathOf(c, e, l, K, A, u \o q, Tail(d), edits, W, G)
<1>. DEFINE b == u \o q
<1>. DEFINE t == Tail(d)
<1>1. \A type : Has(b, type) <=> Has(u, type) \/ Has(q, type)
  BY HasBoth
<1>2. /\ AsksAfter(u) => AsksAfter(b)
      /\ Has(u, "Membership") /\ Has(q, "Envelopes") => AsksAfter(b)
      /\ Has(u, "Membership") /\ Led(u) => Led(b)
      /\ OneFirst(u) /\ OneFirst(q) /\ (Has(u, "Envelopes") => Has(u, "Membership")) => OneFirst(b)
  BY RequestsAdded
<1>3. \A type : Has(d, type) <=> Has(t, type) \/ Head(d).type = type
  BY HasTail
<1>4. /\ \A a \in Int : Reaches(l, d, Len(d), a) => Reaches(l, t, Len(t), a)
      /\ Knows(l, d) <=> Knows(l, t)
      /\ TwoBumps(d) => Has(t, "EpochBump")
      /\ AtMostOne(d) => AtMostOne(t)
  BY AnswerTaken
<1>5. InOrderOf(l, A, t)
  BY OrderTaken DEF PathOf
<1>. HIDE DEF b, t
<1>6. Head(d).type # "Membership" /\ Head(d).type # "Envelopes"
  OBVIOUS
<1>7. NothingYet(l, K, t, edits, W)
  BY <1>3 DEF PathOf, NothingYet
<1>8. Announced(e, l, b, t)
  BY <1>1 DEF Announced
<1>9. Close(e, l, b, t)
  <2>1. SUFFICES ASSUME Knows(l, d)
                 PROVE  Reaches(l, t, Len(t), e - 1) \/ Has(t, "EpochBump") \/ AsksAfter(b)
    BY <1>4 DEF Close
  <2>2. \/ Has(u, "Membership")
        \/ Reaches(l, d, Len(d), e)
        \/ Reaches(l, d, Len(d), e - 1)
        \/ TwoBumps(d)
    BY <2>1 DEF PathOf, Announced
  <2>3. ASSUME Reaches(l, d, Len(d), e)
        PROVE  Reaches(l, d, Len(d), e - 1)
    <3>1. Len(d) \in Nat /\ Len(d) <= Len(d) /\ e \in Int /\ e - 1 \in Int /\ e - 1 <= e
      OBVIOUS
    <3>. QED  BY <2>3, <3>1, ReachesLower
  <2>4. e - 1 \in Int
    OBVIOUS
  <2>. QED  BY <1>2, <1>4, <2>2, <2>3, <2>4
<1>10. FirstAnswers(l, A, b, t)
  BY <1>1, <1>2, <1>3, <1>4, <1>6 DEF PathOf, FirstAnswers
<1>11. Provided(e, l, K, A, b, t)
  BY <1>1 DEF Provided
<1>12. Asked(c, l, K, b, t, W, G)
  BY <1>1 DEF PathOf, Asked
<1>13. Downward(l, K, A)
  BY DEF PathOf
<1>. QED  BY <1>5, <1>7, <1>8, <1>9, <1>10, <1>11, <1>12, <1>13 DEF PathOf, b, t

\* The relay answers with its log, which is not behind anything on its way.
LEMMA LogServed ==
    ASSUME NEW c, NEW e \in Nat, NEW l \in Seq(Op), NEW K, NEW A, NEW u \in Seq(UpMessages),
           NEW d \in Seq(DownMessages), NEW edits, NEW W, NEW F, NEW r \in Seq(Op),
           PathOf(c, e, l, K, A, u, d, edits, W, F),
           u # <<>>, Head(u).type = "Membership",
           r # <<>>, Epoch(r) = e, Len(l) <= Len(r),
           \A a \in A : a <= e,
           \A j \in DOMAIN d :
               /\ d[j].type = "Membership" => Len(d[j].ops) <= Len(r)
               /\ d[j].type = "Envelopes" => \A a \in EpochsOf(d[j].envelopes) : a <= e
               /\ d[j].type = "Frame" => CanAuthorContent(r, d[j].frame.by),
           \A f \in W : CanAuthorContent(r, f.by)
    PROVE  PathOf(c, e, l, K, A, Tail(u), Append(d, [type |-> "Membership", ops |-> r]), edits, W, F)
<1>. DEFINE x == [type |-> "Membership", ops |-> r]
<1>. DEFINE b == Append(d, x)
<1>. DEFINE t == Tail(u)
<1>1. x \in DownMessages /\ x.type = "Membership" /\ x.ops = r
  BY DownMessageIs
<1>. HIDE DEF x
<1>2. \A type : Has(b, type) <=> Has(d, type) \/ x.type = type
  BY <1>1, HasAppended
<1>3. /\ Len(d) \in Nat /\ DOMAIN d = 1..Len(d) /\ DOMAIN b = 1..Len(d) + 1 /\ Len(b) = Len(d) + 1
      /\ b[Len(d) + 1] = x /\ \A i \in 1..Len(d) : b[i] = d[i]
      /\ \A i \in 1..Len(d) + 1 : i \in 1..Len(d) \/ i = Len(d) + 1
  BY <1>1, AppendElements
<1>4. /\ \A i \in DOMAIN d : \A a \in Nat : Useful(l, A, d, i, a) => Useful(l, A, b, i, a)
      /\ \A i \in DOMAIN d : i \in DOMAIN b /\ b[i] = d[i]
  BY <1>1, AnswerAdded
<1>5. \A type : Has(u, type) <=> Has(t, type) \/ Head(u).type = type
  BY HasTail
<1>. HIDE DEF b, t
<1>6. Len(d) + 1 \in DOMAIN b /\ Len(d) + 1 <= Len(b)
  BY <1>3
<1>7. Reaches(l, b, Len(b), e) /\ Reaches(l, b, Len(b), e - 1)
  <2>1. e <= Epoch(r) /\ e - 1 <= Epoch(r)
    OBVIOUS
  <2>. QED  BY <1>1, <1>3, <1>6, <2>1 DEF Reaches
<1>8. Knows(l, b)
  BY <1>1, <1>2 DEF Knows
<1>9. NothingYet(l, K, b, edits, W)
  BY <1>1, <1>2 DEF PathOf, NothingYet
<1>10. InOrderOf(l, A, b)
  <2>0. InOrderOf(l, A, d)
    BY DEF PathOf
  <2>1. SUFFICES ASSUME NEW i \in DOMAIN b, b[i].type = "Membership"
                 PROVE  /\ b[i].ops # <<>> /\ Len(l) <= Len(b[i].ops)
                        /\ \A a \in A : a <= Epoch(b[i].ops)
                        /\ \A j \in 1..i - 1 :
                            /\ b[j].type = "Membership" => Len(b[j].ops) <= Len(b[i].ops)
                            /\ b[j].type = "Envelopes" =>
                                  \A a \in EpochsOf(b[j].envelopes) : a <= Epoch(b[i].ops)
                            /\ b[j].type = "Frame" => CanAuthorContent(b[i].ops, b[j].frame.by)
    BY DEF InOrderOf
  <2>2. CASE i \in 1..Len(d)
    <3>1. i \in DOMAIN d /\ b[i] = d[i] /\ d[i].type = "Membership"
      BY <1>3, <2>1, <2>2
    <3>2. \A j \in 1..i - 1 : b[j] = d[j]
      BY <1>3, <2>2
    <3>. QED  BY <2>0, <3>1, <3>2 DEF InOrderOf
  <2>3. CASE i = Len(d) + 1
    <3>1. b[i].ops = r
      BY <1>1, <1>3, <2>3
    <3>2. \A j \in 1..i - 1 : j \in DOMAIN d /\ b[j] = d[j]
      BY <1>3, <2>3
    <3>. QED  BY <3>1, <3>2
  <2>. QED  BY <1>3, <2>2, <2>3
<1>11. Announced(e, l, t, b) /\ Close(e, l, t, b)
  BY <1>7 DEF Announced, Close
<1>12. FirstAnswers(l, A, t, b)
  BY <1>8 DEF FirstAnswers
<1>13. Provided(e, l, K, A, t, b)
  <2>1. SUFFICES ASSUME NEW a \in 0..e
                 PROVE  \/ a \in K \cup A
                        \/ Has(b, "EpochBump") \/ Has(t, "Envelopes")
                        \/ \E i \in DOMAIN b : Useful(l, A, b, i, a)
    BY DEF Provided
  <2>2. Has(u, "Membership") /\ Head(u).type # "Envelopes"
    BY <1>5
  <2>3. \/ a \in K \cup A
        \/ Has(d, "EpochBump") \/ Has(u, "Envelopes")
        \/ \E i \in DOMAIN d : Useful(l, A, d, i, a)
    BY <2>1, <2>2 DEF PathOf, Provided
  <2>4. a \in Nat
    OBVIOUS
  <2>. QED  BY <1>2, <1>4, <1>5, <2>2, <2>3, <2>4
<1>14. Asked(c, l, K, t, b, W, F)
  <2>1. Asked(c, l, K, u, d, W, F)
    BY DEF PathOf
  <2>2. Has(b, "Membership")
    BY <1>1, <1>2
  <2>3. ASSUME NEW f \in W
        PROVE  /\ Wants(c, l, K, f)
               /\ \E i \in DOMAIN b : b[i].type = "Membership" /\ CanAuthorContent(b[i].ops, f.by)
    BY <1>1, <1>3, <1>6, <2>1, <2>3 DEF Asked
  <2>. QED  BY <2>2, <2>3 DEF Asked
<1>15. Downward(l, K, A)
  BY DEF PathOf
<1>. QED  BY <1>9, <1>10, <1>11, <1>12, <1>13, <1>14, <1>15 DEF PathOf, b, t, x

\* The relay answers with the envelopes of all its epochs.
LEMMA EnvelopesServed ==
    ASSUME NEW c, NEW e \in Nat, NEW l \in Seq(Op), NEW K, NEW A, NEW u \in Seq(UpMessages),
           NEW d \in Seq(DownMessages), NEW edits, NEW W, NEW F, NEW s \in Seq(Envelope),
           PathOf(c, e, l, K, A, u, d, edits, W, F),
           u # <<>>, Head(u).type = "Envelopes",
           0..e \subseteq EpochsOf(s)
    PROVE  PathOf(c, e, l, K, A, Tail(u), Append(d, [type |-> "Envelopes", envelopes |-> s]),
                  edits, W, F)
<1>. DEFINE x == [type |-> "Envelopes", envelopes |-> s]
<1>. DEFINE b == Append(d, x)
<1>. DEFINE t == Tail(u)
<1>1. /\ x \in DownMessages /\ x.type = "Envelopes" /\ x.envelopes = s
      /\ x.type # "Membership" /\ x.type # "Frame" /\ x.type # "NotMember"
  BY DownMessageIs
<1>. HIDE DEF x
<1>2. \A type : Has(b, type) <=> Has(d, type) \/ x.type = type
  BY <1>1, HasAppended
<1>3. /\ Len(d) \in Nat /\ DOMAIN d = 1..Len(d) /\ DOMAIN b = 1..Len(d) + 1 /\ Len(b) = Len(d) + 1
      /\ b[Len(d) + 1] = x /\ \A i \in 1..Len(d) : b[i] = d[i]
      /\ \A i \in 1..Len(d) + 1 : i \in 1..Len(d) \/ i = Len(d) + 1
  BY <1>1, AppendElements
<1>4. /\ \A n \in Nat, a \in Int : Reaches(l, d, n, a) => Reaches(l, b, n, a)
      /\ \A a \in Int : Reaches(l, d, Len(d), a) => Reaches(l, b, Len(b), a)
      /\ \A i \in DOMAIN d : \A a \in Nat : Useful(l, A, d, i, a) => Useful(l, A, b, i, a)
      /\ \A i \in DOMAIN d : i \in DOMAIN b /\ b[i] = d[i]
      /\ TwoBumps(d) => TwoBumps(b)
      /\ AtMostOne(d) /\ ~(Has(d, "Envelopes") /\ x.type = "Envelopes") => AtMostOne(b)
  BY <1>1, AnswerAdded
<1>5. \A type : Has(u, type) <=> Has(t, type) \/ Head(u).type = type
  BY HasTail
<1>6. /\ AsksAfter(u) => AsksAfter(t) /\ Has(t, "Envelopes")
      /\ OneFirst(u) => Led(t) /\ OneFirst(t)
      /\ ~Led(u)
  BY RequestsTaken
<1>7. InOrderOf(l, A, b)
  BY <1>1, OrderAdded DEF PathOf
<1>. HIDE DEF b, t
<1>8. Len(d) + 1 \in DOMAIN b
  BY <1>3
<1>9. Has(t, "Membership") <=> Has(u, "Membership")
  BY <1>5
<1>10. Knows(l, b) <=> Knows(l, d)
  BY <1>1, <1>2 DEF Knows
<1>11. NothingYet(l, K, b, edits, W)
  BY <1>1, <1>2 DEF PathOf, NothingYet
<1>12. Announced(e, l, t, b)
  <2>1. e \in Int /\ e - 1 \in Int
    OBVIOUS
  <2>. QED  BY <1>2, <1>4, <1>9, <1>10, <2>1 DEF PathOf, Announced
<1>13. Close(e, l, t, b)
  <2>1. e - 1 \in Int
    OBVIOUS
  <2>. QED  BY <1>2, <1>4, <1>6, <1>10, <2>1 DEF PathOf, Close
<1>14. ASSUME ~Knows(l, d)
       PROVE  A = {} /\ ~Has(d, "Envelopes") /\ ~Has(d, "Membership") /\ l = <<>>
  <2>1. ~(A # {} \/ Has(d, "Envelopes"))
    BY <1>6, <1>14 DEF PathOf, FirstAnswers
  <2>. QED  BY <1>14, <2>1 DEF Knows
<1>15. FirstAnswers(l, A, t, b)
  <2>1. SUFFICES ASSUME ~Knows(l, d)
                 PROVE  /\ AtMostOne(b)
                        /\ A = {}
                        /\ Has(t, "Membership") /\ Led(t) /\ OneFirst(t)
    BY <1>10 DEF FirstAnswers
  <2>2. AtMostOne(d) /\ OneFirst(u) /\ (Has(u, "Envelopes") => Has(u, "Membership"))
    BY <2>1 DEF PathOf, FirstAnswers
  <2>3. Has(u, "Envelopes")
    BY <1>5
  <2>. QED  BY <1>4, <1>6, <1>9, <1>14, <2>1, <2>2, <2>3
<1>16. Provided(e, l, K, A, t, b)
  <2>1. SUFFICES ASSUME Knows(l, d) \/ Has(u, "Membership"), NEW a \in 0..e
                 PROVE  \/ Has(b, "EpochBump") \/ Has(t, "Envelopes")
                        \/ Useful(l, A, b, Len(d) + 1, a)
    BY <1>8, <1>9, <1>10 DEF Provided
  <2>2. b[Len(d) + 1].type = "Envelopes" /\ a \in EpochsOf(b[Len(d) + 1].envelopes)
    BY <1>1, <1>3
  <2>3. CASE Knows(l, d)
    <3>1. Reaches(l, d, Len(d), e - 1) \/ Has(d, "EpochBump") \/ AsksAfter(u)
      BY <2>3 DEF PathOf, Close
    <3>2. ASSUME Reaches(l, d, Len(d), e - 1)
          PROVE  Reaches(l, b, Len(d) + 1, a - 1)
      <4>1. /\ Len(d) \in Nat /\ Len(d) + 1 \in Nat /\ Len(d) <= Len(d) + 1
            /\ e - 1 \in Int /\ a - 1 \in Int /\ a - 1 <= e - 1
        BY <1>3
      <4>2. Reaches(l, d, Len(d) + 1, a - 1)
        BY <3>2, <4>1, ReachesLower
      <4>. QED  BY <1>4, <4>1, <4>2
    <3>. QED  BY <1>2, <1>6, <2>2, <3>1, <3>2 DEF Useful
  <2>4. CASE ~Knows(l, d)
    <3>1. \A j \in 1..(Len(d) + 1) - 1 : j \in DOMAIN d /\ b[j] = d[j]
      BY <1>3
    <3>2. \A j \in DOMAIN d : d[j].type \notin Answers
      BY <1>14, <2>4 DEF Has, Answers
    <3>. QED  BY <1>14, <2>2, <2>4, <3>1, <3>2 DEF Useful
  <2>. QED  BY <2>3, <2>4
<1>17. Asked(c, l, K, t, b, W, F)
  <2>1. Asked(c, l, K, u, d, W, F)
    BY DEF PathOf
  <2>2. "Membership" \in F => Has(t, "Membership") \/ Has(b, "Membership")
    BY <1>2, <1>9, <2>1 DEF Asked
  <2>3. ASSUME NEW f \in W
        PROVE  /\ Wants(c, l, K, f)
               /\ f.by # c /\ ~CanAuthorContent(l, f.by) =>
                    \/ Has(t, "Membership")
                    \/ \E i \in DOMAIN b : b[i].type = "Membership" /\ CanAuthorContent(b[i].ops, f.by)
    BY <1>4, <1>9, <2>1, <2>3 DEF Asked
  <2>. QED  BY <2>2, <2>3 DEF Asked
<1>18. Downward(l, K, A)
  BY DEF PathOf
<1>. QED  BY <1>7, <1>11, <1>12, <1>13, <1>15, <1>16, <1>17, <1>18 DEF PathOf, b, t, x

\* A frame is handled: at most, it waits for the log or for a key.
LEMMA FrameTaken ==
    ASSUME NEW c, NEW e \in Nat, NEW l \in Seq(Op), NEW K, NEW A, NEW u,
           NEW d \in Seq(DownMessages), NEW edits, NEW W, NEW F, NEW V,
           PathOf(c, e, l, K, A, u, d, edits, W, F),
           d # <<>>, Head(d).type = "Frame",
           \A f \in V : \/ f \in W
                        \/ /\ f = Head(d).frame /\ Wants(c, l, K, f)
                           /\ f.by # c /\ ~CanAuthorContent(l, f.by) => "Membership" \in F
    PROVE  l # <<>> /\ PathOf(c, e, l, K, A, u, Tail(d), edits, V, F)
<1>. DEFINE t == Tail(d)
<1>1. \A type : Has(d, type) <=> Has(t, type) \/ Head(d).type = type
  BY HasTail
<1>2. /\ Len(d) \in Nat /\ Len(t) = Len(d) - 1 /\ Head(d) = d[1] /\ 1 \in DOMAIN d
      /\ \A i \in DOMAIN d : i # 1 => i - 1 \in DOMAIN t /\ t[i - 1] = d[i]
      /\ \A a \in Int : Reaches(l, d, Len(d), a) => Reaches(l, t, Len(t), a)
      /\ Knows(l, d) <=> Knows(l, t)
      /\ \A i \in DOMAIN d : \A a \in Nat :
          Useful(l, A, d, i, a) /\ i # 1 => Useful(l, A, t, i - 1, a)
      /\ TwoBumps(d) => TwoBumps(t)
      /\ AtMostOne(d) => AtMostOne(t)
  BY AnswerTaken
<1>3. InOrderOf(l, A, t)
  BY OrderTaken DEF PathOf
<1>. HIDE DEF t
<1>4. l # <<>>
  BY <1>1 DEF PathOf, NothingYet
<1>5. NothingYet(l, K, t, edits, V)
  BY <1>1, <1>4 DEF PathOf, NothingYet
<1>6. Announced(e, l, u, t) /\ Close(e, l, u, t)
  <2>1. e \in Int /\ e - 1 \in Int
    OBVIOUS
  <2>. QED  BY <1>1, <1>2, <2>1 DEF PathOf, Announced, Close
<1>7. FirstAnswers(l, A, u, t)
  BY <1>4 DEF FirstAnswers, Knows
<1>8. Provided(e, l, K, A, u, t)
  <2>1. SUFFICES ASSUME NEW a \in 0..e
                 PROVE  \/ a \in K \cup A
                        \/ Has(t, "EpochBump") \/ Has(u, "Envelopes")
                        \/ \E i \in DOMAIN t : Useful(l, A, t, i, a)
    BY DEF Provided
  <2>2. \/ a \in K \cup A
        \/ Has(d, "EpochBump") \/ Has(u, "Envelopes")
        \/ \E i \in DOMAIN d : Useful(l, A, d, i, a)
    BY <1>4, <2>1 DEF PathOf, Provided, Knows
  <2>3. ASSUME NEW i \in DOMAIN d, Useful(l, A, d, i, a)
        PROVE  \E k \in DOMAIN t : Useful(l, A, t, k, a)
    <3>1. i # 1 /\ a \in Nat
      BY <1>2, <2>3 DEF Useful
    <3>. QED  BY <1>2, <2>3, <3>1
  <2>. QED  BY <1>1, <2>2, <2>3
<1>9. Asked(c, l, K, u, t, V, F)
  <2>1. Asked(c, l, K, u, d, W, F)
    BY DEF PathOf
  <2>2. "Membership" \in F => Has(u, "Membership") \/ Has(t, "Membership")
    BY <1>1, <2>1 DEF Asked
  <2>3. ASSUME NEW f \in V
        PROVE  /\ Wants(c, l, K, f)
               /\ f.by # c /\ ~CanAuthorContent(l, f.by) =>
                    \/ Has(u, "Membership")
                    \/ \E i \in DOMAIN t : t[i].type = "Membership" /\ CanAuthorContent(t[i].ops, f.by)
    <3>1. CASE f \in W
      <4>1. \A i \in DOMAIN d : d[i].type = "Membership" => i # 1
        BY <1>2
      <4>. QED  BY <1>2, <2>1, <3>1, <4>1 DEF Asked
    <3>2. CASE f \notin W
      <4>1. /\ f = d[1].frame /\ d[1].type = "Frame" /\ Wants(c, l, K, f)
            /\ f.by # c /\ ~CanAuthorContent(l, f.by) => "Membership" \in F
        BY <1>2, <2>3, <3>2
      <4>2. ASSUME Has(t, "Membership")
            PROVE  \E i \in DOMAIN t : t[i].type = "Membership" /\ CanAuthorContent(t[i].ops, f.by)
        <5>1. PICK i \in DOMAIN t : t[i].type = "Membership"
          BY <4>2 DEF Has
        <5>2. i \in Nat /\ i >= 1 /\ i + 1 \in DOMAIN d /\ t[i] = d[i + 1]
          BY AnswerTaken DEF t
        <5>3. 1 \in 1..(i + 1) - 1
          BY <5>2
        <5>4. CanAuthorContent(d[i + 1].ops, d[1].frame.by)
          BY <4>1, <5>1, <5>2, <5>3 DEF PathOf, InOrderOf
        <5>. QED  BY <4>1, <5>1, <5>2, <5>4
      <4>. QED  BY <2>2, <4>1, <4>2
    <3>. QED  BY <3>1, <3>2
  <2>. QED  BY <2>2, <2>3 DEF Asked
<1>10. Downward(l, K, A)
  BY DEF PathOf
<1>. QED  BY <1>3, <1>4, <1>5, <1>6, <1>7, <1>8, <1>9, <1>10 DEF PathOf, t

\* Envelopes are taken, as many as there are places for: keys for the log's epochs, and
\* places for those ahead of it.
LEMMA EnvelopesTaken ==
    ASSUME NEW c, NEW e \in Nat, NEW l \in Seq(Op), NEW K \in SUBSET Nat, NEW A \in SUBSET Nat,
           NEW u, NEW d \in Seq(DownMessages), NEW edits, NEW W, NEW F,
           NEW T \in SUBSET Nat, NEW L, NEW B, NEW V, NEW G,
           PathOf(c, e, l, K, A, u, d, edits, W, F),
           MaxAhead # 0,
           d # <<>>, Head(d).type = "Envelopes",
           T \subseteq EpochsOf(Head(d).envelopes),
           \A a \in T : 0..a \subseteq T,
           A = {} => T = EpochsOf(Head(d).envelopes),
           l = <<>> => L = K /\ B = A \cup T,
           l # <<>> => /\ L = K \cup {a \in A \cup T : a <= Epoch(l)}
                       /\ B = {a \in A \cup T : a \in Epoch(l) + 1..Epoch(l) + MaxAhead},
           V \subseteq W, \A f \in V : Wants(c, l, L, f), G \subseteq F
    PROVE  PathOf(c, e, l, L, B, u, Tail(d), edits, V, G)
<1>. DEFINE t == Tail(d)
<1>1. \A type : Has(d, type) <=> Has(t, type) \/ Head(d).type = type
  BY HasTail
<1>2. /\ Len(d) \in Nat /\ Len(t) = Len(d) - 1 /\ Head(d) = d[1] /\ 1 \in DOMAIN d
      /\ \A i \in DOMAIN d : i # 1 => i - 1 \in DOMAIN t /\ t[i - 1] = d[i]
      /\ \A i \in DOMAIN t : i \in Nat /\ i >= 1 /\ i + 1 \in DOMAIN d /\ t[i] = d[i + 1]
      /\ \A n \in Nat \ {0}, a \in Int : Reaches(l, d, n, a) => Reaches(l, t, n - 1, a)
      /\ \A a \in Int : Reaches(l, d, Len(d), a) => Reaches(l, t, Len(t), a)
      /\ Knows(l, d) <=> Knows(l, t)
      /\ TwoBumps(d) => TwoBumps(t)
      /\ AtMostOne(d) => AtMostOne(t) /\ ~Has(t, "Envelopes")
  BY AnswerTaken
<1>3. InOrderOf(l, A, d) /\ InOrderOf(l, A, t)
  BY OrderTaken DEF PathOf
<1>. HIDE DEF t
<1>4. Epoch(l) \in Nat /\ MaxAhead \in Nat /\ MaxAhead >= 1
  BY EpochIsNat, CapsAssumption
<1>5. Has(d, "Envelopes")
  BY <1>1
<1>6. Downward(l, K, A)
  BY DEF PathOf
<1>7. B \subseteq A \cup T /\ K \subseteq L
  BY DEF PathOf
<1>8. K \cup A \subseteq L \cup B
  <2>1. CASE l = <<>>
    BY <2>1
  <2>2. CASE l # <<>>
    <3>1. \A a \in A : a \in Epoch(l) + 1..Epoch(l) + MaxAhead
      BY <1>6, <2>2 DEF Downward
    <3>. QED  BY <2>2, <3>1
  <2>. QED  BY <2>1, <2>2
<1>9. NothingYet(l, L, t, edits, V)
  BY <1>1 DEF PathOf, NothingYet
<1>10. InOrderOf(l, B, t)
  <2>1. SUFFICES ASSUME NEW i \in DOMAIN t, t[i].type = "Membership", NEW a \in B
                 PROVE  a <= Epoch(t[i].ops)
    BY <1>3 DEF InOrderOf
  <2>2. i + 1 \in DOMAIN d /\ d[i + 1].type = "Membership" /\ t[i] = d[i + 1] /\ 1 \in 1..(i + 1) - 1
    BY <1>2, <2>1
  <2>3. CASE a \in A
    BY <1>3, <2>1, <2>3 DEF InOrderOf
  <2>4. CASE a \in T
    <3>1. a \in EpochsOf(d[1].envelopes) /\ d[1].type = "Envelopes"
      BY <1>2, <2>4
    <3>. QED  BY <1>3, <2>2, <3>1 DEF InOrderOf
  <2>. QED  BY <1>7, <2>1, <2>3, <2>4
<1>11. Announced(e, l, u, t) /\ Close(e, l, u, t)
  <2>1. e \in Int /\ e - 1 \in Int /\ Head(d).type # "EpochBump"
    OBVIOUS
  <2>. QED  BY <1>1, <1>2, <2>1 DEF PathOf, Announced, Close
<1>12. FirstAnswers(l, B, u, t)
  BY <1>2, <1>5 DEF PathOf, FirstAnswers
<1>13. Downward(l, L, B)
  <2>1. ASSUME NEW a \in L \cup B
        PROVE  0..a \subseteq L \cup B
    <3>1. CASE a \in K \cup A
      <4>1. 0..a \subseteq K \cup A
        BY <1>6, <3>1 DEF Downward
      <4>. QED  BY <1>8, <4>1
    <3>2. CASE a \in T /\ a \notin K \cup A
      <4>1. 0..a \subseteq T
        BY <3>2
      <4>2. CASE l = <<>>
        BY <4>1, <4>2
      <4>3. CASE l # <<>>
        <5>1. a \in Nat /\ a <= Epoch(l) + MaxAhead
          BY <1>4, <2>1, <3>2, <4>3
        <5>2. ASSUME NEW b \in 0..a
              PROVE  b \in L \cup B
          <6>1. b \in T /\ b \in Nat /\ b <= Epoch(l) + MaxAhead
            BY <1>4, <4>1, <5>1, <5>2
          <6>2. b <= Epoch(l) \/ b \in Epoch(l) + 1..Epoch(l) + MaxAhead
            BY <1>4, <6>1
          <6>. QED  BY <4>3, <6>1, <6>2
        <5>. QED  BY <5>2
      <4>. QED  BY <4>2, <4>3
    <3>3. a \in K \cup A \cup T
      BY <2>1
    <3>. QED  BY <3>1, <3>2, <3>3
  <2>2. l # <<>> => \A a \in B : a \in Epoch(l) + 1..Epoch(l) + MaxAhead
    OBVIOUS
  <2>. QED  BY <2>1, <2>2 DEF Downward
<1>14. Provided(e, l, L, B, u, t)
  <2>1. SUFFICES ASSUME Knows(l, d) \/ Has(u, "Membership"), NEW a \in 0..e
                 PROVE  \/ a \in L \cup B
                        \/ Has(t, "EpochBump") \/ Has(u, "Envelopes")
                        \/ \E i \in DOMAIN t : Useful(l, B, t, i, a)
    BY <1>2 DEF Provided
  <2>2. \/ a \in K \cup A
        \/ Has(d, "EpochBump") \/ Has(u, "Envelopes")
        \/ \E i \in DOMAIN d : Useful(l, A, d, i, a)
    BY <2>1 DEF PathOf, Provided
  <2>3. a \in Nat /\ a - 1 \in Int
    OBVIOUS
  <2>4. ASSUME Useful(l, A, d, 1, a)
        PROVE  a \in L \cup B
    <3>1. a \in EpochsOf(Head(d).envelopes)
      BY <1>2, <2>4 DEF Useful
    <3>2. CASE Reaches(l, d, 1, a - 1)
      <4>1. l # <<>> /\ a - 1 <= Epoch(l)
        <5>1. \A j \in DOMAIN d : j <= 1 => j = 1
          BY DOMAIN d = 1..Len(d), <1>2
        <5>. QED  BY <1>2, <3>2, <5>1 DEF Reaches
      <4>2. CASE A = {}
        <5>1. a \in T
          BY <3>1, <4>2
        <5>2. a <= Epoch(l) \/ a \in Epoch(l) + 1..Epoch(l) + MaxAhead
          BY <1>4, <2>3, <4>1
        <5>. QED  BY <4>1, <5>1, <5>2
      <4>3. CASE A # {}
        <5>1. PICK b \in A : TRUE
          BY <4>3
        <5>2. b \in Epoch(l) + 1..Epoch(l) + MaxAhead /\ 0..b \subseteq K \cup A
          BY <1>6, <4>1, <5>1 DEF Downward
        <5>3. a \in 0..b
          BY <1>4, <2>3, <4>1, <5>2
        <5>. QED  BY <1>8, <5>2, <5>3
      <4>. QED  BY <4>2, <4>3
    <3>3. CASE l = <<>> /\ A = {}
      BY <3>1, <3>3
    <3>. QED  BY <2>4, <3>2, <3>3 DEF Useful
  <2>5. ASSUME NEW i \in DOMAIN d, i # 1, Useful(l, A, d, i, a)
        PROVE  Useful(l, B, t, i - 1, a) /\ i - 1 \in DOMAIN t
    <3>1. t[i - 1] = d[i] /\ i - 1 \in DOMAIN t /\ i \in Nat \ {0} /\ 1 \in 1..i - 1
      BY <1>2, <2>5, DOMAIN d = 1..Len(d)
    <3>2. d[1].type \in Answers
      BY <1>2 DEF Answers
    <3>3. Reaches(l, d, i, a - 1)
      BY <2>5, <3>1, <3>2 DEF Useful
    <3>4. Reaches(l, t, i - 1, a - 1)
      BY <1>2, <2>3, <3>1, <3>3
    <3>. QED  BY <2>5, <3>1, <3>4 DEF Useful
  <2>6. Has(d, "EpochBump") => Has(t, "EpochBump")
    BY <1>1
  <2>. QED  BY <1>8, <2>2, <2>4, <2>5, <2>6
<1>15. Asked(c, l, L, u, t, V, G)
  <2>1. Asked(c, l, K, u, d, W, F)
    BY DEF PathOf
  <2>2. "Membership" \in G => Has(u, "Membership") \/ Has(t, "Membership")
    BY <1>1, <2>1 DEF Asked
  <2>3. ASSUME NEW f \in V
        PROVE  f.by # c /\ ~CanAuthorContent(l, f.by) =>
                    \/ Has(u, "Membership")
                    \/ \E i \in DOMAIN t : t[i].type = "Membership" /\ CanAuthorContent(t[i].ops, f.by)
    <3>1. \A i \in DOMAIN d : d[i].type = "Membership" => i # 1
      BY <1>2
    <3>2. f \in W
      BY <2>3
    <3>. QED  BY <1>2, <2>1, <3>1, <3>2 DEF Asked
  <2>. QED  BY <2>2, <2>3 DEF Asked
<1>. QED  BY <1>9, <1>10, <1>11, <1>12, <1>13, <1>14, <1>15 DEF PathOf, t

\* The log is taken: it commits to the key of every envelope parked.
LEMMA LogTaken ==
    ASSUME NEW c, NEW e \in Nat, NEW l \in Seq(Op), NEW K, NEW A, NEW u,
           NEW d \in Seq(DownMessages), NEW edits, NEW W, NEW F, NEW V, NEW G, NEW m \in Seq(Op),
           PathOf(c, e, l, K, A, u, d, edits, W, F),
           d # <<>>, Head(d).type = "Membership", m = Head(d).ops, Extends(m, l),
           V \subseteq W, \A f \in V : Wants(c, m, K \cup A, f), "Membership" \notin G
    PROVE  PathOf(c, e, m, K \cup A, {}, u, Tail(d), edits, V, G)
<1>. DEFINE t == Tail(d)
<1>1. \A type : Has(d, type) <=> Has(t, type) \/ Head(d).type = type
  BY HasTail
<1>2. /\ Len(d) \in Nat /\ Len(t) = Len(d) - 1 /\ Head(d) = d[1] /\ 1 \in DOMAIN d
      /\ \A i \in DOMAIN d : i # 1 => i - 1 \in DOMAIN t /\ t[i - 1] = d[i]
      /\ \A i \in DOMAIN t : i \in Nat /\ i >= 1 /\ i + 1 \in DOMAIN d /\ t[i] = d[i + 1]
      /\ TwoBumps(d) => TwoBumps(t)
  BY AnswerTaken
<1>3. DOMAIN d = 1..Len(d)
  OBVIOUS
<1>4. InOrderOf(l, A, d) /\ InOrderOf(l, A, t)
  BY OrderTaken DEF PathOf
<1>. HIDE DEF t
<1>5. m # <<>>
  BY <1>2, <1>4 DEF InOrderOf
<1>6. Epoch(l) <= Epoch(m) /\ Epoch(l) \in Nat /\ Epoch(m) \in Nat
  BY EpochsCompare, EpochIsNat
<1>7. Knows(l, d) /\ Knows(m, t)
  BY <1>1, <1>5 DEF Knows
<1>8. ASSUME NEW n \in Nat \ {0}, NEW a \in Int, Reaches(l, d, n, a)
      PROVE  Reaches(m, t, n - 1, a)
  <2>1. CASE l # <<>> /\ a <= Epoch(l)
    BY <1>5, <1>6, <2>1 DEF Reaches
  <2>2. ASSUME NEW j \in DOMAIN d, j <= n, d[j].type = "Membership", a <= Epoch(d[j].ops)
        PROVE  Reaches(m, t, n - 1, a)
    <3>1. CASE j = 1
      BY <1>2, <1>5, <2>2, <3>1 DEF Reaches
    <3>2. CASE j # 1
      <4>1. j - 1 <= n - 1
        BY <1>3, <2>2
      <4>. QED  BY <1>2, <2>2, <3>2, <4>1 DEF Reaches
    <3>. QED  BY <3>1, <3>2
  <2>. QED  BY <1>8, <2>1, <2>2 DEF Reaches
<1>9. Len(d) \in Nat \ {0}
  BY <1>2, <1>3
<1>10. NothingYet(m, K \cup A, t, edits, V)
  BY <1>1, <1>5 DEF PathOf, NothingYet
<1>11. InOrderOf(m, {}, t)
  <2>1. SUFFICES ASSUME NEW i \in DOMAIN t, t[i].type = "Membership"
                 PROVE  Len(m) <= Len(t[i].ops)
    BY <1>4 DEF InOrderOf
  <2>2. i + 1 \in DOMAIN d /\ d[i + 1].type = "Membership" /\ t[i] = d[i + 1] /\ 1 \in 1..(i + 1) - 1
    BY <1>2, <2>1
  <2>. QED  BY <1>2, <1>4, <2>2 DEF InOrderOf
<1>12. Announced(e, m, u, t) /\ Close(e, m, u, t)
  <2>1. e \in Int /\ e - 1 \in Int /\ Head(d).type # "EpochBump"
    OBVIOUS
  <2>. QED  BY <1>1, <1>2, <1>7, <1>8, <1>9, <2>1 DEF PathOf, Announced, Close
<1>13. FirstAnswers(m, {}, u, t)
  BY <1>7 DEF FirstAnswers
<1>14. Downward(m, K \cup A, {})
  BY DEF PathOf, Downward
<1>15. Provided(e, m, K \cup A, {}, u, t)
  <2>1. SUFFICES ASSUME NEW a \in 0..e
                 PROVE  \/ a \in K \cup A
                        \/ Has(t, "EpochBump") \/ Has(u, "Envelopes")
                        \/ \E i \in DOMAIN t : Useful(m, {}, t, i, a)
    BY DEF Provided
  <2>2. \/ a \in K \cup A
        \/ Has(d, "EpochBump") \/ Has(u, "Envelopes")
        \/ \E i \in DOMAIN d : Useful(l, A, d, i, a)
    BY <1>7 DEF PathOf, Provided
  <2>3. ASSUME NEW i \in DOMAIN d, Useful(l, A, d, i, a)
        PROVE  \E k \in DOMAIN t : Useful(m, {}, t, k, a)
    <3>1. i # 1
      BY <1>2, <2>3 DEF Useful
    <3>2. t[i - 1] = d[i] /\ i - 1 \in DOMAIN t /\ i \in Nat \ {0} /\ 1 \in 1..i - 1 /\ a - 1 \in Int
      BY <1>2, <1>3, <3>1
    <3>3. d[1].type \in Answers
      BY <1>2 DEF Answers
    <3>4. Reaches(l, d, i, a - 1)
      BY <2>3, <3>2, <3>3 DEF Useful
    <3>5. Reaches(m, t, i - 1, a - 1)
      BY <1>8, <3>2, <3>4
    <3>. QED  BY <2>3, <3>2, <3>5 DEF Useful
  <2>4. Has(d, "EpochBump") => Has(t, "EpochBump")
    BY <1>1
  <2>. QED  BY <2>2, <2>3, <2>4
<1>16. Asked(c, m, K \cup A, u, t, V, G)
  <2>1. Asked(c, l, K, u, d, W, F)
    BY DEF PathOf
  <2>2. SUFFICES ASSUME NEW f \in V, f.by # c, ~CanAuthorContent(m, f.by)
                 PROVE  \/ Has(u, "Membership")
                        \/ \E i \in DOMAIN t : t[i].type = "Membership" /\ CanAuthorContent(t[i].ops, f.by)
    BY DEF Asked
  <2>3. f \in W /\ ~CanAuthorContent(l, f.by)
    BY <2>2, AuthorsStay
  <2>4. \/ Has(u, "Membership")
        \/ \E i \in DOMAIN d : d[i].type = "Membership" /\ CanAuthorContent(d[i].ops, f.by)
    BY <2>1, <2>2, <2>3 DEF Asked
  <2>5. \A i \in DOMAIN d : CanAuthorContent(d[i].ops, f.by) => i # 1
    BY <1>2, <2>2
  <2>. QED  BY <1>2, <2>4, <2>5
<1>. QED  BY <1>10, <1>11, <1>12, <1>13, <1>14, <1>15, <1>16 DEF PathOf, t

-----------------------------------------------------------------------------
(* Envelopes and keys. *)

LEMMA RankIncreases ==
    ASSUME NEW n \in Nat, NEW I \in SUBSET (1..n), NEW i \in I, NEW k \in I, k < i
    PROVE  Cardinality(Below(I, k)) # Cardinality(Below(I, i))
<1>1. i \in Nat /\ k \in Nat /\ \A j \in I : j \in Nat
  OBVIOUS
<1>2. IsFiniteSet(I)
  <2>1. IsFiniteSet(1..n)
    BY FS_Interval
  <2>. QED  BY <2>1, FS_Subset
<1>3. Below(I, i) \in SUBSET I
  BY DEF Below
<1>4. IsFiniteSet(Below(I, i))
  BY <1>2, <1>3, FS_Subset
<1>5. ASSUME NEW j \in Below(I, k)
      PROVE  j \in Below(I, i)
  BY <1>1, <1>5 DEF Below
<1>6. i \in Below(I, i) /\ i \notin Below(I, k)
  BY <1>1 DEF Below
<1>7. Below(I, k) \in SUBSET Below(I, i) /\ Below(I, k) # Below(I, i)
  BY <1>5, <1>6
<1>. QED  BY <1>4, <1>7, FS_Subset

\* No element at the given indices is left out.
LEMMA InOrderHasAll ==
    ASSUME NEW S, NEW s \in Seq(S), NEW I \in SUBSET (1..Len(s)), NEW i \in I
    PROVE  s[i] \in Range(InOrder(s, I))
<1>. DEFINE pick(m) == CHOOSE k \in I : Cardinality({j \in I : j <= k}) = m
            o == [m \in 1..Cardinality(I) |-> s[pick(m)]]
            r == Cardinality({j \in I : j <= i})
<1>1. Len(s) \in Nat /\ IsFiniteSet(1..Len(s)) /\ i \in Nat /\ \A k \in I : k \in Nat
  BY FS_Interval
<1>2. IsFiniteSet(I) /\ Cardinality(I) \in Nat
  BY <1>1, FS_Subset, FS_CardinalityType
<1>3. r \in 1..Cardinality(I)
  <2>1. {j \in I : j <= i} \in SUBSET I /\ {j \in I : j <= i} # {}
    BY <1>1
  <2>2. IsFiniteSet({j \in I : j <= i})
    BY <1>2, <2>1, FS_Subset
  <2>. HIDE DEF o
  <2>3. r \in Nat /\ r <= Cardinality(I) /\ r # 0
    BY <1>2, <2>1, <2>2, FS_Subset, FS_CardinalityType, FS_EmptySet
  <2>. HIDE DEF r
  <2>. QED  BY <1>2, <2>3
<1>4. pick(r) = i
  <2>1. ASSUME NEW k \in I, Cardinality({j \in I : j <= k}) = r
        PROVE  k = i
    <3>1. Cardinality(Below(I, k)) = Cardinality(Below(I, i))
      BY <2>1 DEF Below
    <3>2. ~(k < i) /\ ~(i < k)
      BY <1>1, <3>1, RankIncreases
    <3>. QED  BY <1>1, <3>2
  <2>. QED  BY <2>1
<1>5. InOrder(s, I) = o
  BY DEF InOrder
<1>. HIDE DEF pick, r
<1>6. o[r] = s[i] /\ r \in DOMAIN o
  BY <1>3, <1>4
<1>. HIDE DEF o
<1>7. s[i] \in Range(o)
  BY <1>6 DEF Range
<1>. QED  BY <1>5, <1>7

LEMMA EpochsOfIs ==
    ASSUME NEW s \in Seq(Envelope)
    PROVE  /\ \A a : a \in EpochsOf(s) <=> \E i \in 1..Len(s) : s[i].epoch = a
           /\ EpochsOf(s) \in SUBSET Nat
<1>1. \A a : a \in EpochsOf(s) <=> \E v \in Range(s) : v.epoch = a
  BY DEF EpochsOf
<1>2. \A a : a \in EpochsOf(s) <=> \E i \in 1..Len(s) : s[i].epoch = a
  BY <1>1, Members2
<1>3. \A i \in 1..Len(s) : s[i] \in Envelope
  OBVIOUS
<1>4. \A v \in Envelope : v.epoch \in Nat
  BY BoundsAssumption DEF Envelope, Epochs
<1>. QED  BY <1>2, <1>3, <1>4

\* A little ahead of the log, an envelope stays parked; without the log, each one does.
LEMMA StillParkedEpochs ==
    ASSUME NEW l \in Seq(Op), NEW held \in Seq(Envelope)
    PROVE  /\ l = <<>> => EpochsOf(StillParked(l, held)) = EpochsOf(held)
           /\ l # <<>> => EpochsOf(StillParked(l, held)) =
                {a \in EpochsOf(held) : a \in Epoch(l) + 1..Epoch(l) + MaxAhead}
<1>. DEFINE ahead == {i \in DOMAIN held :
                         held[i].epoch \in Epoch(l) + 1..Epoch(l) + MaxAhead}
            o == InOrder(held, ahead)
<1>1. StillParked(l, held) = IF l = <<>> THEN held ELSE o
  BY DEF StillParked
<1>2. ahead \in SUBSET (1..Len(held)) /\ DOMAIN held = 1..Len(held)
  OBVIOUS
<1>3. \A i \in 1..Len(held) : i \in ahead <=> held[i].epoch \in Epoch(l) + 1..Epoch(l) + MaxAhead
  OBVIOUS
<1>. HIDE DEF ahead
<1>4. o \in Seq(Envelope) /\ \A v \in Range(o) : \E i \in ahead : v = held[i]
  BY <1>2, InOrderIs
<1>5. \A i \in ahead : held[i] \in Range(o)
  BY <1>2, InOrderHasAll
<1>. HIDE DEF o
<1>6. \A a : a \in EpochsOf(o) <=> \E v \in Range(o) : v.epoch = a
  BY DEF EpochsOf
<1>7. \A a : a \in EpochsOf(held) <=> \E i \in 1..Len(held) : held[i].epoch = a
  BY EpochsOfIs
<1>8. ASSUME NEW a
      PROVE  a \in EpochsOf(o)
               <=> a \in EpochsOf(held) /\ a \in Epoch(l) + 1..Epoch(l) + MaxAhead
  <2>1. a \in EpochsOf(o) <=> \E i \in ahead : held[i].epoch = a
    BY <1>4, <1>5, <1>6
  <2>. QED  BY <1>2, <1>3, <1>7, <2>1
<1>9. EpochsOf(o) = {a \in EpochsOf(held) : a \in Epoch(l) + 1..Epoch(l) + MaxAhead}
  BY <1>8
<1>. QED  BY <1>1, <1>9

\* A log makes one key for each epoch.
LEMMA OneKeyPerEpoch ==
    ASSUME NEW t \in Seq(Op), Genuine(t), NEW i \in 1..Len(t), NEW j \in 1..Len(t),
           t[i].key # NoKey, t[j].key # NoKey, t[i].epoch = t[j].epoch
    PROVE  i = j
<1>1. DOMAIN t = 1..Len(t) /\ Len(t) \in Nat
  OBVIOUS
<1>2. ASSUME NEW x \in 1..Len(t), NEW y \in 1..Len(t), t[x].key # NoKey, t[y].key # NoKey,
             t[x].epoch = t[y].epoch, x < y
      PROVE  FALSE
  <2>1. t[x].epoch = EpochAt(t, x) /\ t[y].epoch = EpochAt(t, y)
    BY <1>2, KeyedEntry
  <2>2. y \in 0..Len(t) /\ y # 0 /\ y - 1 \in 0..Len(t) /\ x \in 0..y - 1 /\ x \in 0..Len(t) /\ y # 1
    BY <1>1, <1>2
  <2>3. t[y].role = "None"
    BY <1>1, <1>2, <2>2 DEF Genuine
  <2>4. EpochAt(t, y) = EpochAt(t, y - 1) + 1
    BY <2>2, <2>3, Removals
  <2>5. EpochAt(t, x) <= EpochAt(t, y - 1)
    BY <2>2, EpochGrows
  <2>6. EpochAt(t, x) \in Nat /\ EpochAt(t, y - 1) \in Nat
    <3>1. EpochAt(t, x) \in 0..x /\ EpochAt(t, y - 1) \in 0..y - 1
      BY <2>2, Removals
    <3>. QED  BY <3>1
  <2>7. EpochAt(t, x) = EpochAt(t, y)
    BY <1>2, <2>1
  <2>. QED  BY <2>4, <2>5, <2>6, <2>7
<1>3. ~(i < j) /\ ~(j < i)
  BY <1>2
<1>. QED  BY <1>1, <1>3

\* The key a longer log commits to for an epoch is the one the shorter log commits to.
LEMMA CommitmentIs ==
    ASSUME NEW l \in Seq(Op), NEW t \in Seq(Op), Genuine(t), Extends(t, l), l # <<>>,
           NEW a \in Nat, a <= Epoch(l), NEW k, KeyAt(t, a, k), k # NoKey
    PROVE  k = Commitment(l, a)
<1>1. Genuine(l)
  BY GenuinePrefix
<1>2. Epoch(l) \in Nat /\ a \in 0..Epoch(l)
  BY EpochIsNat
<1>3. PICK i \in 1..Len(l) : l[i].epoch = a /\ l[i].key # NoKey /\ l[i].key = Commitment(l, a)
  BY <1>1, <1>2, Commits
<1>4. i \in 1..Len(t) /\ t[i] = l[i]
  BY <1>3 DEF Extends
<1>5. PICK j \in 1..Len(t) : t[j].epoch = a /\ t[j].key = k
  BY DEF KeyAt
<1>6. i = j
  BY <1>3, <1>4, <1>5, OneKeyPerEpoch
<1>. QED  BY <1>3, <1>4, <1>5, <1>6

\* With keys the log commits to, each one for an epoch of the log is taken.
LEMMA AbsorbedAll ==
    ASSUME NEW c, NEW l \in Seq(Op), l # <<>>, NEW held \in Seq(Envelope),
           \A v \in Range(held) : v.epoch <= Epoch(l) => v.key = Commitment(l, v.epoch)
    PROVE  DOMAIN Absorbed(c, l, held)
             = DOMAIN keys[c] \cup {a \in EpochsOf(held) : a <= Epoch(l)}
<1>. DEFINE good == {i \in DOMAIN held : /\ held[i].epoch <= Epoch(l)
                                         /\ held[i].key = Commitment(l, held[i].epoch)}
            new == {held[i].epoch : i \in good} \ DOMAIN keys[c]
            k == [e \in DOMAIN keys[c] \cup new |->
                    IF e \in new THEN Commitment(l, e) ELSE keys[c][e]]
<1>1. Absorbed(c, l, held) = k
  BY DEF Absorbed
<1>2. DOMAIN held = 1..Len(held) /\ \A i \in 1..Len(held) : held[i] \in Range(held)
  BY Members2
<1>3. \A a : a \in EpochsOf(held) <=> \E i \in 1..Len(held) : held[i].epoch = a
  BY EpochsOfIs
<1>4. \A i \in 1..Len(held) : i \in good <=> held[i].epoch <= Epoch(l)
  BY <1>2
<1>5. good \in SUBSET (1..Len(held))
  BY <1>2
<1>6. \A a : a \in new <=> a \notin DOMAIN keys[c] /\ \E i \in good : held[i].epoch = a
  OBVIOUS
<1>7. DOMAIN k = DOMAIN keys[c] \cup new
  OBVIOUS
<1>. HIDE DEF k, new, good
<1>8. \A a : a \in DOMAIN k
               <=> a \in DOMAIN keys[c] \/ (a \in EpochsOf(held) /\ a <= Epoch(l))
  <2>1. TAKE a
  <2>2. ASSUME a \in DOMAIN k, a \notin DOMAIN keys[c]
        PROVE  a \in EpochsOf(held) /\ a <= Epoch(l)
    <3>1. PICK i \in good : held[i].epoch = a
      BY <1>6, <1>7, <2>2
    <3>2. i \in 1..Len(held)
      BY <1>5
    <3>. QED  BY <1>3, <1>4, <3>1, <3>2
  <2>3. ASSUME a \in EpochsOf(held), a <= Epoch(l), a \notin DOMAIN keys[c]
        PROVE  a \in DOMAIN k
    <3>1. PICK i \in 1..Len(held) : held[i].epoch = a
      BY <1>3, <2>3
    <3>2. i \in good
      BY <1>4, <2>3, <3>1
    <3>. QED  BY <1>6, <1>7, <2>3, <3>1, <3>2
  <2>. QED  BY <1>7, <2>2, <2>3
<1>9. DOMAIN k = DOMAIN keys[c] \cup {a \in EpochsOf(held) : a <= Epoch(l)}
  BY <1>8
<1>. QED  BY <1>1, <1>9
\* As many envelopes are taken as there are places for; the older epochs come first.
LEMMA TakenWhole ==
    ASSUME NEW came \in Seq(Envelope), Whole(came), NEW p \in Seq(Envelope)
    PROVE  LET room == IF Len(p) < MaxParked THEN MaxParked - Len(p) ELSE 0
               taken == SubSeq(came, 1, Min({room, Len(came)}))
               T == EpochsOf(taken)
           IN  /\ taken \in Seq(Envelope) /\ T \in SUBSET Nat
               /\ EpochsOf(p \o taken) = EpochsOf(p) \cup T
               /\ T \subseteq EpochsOf(came)
               /\ \A a \in T : 0..a \subseteq T
               /\ EpochsOf(p) = {} => T = EpochsOf(came)
<1>. DEFINE room == IF Len(p) < MaxParked THEN MaxParked - Len(p) ELSE 0
            n == Min({room, Len(came)})
            taken == SubSeq(came, 1, n)
            T == EpochsOf(taken)
<1>1. room \in Nat /\ Len(came) \in Nat /\ Len(p) \in Nat
  BY CapsAssumption
<1>1a. Len(p) = 0 => room = MaxParked
  BY <1>1, CapsAssumption
<1>. HIDE DEF room
<1>2. n \in 0..Len(came) /\ (Len(came) <= room => n = Len(came))
  <2>1. \E x \in {room, Len(came)} : \A y \in {room, Len(came)} : x <= y
    BY <1>1
  <2>2. n \in {room, Len(came)} /\ n <= Len(came) /\ n <= room
    BY <2>1 DEF Min
  <2>. QED  BY <1>1, <2>2
<1>. HIDE DEF n
<1>3. /\ taken \in Seq(Envelope) /\ Len(taken) = n
      /\ \A i \in 1..n : taken[i] = came[i]
  BY <1>2, PrefixIs
<1>. HIDE DEF taken
<1>4. /\ p \o taken \in Seq(Envelope) /\ Len(p) \in Nat /\ Len(taken) \in Nat
      /\ Len(p \o taken) = Len(p) + Len(taken)
      /\ \A i \in 1..Len(p) : (p \o taken)[i] = p[i]
      /\ \A i \in 1..Len(taken) : (p \o taken)[Len(p) + i] = taken[i]
      /\ \A i \in 1..Len(p) + Len(taken) : i \notin 1..Len(p) => i - Len(p) \in 1..Len(taken)
  <2>1. taken \in Seq(Envelope)
    BY <1>3
  <2>. QED  BY <2>1, BothElements
<1>5. /\ \A a : a \in T <=> \E i \in 1..n : came[i].epoch = a
      /\ T \in SUBSET Nat
  <2>1. T \in SUBSET Nat /\ \A a : a \in T <=> \E i \in 1..Len(taken) : taken[i].epoch = a
    BY <1>3, EpochsOfIs
  <2>. HIDE DEF T
  <2>. QED  BY <1>3, <2>1
<1>6. \A a : a \in EpochsOf(came) <=> \E i \in 1..Len(came) : came[i].epoch = a
  BY EpochsOfIs
<1>7. \A a : a \in EpochsOf(p) <=> \E i \in 1..Len(p) : p[i].epoch = a
  BY EpochsOfIs
<1>. HIDE DEF T
<1>8. EpochsOf(p \o taken) = EpochsOf(p) \cup T
  <2>1. \A a : a \in EpochsOf(p \o taken)
                  <=> \E i \in 1..Len(p) + Len(taken) : (p \o taken)[i].epoch = a
    <3>. DEFINE b == p \o taken
    <3>1. b \in Seq(Envelope) /\ Len(b) = Len(p) + Len(taken)
      BY <1>4
    <3>. HIDE DEF b
    <3>2. \A a : a \in EpochsOf(b) <=> \E i \in 1..Len(b) : b[i].epoch = a
      BY <3>1, EpochsOfIs
    <3>3. \A a : a \in EpochsOf(b) <=> \E i \in 1..Len(p) + Len(taken) : b[i].epoch = a
      BY <3>1, <3>2
    <3>. QED  BY <3>3 DEF b
  <2>2. ASSUME NEW a \in EpochsOf(p \o taken)
        PROVE  a \in EpochsOf(p) \cup T
    <3>1. PICK i \in 1..Len(p) + Len(taken) : (p \o taken)[i].epoch = a
      BY <2>1, <2>2
    <3>2. CASE i \in 1..Len(p)
      BY <1>4, <1>7, <3>1, <3>2
    <3>3. CASE i \notin 1..Len(p)
      <4>1. i - Len(p) \in 1..Len(taken)
        BY <1>4, <3>1, <3>3
      <4>2. i = Len(p) + (i - Len(p))
        BY <1>4
      <4>3. (p \o taken)[Len(p) + (i - Len(p))] = taken[i - Len(p)]
        BY <1>4, <4>1
      <4>4. taken[i - Len(p)].epoch = a /\ i - Len(p) \in 1..n
        BY <1>3, <3>1, <4>1, <4>2, <4>3
      <4>. QED  BY <1>3, <1>5, <4>4
    <3>. QED  BY <3>2, <3>3
  <2>3. ASSUME NEW a \in EpochsOf(p)
        PROVE  a \in EpochsOf(p \o taken)
    <3>1. PICK i \in 1..Len(p) : p[i].epoch = a
      BY <1>7, <2>3
    <3>2. i \in 1..Len(p) + Len(taken)
      BY <1>4
    <3>. QED  BY <1>4, <2>1, <3>1, <3>2
  <2>4. ASSUME NEW a \in T
        PROVE  a \in EpochsOf(p \o taken)
    <3>1. PICK i \in 1..n : came[i].epoch = a
      BY <1>5, <2>4
    <3>2. Len(p) + i \in 1..Len(p) + Len(taken) /\ i \in 1..Len(taken)
      BY <1>3, <1>4
    <3>. QED  BY <1>3, <1>4, <2>1, <3>1, <3>2
  <2>. QED  BY <2>2, <2>3, <2>4
<1>9. T \subseteq EpochsOf(came)
  <2>1. \A i \in 1..n : i \in 1..Len(came)
    BY <1>2
  <2>. QED  BY <1>5, <1>6, <2>1
<1>10. ASSUME NEW a \in T
       PROVE  0..a \subseteq T
  <2>1. PICK i \in 1..n : came[i].epoch = a
    BY <1>5, <1>10
  <2>2. i \in DOMAIN came
    BY <1>2
  <2>3. ASSUME NEW b \in 0..a
        PROVE  b \in T
    <3>1. PICK j \in 1..i : came[j].epoch = b
      BY <2>1, <2>2, <2>3 DEF Whole
    <3>2. j \in 1..n
      BY <1>2
    <3>. QED  BY <1>5, <3>1, <3>2
  <2>. QED  BY <2>3
<1>11. EpochsOf(p) = {} => T = EpochsOf(came)
  <2>1. SUFFICES ASSUME EpochsOf(p) = {}
                 PROVE  T = EpochsOf(came)
    OBVIOUS
  <2>2. Len(p) = 0
    <3>1. ~(1 \in 1..Len(p))
      BY <1>7, <2>1
    <3>. QED  BY <1>1, <3>1
  <2>3. n = Len(came)
    BY <1>1, <1>1a, <1>2, <2>2 DEF Whole
  <2>4. \A a : a \in T <=> a \in EpochsOf(came)
    BY <1>5, <1>6, <2>3
  <2>. QED  BY <2>4
<1>. QED  BY <1>3, <1>5, <1>8, <1>9, <1>10, <1>11 DEF room, n, taken, T

\* In an arrangement of a finite set each element has its place.
LEMMA SetToSeqsHasAll ==
    ASSUME NEW S, IsFiniteSet(S), NEW s \in SetToSeqs(S)
    PROVE  /\ Len(s) = Cardinality(S)
           /\ \A x \in S : \E i \in 1..Len(s) : s[i] = x
<1>1. Cardinality(S) \in Nat
  BY FS_CardinalityType
<1>2. s \in [1..Cardinality(S) -> S]
      /\ \A i, j \in 1..Cardinality(S) : i # j => s[i] # s[j]
  BY DEF SetToSeqs
<1>3. Len(s) = Cardinality(S)
  BY <1>1, <1>2
<1>4. s \in Injection(1..Cardinality(S), S)
  BY <1>2 DEF Injection, IsInjective
<1>5. Cardinality(1..Cardinality(S)) = Cardinality(S)
  <2>1. IsFiniteSet(1..Cardinality(S)) /\ Cardinality(1..Cardinality(S))
            = IF 1 > Cardinality(S) THEN 0 ELSE Cardinality(S) - 1 + 1
    BY <1>1, FS_Interval
  <2>. QED  BY <1>1, <2>1
<1>6. s \in Surjection(1..Cardinality(S), S)
  BY <1>4, <1>5, FS_Injection
<1>7. \A x \in S : \E i \in 1..Cardinality(S) : s[i] = x
  BY <1>6 DEF Surjection
<1>. QED  BY <1>3, <1>7

\* An envelope stored is of an epoch of the log, with the key that the log made for it.
LEMMA RowEpoch ==
    ASSUME TypeOK, Genuine(relayLog), RowsCommitted, NEW c, NEW v \in Envelope, Committed(c, v)
    PROVE  KeyAt(relayLog, v.epoch, v.key) /\ v.key # NoKey /\ v.epoch <= Epoch(relayLog)
<1>1. relayLog \in Seq(Op) /\ DOMAIN relayLog = 1..Len(relayLog)
  BY LogTypes
<1>2. KeyAt(relayLog, v.epoch, v.key)
  <2>. DEFINE r == [to |-> c, epoch |-> v.epoch, key |-> v.key]
  <2>1. r \in rows /\ r.epoch = v.epoch /\ r.key = v.key
    BY DEF Committed
  <2>. HIDE DEF r
  <2>2. KeyAt(relayLog, r.epoch, r.key)
    BY <2>1 DEF RowsCommitted
  <2>. QED  BY <2>1, <2>2
<1>3. v.key # NoKey
  <2>1. v.key \in 1..MaxOps + 1
    BY DEF Envelope, Keys
  <2>. QED  BY <2>1, BoundsAssumption DEF NoKey
<1>4. PICK i \in 1..Len(relayLog) : relayLog[i].epoch = v.epoch /\ relayLog[i].key = v.key
  BY <1>1, <1>2 DEF KeyAt
<1>5. v.epoch = EpochAt(relayLog, i)
  BY <1>1, <1>3, <1>4, KeyedEntry
<1>6. i \in 0..Len(relayLog) /\ Len(relayLog) \in 0..Len(relayLog)
  BY <1>1
<1>7. EpochAt(relayLog, i) <= EpochAt(relayLog, Len(relayLog))
  BY <1>1, <1>6, EpochGrows
<1>. QED  BY <1>1, <1>2, <1>3, <1>5, <1>7, EpochOfLog

\* The relay has one envelope of each epoch for a member, and serves them in that order.
LEMMA MineWhole ==
    ASSUME TypeOK, Genuine(relayLog), RowsCommitted, RowsThere, Epoch(relayLog) < MaxParked,
           NEW c \in Client, c \in Members(relayLog),
           NEW mine \in SetToSeqs(Mine(c)),
           \A i, j \in DOMAIN mine : i < j => mine[i].epoch <= mine[j].epoch
    PROVE  /\ mine \in Seq(Envelope) /\ Whole(mine)
           /\ 0..Epoch(relayLog) \subseteq EpochsOf(mine)
           /\ \A v \in Range(mine) : Committed(c, v)
<1>. DEFINE M == Mine(c)
            E == Epoch(relayLog)
<1>1. relayLog \in Seq(Op) /\ E \in Nat /\ MaxParked \in Nat /\ DOMAIN relayLog = 1..Len(relayLog)
  BY LogTypes, EpochIsNat, CapsAssumption
<1>2. M \in SUBSET Envelope
  BY DEF TypeOK, Mine, Row, Envelope
<1>3. IsFiniteSet(M)
  BY <1>2, DataFinite, FS_Subset
<1>4. /\ mine \in Seq(Envelope)
      /\ Len(mine) = Cardinality(M)
      /\ \A x \in M : \E i \in 1..Len(mine) : mine[i] = x
  BY <1>3, MineIs, SetToSeqsHasAll
<1>5. \A i \in 1..Len(mine) : mine[i] \in M
  <2>1. mine \in [1..Cardinality(M) -> M]
    BY DEF SetToSeqs
  <2>. QED  BY <1>4, <2>1
<1>6. \A v \in M : /\ v.epoch \in Nat /\ v.key \in Keys
                   /\ [to |-> c, epoch |-> v.epoch, key |-> v.key] \in rows
  <2>1. SUFFICES ASSUME NEW r \in rows, r.to = c
                 PROVE  /\ r.epoch \in Nat /\ r.key \in Keys
                        /\ [to |-> c, epoch |-> r.epoch, key |-> r.key] \in rows
    BY DEF Mine
  <2>2. r \in Row
    BY <2>1 DEF TypeOK
  <2>3. r = [to |-> c, epoch |-> r.epoch, key |-> r.key]
    BY <2>1, <2>2 DEF Row
  <2>. QED  BY <2>1, <2>2, <2>3, BoundsAssumption DEF Row, Epochs
<1>7. \A r \in rows : r.to = c => [epoch |-> r.epoch, key |-> r.key] \in M
  BY DEF Mine
<1>. HIDE DEF M
<1>8. ASSUME NEW v \in M
      PROVE  KeyAt(relayLog, v.epoch, v.key) /\ v.key # NoKey /\ v.epoch <= E
  <2>1. v \in Envelope /\ Committed(c, v)
    BY <1>2, <1>6, <1>8 DEF Committed
  <2>. QED  BY <2>1, RowEpoch
<1>9. ASSUME NEW v \in M, NEW w \in M, v.epoch = w.epoch
      PROVE  v = w
  <2>1. PICK i \in 1..Len(relayLog) : relayLog[i].epoch = v.epoch /\ relayLog[i].key = v.key
    BY <1>1, <1>8 DEF KeyAt
  <2>2. PICK j \in 1..Len(relayLog) : relayLog[j].epoch = w.epoch /\ relayLog[j].key = w.key
    BY <1>1, <1>8 DEF KeyAt
  <2>3. i = j
    BY <1>1, <1>8, <1>9, <2>1, <2>2, OneKeyPerEpoch
  <2>4. v.key = w.key /\ v \in Envelope /\ w \in Envelope
    BY <1>2, <2>1, <2>2, <2>3
  <2>. QED  BY <1>9, <2>4 DEF Envelope
<1>10. Cardinality(M) <= E + 1
  <2>. DEFINE f == [v \in M |-> v.epoch]
  <2>0. \A v \in M : v.epoch \in 0..E
    <3>1. TAKE v \in M
    <3>2. v.epoch \in Nat /\ v.epoch <= E /\ E \in Nat
      BY <1>1, <1>6, <1>8
    <3>. HIDE DEF E
    <3>. QED  BY <3>2
  <2>1. f \in [M -> 0..E]
    BY <2>0
  <2>2. \A v, w \in M : f[v] = f[w] => v = w
    BY <1>9
  <2>. HIDE DEF f
  <2>3. f \in Injection(M, 0..E)
    BY <2>1, <2>2 DEF Injection, IsInjective
  <2>4. IsFiniteSet(0..E) /\ Cardinality(0..E) = E + 1
    <3>. HIDE DEF E
    <3>0. 0 \in Int /\ E \in Int /\ ~(0 > E)
      BY <1>1
    <3>1. IsFiniteSet(0..E) /\ Cardinality(0..E) = E - 0 + 1
      BY <3>0, FS_Interval
    <3>. QED  BY <1>1, <3>1
  <2>5. Cardinality(M) <= Cardinality(0..E)
    BY <2>3, <2>4, FS_Injection
  <2>. QED  BY <2>4, <2>5
<1>11. ASSUME NEW a \in 0..E
       PROVE  \E v \in M : v.epoch = a
  <2>1. PICK r \in rows : r.to = c /\ r.epoch = a
    BY <1>11 DEF RowsThere, HasRow
  <2>. QED  BY <1>7, <2>1
<1>12. Len(mine) <= MaxParked
  <2>1. Cardinality(M) \in Nat
    BY <1>3, FS_CardinalityType
  <2>. HIDE DEF E
  <2>2. E < MaxParked
    BY DEF E
  <2>. QED  BY <1>1, <1>4, <1>10, <2>1, <2>2
<1>13. ASSUME NEW k \in DOMAIN mine, NEW a \in 0..mine[k].epoch
       PROVE  \E j \in 1..k : mine[j].epoch = a
  <2>1. k \in 1..Len(mine) /\ Len(mine) \in Nat /\ mine[k] \in M
    BY <1>4, <1>5
  <2>2. mine[k].epoch \in Nat /\ mine[k].epoch <= E
    BY <1>6, <1>8, <2>1
  <2>3. a \in 0..E
    BY <1>1, <2>2
  <2>4. PICK j \in 1..Len(mine) : mine[j].epoch = a
    BY <1>4, <1>11, <2>3
  <2>5. CASE j <= k
    <3>1. j \in 1..k
      BY <2>1, <2>5
    <3>. QED  BY <2>4, <3>1
  <2>6. CASE k < j
    <3>1. mine[k].epoch <= mine[j].epoch
      BY <1>4, <2>1, <2>6
    <3>2. a = mine[k].epoch
      BY <2>2, <2>4, <3>1
    <3>. QED  BY <2>1, <3>2
  <2>. QED  BY <2>1, <2>5, <2>6
<1>14. Whole(mine)
  BY <1>12, <1>13 DEF Whole
<1>15. ASSUME NEW a \in 0..E
       PROVE  a \in EpochsOf(mine)
  <2>1. PICK i \in 1..Len(mine) : mine[i].epoch = a
    BY <1>4, <1>11, <1>15
  <2>. QED  BY <1>4, <2>1, EpochsOfIs
<1>16. \A v \in Range(mine) : Committed(c, v)
  <2>1. \A v \in Range(mine) : v \in M
    BY <1>4, <1>5, Members2
  <2>. QED  BY <1>6, <2>1 DEF Committed
<1>. QED  BY <1>4, <1>14, <1>15, <1>16
-----------------------------------------------------------------------------
(* A step of the space. *)

\* A step between two states in which the property speaks.
Steady ==
    /\ TypeOK /\ TypeOK' /\ Undisturbed /\ Undisturbed'
    /\ Sound
    /\ LogsGenuine /\ LogsAgree /\ ChangesFromOwner /\ KeysFromLogs
    /\ Queued(up[Creator], Len(relayLog), Len(log[Creator]))
    /\ ~refused'

Same(c) ==
    /\ log'[c] = log[c] /\ served'[c] = served[c] /\ keys'[c] = keys[c] /\ parked'[c] = parked[c]
    /\ up'[c] = up[c] /\ down'[c] = down[c]
    /\ pending'[c] = pending[c] /\ waiting'[c] = waiting[c] /\ fetching'[c] = fetching[c]

\* What holds in a steady step.
LEMMA SteadyFacts ==
    ASSUME Steady
    PROVE  /\ Creator \in Client /\ Running \in SUBSET Client
           /\ relayLog \in Seq(Op) /\ relayLog # <<>> /\ Genuine(relayLog)
           /\ DOMAIN relayLog = 1..Len(relayLog) /\ Len(relayLog) \in Nat
           /\ Epoch(relayLog) \in Nat
           /\ log[Creator] \in Seq(Op) /\ log[Creator] # <<>> /\ Genuine(log[Creator])
           /\ Extends(log[Creator], relayLog)
           /\ \A c \in Client : Epoch(log[c]) \in Nat
           /\ \A c \in Client : c # Creator => Extends(relayLog, log[c]) /\ log[c] = served[c]
           /\ \A c \in Running : connected[c]
           /\ faults = 0 /\ stale = 0 /\ faults' = 0 /\ stale' = 0
<1>1. /\ Creator \in Client /\ Running \in SUBSET Client
      /\ relayLog \in Seq(Op) /\ \A c \in Client : log[c] \in Seq(Op)
  BY LogTypes, CreatorIsClient DEF Steady
<1>2. DOMAIN relayLog = 1..Len(relayLog) /\ Len(relayLog) \in Nat
  BY <1>1
<1>3. Epoch(relayLog) \in Nat /\ \A c \in Client : Epoch(log[c]) \in Nat
  BY <1>1, EpochIsNat
<1>4. faults = 0 /\ stale = 0 /\ faults' = 0 /\ stale' = 0
  BY DEF Steady, Undisturbed
<1>5. log[Creator] # <<>> /\ Extends(log[Creator], relayLog)
  BY <1>4 DEF Steady, LogsAgree
<1>6. relayLog # <<>> /\ Genuine(relayLog) /\ Genuine(log[Creator])
  BY DEF Steady, LogsGenuine
<1>7. \A c \in Client : c # Creator => Extends(relayLog, log[c]) /\ log[c] = served[c]
  BY DEF Steady, LogsAgree, Sound, Ground, Aligned
<1>8. \A c \in Running : connected[c]
  BY DEF Steady, Sound, Ground
<1>. QED  BY <1>1, <1>2, <1>3, <1>4, <1>5, <1>6, <1>7, <1>8

\* Only client c is concerned.
LEMMA OneClientsStep ==
    ASSUME Steady, NEW c \in Client, UNCHANGED <<relayLog, rows, connected>>,
           \A d \in Client \ {c} : Same(d),
           frames \subseteq frames',
           \A f \in frames' : \/ f \in frames
                              \/ f.epoch <= Epoch(relayLog) /\ CanAuthorContent(relayLog, f.by),
           Aligned(c)', c = Creator => OwnerGround',
           Lasting(c) => Path(c)'
    PROVE  Sound'
<1>1. \A d \in Client : Lasting(d)' <=> Lasting(d)
  BY DEF Lasting, Named
<1>2. \A d \in Running : connected'[d]
  BY DEF Steady, Sound, Ground
<1>3. FramesKnown'
  BY DEF Steady, Sound, Ground, FramesKnown
<1>4. OwnerGround'
  <2>1. CASE c = Creator
    BY <2>1
  <2>2. CASE c # Creator
    <3>1. Same(Creator)
      BY <2>2, SteadyFacts
    <3>2. OwnerGround
      BY DEF Steady, Sound, Ground
    <3>3. RowsCommitted' /\ RowsThere'
      <4>1. up'[Creator] = up[Creator] /\ log'[Creator] = log[Creator]
        BY <3>1 DEF Same
      <4>2. RowsCommitted'
        BY <3>2, <4>1 DEF OwnerGround, RowsCommitted
      <4>3. \A q : RowsFor(q)' <=> RowsFor(q)
        BY <4>1 DEF RowsFor
      <4>4. \A q \in Range(up'[Creator]) : IsChange(q) => RowsFor(q)'
        BY <3>2, <4>1, <4>3 DEF OwnerGround, RowsThere
      <4>5. RowsThere'
        BY <3>2, <4>4 DEF OwnerGround, RowsThere, IsChange, RowsFor, HasRow
      <4>. QED  BY <4>2, <4>5
    <3>4. OwnerCurrent'
      BY <3>1, <3>2 DEF OwnerGround, OwnerCurrent, Same
    <3>5. OwnerFrames'
      BY <3>1, <3>2 DEF OwnerGround, OwnerFrames, Same
    <3>. QED  BY <3>3, <3>4, <3>5 DEF OwnerGround
  <2>. QED  BY <2>1, <2>2
<1>5. ASSUME NEW d \in Client
      PROVE  Aligned(d)'
  <2>1. CASE d = c
    BY <2>1
  <2>2. CASE d # c
    <3>1. Same(d) /\ Aligned(d)
      BY <2>2 DEF Steady, Sound, Ground
    <3>2. FramesOf(d)'
      BY <3>1 DEF Same, Aligned, FramesOf
    <3>3. EnvelopesOf(d)'
      BY <3>1 DEF Same, Aligned, EnvelopesOf, Committed
    <3>4. d # Creator /\ ~Named(d)' => Blank(d)'
      BY <3>1 DEF Same, Aligned, Named, Blank
    <3>5. d # Creator => log'[d] = served'[d]
      BY <3>1 DEF Same, Aligned
    <3>. QED  BY <3>2, <3>3, <3>4, <3>5 DEF Aligned
  <2>. QED  BY <2>1, <2>2
<1>6. ASSUME NEW d \in Client, Lasting(d)
      PROVE  Path(d)'
  <2>1. CASE d = c
    BY <1>6, <2>1
  <2>2. CASE d # c
    BY <1>6, <2>2 DEF Steady, Sound, Same, Path
  <2>. QED  BY <2>1, <2>2
<1>. QED  BY <1>1, <1>2, <1>3, <1>4, <1>5, <1>6 DEF Sound, Ground

\* Nothing comes to or from the client that the relay does not know of.
LEMMA AlignedStep ==
    ASSUME Steady, NEW c \in Client, UNCHANGED <<relayLog, rows>>, frames \subseteq frames',
           c = Creator \/ Named(c),
           c # Creator => log'[c] = served'[c],
           waiting'[c] \subseteq frames',
           \A q \in Range(up'[c]) :
               \/ q \in Range(up[c]) \/ ~IsPush(q)
               \/ q.frame.by = c /\ (c # Creator => q.frame.epoch <= Epoch(relayLog)),
           \A d \in Range(down'[c]) :
               \/ d \in Range(down[c])
               \/ /\ d.type = "Frame" => d.frame \in frames'
                  /\ d.type = "Envelopes" =>
                        Whole(d.envelopes) /\ \A v \in Range(d.envelopes) : Committed(c, v),
           \A v \in Range(parked'[c]) : Committed(c, v)
    PROVE  Aligned(c)'
<1>1. Aligned(c)
  BY DEF Steady, Sound, Ground
<1>2. \A v : Committed(c, v)' <=> Committed(c, v)
  BY DEF Committed
<1>3. FramesOf(c)'
  <2>1. \A d \in Range(down'[c]) : d.type = "Frame" => d.frame \in frames'
    BY <1>1 DEF Aligned, FramesOf
  <2>2. \A q \in Range(up'[c]) : IsPush(q) =>
            q.frame.by = c /\ (c # Creator => q.frame.epoch <= Epoch(relayLog'))
    BY <1>1 DEF Aligned, FramesOf
  <2>. QED  BY <2>1, <2>2 DEF FramesOf, IsPush
<1>4. EnvelopesOf(c)'
  <2>1. \A d \in Range(down'[c]) : d.type = "Envelopes" =>
            Whole(d.envelopes) /\ \A v \in Range(d.envelopes) : Committed(c, v)
    BY <1>1 DEF Aligned, EnvelopesOf
  <2>2. \A d \in Range(down'[c]) : d.type = "Envelopes" =>
            Whole(d.envelopes) /\ \A v \in Range(d.envelopes) : Committed(c, v)'
    BY <1>2, <2>1
  <2>3. \A v \in Range(parked'[c]) : Committed(c, v)'
    BY <1>2
  <2>. QED  BY <2>2, <2>3 DEF EnvelopesOf, Committed
<1>5. ~(c # Creator /\ ~Named(c)')
  BY DEF Named
<1>. QED  BY <1>3, <1>4, <1>5 DEF Aligned
-----------------------------------------------------------------------------
(* The owner. *)

LEMMA PushesTaken ==
    ASSUME NEW l, NEW u \in Seq(UpMessages), u # <<>>, PushesAfter(l, u)
    PROVE  PushesAfter(l, Tail(u))
<1>. DEFINE t == Tail(u)
<1>1. /\ DOMAIN u = 1..Len(u) /\ Len(u) \in Nat
      /\ DOMAIN t = 1..Len(u) - 1 /\ \A i \in 1..Len(u) - 1 : t[i] = u[i + 1]
  BY TailElements
<1>. HIDE DEF t
<1>2. \A i \in DOMAIN t : i \in Nat /\ i + 1 \in DOMAIN u /\ t[i] = u[i + 1]
  BY <1>1
<1>3. SUFFICES ASSUME NEW i \in DOMAIN t, IsPush(t[i])
               PROVE  /\ t[i].frame.epoch <= Epoch(l)
                      /\ \A j \in DOMAIN t : j > i /\ IsChange(t[j]) =>
                            t[i].frame.epoch <= EpochAt(l, t[j].op.seq)
  BY DEF PushesAfter, t
<1>4. t[i] = u[i + 1] /\ i + 1 \in DOMAIN u /\ i \in Nat
  BY <1>2
<1>5. t[i].frame.epoch <= Epoch(l)
  BY <1>3, <1>4 DEF PushesAfter
<1>6. ASSUME NEW j \in DOMAIN t, j > i, IsChange(t[j])
      PROVE  t[i].frame.epoch <= EpochAt(l, t[j].op.seq)
  <2>1. t[j] = u[j + 1] /\ j + 1 \in DOMAIN u /\ j + 1 > i + 1
    BY <1>2, <1>4, <1>6
  <2>. QED  BY <1>3, <1>4, <1>6, <2>1 DEF PushesAfter
<1>. QED  BY <1>5, <1>6

LEMMA PushesAdded ==
    ASSUME NEW l, NEW u \in Seq(UpMessages), NEW q \in Seq(UpMessages), PushesAfter(l, u),
           \A x \in Range(q) : ~IsChange(x) /\ (IsPush(x) => x.frame.epoch <= Epoch(l))
    PROVE  PushesAfter(l, u \o q)
<1>. DEFINE b == u \o q
            n == Len(u)
<1>1. /\ n \in Nat /\ Len(q) \in Nat /\ DOMAIN u = 1..n /\ DOMAIN b = 1..n + Len(q)
      /\ \A i \in 1..n : b[i] = u[i]
      /\ \A i \in 1..Len(q) : b[n + i] = q[i]
      /\ \A i \in 1..n + Len(q) : i \notin 1..n => i - n \in 1..Len(q)
  BY BothElements
<1>. HIDE DEF b, n
<1>2. ASSUME NEW i \in DOMAIN b, i \notin DOMAIN u
      PROVE  b[i] \in Range(q)
  <2>1. i - n \in 1..Len(q) /\ i = n + (i - n)
    BY <1>1, <1>2
  <2>2. b[i] = q[i - n]
    BY <1>1, <2>1
  <2>. QED  BY <2>1, <2>2, Members2
<1>3. SUFFICES ASSUME NEW i \in DOMAIN b, IsPush(b[i])
               PROVE  /\ b[i].frame.epoch <= Epoch(l)
                      /\ \A j \in DOMAIN b : j > i /\ IsChange(b[j]) =>
                            b[i].frame.epoch <= EpochAt(l, b[j].op.seq)
  BY DEF PushesAfter, b
<1>4. \A j \in DOMAIN b : IsChange(b[j]) => j \in DOMAIN u /\ b[j] = u[j]
  BY <1>1, <1>2
<1>5. CASE i \in DOMAIN u
  BY <1>1, <1>3, <1>4, <1>5 DEF PushesAfter
<1>6. CASE i \notin DOMAIN u
  <2>1. b[i].frame.epoch <= Epoch(l)
    BY <1>2, <1>3, <1>6
  <2>2. \A j \in DOMAIN b : j > i => j \notin DOMAIN u
    BY <1>1, <1>6
  <2>. QED  BY <1>4, <2>1, <2>2
<1>. QED  BY <1>5, <1>6

\* The owner keeps its log and its keys; it sends a frame, or the relay takes a message.
LEMMA OwnerStep ==
    ASSUME Steady, UNCHANGED <<relayLog, rows>>,
           log'[Creator] = log[Creator], DOMAIN keys'[Creator] = DOMAIN keys[Creator],
           waiting'[Creator] = {},
           \/ up'[Creator] = up[Creator]
           \/ up[Creator] # <<>> /\ up'[Creator] = Tail(up[Creator])
           \/ \E q \in Seq(UpMessages) :
                /\ up'[Creator] = up[Creator] \o q
                /\ \A x \in Range(q) :
                    ~IsChange(x) /\ (IsPush(x) => x.frame.epoch <= Epoch(log[Creator]))
    PROVE  OwnerGround'
<1>. DEFINE u == up[Creator]
            v == up'[Creator]
<1>1. u \in Seq(UpMessages) /\ OwnerGround
  BY LogTypes DEF Steady, Sound, Ground
<1>2. \A x \in Range(v) : IsChange(x) => x \in Range(u)
  <2>1. CASE v = u
    BY <2>1
  <2>2. CASE u # <<>> /\ v = Tail(u)
    BY <1>1, <2>2, RangeOfTail
  <2>3. ASSUME NEW q \in Seq(UpMessages), v = u \o q, \A x \in Range(q) : ~IsChange(x)
        PROVE  \A x \in Range(v) : IsChange(x) => x \in Range(u)
    BY <1>1, <2>3, RangeOfBoth
  <2>. QED  BY <2>1, <2>2, <2>3
<1>3. PushesAfter(log[Creator], v)
  <2>1. PushesAfter(log[Creator], u)
    BY <1>1 DEF OwnerGround, OwnerFrames
  <2>. QED  BY <1>1, <2>1, PushesTaken, PushesAdded
<1>4. RowsCommitted'
  <2>1. \A x \in Range(up'[Creator]) : IsChange(x) =>
            \A r \in x.rows : KeyAt(SubSeq(log[Creator], 1, x.op.seq + 1), r.epoch, r.key)
    BY <1>1, <1>2 DEF OwnerGround, RowsCommitted
  <2>. QED  BY <1>1, <2>1 DEF OwnerGround, RowsCommitted
<1>5. RowsThere'
  <2>1. \A x : RowsFor(x)' <=> RowsFor(x)
    BY DEF RowsFor
  <2>2. \A x \in Range(up'[Creator]) : IsChange(x) => RowsFor(x)'
    BY <1>1, <1>2, <2>1 DEF OwnerGround, RowsThere
  <2>. QED  BY <1>1, <2>2 DEF OwnerGround, RowsThere, IsChange, RowsFor, HasRow
<1>6. OwnerCurrent'
  BY <1>1 DEF OwnerGround, OwnerCurrent
<1>7. OwnerFrames'
  BY <1>3 DEF OwnerFrames
<1>. QED  BY <1>4, <1>5, <1>6, <1>7 DEF OwnerGround

\* An engine without a place in the log has nothing; the owner has the log.
LEMMA NamedIfBusy ==
    ASSUME Steady, NEW c \in Client,
           \/ log[c] # <<>> \/ up[c] # <<>> \/ down[c] # <<>> \/ pending[c] \/ waiting[c] # {}
    PROVE  c = Creator \/ Named(c)
BY DEF Steady, Sound, Ground, Aligned, Blank

LEMMA NamedIfMember ==
    ASSUME Steady, NEW c \in Client
    PROVE  /\ IsMember(c) => Named(c)
           /\ Lasting(c) => IsMember(c)
           /\ IsMember(Creator)
<1>1. relayLog \in Seq(Op) /\ DOMAIN relayLog = 1..Len(relayLog) /\ Len(relayLog) \in Nat
      /\ Genuine(relayLog) /\ relayLog # <<>> /\ Creator \in Client
  BY SteadyFacts
<1>2. ASSUME Role(relayLog, c) # "None"
      PROVE  Named(c)
  BY <1>1, <1>2, RoleFrom DEF Named
<1>3. ASSUME Lasting(c), Role(relayLog, c) = "None"
      PROVE  FALSE
  <2>1. PICK i \in 1..Len(relayLog) : relayLog[i].who = c
    BY <1>1, <1>3 DEF Lasting, Named
  <2>. QED  BY <1>1, <1>3, <2>1, NoRole DEF Lasting
<1>4. Role(relayLog, Creator) = "Owner"
  <2>1. Len(relayLog) \in 1..Len(relayLog) /\ SubSeq(relayLog, 1, Len(relayLog)) = relayLog
    BY <1>1
  <2>. QED  BY <1>1, <2>1, CreatorStays
<1>. QED  BY <1>1, <1>2, <1>3, <1>4 DEF IsMember, Members
-----------------------------------------------------------------------------
(* Commands and flushes. *)

LEMMA OwnerSeals ==
    ASSUME Steady
    PROVE  /\ Joined(Creator) /\ CanSeal(Creator) /\ waiting[Creator] = {}
           /\ DOMAIN keys[Creator] = 0..Epoch(log[Creator]) /\ Epoch(log[Creator]) \in Nat
<1>1. /\ DOMAIN keys[Creator] = 0..Epoch(log[Creator]) /\ waiting[Creator] = {}
      /\ Epoch(log[Creator]) \in Nat /\ log[Creator] # <<>>
  BY SteadyFacts DEF Steady, Sound, Ground, OwnerGround, OwnerCurrent
<1>2. Epoch(log[Creator]) \in DOMAIN keys[Creator]
  BY <1>1
<1>. QED  BY <1>1, <1>2 DEF Joined, CanSeal, SealingEpochs

\* The path of a member, in the state before and in the one after.
LEMMA PathIs ==
    ASSUME Steady, NEW c \in Client, Lasting(c)
    PROVE  /\ PathOf(c, Epoch(relayLog), log[c], DOMAIN keys[c], EpochsOf(parked[c]), up[c], down[c],
                     pending[c], waiting[c], fetching[c])
           /\ log[c] \in Seq(Op) /\ up[c] \in Seq(UpMessages) /\ down[c] \in Seq(DownMessages)
           /\ parked[c] \in Seq(Envelope) /\ Epoch(relayLog) \in Nat /\ c # Creator
BY SteadyFacts, LogTypes DEF Steady, Sound, Path, Lasting

\* Requests are added to those of one client.
LEMMA RequestsStep ==
    ASSUME Steady, NEW c \in Client, NEW q \in Seq(UpMessages),
           UNCHANGED <<relayLog, rows, frames, connected>>,
           \A d \in Client \ {c} : Same(d),
           up'[c] = up[c] \o q, \A x \in Range(q) : x.type \in Answers,
           log'[c] = log[c], served'[c] = served[c], keys'[c] = keys[c], parked'[c] = parked[c],
           down'[c] = down[c], waiting'[c] = waiting[c], pending'[c] = pending[c],
           c = Creator \/ Named(c),
           log[c] # <<>> \/ (OneFirst(q) /\ Has(q, "Membership") /\ Has(q, "Envelopes")),
           "Membership" \in fetching'[c] => "Membership" \in fetching[c] \/ Has(q, "Membership")
    PROVE  Sound'
<1>1. up[c] \in Seq(UpMessages) /\ Aligned(c)
  BY LogTypes DEF Steady, Sound, Ground
<1>2. \A x \in Range(q) : ~IsChange(x) /\ ~IsPush(x)
  BY DEF Answers, IsChange, IsPush
<1>3. Aligned(c)'
  <2>1. \A x \in Range(up'[c]) : x \in Range(up[c]) \/ ~IsPush(x)
    BY <1>1, <1>2, RangeOfBoth
  <2>2. c # Creator => log'[c] = served'[c]
    BY <1>1 DEF Aligned
  <2>3. waiting'[c] \subseteq frames' /\ \A v \in Range(parked'[c]) : Committed(c, v)
    BY <1>1 DEF Aligned, FramesOf, EnvelopesOf
  <2>. QED  BY <2>1, <2>2, <2>3, AlignedStep
<1>4. c = Creator => OwnerGround'
  BY <1>2, OwnerStep, OwnerSeals
<1>5. ASSUME Lasting(c)
      PROVE  Path(c)'
  <2>1. PathOf(c, Epoch(relayLog), log[c], DOMAIN keys[c], EpochsOf(parked[c]), up[c] \o q, down[c],
               pending[c], waiting[c], fetching'[c])
    BY <1>5, PathIs, MoreRequests
  <2>. QED  BY <2>1 DEF Path
<1>. QED  BY <1>3, <1>4, <1>5, OneClientsStep

LEMMA FetchesAre ==
    /\ \A q \in {<<Fetch("Membership"), Fetch("Envelopes")>>,
                 <<Fetch("Envelopes"), Fetch("Membership")>>} :
        /\ q \in Seq(UpMessages) /\ \A x \in Range(q) : x.type \in Answers
        /\ OneFirst(q) /\ Has(q, "Membership") /\ Has(q, "Envelopes")
    /\ \A a \in Answers :
        /\ <<Fetch(a)>> \in Seq(UpMessages) /\ \A x \in Range(<<Fetch(a)>>) : x.type \in Answers
        /\ Has(<<Fetch(a)>>, a)
<1>1. ASSUME NEW a \in Answers, NEW b \in Answers, a # b
      PROVE  LET q == <<Fetch(a), Fetch(b)>>
             IN  /\ \A x \in Range(q) : x.type \in Answers
                 /\ OneFirst(q) /\ Has(q, a) /\ Has(q, b)
  <2>. DEFINE q == <<Fetch(a), Fetch(b)>>
  <2>1. DOMAIN q = {1, 2} /\ q[1].type = a /\ q[2].type = b
    BY DEF Fetch
  <2>. HIDE DEF q
  <2>2. \A x \in Range(q) : x.type \in Answers
    BY <2>1 DEF Range
  <2>3. OneFirst(q) /\ Has(q, a) /\ Has(q, b)
    BY <1>1, <2>1 DEF OneFirst, Has
  <2>. QED  BY <2>2, <2>3 DEF q
<1>2. ASSUME NEW a \in Answers
      PROVE  (\A x \in Range(<<Fetch(a)>>) : x.type \in Answers) /\ Has(<<Fetch(a)>>, a)
  <2>1. \A x \in Range(<<Fetch(a)>>) : x.type \in Answers
    BY RangeOfOne DEF Fetch
  <2>2. 1 \in DOMAIN <<Fetch(a)>> /\ <<Fetch(a)>>[1].type = a
    BY DEF Fetch
  <2>. QED  BY <2>1, <2>2 DEF Has
<1>3. "Membership" \in Answers /\ "Envelopes" \in Answers
  BY DEF Answers
<1>4. /\ \A x \in Range(<<Fetch("Membership"), Fetch("Envelopes")>>) : x.type \in Answers
      /\ OneFirst(<<Fetch("Membership"), Fetch("Envelopes")>>)
      /\ Has(<<Fetch("Membership"), Fetch("Envelopes")>>, "Membership")
      /\ Has(<<Fetch("Membership"), Fetch("Envelopes")>>, "Envelopes")
  BY <1>1, <1>3
<1>5. /\ \A x \in Range(<<Fetch("Envelopes"), Fetch("Membership")>>) : x.type \in Answers
      /\ OneFirst(<<Fetch("Envelopes"), Fetch("Membership")>>)
      /\ Has(<<Fetch("Envelopes"), Fetch("Membership")>>, "Membership")
      /\ Has(<<Fetch("Envelopes"), Fetch("Membership")>>, "Envelopes")
  BY <1>1, <1>3
<1>. QED  BY <1>2, <1>4, <1>5, FetchesTyped

LEMMA JoinSpaceSound ==
    ASSUME Steady, NEW c \in Running, JoinSpace(c)
    PROVE  Sound'
<1>. DEFINE q == <<Fetch("Membership"), Fetch("Envelopes")>>
<1>1. c \in Client /\ TypeOK
  BY SteadyFacts DEF Steady
<1>2. /\ Send(c, q) /\ Named(c)
      /\ UNCHANGED <<relayLog, rows, frames, connected, down, log, served, keys, parked, fetching,
                     pending, waiting>>
  BY DEF JoinSpace, relayVars, spaceVars, docVars, Named
<1>3. /\ q \in Seq(UpMessages) /\ \A x \in Range(q) : x.type \in Answers
      /\ OneFirst(q) /\ Has(q, "Membership") /\ Has(q, "Envelopes")
  BY FetchesAre
<1>. HIDE DEF q
<1>4. up'[c] = up[c] \o q /\ \A d \in Client : d # c => up'[d] = up[d]
  BY <1>1, <1>2, <1>3, UpSent
<1>5. \A d \in Client \ {c} : Same(d)
  BY <1>2, <1>4 DEF Same
<1>. QED  BY <1>1, <1>2, <1>3, <1>4, <1>5, RequestsStep

LEMMA FlushStallsSound ==
    ASSUME Steady, NEW c \in Running, FlushStalls(c)
    PROVE  Sound'
<1>1. c \in Client /\ TypeOK /\ connected[c]
  BY SteadyFacts DEF Steady
<1>2. /\ Request(c, "Envelopes") /\ pending[c]
      /\ UNCHANGED <<relayLog, rows, frames, connected, down, log, served, keys, parked, pending,
                     waiting>>
  BY DEF FlushStalls, relayVars, spaceVars, docVars
<1>3. log[c] # <<>>
  BY DEF FlushStalls, CanWrite, Writing, Role
<1>4. c = Creator \/ Named(c)
  BY <1>1, <1>3, NamedIfBusy
<1>5. fetching' = [fetching EXCEPT ![c] = @ \cup {"Envelopes"}]
  BY <1>2 DEF Request
<1>6. /\ fetching'[c] = fetching[c] \cup {"Envelopes"}
      /\ \A d \in Client : d # c => fetching'[d] = fetching[d]
  BY <1>1, <1>5 DEF TypeOK
<1>7. "Membership" \in fetching'[c] => "Membership" \in fetching[c]
  BY <1>6
<1>8. CASE UNCHANGED up
  <2>1. up'[c] = up[c] \o <<>> /\ <<>> \in Seq(UpMessages) /\ \A x \in Range(<<>>) : x.type \in Answers
    BY <1>1, <1>8, LogTypes DEF Range
  <2>2. \A d \in Client \ {c} : Same(d)
    BY <1>2, <1>6, <1>8 DEF Same
  <2>. QED  BY <1>1, <1>2, <1>3, <1>4, <1>7, <2>1, <2>2, RequestsStep
<1>9. CASE Send(c, <<Fetch("Envelopes")>>)
  <2>. DEFINE q == <<Fetch("Envelopes")>>
  <2>1. q \in Seq(UpMessages) /\ \A x \in Range(q) : x.type \in Answers
    BY FetchesAre DEF Answers
  <2>. HIDE DEF q
  <2>2. up'[c] = up[c] \o q /\ \A d \in Client : d # c => up'[d] = up[d]
    BY <1>1, <1>9, <2>1, UpSent DEF q
  <2>3. \A d \in Client \ {c} : Same(d)
    BY <1>2, <1>6, <2>2 DEF Same
  <2>. QED  BY <1>1, <1>2, <1>3, <1>4, <1>7, <2>1, <2>2, <2>3, RequestsStep
<1>. QED  BY <1>2, <1>8, <1>9 DEF Request

\* Edits come, and go when the user may not write.
LEMMA EditSound ==
    ASSUME Steady, NEW c \in Running, Edit(c) \/ FlushDrops(c)
    PROVE  Sound'
<1>1. c \in Client /\ TypeOK
  BY SteadyFacts DEF Steady
<1>2. /\ \A d \in Client : d # c => pending'[d] = pending[d]
      /\ UNCHANGED <<relayLog, rows, frames, connected, up, down, log, served, keys, parked, fetching,
                     waiting>>
  BY <1>1 DEF Edit, FlushDrops, relayVars, linkVars, spaceVars, TypeOK
<1>3. log[c] # <<>> \/ pending[c]
  BY DEF Edit, FlushDrops, Joined
<1>4. c = Creator \/ Named(c)
  BY <1>1, <1>3, NamedIfBusy
<1>5. Aligned(c)
  BY <1>1 DEF Steady, Sound, Ground
<1>6. Aligned(c)'
  <2>1. c # Creator => log'[c] = served'[c]
    BY <1>2, <1>5 DEF Aligned
  <2>2. waiting'[c] \subseteq frames' /\ \A v \in Range(parked'[c]) : Committed(c, v)
    BY <1>2, <1>5 DEF Aligned, FramesOf, EnvelopesOf
  <2>. QED  BY <1>1, <1>2, <1>4, <2>1, <2>2, AlignedStep
<1>7. c = Creator => OwnerGround'
  BY <1>2, OwnerStep, OwnerSeals
<1>8. ASSUME Lasting(c)
      PROVE  Path(c)'
  <2>1. PathOf(c, Epoch(relayLog), log[c], DOMAIN keys[c], EpochsOf(parked[c]), up[c], down[c],
               pending[c], waiting[c], fetching[c])
    BY <1>1, <1>8, PathIs
  <2>2. log[c] # <<>>
    BY <1>3, <2>1 DEF PathOf, NothingYet
  <2>3. PathOf(c, Epoch(relayLog), log[c], DOMAIN keys[c], EpochsOf(parked[c]), up[c], down[c],
               pending'[c], waiting[c], fetching[c])
    BY <2>1, <2>2, EditsChange
  <2>. QED  BY <1>2, <2>3 DEF Path
<1>9. \A d \in Client \ {c} : Same(d)
  BY <1>2 DEF Same
<1>. QED  BY <1>1, <1>2, <1>6, <1>7, <1>8, <1>9, OneClientsStep

\* A frame is of the epoch of the log it was sealed with.
LEMMA FlushSealsSound ==
    ASSUME Steady, NEW c \in Running, FlushSeals(c)
    PROVE  Sound'
<1>. DEFINE e == Max(SealingEpochs(c))
            f == [by |-> c, n |-> sealed + 1, epoch |-> e, key |-> keys[c][e]]
            q == <<[type |-> "PushUpdate", frame |-> f]>>
<1>1. c \in Client /\ TypeOK /\ TypeOK' /\ connected[c]
  BY SteadyFacts DEF Steady
<1>2. /\ Send(c, q) /\ pending' = [pending EXCEPT ![c] = FALSE] /\ pending[c] /\ CanSeal(c)
      /\ outbox' = [outbox EXCEPT ![c] = @ \cup {f}]
      /\ UNCHANGED <<relayLog, rows, frames, connected, down, log, served, keys, parked, fetching,
                     waiting>>
  BY <1>1 DEF FlushSeals, relayVars, spaceVars
<1>3. e = Epoch(log[c])
  BY <1>1, <1>2, SealingKey
<1>4. f.by = c /\ f.epoch = Epoch(log[c]) /\ f \in Frame
  <2>1. f \in outbox'[c] /\ outbox'[c] \in SUBSET Frame
    BY <1>1, <1>2 DEF TypeOK
  <2>. QED  BY <1>3, <2>1
<1>5. log[c] # <<>>
  BY DEF FlushSeals, CanWrite, Writing, Role
<1>. HIDE DEF f, e
<1>6. /\ q \in Seq(UpMessages)
      /\ \A x \in Range(q) : /\ ~IsChange(x) /\ x.frame = f
                             /\ x.type # "Membership" /\ x.type # "Envelopes"
  <2>1. [type |-> "PushUpdate", frame |-> f] \in UpMessages
    BY <1>4, UpMessageIs
  <2>2. Range(q) = {[type |-> "PushUpdate", frame |-> f]}
    BY RangeOfOne
  <2>. QED  BY <2>1, <2>2 DEF IsChange
<1>. HIDE DEF q
<1>7. up'[c] = up[c] \o q /\ \A d \in Client : d # c => up'[d] = up[d]
  BY <1>1, <1>2, <1>6, UpSent
<1>8. pending'[c] = FALSE /\ \A d \in Client : d # c => pending'[d] = pending[d]
  BY <1>1, <1>2 DEF TypeOK
<1>9. c = Creator \/ Named(c)
  BY <1>1, <1>2, NamedIfBusy
<1>10. Aligned(c) /\ up[c] \in Seq(UpMessages)
  BY <1>1, LogTypes DEF Steady, Sound, Ground
<1>11. c # Creator => Epoch(log[c]) <= Epoch(relayLog)
  <2>1. log[c] \in Seq(Op) /\ relayLog \in Seq(Op) /\ (c # Creator => Extends(relayLog, log[c]))
    BY <1>1, LogTypes, SteadyFacts
  <2>. QED  BY <2>1, EpochsCompare
<1>12. Aligned(c)'
  <2>1. c # Creator => log'[c] = served'[c]
    BY <1>2, <1>10 DEF Aligned
  <2>2. waiting'[c] \subseteq frames' /\ \A v \in Range(parked'[c]) : Committed(c, v)
    BY <1>2, <1>10 DEF Aligned, FramesOf, EnvelopesOf
  <2>3. \A x \in Range(up'[c]) :
           \/ x \in Range(up[c])
           \/ x.frame.by = c /\ (c # Creator => x.frame.epoch <= Epoch(relayLog))
    BY <1>4, <1>6, <1>7, <1>10, <1>11, RangeOfBoth
  <2>. QED  BY <1>1, <1>2, <1>9, <2>1, <2>2, <2>3, AlignedStep
<1>13. c = Creator => OwnerGround'
  <2>1. SUFFICES ASSUME c = Creator PROVE OwnerGround'
    OBVIOUS
  <2>2. Epoch(log[Creator]) <= Epoch(log[Creator])
    BY OwnerSeals
  <2>3. \A x \in Range(q) : ~IsChange(x) /\ (IsPush(x) => x.frame.epoch <= Epoch(log[Creator]))
    BY <1>4, <1>6, <2>1, <2>2
  <2>4. waiting'[Creator] = {} /\ DOMAIN keys'[Creator] = DOMAIN keys[Creator]
    BY <1>2, OwnerSeals
  <2>. QED  BY <1>2, <1>6, <1>7, <2>1, <2>3, <2>4, OwnerStep
<1>14. ASSUME Lasting(c)
       PROVE  Path(c)'
  <2>1. /\ PathOf(c, Epoch(relayLog), log[c], DOMAIN keys[c], EpochsOf(parked[c]), up[c], down[c],
                  pending[c], waiting[c], fetching[c])
        /\ log[c] \in Seq(Op) /\ Epoch(relayLog) \in Nat
    BY <1>1, <1>14, PathIs
  <2>2. PathOf(c, Epoch(relayLog), log[c], DOMAIN keys[c], EpochsOf(parked[c]), up[c] \o q, down[c],
               pending[c], waiting[c], fetching[c])
    BY <1>5, <1>6, <1>10, <2>1, MoreRequests
  <2>3. PathOf(c, Epoch(relayLog), log[c], DOMAIN keys[c], EpochsOf(parked[c]), up[c] \o q, down[c],
               pending'[c], waiting[c], fetching[c])
    BY <1>5, <2>2, EditsChange
  <2>. QED  BY <1>2, <1>7, <2>3 DEF Path
<1>15. \A d \in Client \ {c} : Same(d)
  BY <1>2, <1>7, <1>8 DEF Same
<1>. QED  BY <1>1, <1>2, <1>12, <1>13, <1>14, <1>15, OneClientsStep
-----------------------------------------------------------------------------
(* The relay's answers. *)

LEMMA CommittedIs ==
    ASSUME Steady, NEW c \in Client, NEW v \in Envelope, Committed(c, v)
    PROVE  KeyAt(relayLog, v.epoch, v.key) /\ v.key # NoKey /\ v.epoch <= Epoch(relayLog)
BY SteadyFacts, RowEpoch DEF Steady, Sound, Ground, OwnerGround

\* What is parked or on its way to a client is no newer than the relay's log.
LEMMA OnItsWay ==
    ASSUME Steady, NEW c \in Client
    PROVE  /\ \A a \in EpochsOf(parked[c]) : a <= Epoch(relayLog)
           /\ \A f \in waiting[c] : CanAuthorContent(relayLog, f.by)
           /\ \A j \in DOMAIN down[c] :
                /\ down[c][j].type = "Membership" => Extends(relayLog, down[c][j].ops)
                /\ down[c][j].type = "Envelopes" =>
                      /\ Whole(down[c][j].envelopes) /\ down[c][j].envelopes \in Seq(Envelope)
                      /\ \A v \in Range(down[c][j].envelopes) : v \in Envelope /\ Committed(c, v)
                      /\ \A a \in EpochsOf(down[c][j].envelopes) : a <= Epoch(relayLog)
                /\ down[c][j].type = "Frame" =>
                      /\ down[c][j].frame \in frames
                      /\ CanAuthorContent(relayLog, down[c][j].frame.by)
<1>1. Aligned(c) /\ FramesKnown /\ LogsAgree
  BY DEF Steady, Sound, Ground
<1>2. down[c] \in Seq(DownMessages) /\ parked[c] \in Seq(Envelope)
  BY LogTypes DEF Steady
<1>3. ASSUME NEW s \in Seq(Envelope), \A v \in Range(s) : Committed(c, v)
      PROVE  /\ \A v \in Range(s) : v \in Envelope
             /\ \A a \in EpochsOf(s) : a <= Epoch(relayLog)
  <2>1. \A v \in Range(s) : v \in Envelope
    <3>1. \A v \in Range(s) : \E i \in 1..Len(s) : s[i] = v
      BY Members2
    <3>2. \A i \in 1..Len(s) : s[i] \in Envelope
      OBVIOUS
    <3>. QED  BY <3>1, <3>2
  <2>. QED  BY <1>3, <2>1, CommittedIs DEF EpochsOf
<1>4. \A a \in EpochsOf(parked[c]) : a <= Epoch(relayLog)
  BY <1>1, <1>2, <1>3 DEF Aligned, EnvelopesOf
<1>5. \A f \in waiting[c] : CanAuthorContent(relayLog, f.by)
  BY <1>1 DEF Aligned, FramesOf, FramesKnown
<1>6. ASSUME NEW j \in DOMAIN down[c]
      PROVE  /\ down[c][j].type = "Membership" => Extends(relayLog, down[c][j].ops)
             /\ down[c][j].type = "Envelopes" =>
                   /\ Whole(down[c][j].envelopes) /\ down[c][j].envelopes \in Seq(Envelope)
                   /\ \A v \in Range(down[c][j].envelopes) : v \in Envelope /\ Committed(c, v)
                   /\ \A a \in EpochsOf(down[c][j].envelopes) : a <= Epoch(relayLog)
             /\ down[c][j].type = "Frame" =>
                   /\ down[c][j].frame \in frames
                   /\ CanAuthorContent(relayLog, down[c][j].frame.by)
  <2>. DEFINE x == down[c][j]
  <2>1. x \in Range(down[c]) /\ x \in DownMessages
    <3>1. j \in 1..Len(down[c])
      BY <1>2, <1>6
    <3>. QED  BY <1>2, <3>1, Members2
  <2>. HIDE DEF x
  <2>2. x.type = "Membership" => Extends(relayLog, x.ops)
    BY <1>1, <2>1 DEF LogsAgree
  <2>3. x.type = "Frame" => x.frame \in frames /\ CanAuthorContent(relayLog, x.frame.by)
    BY <1>1, <2>1 DEF Aligned, FramesOf, FramesKnown
  <2>4. ASSUME x.type = "Envelopes"
        PROVE  /\ Whole(x.envelopes) /\ x.envelopes \in Seq(Envelope)
               /\ \A v \in Range(x.envelopes) : v \in Envelope /\ Committed(c, v)
               /\ \A a \in EpochsOf(x.envelopes) : a <= Epoch(relayLog)
    <3>1. x.envelopes \in Seq(Envelope)
      BY <2>1, <2>4, DownMessageIs
    <3>2. Whole(x.envelopes) /\ \A v \in Range(x.envelopes) : Committed(c, v)
      BY <1>1, <2>1, <2>4 DEF Aligned, EnvelopesOf
    <3>. QED  BY <1>3, <3>1, <3>2
  <2>. QED  BY <2>2, <2>3, <2>4 DEF x
<1>. QED  BY <1>4, <1>5, <1>6

\* The relay takes a request and answers at most with a message it may send to that client.
LEMMA AnswerStep ==
    ASSUME Steady, NEW c \in Client, NEW type, RelayTake(c, type), type # "Change",
           UNCHANGED <<relayLog, rows, connected, log, served, keys, parked, fetching, pending,
                       waiting>>,
           frames \subseteq frames',
           \A f \in frames' : \/ f \in frames
                              \/ f.epoch <= Epoch(relayLog) /\ CanAuthorContent(relayLog, f.by),
           \/ UNCHANGED down
           \/ \E x \in DownMessages :
                /\ Answer(c, x)
                /\ x.type # "Frame"
                /\ x.type = "Envelopes" =>
                      Whole(x.envelopes) /\ \A v \in Range(x.envelopes) : Committed(c, v),
           Lasting(c) => Path(c)'
    PROVE  Sound'
<1>1. TypeOK /\ Aligned(c)
  BY DEF Steady, Sound, Ground
<1>2. /\ \A d \in Client : Range(up'[d]) \in SUBSET Range(up[d])
      /\ up[c] # <<>> /\ up'[c] = Tail(up[c])
      /\ \A d \in Client : d # c => up'[d] = up[d]
  BY <1>1, UpTaken
<1>3. c = Creator \/ Named(c)
  BY <1>2, NamedIfBusy
<1>4. \A d \in Client : d # c => down'[d] = down[d]
  BY <1>1 DEF Answer, TypeOK
<1>5. \A x \in Range(down'[c]) :
          \/ x \in Range(down[c])
          \/ /\ x.type # "Frame"
             /\ x.type = "Envelopes" =>
                    Whole(x.envelopes) /\ \A v \in Range(x.envelopes) : Committed(c, v)
  <2>1. CASE UNCHANGED down
    BY <2>1
  <2>2. ASSUME NEW x \in DownMessages, Answer(c, x), x.type # "Frame",
               x.type = "Envelopes" =>
                      Whole(x.envelopes) /\ \A v \in Range(x.envelopes) : Committed(c, v)
        PROVE  \A y \in Range(down'[c]) :
                  \/ y \in Range(down[c])
                  \/ /\ y.type # "Frame"
                     /\ y.type = "Envelopes" =>
                            Whole(y.envelopes) /\ \A v \in Range(y.envelopes) : Committed(c, v)
    <3>1. \A y \in Range(down'[c]) : y \in Range(down[c]) \/ y = x
      BY <1>1, <2>2, DownAnswered
    <3>. QED  BY <2>2, <3>1
  <2>. QED  BY <2>1, <2>2
<1>6. Aligned(c)'
  <2>1. c # Creator => log'[c] = served'[c]
    BY <1>1 DEF Aligned
  <2>2. waiting'[c] \subseteq frames' /\ \A v \in Range(parked'[c]) : Committed(c, v)
    BY <1>1 DEF Aligned, FramesOf, EnvelopesOf
  <2>. QED  BY <1>2, <1>3, <1>5, <2>1, <2>2, AlignedStep
<1>7. c = Creator => OwnerGround'
  <2>1. waiting'[Creator] = {}
    BY OwnerSeals
  <2>. QED  BY <1>2, <2>1, OwnerStep
<1>8. \A d \in Client \ {c} : Same(d)
  BY <1>2, <1>4 DEF Same
<1>. QED  BY <1>6, <1>7, <1>8, OneClientsStep

LEMMA AnswerIs ==
    ASSUME TypeOK, NEW c \in Client, NEW x, Answer(c, x)
    PROVE  down'[c] = Append(down[c], x)
BY DEF TypeOK, Answer

LEMMA ServeMembershipSound ==
    ASSUME Steady, NEW c \in Running, ServeMembership(c)
    PROVE  Sound'
<1>1. c \in Client /\ TypeOK /\ stale = 0 /\ stale' = 0 /\ relayLog \in Seq(Op)
  BY SteadyFacts DEF Steady
<1>2. PICK n \in 1..Len(relayLog) :
          /\ stale' = IF n < Len(relayLog) THEN stale + 1 ELSE stale
          /\ IF IsMember(c) THEN Answer(c, [type |-> "Membership", ops |-> SubSeq(relayLog, 1, n)])
             ELSE NotMember(c)
  BY DEF ServeMembership
<1>3. SubSeq(relayLog, 1, n) = relayLog
  <2>1. ~(n < Len(relayLog))
    BY <1>1, <1>2
  <2>2. n = Len(relayLog)
    BY <1>1, <2>1
  <2>. QED  BY <1>1, <2>2
<1>4. /\ RelayTake(c, "Membership")
      /\ UNCHANGED <<relayLog, rows, frames, connected, log, served, keys, parked, fetching, pending,
                     waiting>>
  BY DEF ServeMembership, EngineUnchanged, relayVars, spaceVars
<1>5. up'[c] = Tail(up[c]) /\ up[c] # <<>> /\ Head(up[c]).type = "Membership"
  BY <1>1, <1>4, UpTaken
<1>6. CASE IsMember(c)
  <2>. DEFINE x == [type |-> "Membership", ops |-> relayLog]
  <2>1. Answer(c, x) /\ x \in DownMessages /\ x.type = "Membership"
    BY <1>1, <1>2, <1>3, <1>6, DownMessageIs
  <2>2. ASSUME Lasting(c)
        PROVE  Path(c)'
    <3>1. /\ PathOf(c, Epoch(relayLog), log[c], DOMAIN keys[c], EpochsOf(parked[c]), up[c], down[c],
                    pending[c], waiting[c], fetching[c])
          /\ log[c] \in Seq(Op) /\ up[c] \in Seq(UpMessages) /\ down[c] \in Seq(DownMessages)
          /\ Epoch(relayLog) \in Nat /\ c # Creator
      BY <1>1, <2>2, PathIs
    <3>2. relayLog # <<>> /\ Len(log[c]) <= Len(relayLog)
      BY <1>1, <3>1, SteadyFacts DEF Extends
    <3>3. /\ \A a \in EpochsOf(parked[c]) : a <= Epoch(relayLog)
          /\ \A f \in waiting[c] : CanAuthorContent(relayLog, f.by)
          /\ \A j \in DOMAIN down[c] :
                /\ down[c][j].type = "Membership" => Len(down[c][j].ops) <= Len(relayLog)
                /\ down[c][j].type = "Envelopes" =>
                      \A a \in EpochsOf(down[c][j].envelopes) : a <= Epoch(relayLog)
                /\ down[c][j].type = "Frame" => CanAuthorContent(relayLog, down[c][j].frame.by)
      BY <1>1, OnItsWay DEF Extends
    <3>4. PathOf(c, Epoch(relayLog), log[c], DOMAIN keys[c], EpochsOf(parked[c]), Tail(up[c]),
                 Append(down[c], x), pending[c], waiting[c], fetching[c])
      BY <1>1, <1>5, <3>1, <3>2, <3>3, LogServed
    <3>5. down'[c] = Append(down[c], x)
      BY <1>1, <2>1, AnswerIs
    <3>. QED  BY <1>4, <1>5, <3>4, <3>5 DEF Path
  <2>. HIDE DEF x
  <2>. QED  BY <1>1, <1>4, <2>1, <2>2, AnswerStep
<1>7. CASE ~IsMember(c)
  <2>1. ~Lasting(c)
    BY <1>1, <1>7, NamedIfMember
  <2>2. \E x \in DownMessages : Answer(c, x) /\ x.type = "NotMember"
    BY <1>2, <1>7, DownMessageIs DEF NotMember
  <2>. QED  BY <1>1, <1>4, <2>1, <2>2, AnswerStep
<1>. QED  BY <1>6, <1>7

LEMMA ServeEnvelopesSound ==
    ASSUME Steady, NEW c \in Running, ServeEnvelopes(c)
    PROVE  Sound'
<1>1. c \in Client /\ TypeOK
  BY SteadyFacts DEF Steady
<1>2. /\ RelayTake(c, "Envelopes")
      /\ UNCHANGED <<relayLog, rows, frames, connected, log, served, keys, parked, fetching, pending,
                     waiting>>
  BY DEF ServeEnvelopes, EngineUnchanged, relayVars, spaceVars
<1>3. up'[c] = Tail(up[c]) /\ up[c] # <<>> /\ Head(up[c]).type = "Envelopes"
  BY <1>1, <1>2, UpTaken
<1>4. CASE IsMember(c)
  <2>1. PICK mine \in SetToSeqs(Mine(c)) :
            /\ \A i, j \in DOMAIN mine : i < j => mine[i].epoch <= mine[j].epoch
            /\ Answer(c, [type |-> "Envelopes", envelopes |-> mine])
    BY <1>4 DEF ServeEnvelopes, Mine
  <2>. DEFINE x == [type |-> "Envelopes", envelopes |-> mine]
  <2>2. /\ mine \in Seq(Envelope) /\ Whole(mine)
        /\ 0..Epoch(relayLog) \subseteq EpochsOf(mine)
        /\ \A v \in Range(mine) : Committed(c, v)
    <3>1. RowsCommitted /\ RowsThere /\ Genuine(relayLog) /\ Epoch(relayLog) < MaxParked
      BY SteadyFacts DEF Steady, Sound, Ground, OwnerGround, Undisturbed
    <3>2. c \in Members(relayLog)
      BY <1>4 DEF IsMember
    <3>. QED  BY <1>1, <2>1, <3>1, <3>2, MineWhole
  <2>3. Answer(c, x) /\ x \in DownMessages /\ x.type = "Envelopes" /\ x.envelopes = mine
    BY <2>1, <2>2, DownMessageIs
  <2>4. ASSUME Lasting(c)
        PROVE  Path(c)'
    <3>1. /\ PathOf(c, Epoch(relayLog), log[c], DOMAIN keys[c], EpochsOf(parked[c]), up[c], down[c],
                    pending[c], waiting[c], fetching[c])
          /\ log[c] \in Seq(Op) /\ up[c] \in Seq(UpMessages) /\ down[c] \in Seq(DownMessages)
          /\ Epoch(relayLog) \in Nat
      BY <1>1, <2>4, PathIs
    <3>2. PathOf(c, Epoch(relayLog), log[c], DOMAIN keys[c], EpochsOf(parked[c]), Tail(up[c]),
                 Append(down[c], x), pending[c], waiting[c], fetching[c])
      BY <1>3, <2>2, <3>1, EnvelopesServed
    <3>3. down'[c] = Append(down[c], x)
      BY <1>1, <2>3, AnswerIs
    <3>. QED  BY <1>2, <1>3, <3>2, <3>3 DEF Path
  <2>. HIDE DEF x
  <2>5. x.type # "Frame" /\ (x.type = "Envelopes" =>
            Whole(x.envelopes) /\ \A v \in Range(x.envelopes) : Committed(c, v))
    BY <2>2, <2>3
  <2>. QED  BY <1>1, <1>2, <2>3, <2>4, <2>5, AnswerStep
<1>5. CASE ~IsMember(c)
  <2>1. ~Lasting(c)
    BY <1>1, <1>5, NamedIfMember
  <2>2. \E x \in DownMessages : Answer(c, x) /\ x.type = "NotMember"
    BY <1>5, DownMessageIs DEF ServeEnvelopes, NotMember
  <2>. QED  BY <1>1, <1>2, <2>1, <2>2, AnswerStep
<1>. QED  BY <1>4, <1>5
-----------------------------------------------------------------------------
(* Frames. *)

\* Every change that the owner has made and not sent out is behind what goes out first.
LEMMA FrameInTime ==
    ASSUME Steady, up[Creator] # <<>>, IsPush(Head(up[Creator]))
    PROVE  Head(up[Creator]).frame.epoch <= Epoch(relayLog)
<1>. DEFINE u == up[Creator]
            l == log[Creator]
            n == Len(relayLog)
            m == Len(l)
            e == u[1].frame.epoch
<1>1. /\ u \in Seq(UpMessages) /\ l \in Seq(Op) /\ relayLog \in Seq(Op) /\ n \in Nat /\ m \in Nat
      /\ Extends(l, relayLog)
  BY LogTypes, SteadyFacts DEF Steady
<1>2. Queued(u, n, m) /\ PushesAfter(l, u)
  BY DEF Steady, Sound, Ground, OwnerGround, OwnerFrames
<1>3. /\ DOMAIN u = 1..Len(u) /\ Len(u) \in Nat /\ Len(u) >= 1 /\ Head(u) = u[1]
  BY <1>1, TailElements
<1>4. n <= m /\ EpochAt(relayLog, n) = EpochAt(l, n) /\ Epoch(relayLog) = EpochAt(relayLog, n)
  <2>1. n \in 0..Len(relayLog) /\ n <= m
    BY <1>1 DEF Extends
  <2>. QED  BY <1>1, <2>1, EpochOfPrefix, EpochOfLog
<1>5. CASE n = m
  <2>1. Epoch(relayLog) = Epoch(l)
    BY <1>1, <1>4, <1>5, EpochOfLog
  <2>. QED  BY <1>2, <1>3, <2>1 DEF PushesAfter
<1>6. CASE n # m
  <2>1. n \in n..m - 1
    BY <1>1, <1>4, <1>6
  <2>2. PICK j \in DOMAIN u : IsChange(u[j]) /\ u[j].op.seq = n
    BY <1>2, <2>1 DEF Queued
  <2>3. j # 1
    BY <1>3, <2>2 DEF IsChange, IsPush
  <2>4. j > 1 /\ 1 \in DOMAIN u
    BY <1>3, <2>2, <2>3
  <2>5. e <= EpochAt(l, n)
    BY <1>2, <1>3, <2>2, <2>4 DEF PushesAfter
  <2>. QED  BY <1>3, <1>4, <2>5
<1>. QED  BY <1>5, <1>6

LEMMA StoreFrameSound ==
    ASSUME Steady, NEW c \in Running, StoreFrame(c)
    PROVE  Sound'
<1>. DEFINE f == Head(up[c]).frame
<1>1. c \in Client /\ TypeOK /\ Aligned(c) /\ relayLog \in Seq(Op)
  BY SteadyFacts DEF Steady, Sound, Ground
<1>2. /\ RelayTake(c, "PushUpdate")
      /\ UNCHANGED <<relayLog, rows, connected, log, served, keys, parked, fetching, pending, waiting>>
  BY DEF StoreFrame, EngineUnchanged, spaceVars
<1>3. up'[c] = Tail(up[c]) /\ up[c] # <<>> /\ Head(up[c]).type = "PushUpdate"
      /\ Head(up[c]) \in Range(up[c])
  BY <1>1, <1>2, UpTaken
<1>4. f.by = c /\ f.epoch <= Epoch(relayLog)
  <2>1. IsPush(Head(up[c]))
    BY <1>3 DEF IsPush
  <2>2. f.by = c /\ (c # Creator => f.epoch <= Epoch(relayLog))
    BY <1>1, <1>3, <2>1 DEF Aligned, FramesOf
  <2>. QED  BY <1>3, <2>1, <2>2, FrameInTime
<1>5. ASSUME CanWrite(relayLog, c)
      PROVE  CanAuthorContent(relayLog, c)
  <2>1. Role(relayLog, c) \in Writing
    BY <1>5 DEF CanWrite
  <2>2. Role(relayLog, c) # "None"
    BY <2>1 DEF Writing
  <2>3. \E p \in 1..Len(relayLog) : relayLog[p].who = c /\ relayLog[p].role = Role(relayLog, c)
    BY <1>1, <2>2, RoleFrom
  <2>. QED  BY <1>1, <2>1, <2>3 DEF CanAuthorContent
<1>6. /\ frames' = frames \/ (CanWrite(relayLog, c) /\ frames' = frames \cup {f})
      /\ UNCHANGED down \/ (~IsMember(c) /\ NotMember(c))
  BY DEF StoreFrame
<1>. HIDE DEF f
<1>7. /\ frames \subseteq frames'
      /\ \A g \in frames' : \/ g \in frames
                            \/ g.epoch <= Epoch(relayLog) /\ CanAuthorContent(relayLog, g.by)
  BY <1>4, <1>5, <1>6
<1>8. ASSUME Lasting(c)
      PROVE  Path(c)'
  <2>1. UNCHANGED down
    BY <1>1, <1>6, <1>8, NamedIfMember
  <2>2. /\ PathOf(c, Epoch(relayLog), log[c], DOMAIN keys[c], EpochsOf(parked[c]), up[c], down[c],
                  pending[c], waiting[c], fetching[c])
        /\ log[c] \in Seq(Op) /\ up[c] \in Seq(UpMessages) /\ Epoch(relayLog) \in Nat
    BY <1>1, <1>8, PathIs
  <2>3. Head(up[c]).type \notin Answers
    BY <1>3 DEF Answers
  <2>4. PathOf(c, Epoch(relayLog), log[c], DOMAIN keys[c], EpochsOf(parked[c]), Tail(up[c]), down[c],
               pending[c], waiting[c], fetching[c])
    BY <1>3, <2>2, <2>3, PlainRequest
  <2>. QED  BY <1>2, <1>3, <2>1, <2>4 DEF Path
<1>9. \/ UNCHANGED down
      \/ \E x \in DownMessages : Answer(c, x) /\ x.type = "NotMember"
  BY <1>6, DownMessageIs DEF NotMember
<1>. QED  BY <1>1, <1>2, <1>7, <1>8, <1>9, AnswerStep

LEMMA ServeFrameSound ==
    ASSUME Steady, NEW c \in Running, NEW f \in frames, ServeFrame(c, f)
    PROVE  Sound'
<1>. DEFINE x == [type |-> "Frame", frame |-> f]
<1>1. c \in Client /\ TypeOK /\ Aligned(c)
  BY SteadyFacts DEF Steady, Sound, Ground
<1>2. /\ Answer(c, x) /\ log[c] # <<>>
      /\ UNCHANGED <<relayLog, rows, frames, connected, up, log, served, keys, parked, fetching,
                     pending, waiting>>
  BY DEF ServeFrame, EngineUnchanged, spaceVars, relayVars, Joined
<1>3. x \in DownMessages /\ x.type = "Frame" /\ x.frame = f
  <2>1. f \in Frame
    BY <1>1 DEF TypeOK
  <2>. QED  BY <2>1, DownMessageIs
<1>. HIDE DEF x
<1>4. /\ down'[c] = Append(down[c], x)
      /\ \A y \in Range(down'[c]) : y \in Range(down[c]) \/ y = x
      /\ \A d \in Client : d # c => down'[d] = down[d]
  <2>1. \A d \in Client : d # c => down'[d] = down[d]
    BY <1>1, <1>2 DEF Answer, TypeOK
  <2>. QED  BY <1>1, <1>2, <1>3, <2>1, AnswerIs, DownAnswered
<1>5. Aligned(c)'
  <2>1. c # Creator => log'[c] = served'[c]
    BY <1>1, <1>2 DEF Aligned
  <2>2. waiting'[c] \subseteq frames' /\ \A v \in Range(parked'[c]) : Committed(c, v)
    BY <1>1, <1>2 DEF Aligned, FramesOf, EnvelopesOf
  <2>3. c = Creator \/ Named(c)
    BY <1>1, <1>2, NamedIfBusy
  <2>4. \A y \in Range(down'[c]) : y \in Range(down[c]) \/ (y.type = "Frame" /\ y.frame \in frames')
    BY <1>2, <1>3, <1>4
  <2>. QED  BY <1>1, <1>2, <2>1, <2>2, <2>3, <2>4, AlignedStep
<1>6. c = Creator => OwnerGround'
  <2>1. waiting'[Creator] = {}
    BY <1>2, OwnerSeals
  <2>. QED  BY <1>2, <2>1, OwnerStep
<1>7. ASSUME Lasting(c)
      PROVE  Path(c)'
  <2>1. /\ PathOf(c, Epoch(relayLog), log[c], DOMAIN keys[c], EpochsOf(parked[c]), up[c], down[c],
                  pending[c], waiting[c], fetching[c])
        /\ log[c] \in Seq(Op) /\ down[c] \in Seq(DownMessages) /\ Epoch(relayLog) \in Nat
    BY <1>1, <1>7, PathIs
  <2>2. PathOf(c, Epoch(relayLog), log[c], DOMAIN keys[c], EpochsOf(parked[c]), up[c],
               Append(down[c], x), pending[c], waiting[c], fetching[c])
    BY <1>2, <1>3, <2>1, PlainAnswer
  <2>. QED  BY <1>2, <1>4, <2>2 DEF Path
<1>8. \A d \in Client \ {c} : Same(d)
  BY <1>2, <1>4 DEF Same
<1>. QED  BY <1>1, <1>2, <1>5, <1>6, <1>7, <1>8, OneClientsStep

\* Nothing is lost and nothing refused.
LEMMA NothingLost ==
    ASSUME Steady, NEW c \in Running
    PROVE  ~RefuseChange(c) /\ ~Disconnect(c) /\ ~Connect(c) /\ ~Restart(c)
<1>1. connected[c] /\ faults = 0 /\ faults' = 0 /\ ~refused'
  BY SteadyFacts DEF Steady
<1>. QED  BY <1>1 DEF RefuseChange, Disconnect, Connect, Restart
-----------------------------------------------------------------------------
(* What an engine does with a message. *)

LEMMA HeadTaken ==
    ASSUME Steady, NEW c \in Client, NEW type, Arrives(c, type), Take(c)
    PROVE  /\ down'[c] = Tail(down[c]) /\ down[c] # <<>> /\ Head(down[c]).type = type
           /\ Head(down[c]) \in Range(down[c]) /\ Range(down'[c]) \in SUBSET Range(down[c])
           /\ \A d \in Client : d # c => down'[d] = down[d]
           /\ c = Creator \/ Named(c)
           /\ 1 \in DOMAIN down[c] /\ Head(down[c]) = down[c][1]
<1>1. TypeOK /\ down[c] # <<>> /\ down[c] \in Seq(DownMessages)
  BY LogTypes DEF Steady, Arrives
<1>2. down'[c] = Tail(down[c]) /\ \A d \in Client : d # c => down'[d] = down[d]
  BY <1>1 DEF TypeOK, Take
<1>3. /\ Range(down'[c]) \in SUBSET Range(down[c])
      /\ Head(down[c]) \in Range(down[c]) /\ Head(down[c]).type = type
  BY <1>1, DownTaken
<1>4. 1 \in DOMAIN down[c] /\ Head(down[c]) = down[c][1]
  BY <1>1, TailElements
<1>. QED  BY <1>1, <1>2, <1>3, <1>4, NamedIfBusy

\* The engine handles one answer and may ask for more.
LEMMA TakenStep ==
    ASSUME Steady, NEW c \in Client, NEW type, Arrives(c, type), Take(c),
           UNCHANGED <<relayLog, rows, frames, connected>>,
           \A d \in Client \ {c} : Same(d),
           c # Creator => log'[c] = served'[c],
           waiting'[c] \subseteq frames,
           \A v \in Range(parked'[c]) : Committed(c, v),
           \/ up'[c] = up[c]
           \/ \E q \in Seq(UpMessages) :
                up'[c] = up[c] \o q /\ \A x \in Range(q) : x.type \in Answers,
           c = Creator => /\ log'[Creator] = log[Creator]
                          /\ DOMAIN keys'[Creator] = DOMAIN keys[Creator]
                          /\ waiting'[Creator] = {},
           Lasting(c) => Path(c)'
    PROVE  Sound'
<1>1. up[c] \in Seq(UpMessages)
  BY LogTypes DEF Steady
<1>2. \A x : x.type \in Answers => ~IsChange(x) /\ ~IsPush(x)
  BY DEF Answers, IsChange, IsPush
<1>3. \A x \in Range(up'[c]) : x \in Range(up[c]) \/ ~IsPush(x)
  <2>1. CASE up'[c] = up[c]
    BY <2>1
  <2>2. ASSUME NEW q \in Seq(UpMessages), up'[c] = up[c] \o q, \A x \in Range(q) : x.type \in Answers
        PROVE  \A x \in Range(up'[c]) : x \in Range(up[c]) \/ ~IsPush(x)
    BY <1>1, <1>2, <2>2, RangeOfBoth
  <2>. QED  BY <2>1, <2>2
<1>4. Aligned(c)'
  <2>1. Range(down'[c]) \in SUBSET Range(down[c]) /\ (c = Creator \/ Named(c))
    BY HeadTaken
  <2>. QED  BY <1>3, <2>1, AlignedStep
<1>5. c = Creator => OwnerGround'
  <2>1. SUFFICES ASSUME c = Creator PROVE OwnerGround'
    OBVIOUS
  <2>2. \/ up'[Creator] = up[Creator]
        \/ \E q \in Seq(UpMessages) :
              /\ up'[Creator] = up[Creator] \o q
              /\ \A x \in Range(q) :
                    ~IsChange(x) /\ (IsPush(x) => x.frame.epoch <= Epoch(log[Creator]))
    BY <1>2, <2>1
  <2>. QED  BY <2>1, <2>2, OwnerStep
<1>. QED  BY <1>4, <1>5, OneClientsStep

\* The relay's log knows of every frame that the owner is sent.
LEMMA OwnerOpens ==
    ASSUME Steady, NEW f \in frames
    PROVE  Lacks(Creator, log[Creator], keys[Creator], f) = {}
<1>1. /\ relayLog \in Seq(Op) /\ log[Creator] \in Seq(Op) /\ Extends(log[Creator], relayLog)
      /\ Epoch(relayLog) \in Nat /\ Epoch(log[Creator]) \in Nat
  BY SteadyFacts
<1>2. f.epoch <= Epoch(relayLog) /\ CanAuthorContent(relayLog, f.by)
  BY DEF Steady, Sound, Ground, FramesKnown
<1>3. CanAuthorContent(log[Creator], f.by) /\ Epoch(relayLog) <= Epoch(log[Creator])
  BY <1>1, <1>2, AuthorsStay, EpochsCompare
<1>4. f.epoch \in Nat
  <2>1. f \in Frame
    BY DEF Steady, TypeOK
  <2>2. MaxOps \in Nat
    BY BoundsAssumption
  <2>. QED  BY <2>1, <2>2 DEF Frame, Epochs
<1>5. f.epoch \in DOMAIN keys[Creator]
  BY <1>1, <1>2, <1>3, <1>4, OwnerSeals
<1>. QED  BY <1>3, <1>5 DEF Lacks

LEMMA RecvFrameSound ==
    ASSUME Steady, NEW c \in Running, RecvFrame(c)
    PROVE  Sound'
<1>. DEFINE f == Head(down[c]).frame
            lacking == Lacks(c, log[c], keys[c], f)
<1>1. c \in Client /\ TypeOK /\ connected[c] /\ Aligned(c)
  BY SteadyFacts DEF Steady, Sound, Ground
<1>2. /\ Arrives(c, "Frame") /\ Take(c)
      /\ UNCHANGED <<relayLog, rows, frames, connected, log, served, keys, parked, pending>>
  BY DEF RecvFrame, spaceVars, relayVars
<1>3. /\ down'[c] = Tail(down[c]) /\ down[c] # <<>> /\ Head(down[c]).type = "Frame"
      /\ Head(down[c]) \in Range(down[c])
      /\ \A d \in Client : d # c => down'[d] = down[d]
  BY <1>1, <1>2, HeadTaken
<1>4. f \in frames
  BY <1>1, <1>3 DEF Aligned, FramesOf
<1>5. /\ c # Creator => log'[c] = served'[c]
      /\ waiting[c] \subseteq frames
      /\ \A v \in Range(parked'[c]) : Committed(c, v)
  BY <1>1, <1>2 DEF Aligned, FramesOf, EnvelopesOf
<1>6. c = Creator => lacking = {} /\ waiting[c] = {}
  BY <1>4, OwnerOpens, OwnerSeals
<1>7. ASSUME Lasting(c)
      PROVE  /\ PathOf(c, Epoch(relayLog), log[c], DOMAIN keys[c], EpochsOf(parked[c]), up[c], down[c],
                       pending[c], waiting[c], fetching[c])
             /\ log[c] \in Seq(Op) /\ up[c] \in Seq(UpMessages) /\ down[c] \in Seq(DownMessages)
             /\ Epoch(relayLog) \in Nat /\ log[c] # <<>>
  <2>1. /\ PathOf(c, Epoch(relayLog), log[c], DOMAIN keys[c], EpochsOf(parked[c]), up[c], down[c],
                  pending[c], waiting[c], fetching[c])
        /\ log[c] \in Seq(Op) /\ up[c] \in Seq(UpMessages) /\ down[c] \in Seq(DownMessages)
        /\ Epoch(relayLog) \in Nat
    BY <1>1, <1>7, PathIs
  <2>2. log[c] # <<>>
    BY <1>3, <2>1, FrameTaken
  <2>. QED  BY <2>1, <2>2
<1>8. CASE UNCHANGED <<up, fetching, waiting>>
  <2>1. ASSUME Lasting(c)
        PROVE  Path(c)'
    <3>1. PathOf(c, Epoch(relayLog), log[c], DOMAIN keys[c], EpochsOf(parked[c]), up[c],
                 Tail(down[c]), pending[c], waiting[c], fetching[c])
      BY <1>3, <1>7, <2>1, FrameTaken
    <3>. QED  BY <1>2, <1>3, <1>8, <3>1 DEF Path
  <2>2. \A d \in Client \ {c} : Same(d)
    BY <1>2, <1>3, <1>8 DEF Same
  <2>. QED  BY <1>1, <1>2, <1>5, <1>6, <1>8, <2>1, <2>2, TakenStep
<1>9. CASE /\ lacking # {} /\ waiting' = [waiting EXCEPT ![c] = @ \cup {f}]
           /\ \A a \in lacking : Request(c, a)
  <2>1. PICK a \in Answers : /\ Request(c, a)
                             /\ Wants(c, log[c], DOMAIN keys[c], f)
                             /\ f.by # c /\ ~CanAuthorContent(log[c], f.by) => a = "Membership"
    BY <1>9 DEF Lacks, Answers, Wants
  <2>2. /\ waiting'[c] = waiting[c] \cup {f}
        /\ \A d \in Client : d # c => waiting'[d] = waiting[d]
    BY <1>1, <1>9 DEF TypeOK
  <2>3. /\ fetching'[c] = fetching[c] \cup {a}
        /\ \A d \in Client : d # c => fetching'[d] = fetching[d]
    BY <1>1, <2>1 DEF TypeOK, Request
  <2>4. PICK q \in Seq(UpMessages) :
            /\ up'[c] = up[c] \o q /\ \A d \in Client : d # c => up'[d] = up[d]
            /\ \A x \in Range(q) : x.type \in Answers
            /\ a \in fetching[c] \/ Has(q, a)
    <3>1. CASE UNCHANGED up /\ a \in fetching[c]
      <4>1. up'[c] = up[c] \o <<>> /\ <<>> \in Seq(UpMessages) /\ \A x \in Range(<<>>) : x.type \in Answers
        BY <1>1, <3>1, LogTypes DEF Range
      <4>. QED  BY <3>1, <4>1
    <3>2. CASE Send(c, <<Fetch(a)>>)
      <4>1. /\ <<Fetch(a)>> \in Seq(UpMessages) /\ \A x \in Range(<<Fetch(a)>>) : x.type \in Answers
            /\ Has(<<Fetch(a)>>, a)
        BY FetchesAre
      <4>2. up'[c] = up[c] \o <<Fetch(a)>> /\ \A d \in Client : d # c => up'[d] = up[d]
        BY <1>1, <3>2, <4>1, UpSent
      <4>. QED  BY <4>1, <4>2
    <3>. QED  BY <1>1, <2>1, <3>1, <3>2 DEF Request
  <2>5. ASSUME Lasting(c)
        PROVE  Path(c)'
    <3>1. PathOf(c, Epoch(relayLog), log[c], DOMAIN keys[c], EpochsOf(parked[c]), up[c] \o q,
                 down[c], pending[c], waiting[c], fetching'[c])
      <4>1. "Membership" \in fetching'[c] => "Membership" \in fetching[c] \/ Has(q, "Membership")
        BY <2>3, <2>4
      <4>. QED  BY <1>7, <2>5, <4>1, MoreRequests
    <3>2. \A g \in waiting'[c] :
             \/ g \in waiting[c]
             \/ /\ g = Head(down[c]).frame /\ Wants(c, log[c], DOMAIN keys[c], g)
                /\ g.by # c /\ ~CanAuthorContent(log[c], g.by) => "Membership" \in fetching'[c]
      BY <2>1, <2>2, <2>3
    <3>3. PathOf(c, Epoch(relayLog), log[c], DOMAIN keys[c], EpochsOf(parked[c]), up[c] \o q,
                 Tail(down[c]), pending[c], waiting'[c], fetching'[c])
      <4>. HIDE DEF f, lacking
      <4>. QED  BY <1>3, <1>7, <2>5, <3>1, <3>2, FrameTaken
    <3>. QED  BY <1>2, <1>3, <2>4, <3>3 DEF Path
  <2>6. \A d \in Client \ {c} : Same(d)
    BY <1>2, <1>3, <2>2, <2>3, <2>4 DEF Same
  <2>7. waiting'[c] \subseteq frames /\ c # Creator
    BY <1>4, <1>5, <1>6, <1>9, <2>2
  <2>. QED  BY <1>1, <1>2, <1>5, <2>4, <2>5, <2>6, <2>7, TakenStep
<1>. QED  BY <1>8, <1>9 DEF RecvFrame
LEMMA RecvEpochBumpSound ==
    ASSUME Steady, NEW c \in Running, RecvEpochBump(c)
    PROVE  Sound'
<1>. DEFINE q == <<Fetch("Envelopes"), Fetch("Membership")>>
<1>1. c \in Client /\ TypeOK /\ Aligned(c)
  BY SteadyFacts DEF Steady, Sound, Ground
<1>2. /\ Arrives(c, "EpochBump") /\ Take(c) /\ Send(c, q)
      /\ fetching' = [fetching EXCEPT ![c] = {"Envelopes"}]
      /\ UNCHANGED <<relayLog, rows, frames, connected, log, served, keys, parked, pending, waiting>>
  BY DEF RecvEpochBump, spaceVars, relayVars, docVars
<1>3. /\ q \in Seq(UpMessages) /\ \A x \in Range(q) : x.type \in Answers
      /\ OneFirst(q) /\ Has(q, "Membership") /\ Has(q, "Envelopes")
  BY FetchesAre
<1>. HIDE DEF q
<1>4. /\ down'[c] = Tail(down[c]) /\ down[c] # <<>> /\ Head(down[c]).type = "EpochBump"
      /\ \A d \in Client : d # c => down'[d] = down[d]
  BY <1>1, <1>2, HeadTaken
<1>5. up'[c] = up[c] \o q /\ \A d \in Client : d # c => up'[d] = up[d]
  BY <1>1, <1>2, <1>3, UpSent
<1>6. \A d \in Client : d # c => fetching'[d] = fetching[d]
  BY <1>1, <1>2 DEF TypeOK
<1>7. /\ c # Creator => log'[c] = served'[c]
      /\ waiting'[c] \subseteq frames
      /\ \A v \in Range(parked'[c]) : Committed(c, v)
  BY <1>1, <1>2 DEF Aligned, FramesOf, EnvelopesOf
<1>8. ASSUME Lasting(c)
      PROVE  Path(c)'
  <2>1. /\ PathOf(c, Epoch(relayLog), log[c], DOMAIN keys[c], EpochsOf(parked[c]), up[c], down[c],
                  pending[c], waiting[c], fetching[c])
        /\ log[c] \in Seq(Op) /\ up[c] \in Seq(UpMessages) /\ down[c] \in Seq(DownMessages)
        /\ Epoch(relayLog) \in Nat
    BY <1>1, <1>8, PathIs
  <2>2. PathOf(c, Epoch(relayLog), log[c], DOMAIN keys[c], EpochsOf(parked[c]), up[c] \o q,
               Tail(down[c]), pending[c], waiting[c], fetching'[c])
    BY <1>3, <1>4, <2>1, BumpTaken
  <2>. QED  BY <1>2, <1>4, <1>5, <2>2 DEF Path
<1>9. \A d \in Client \ {c} : Same(d)
  BY <1>2, <1>4, <1>5, <1>6 DEF Same
<1>10. c = Creator => waiting'[Creator] = {}
  BY <1>2, OwnerSeals
<1>. QED  BY <1>1, <1>2, <1>3, <1>5, <1>7, <1>8, <1>9, <1>10, TakenStep

\* Answers of no use, which no member is sent.
LEMMA UselessStep ==
    ASSUME Steady, NEW c \in Client, NEW type, Arrives(c, type), Take(c), ~Lasting(c),
           UNCHANGED <<relayLog, rows, frames, connected, log, served, keys, parked, pending, waiting,
                       up>>,
           \A d \in Client : d # c => fetching'[d] = fetching[d]
    PROVE  Sound'
<1>1. Aligned(c)
  BY DEF Steady, Sound, Ground
<1>2. /\ c # Creator => log'[c] = served'[c]
      /\ waiting'[c] \subseteq frames
      /\ \A v \in Range(parked'[c]) : Committed(c, v)
  BY <1>1 DEF Aligned, FramesOf, EnvelopesOf
<1>3. \A d \in Client : d # c => down'[d] = down[d]
  BY HeadTaken
<1>4. \A d \in Client \ {c} : Same(d)
  BY <1>3 DEF Same
<1>5. c = Creator => waiting'[Creator] = {}
  BY OwnerSeals
<1>. QED  BY <1>2, <1>4, <1>5, TakenStep

LEMMA RecvNotMemberSound ==
    ASSUME Steady, NEW c \in Running, RecvNotMember(c)
    PROVE  Sound'
<1>1. c \in Client /\ TypeOK
  BY SteadyFacts DEF Steady
<1>2. /\ Arrives(c, "NotMember") /\ Take(c)
      /\ fetching' = [fetching EXCEPT ![c] = IF join[c] = NoJoin THEN @ ELSE {}]
      /\ UNCHANGED <<relayLog, rows, frames, connected, log, served, keys, parked, pending, waiting,
                     up>>
  BY DEF RecvNotMember, spaceVars, relayVars, docVars
<1>3. 1 \in DOMAIN down[c] /\ down[c][1].type = "NotMember"
  BY <1>1, <1>2, HeadTaken
<1>4. ~Lasting(c)
  BY <1>1, <1>3, PathIs DEF PathOf, NothingYet, Has
<1>5. \A d \in Client : d # c => fetching'[d] = fetching[d]
  BY <1>1, <1>2 DEF TypeOK
<1>. QED  BY <1>1, <1>2, <1>4, <1>5, UselessStep

\* The log that comes to a member is no shorter than its own, and both are the relay's.
LEMMA LogComes ==
    ASSUME Steady, NEW c \in Client, Lasting(c), Arrives(c, "Membership"), Take(c)
    PROVE  LET ops == Head(down[c]).ops
           IN  /\ ops \in Seq(Op) /\ ops # <<>>
               /\ Extends(relayLog, ops) /\ Extends(ops, log[c]) /\ IsPrefix(served[c], ops)
               /\ \A a \in EpochsOf(parked[c]) : a <= Epoch(ops)
<1>. DEFINE ops == Head(down[c]).ops
<1>1. 1 \in DOMAIN down[c] /\ down[c][1].type = "Membership" /\ ops = down[c][1].ops
      /\ Head(down[c]) \in Range(down[c]) /\ Head(down[c]).type = "Membership"
  BY HeadTaken
<1>2. ops \in Seq(Op)
  BY <1>1, InFlightTypes, DownMessageIs DEF Steady
<1>3. Extends(relayLog, ops)
  BY <1>1, OnItsWay
<1>4. /\ InOrderOf(log[c], EpochsOf(parked[c]), down[c])
      /\ log[c] \in Seq(Op) /\ c # Creator
  BY PathIs DEF PathOf
<1>5. ops # <<>> /\ Len(log[c]) <= Len(ops) /\ \A a \in EpochsOf(parked[c]) : a <= Epoch(ops)
  BY <1>1, <1>4 DEF InOrderOf
<1>6. Extends(relayLog, log[c]) /\ log[c] = served[c] /\ relayLog \in Seq(Op)
  BY <1>4, SteadyFacts
<1>. HIDE DEF ops
<1>7. Extends(ops, log[c])
  BY <1>2, <1>3, <1>4, <1>5, <1>6, PrefixesCompare
<1>8. IsPrefix(served[c], ops)
  BY <1>2, <1>4, <1>6, <1>7, ExtendsIsPrefix
<1>. QED  BY <1>2, <1>3, <1>5, <1>7, <1>8 DEF ops

LEMMA RejectMembershipSound ==
    ASSUME Steady, NEW c \in Running, RejectMembership(c)
    PROVE  Sound'
<1>1. c \in Client /\ TypeOK
  BY SteadyFacts DEF Steady
<1>2. /\ Arrives(c, "Membership") /\ Take(c) /\ ~IsPrefix(served[c], Head(down[c]).ops)
      /\ fetching' = [fetching EXCEPT ![c] = @ \ {"Membership"}]
      /\ UNCHANGED <<relayLog, rows, frames, connected, log, served, keys, parked, pending, waiting,
                     up>>
  BY DEF RejectMembership, spaceVars, relayVars, docVars
<1>3. ~Lasting(c)
  BY <1>1, <1>2, LogComes
<1>4. \A d \in Client : d # c => fetching'[d] = fetching[d]
  BY <1>1, <1>2 DEF TypeOK
<1>. QED  BY <1>1, <1>2, <1>3, <1>4, UselessStep
-----------------------------------------------------------------------------
(* Learning. *)

LEMMA LearnIs ==
    ASSUME TypeOK, NEW c \in Client, NEW l \in Seq(Op), NEW held \in Seq(Envelope), Learn(c, l, held)
    PROVE  /\ log'[c] = l /\ keys'[c] = Absorbed(c, l, held) /\ parked'[c] = StillParked(l, held)
           /\ waiting'[c] \in SUBSET waiting[c]
           /\ \A f \in waiting'[c] : Wants(c, l, DOMAIN keys'[c], f)
           /\ \A d \in Client : d # c => /\ log'[d] = log[d] /\ keys'[d] = keys[d]
                                         /\ parked'[d] = parked[d] /\ waiting'[d] = waiting[d]
<1>. DEFINE k == Absorbed(c, l, held)
            ready == {f \in waiting[c] : Lacks(c, l, k, f) = {}}
<1>1. /\ log' = [log EXCEPT ![c] = l] /\ keys' = [keys EXCEPT ![c] = k]
      /\ parked' = [parked EXCEPT ![c] = StillParked(l, held)]
      /\ waiting' = [waiting EXCEPT ![c] = @ \ ready]
  BY DEF Learn
<1>2. /\ log'[c] = l /\ keys'[c] = k /\ parked'[c] = StillParked(l, held)
      /\ waiting'[c] = waiting[c] \ ready
  BY <1>1 DEF TypeOK
<1>3. \A d \in Client : d # c => /\ log'[d] = log[d] /\ keys'[d] = keys[d]
                                 /\ parked'[d] = parked[d] /\ waiting'[d] = waiting[d]
  BY <1>1 DEF TypeOK
<1>4. \A f \in waiting'[c] : Lacks(c, l, k, f) # {}
  BY <1>2
<1>5. \A f : Lacks(c, l, k, f) # {} => Wants(c, l, DOMAIN k, f)
  BY DEF Lacks, Wants
<1>. QED  BY <1>2, <1>3, <1>4, <1>5

\* The owner has every key that its log commits to.
LEMMA OwnerLearnsNothing ==
    ASSUME Steady, NEW held \in Seq(Envelope)
    PROVE  DOMAIN Absorbed(Creator, log[Creator], held) = DOMAIN keys[Creator]
<1>. DEFINE k == Absorbed(Creator, log[Creator], held)
            l == log[Creator]
<1>1. TypeOK /\ Creator \in Client /\ l \in Seq(Op) /\ keys[Creator] \in KeyRing /\ Epoch(l) \in Nat
      /\ DOMAIN keys[Creator] = 0..Epoch(l)
  BY LogTypes, SteadyFacts, OwnerSeals DEF Steady
<1>2. /\ k \in KeyRing /\ DOMAIN keys[Creator] \in SUBSET DOMAIN k
      /\ \A e \in DOMAIN k \ DOMAIN keys[Creator] : e <= Epoch(l)
  BY <1>1, AbsorbedIs
<1>. HIDE DEF k, l
<1>3. DOMAIN k \in SUBSET Nat
  <2>1. DOMAIN k \in SUBSET Epochs
    BY <1>2, KeyRingIs
  <2>2. Epochs \in SUBSET Nat
    BY BoundsAssumption DEF Epochs
  <2>. QED  BY <2>1, <2>2
<1>4. \A e \in DOMAIN k : e \in 0..Epoch(l)
  <2>. TAKE e \in DOMAIN k
  <2>1. e \in Nat
    BY <1>3
  <2>2. CASE e \in DOMAIN keys[Creator]
    BY <1>1, <2>2
  <2>3. CASE e \notin DOMAIN keys[Creator]
    BY <1>1, <1>2, <2>1, <2>3
  <2>. QED  BY <2>2, <2>3
<1>. QED  BY <1>1, <1>2, <1>4 DEF k, l

\* The log commits to the keys of the envelopes that the relay has for the client.
LEMMA KeysAgree ==
    ASSUME Steady, NEW c \in Client, c # Creator, NEW l \in Seq(Op), l # <<>>, Extends(relayLog, l),
           NEW v \in Envelope, Committed(c, v), v.epoch <= Epoch(l)
    PROVE  v.key = Commitment(l, v.epoch)
<1>1. relayLog \in Seq(Op) /\ Genuine(relayLog)
  BY SteadyFacts
<1>2. KeyAt(relayLog, v.epoch, v.key) /\ v.key # NoKey
  BY CommittedIs
<1>3. v.epoch \in Nat
  BY BoundsAssumption DEF Envelope, Epochs
<1>. QED  BY <1>1, <1>2, <1>3, CommitmentIs

LEMMA EpochTypes ==
    ASSUME TypeOK, NEW c \in Client
    PROVE  DOMAIN keys[c] \in SUBSET Nat /\ EpochsOf(parked[c]) \in SUBSET Nat
<1>1. keys[c] \in KeyRing /\ parked[c] \in Seq(Envelope)
  BY LogTypes
<1>2. Epochs \in SUBSET Nat
  BY BoundsAssumption DEF Epochs
<1>. QED  BY <1>1, <1>2, KeyRingIs, EpochsOfIs

LEMMA RecvEnvelopesSound ==
    ASSUME Steady, MaxAhead # 0, NEW c \in Running, RecvEnvelopes(c)
    PROVE  Sound'
<1>. DEFINE came == Head(down[c]).envelopes
            room == IF Len(parked[c]) < MaxParked THEN MaxParked - Len(parked[c]) ELSE 0
            taken == SubSeq(came, 1, Min({room, Len(came)}))
            held == parked[c] \o taken
            T == EpochsOf(taken)
            l == log[c]
            K == DOMAIN keys[c]
            A == EpochsOf(parked[c])
<1>1. /\ c \in Client /\ TypeOK /\ Aligned(c) /\ l \in Seq(Op) /\ parked[c] \in Seq(Envelope)
      /\ Epoch(l) \in Nat
  BY SteadyFacts, LogTypes DEF Steady, Sound, Ground
<1>2. /\ Arrives(c, "Envelopes") /\ Take(c) /\ Learn(c, l, held)
      /\ fetching' = [fetching EXCEPT ![c] = @ \ {"Envelopes"}]
      /\ UNCHANGED <<relayLog, rows, frames, connected, served, pending, up>>
  BY DEF RecvEnvelopes, relayVars
<1>3. /\ down'[c] = Tail(down[c]) /\ down[c] # <<>> /\ Head(down[c]).type = "Envelopes"
      /\ Head(down[c]) = down[c][1] /\ 1 \in DOMAIN down[c]
      /\ \A d \in Client : d # c => down'[d] = down[d]
  BY <1>1, <1>2, HeadTaken
<1>4. /\ came \in Seq(Envelope) /\ Whole(came)
      /\ \A v \in Range(came) : v \in Envelope /\ Committed(c, v)
  BY <1>1, <1>3, OnItsWay
<1>. HIDE DEF came
<1>5. /\ taken \in Seq(Envelope) /\ T \in SUBSET Nat
      /\ EpochsOf(held) = A \cup T /\ T \subseteq EpochsOf(came)
      /\ \A a \in T : 0..a \subseteq T
      /\ A = {} => T = EpochsOf(came)
  BY <1>1, <1>4, TakenWhole
<1>6. held \in Seq(Envelope) /\ Range(held) \in SUBSET (Range(parked[c]) \cup Range(came))
  BY <1>1, <1>4, TakenEnvelopes
<1>. HIDE DEF held, taken, room, T
<1>7. \A v \in Range(held) : v \in Envelope /\ Committed(c, v)
  <2>1. \A v \in Range(parked[c]) : v \in Envelope
    BY <1>1, Members2
  <2>. QED  BY <1>1, <1>4, <1>6, <2>1 DEF Aligned, EnvelopesOf
<1>8. /\ log'[c] = l /\ keys'[c] = Absorbed(c, l, held) /\ parked'[c] = StillParked(l, held)
      /\ waiting'[c] \in SUBSET waiting[c]
      /\ \A f \in waiting'[c] : Wants(c, l, DOMAIN keys'[c], f)
      /\ \A d \in Client : d # c => /\ log'[d] = log[d] /\ keys'[d] = keys[d]
                                    /\ parked'[d] = parked[d] /\ waiting'[d] = waiting[d]
  BY <1>1, <1>2, <1>6, LearnIs
<1>9. /\ \A d \in Client : d # c => fetching'[d] = fetching[d]
      /\ fetching'[c] \subseteq fetching[c]
  BY <1>1, <1>2 DEF TypeOK
<1>10. /\ c # Creator => log'[c] = served'[c]
       /\ waiting'[c] \subseteq frames
       /\ \A v \in Range(parked'[c]) : Committed(c, v)
  <2>1. Range(parked'[c]) \in SUBSET Range(held)
    BY <1>1, <1>6, <1>8, StillParkedIs
  <2>2. \A v \in Range(parked'[c]) : Committed(c, v)
    BY <1>7, <2>1
  <2>3. waiting[c] \subseteq frames /\ (c # Creator => log[c] = served[c])
    BY <1>1 DEF Aligned, FramesOf
  <2>. QED  BY <1>2, <1>8, <2>2, <2>3
<1>11. c = Creator => /\ log'[Creator] = log[Creator]
                      /\ DOMAIN keys'[Creator] = DOMAIN keys[Creator]
                      /\ waiting'[Creator] = {}
  BY <1>6, <1>8, OwnerLearnsNothing, OwnerSeals
<1>12. ASSUME Lasting(c)
       PROVE  Path(c)'
  <2>1. /\ PathOf(c, Epoch(relayLog), l, K, A, up[c], down[c], pending[c], waiting[c], fetching[c])
        /\ down[c] \in Seq(DownMessages) /\ Epoch(relayLog) \in Nat /\ c # Creator
    BY <1>1, <1>12, PathIs
  <2>2. K \in SUBSET Nat /\ A \in SUBSET Nat
    BY <1>1, EpochTypes
  <2>. DEFINE L == DOMAIN keys'[c]
              B == EpochsOf(parked'[c])
  <2>3. l = <<>> => L = K /\ B = A \cup T
    <3>1. l = <<>> => Absorbed(c, l, held) = keys[c]
      BY DEF Absorbed
    <3>2. l = <<>> => EpochsOf(StillParked(l, held)) = EpochsOf(held)
      BY <1>1, <1>6, StillParkedEpochs
    <3>. HIDE DEF l
    <3>. QED  BY <1>5, <1>8, <3>1, <3>2
  <2>4. l # <<>> => /\ L = K \cup {a \in A \cup T : a <= Epoch(l)}
                    /\ B = {a \in A \cup T : a \in Epoch(l) + 1..Epoch(l) + MaxAhead}
    <3>1. SUFFICES ASSUME l # <<>>
                   PROVE  /\ L = K \cup {a \in A \cup T : a <= Epoch(l)}
                          /\ B = {a \in A \cup T : a \in Epoch(l) + 1..Epoch(l) + MaxAhead}
      OBVIOUS
    <3>2. Extends(relayLog, l)
      BY <1>1, <2>1, SteadyFacts
    <3>3. \A v \in Range(held) : v.epoch <= Epoch(l) => v.key = Commitment(l, v.epoch)
      BY <1>1, <1>7, <2>1, <3>1, <3>2, KeysAgree
    <3>4. L = K \cup {a \in EpochsOf(held) : a <= Epoch(l)}
      <4>1. DOMAIN Absorbed(c, l, held) = K \cup {a \in EpochsOf(held) : a <= Epoch(l)}
        BY <1>1, <1>6, <3>1, <3>3, AbsorbedAll
      <4>. QED  BY <1>8, <4>1
    <3>5. B = {a \in EpochsOf(held) : a \in Epoch(l) + 1..Epoch(l) + MaxAhead}
      BY <1>1, <1>6, <1>8, <3>1, StillParkedEpochs
    <3>. QED  BY <1>5, <3>4, <3>5
  <2>5. \A f \in waiting'[c] : Wants(c, l, L, f)
    BY <1>8
  <2>. HIDE DEF L, B, K, A, l
  <2>6. PathOf(c, Epoch(relayLog), l, L, B, up[c], Tail(down[c]), pending[c], waiting'[c],
               fetching'[c])
    <3>1. T \subseteq EpochsOf(Head(down[c]).envelopes) /\ (A = {} => T = EpochsOf(Head(down[c]).envelopes))
      BY <1>5 DEF came
    <3>2. waiting'[c] \subseteq waiting[c]
      BY <1>8
    <3>3. l \in Seq(Op) /\ \A f \in waiting'[c] : Wants(c, l, L, f)
      BY <1>1, <2>5
    <3>4. T \in SUBSET Nat /\ \A a \in T : 0..a \subseteq T
      BY <1>5
    <3>5. down[c] # <<>> /\ Head(down[c]).type = "Envelopes" /\ fetching'[c] \subseteq fetching[c]
      BY <1>3, <1>9
    <3>. QED  BY <2>1, <2>2, <2>3, <2>4, <3>1, <3>2, <3>3, <3>4, <3>5, EnvelopesTaken
  <2>. QED  BY <1>2, <1>3, <1>8, <2>6 DEF Path, L, B
<1>13. \A d \in Client \ {c} : Same(d)
  BY <1>2, <1>3, <1>8, <1>9 DEF Same
<1>. QED  BY <1>1, <1>2, <1>10, <1>11, <1>12, <1>13, TakenStep

LEMMA RecvMembershipSound ==
    ASSUME Steady, NEW c \in Running, RecvMembership(c)
    PROVE  Sound'
<1>. DEFINE ops == Head(down[c]).ops
            l == log[c]
            K == DOMAIN keys[c]
            A == EpochsOf(parked[c])
<1>1. /\ c \in Client /\ TypeOK /\ Aligned(c) /\ l \in Seq(Op) /\ parked[c] \in Seq(Envelope)
      /\ served[c] \in Seq(Op) /\ relayLog \in Seq(Op)
  BY SteadyFacts, LogTypes DEF Steady, Sound, Ground
<1>2. /\ Arrives(c, "Membership") /\ Take(c) /\ Learn(c, Newer(l, ops), parked[c])
      /\ IsPrefix(served[c], ops)
      /\ served' = [served EXCEPT ![c] = ops]
      /\ fetching' = [fetching EXCEPT ![c] = @ \ {"Membership"}]
      /\ UNCHANGED <<relayLog, rows, frames, connected, pending, up>>
  BY DEF RecvMembership, relayVars
<1>3. /\ down'[c] = Tail(down[c]) /\ down[c] # <<>> /\ Head(down[c]).type = "Membership"
      /\ Head(down[c]) = down[c][1] /\ 1 \in DOMAIN down[c] /\ Head(down[c]) \in Range(down[c])
      /\ \A d \in Client : d # c => down'[d] = down[d]
  BY <1>1, <1>2, HeadTaken
<1>4. ops \in Seq(Op) /\ Extends(relayLog, ops)
  BY <1>1, <1>3, OnItsWay, InFlightTypes, DownMessageIs
<1>. HIDE DEF ops
<1>5. /\ c = Creator => Newer(l, ops) = l
      /\ c # Creator => Newer(l, ops) = ops /\ Extends(ops, l)
  <2>1. ASSUME c = Creator, Len(ops) >= Len(l)
        PROVE  ops = l
    <3>1. Extends(l, relayLog)
      BY <2>1, SteadyFacts
    <3>2. Extends(l, ops)
      BY <1>1, <1>4, <3>1, ExtendsTransitive
    <3>3. Len(l) \in Nat /\ Len(ops) \in Nat
      BY <1>1, <1>4
    <3>. QED  BY <1>1, <1>4, <2>1, <3>2, <3>3, ExtendsEqual
  <2>2. ASSUME c # Creator
        PROVE  Extends(ops, l) /\ Len(ops) >= Len(l)
    <3>1. served[c] = l
      BY <1>1, <2>2 DEF Aligned
    <3>2. Extends(ops, l)
      BY <1>1, <1>2, <1>4, <3>1, ExtendsIsPrefix
    <3>3. Len(l) \in Nat /\ Len(ops) \in Nat
      BY <1>1, <1>4
    <3>. QED  BY <3>2, <3>3 DEF Extends
  <2>. QED  BY <2>1, <2>2 DEF Newer
<1>. DEFINE m == Newer(l, ops)
<1>6. m \in Seq(Op)
  BY <1>1, <1>4, <1>5
<1>. HIDE DEF m
<1>7. /\ log'[c] = m /\ keys'[c] = Absorbed(c, m, parked[c]) /\ parked'[c] = StillParked(m, parked[c])
      /\ waiting'[c] \in SUBSET waiting[c]
      /\ \A f \in waiting'[c] : Wants(c, m, DOMAIN keys'[c], f)
      /\ \A d \in Client : d # c => /\ log'[d] = log[d] /\ keys'[d] = keys[d]
                                    /\ parked'[d] = parked[d] /\ waiting'[d] = waiting[d]
  <2>1. Learn(c, m, parked[c])
    BY <1>2 DEF m
  <2>. QED  BY <1>1, <1>6, <2>1, LearnIs
<1>8. /\ \A d \in Client : d # c => fetching'[d] = fetching[d] /\ served'[d] = served[d]
      /\ "Membership" \notin fetching'[c] /\ served'[c] = ops
  BY <1>1, <1>2 DEF TypeOK
<1>9. /\ c # Creator => log'[c] = served'[c]
      /\ waiting'[c] \subseteq frames
      /\ \A v \in Range(parked'[c]) : Committed(c, v)
  <2>1. Range(parked'[c]) \in SUBSET Range(parked[c])
    BY <1>1, <1>6, <1>7, StillParkedIs
  <2>2. waiting[c] \subseteq frames /\ \A v \in Range(parked[c]) : Committed(c, v)
    BY <1>1 DEF Aligned, FramesOf, EnvelopesOf
  <2>. QED  BY <1>5, <1>7, <1>8, <2>1, <2>2 DEF m
<1>10. c = Creator => /\ log'[Creator] = log[Creator]
                      /\ DOMAIN keys'[Creator] = DOMAIN keys[Creator]
                      /\ waiting'[Creator] = {}
  <2>1. SUFFICES ASSUME c = Creator
                 PROVE  /\ log'[Creator] = log[Creator]
                        /\ DOMAIN keys'[Creator] = DOMAIN keys[Creator]
                        /\ waiting'[Creator] = {}
    OBVIOUS
  <2>2. m = log[Creator]
    BY <1>5, <2>1 DEF m
  <2>3. DOMAIN Absorbed(Creator, log[Creator], parked[Creator]) = DOMAIN keys[Creator]
    BY <1>1, <2>1, OwnerLearnsNothing
  <2>. QED  BY <1>7, <2>1, <2>2, <2>3, OwnerSeals
<1>11. ASSUME Lasting(c)
       PROVE  Path(c)'
  <2>1. /\ PathOf(c, Epoch(relayLog), l, K, A, up[c], down[c], pending[c], waiting[c], fetching[c])
        /\ down[c] \in Seq(DownMessages) /\ Epoch(relayLog) \in Nat /\ c # Creator
    BY <1>1, <1>11, PathIs
  <2>2. ops # <<>> /\ (\A a \in A : a <= Epoch(ops)) /\ m = ops /\ Extends(ops, l)
    BY <1>1, <1>2, <1>5, <1>11, <2>1, LogComes DEF ops, m
  <2>3. \A v \in Range(parked[c]) : v \in Envelope /\ Committed(c, v)
    <3>1. \A v \in Range(parked[c]) : v \in Envelope
      BY <1>1, Members2
    <3>. QED  BY <1>1, <3>1 DEF Aligned, EnvelopesOf
  <2>4. \A v \in Range(parked[c]) : v.epoch <= Epoch(ops) => v.key = Commitment(ops, v.epoch)
    BY <1>1, <1>4, <2>1, <2>2, <2>3, KeysAgree
  <2>5. DOMAIN keys'[c] = K \cup A
    <3>1. DOMAIN keys'[c] = K \cup {a \in A : a <= Epoch(ops)}
      <4>1. DOMAIN Absorbed(c, ops, parked[c]) = K \cup {a \in A : a <= Epoch(ops)}
        BY <1>1, <1>4, <2>2, <2>4, AbsorbedAll
      <4>. QED  BY <1>7, <2>2, <4>1
    <3>. QED  BY <2>2, <3>1
  <2>6. EpochsOf(parked'[c]) = {}
    <3>1. EpochsOf(parked'[c]) = {a \in A : a \in Epoch(ops) + 1..Epoch(ops) + MaxAhead}
      BY <1>1, <1>4, <1>7, <2>2, StillParkedEpochs
    <3>2. Epoch(ops) \in Nat /\ A \in SUBSET Nat
      BY <1>1, <1>4, EpochIsNat, EpochTypes
    <3>3. \A a \in A : a \notin Epoch(ops) + 1..Epoch(ops) + MaxAhead
      BY <2>2, <3>2
    <3>. QED  BY <3>1, <3>3
  <2>. HIDE DEF K, A, l
  <2>7. PathOf(c, Epoch(relayLog), ops, K \cup A, {}, up[c], Tail(down[c]), pending[c], waiting'[c],
               fetching'[c])
    <3>1. waiting'[c] \subseteq waiting[c] /\ \A f \in waiting'[c] : Wants(c, ops, K \cup A, f)
      BY <1>7, <2>2, <2>5
    <3>2. ops = Head(down[c]).ops /\ l \in Seq(Op)
      BY <1>1 DEF ops
    <3>. QED  BY <1>3, <1>4, <1>8, <2>1, <2>2, <3>1, <3>2, LogTaken
  <2>. QED  BY <1>2, <1>3, <1>7, <2>2, <2>5, <2>6, <2>7 DEF Path
<1>12. \A d \in Client \ {c} : Same(d)
  BY <1>2, <1>3, <1>7, <1>8 DEF Same
<1>. QED  BY <1>1, <1>2, <1>9, <1>10, <1>11, <1>12, TakenStep
-----------------------------------------------------------------------------
(* The owner changes the membership. *)

LEMMA PrefixSame ==
    ASSUME NEW l \in Seq(Op), NEW t \in Seq(Op), Extends(t, l), NEW n \in 0..Len(l)
    PROVE  SubSeq(t, 1, n) = SubSeq(l, 1, n)
<1>1. n \in 0..Len(t) /\ Len(l) \in Nat /\ Len(t) \in Nat
  BY DEF Extends
<1>2. SubSeq(l, 1, n) \in Seq(Op) /\ Len(SubSeq(l, 1, n)) = n
      /\ \A i \in 1..n : SubSeq(l, 1, n)[i] = l[i]
  BY PrefixIs
<1>3. SubSeq(t, 1, n) \in Seq(Op) /\ Len(SubSeq(t, 1, n)) = n
      /\ \A i \in 1..n : SubSeq(t, 1, n)[i] = t[i]
  BY <1>1, PrefixIs
<1>4. \A i \in 1..n : t[i] = l[i]
  BY <1>1 DEF Extends
<1>. DEFINE a == SubSeq(l, 1, n)
            b == SubSeq(t, 1, n)
<1>5. a \in Seq(Op) /\ b \in Seq(Op) /\ Len(a) = n /\ Len(b) = n /\ \A i \in 1..n : a[i] = b[i]
  BY <1>2, <1>3, <1>4
<1>. HIDE DEF a, b
<1>6. a = b
  BY <1>5
<1>. QED  BY <1>6 DEF a, b

LEMMA KeyAtLonger ==
    ASSUME NEW l \in Seq(Op), NEW t \in Seq(Op), Extends(t, l), NEW e, NEW k, KeyAt(l, e, k)
    PROVE  KeyAt(t, e, k)
<1>1. PICK i \in DOMAIN l : l[i].epoch = e /\ l[i].key = k
  BY DEF KeyAt
<1>2. i \in DOMAIN t /\ t[i] = l[i]
  BY DEF Extends
<1>. QED  BY <1>1, <1>2 DEF KeyAt

LEMMA EpochAppended ==
    ASSUME NEW l \in Seq(Op), NEW op \in Op
    PROVE  /\ Epoch(Append(l, op)) = Epoch(l) + (IF op.role = "None" THEN 1 ELSE 0)
           /\ EpochAt(Append(l, op), Len(l)) = Epoch(l)
           /\ Extends(Append(l, op), l)
<1>. DEFINE t == Append(l, op)
            n == Len(l)
<1>1. /\ t \in Seq(Op) /\ n \in Nat /\ Len(t) = n + 1 /\ t[n + 1] = op
      /\ \A i \in 1..n : t[i] = l[i]
  BY AppendIs
<1>. HIDE DEF t
<1>2. Extends(t, l)
  BY <1>1 DEF Extends
<1>3. EpochAt(t, n) = EpochAt(l, n) /\ Epoch(l) = EpochAt(l, n) /\ Epoch(t) = EpochAt(t, n + 1)
  <2>1. n \in 0..Len(l)
    BY <1>1
  <2>2. EpochAt(l, n) = EpochAt(t, n)
    BY <1>1, <1>2, <2>1, EpochOfPrefix
  <2>. QED  BY <1>1, <2>2, EpochOfLog
<1>4. EpochAt(t, n + 1) = EpochAt(t, n) + (IF op.role = "None" THEN 1 ELSE 0)
  <2>1. n + 1 \in 0..Len(t) /\ n + 1 # 0 /\ (n + 1) - 1 = n
    BY <1>1
  <2>. QED  BY <1>1, <2>1, Removals
<1>. QED  BY <1>2, <1>3, <1>4 DEF t

\* Only the owner has a log that shows it as one.
LEMMA OwnerActs ==
    ASSUME Steady, NEW c \in Client, Role(log[c], c) = "Owner"
    PROVE  c = Creator
<1>1. log[c] \in Seq(Op) /\ relayLog \in Seq(Op)
  BY LogTypes DEF Steady
<1>2. PICK p \in 1..Len(log[c]) : log[c][p].who = c /\ log[c][p].role = "Owner"
  BY <1>1, RoleFrom
<1>3. CASE c # Creator
  <2>1. Extends(relayLog, log[c])
    BY <1>3, SteadyFacts
  <2>2. p \in DOMAIN relayLog /\ relayLog[p] = log[c][p]
    BY <1>1, <2>1 DEF Extends
  <2>. QED  BY <1>2, <1>3, <2>2 DEF Steady, Undisturbed, SoleOwner
<1>. QED  BY <1>3

\* Frames wait before the changes made after them.
LEMMA PushesBeforeChange ==
    ASSUME NEW l \in Seq(Op), NEW op \in Op, NEW u \in Seq(UpMessages), NEW x \in UpMessages,
           PushesAfter(l, u), ~IsPush(x), IsChange(x) => x.op.seq = Len(l),
           \A q \in Range(u) : IsChange(q) => q.op.seq \in 0..Len(l)
    PROVE  PushesAfter(Append(l, op), u \o <<x>>)
<1>. DEFINE t == Append(l, op)
            b == u \o <<x>>
            n == Len(u)
<1>1. /\ n \in Nat /\ DOMAIN u = 1..n /\ DOMAIN b = 1..n + 1
      /\ (\A i \in 1..n : b[i] = u[i]) /\ b[n + 1] = x
  <2>1. b = Append(u, x)
    OBVIOUS
  <2>. QED  BY <2>1, AppendElements
<1>2. /\ t \in Seq(Op) /\ Extends(t, l) /\ Epoch(l) <= Epoch(t) /\ EpochAt(t, Len(l)) = Epoch(l)
      /\ Epoch(l) \in Nat /\ Epoch(t) \in Nat
  <2>1. t \in Seq(Op)
    BY AppendIs
  <2>2. Extends(t, l) /\ EpochAt(t, Len(l)) = Epoch(l)
    BY EpochAppended
  <2>. HIDE DEF t
  <2>. QED  BY <2>1, <2>2, EpochsCompare, EpochIsNat
<1>. HIDE DEF t, b, n
<1>3. SUFFICES ASSUME NEW i \in DOMAIN b, IsPush(b[i])
               PROVE  /\ b[i].frame.epoch <= Epoch(t)
                      /\ \A j \in DOMAIN b : j > i /\ IsChange(b[j]) =>
                            b[i].frame.epoch <= EpochAt(t, b[j].op.seq)
  BY DEF PushesAfter, t, b
<1>4. i \in DOMAIN u /\ b[i] = u[i]
  BY <1>1, <1>3
<1>5. b[i].frame.epoch <= Epoch(l)
  BY <1>3, <1>4 DEF PushesAfter
<1>6. b[i].frame.epoch <= Epoch(t)
  <2>1. b[i].frame.epoch \in Nat
    <3>1. b[i] \in UpMessages
      BY <1>4
    <3>2. b[i].frame \in Frame
      BY <1>3, <3>1, UpMessageIs DEF IsPush
    <3>. QED  BY <3>2, BoundsAssumption DEF Frame, Epochs
  <2>. QED  BY <1>2, <1>5, <2>1
<1>7. ASSUME NEW j \in DOMAIN b, j > i, IsChange(b[j])
      PROVE  b[i].frame.epoch <= EpochAt(t, b[j].op.seq)
  <2>1. CASE j \in DOMAIN u
    <3>1. b[j] = u[j] /\ u[j] \in Range(u)
      BY <1>1, <2>1, Members2
    <3>2. b[i].frame.epoch <= EpochAt(l, b[j].op.seq)
      BY <1>3, <1>4, <1>7, <2>1, <3>1 DEF PushesAfter
    <3>3. b[j].op.seq \in 0..Len(l)
      BY <1>7, <3>1
    <3>4. EpochAt(l, b[j].op.seq) = EpochAt(t, b[j].op.seq)
      BY <1>2, <3>3, EpochOfPrefix
    <3>. QED  BY <3>2, <3>4
  <2>2. CASE j \notin DOMAIN u
    <3>1. b[j] = x
      BY <1>1, <2>2
    <3>. QED  BY <1>2, <1>5, <1>7, <3>1
  <2>. QED  BY <2>1, <2>2
<1>. QED  BY <1>6, <1>7
\* The owner applies a change to its own log and sends it with the rows that belong to it.
LEMMA OwnerChange ==
    ASSUME Steady, NEW op \in Op, NEW s \in SUBSET Row,
           op.seq = Len(log[Creator]),
           log' = [log EXCEPT ![Creator] = Append(@, op)],
           Send(Creator, <<[type |-> "Change", op |-> op, rows |-> s]>>),
           UNCHANGED <<relayLog, rows, frames, connected, down, served, parked, fetching, pending,
                       waiting>>,
           \A d \in Client : d # Creator => keys'[d] = keys[d],
           DOMAIN keys'[Creator] = 0..Epoch(Append(log[Creator], op)),
           \A r \in s : KeyAt(Append(log[Creator], op), r.epoch, r.key),
           IF op.role = "None"
           THEN \A m \in Members(Append(log[Creator], op)) : HasRow(s, m, op.epoch)
           ELSE \A e \in 0..Epoch(log[Creator]) : HasRow(s, op.who, e)
    PROVE  Sound'
<1>. DEFINE x == [type |-> "Change", op |-> op, rows |-> s]
            l == log[Creator]
            t == Append(l, op)
            u == up[Creator]
<1>1. /\ Creator \in Client /\ TypeOK /\ l \in Seq(Op) /\ u \in Seq(UpMessages) /\ OwnerGround
      /\ Aligned(Creator) /\ Len(l) \in Nat /\ DOMAIN l = 1..Len(l)
  BY SteadyFacts, LogTypes DEF Steady, Sound, Ground
<1>2. /\ x \in UpMessages /\ IsChange(x) /\ ~IsPush(x) /\ x.op = op /\ x.rows = s
      /\ <<x>> \in Seq(UpMessages)
  BY UpMessageIs DEF IsChange, IsPush
<1>3. t \in Seq(Op) /\ Len(t) = Len(l) + 1 /\ SubSeq(t, 1, Len(l) + 1) = t
  <2>1. t \in Seq(Op) /\ Len(t) = Len(l) + 1
    BY AppendIs, <1>1
  <2>. HIDE DEF t
  <2>. QED  BY <1>1, <2>1
<1>4. Extends(t, l) /\ EpochAt(t, Len(l)) = Epoch(l)
  BY <1>1, EpochAppended
<1>5. log'[Creator] = t /\ \A d \in Client : d # Creator => log'[d] = log[d]
  BY <1>1 DEF TypeOK
<1>. HIDE DEF x, t
<1>6. up'[Creator] = u \o <<x>> /\ \A d \in Client : d # Creator => up'[d] = up[d]
  BY <1>1, <1>2, UpSent DEF x
<1>7. \A q \in Range(up'[Creator]) : q \in Range(u) \/ q = x
  <2>1. Range(u \o <<x>>) \in SUBSET (Range(u) \cup Range(<<x>>))
    BY <1>1, <1>2, RangeOfBoth
  <2>2. Range(<<x>>) = {x}
    BY RangeOfOne
  <2>. QED  BY <1>6, <2>1, <2>2
<1>8. \A q \in Range(u) : IsChange(q) =>
          /\ q.op.seq \in 0..Len(l) /\ q.op.seq + 1 \in 0..Len(l)
          /\ SubSeq(t, 1, q.op.seq + 1) = SubSeq(l, 1, q.op.seq + 1)
          /\ EpochAt(t, q.op.seq) = EpochAt(l, q.op.seq)
  <2>. TAKE q \in Range(u)
  <2>. HAVE IsChange(q)
  <2>1. OwnChange(l, q)
    BY <1>1 DEF Steady, ChangesFromOwner
  <2>2. q.op.seq + 1 \in 1..Len(l)
    BY <1>1, <2>1 DEF OwnChange
  <2>3. q.op.seq \in Nat
    <3>1. PICK j \in 1..Len(u) : u[j] = q
      BY <1>1, Members2
    <3>. QED  BY <1>1, <3>1, ChangeNumber
  <2>4. q.op.seq \in 0..Len(l) /\ q.op.seq + 1 \in 0..Len(l)
    BY <1>1, <2>2, <2>3
  <2>. QED  BY <1>1, <1>3, <1>4, <2>4, PrefixSame, EpochOfPrefix
<1>9. RowsCommitted'
  <2>1. ASSUME NEW q \in Range(up'[Creator]), IsChange(q), NEW r \in q.rows
        PROVE  KeyAt(SubSeq(t, 1, q.op.seq + 1), r.epoch, r.key)
    <3>1. CASE q = x
      <4>1. q.op.seq + 1 = Len(l) + 1 /\ r \in s
        BY <1>2, <2>1, <3>1
      <4>. QED  BY <1>3, <4>1 DEF t
    <3>2. CASE q \in Range(u)
      BY <1>1, <1>8, <2>1, <3>2 DEF OwnerGround, RowsCommitted
    <3>. QED  BY <1>7, <2>1, <3>1, <3>2
  <2>2. \A q \in Range(up'[Creator]) : IsChange(q) =>
            \A r \in q.rows : KeyAt(SubSeq(log'[Creator], 1, q.op.seq + 1), r.epoch, r.key)
    BY <1>5, <2>1
  <2>3. \A r \in rows' : KeyAt(relayLog', r.epoch, r.key)
    BY <1>1 DEF OwnerGround, RowsCommitted
  <2>. QED  BY <2>2, <2>3 DEF RowsCommitted
<1>10. RowsThere'
  <2>1. ASSUME NEW q \in Range(up'[Creator]), IsChange(q)
        PROVE  IF q.op.role = "None"
               THEN \A m \in Members(SubSeq(t, 1, q.op.seq + 1)) : HasRow(q.rows, m, q.op.epoch)
               ELSE \A e \in 0..EpochAt(t, q.op.seq) : HasRow(q.rows, q.op.who, e)
    <3>1. CASE q = x
      <4>1. q.op = op /\ q.rows = s /\ SubSeq(t, 1, q.op.seq + 1) = t /\ EpochAt(t, q.op.seq) = Epoch(l)
        BY <1>2, <1>3, <1>4, <3>1
      <4>. QED  BY <4>1 DEF t
    <3>2. CASE q \in Range(u)
      <4>1. RowsFor(q)
        BY <1>1, <2>1, <3>2 DEF OwnerGround, RowsThere
      <4>. QED  BY <1>8, <2>1, <3>2, <4>1 DEF RowsFor
    <3>. QED  BY <1>7, <2>1, <3>1, <3>2
  <2>2. \A q \in Range(up'[Creator]) : IsChange(q) => RowsFor(q)'
    BY <1>5, <2>1 DEF RowsFor
  <2>3. \A m \in Members(relayLog') : \A e \in 0..Epoch(relayLog') : HasRow(rows', m, e)
    BY <1>1 DEF OwnerGround, RowsThere
  <2>. QED  BY <2>2, <2>3 DEF RowsThere, IsChange, RowsFor, HasRow
<1>11. OwnerCurrent'
  BY <1>5, OwnerSeals DEF OwnerCurrent, t
<1>12. OwnerFrames'
  <2>1. PushesAfter(l, u)
    BY <1>1 DEF OwnerGround, OwnerFrames
  <2>2. PushesAfter(t, u \o <<x>>)
    <3>1. \A q \in Range(u) : IsChange(q) => q.op.seq \in 0..Len(l)
      BY <1>8
    <3>2. x.op.seq = Len(l)
      BY <1>2
    <3>. QED  BY <1>1, <1>2, <2>1, <3>1, <3>2, PushesBeforeChange DEF t
  <2>. QED  BY <1>5, <1>6, <2>2 DEF OwnerFrames
<1>13. Aligned(Creator)'
  <2>1. \A q \in Range(up'[Creator]) : q \in Range(u) \/ ~IsPush(q)
    BY <1>2, <1>7
  <2>2. waiting'[Creator] \subseteq frames' /\ \A v \in Range(parked'[Creator]) : Committed(Creator, v)
    BY <1>1 DEF Aligned, FramesOf, EnvelopesOf
  <2>. QED  BY <1>1, <2>1, <2>2, AlignedStep
<1>14. \A d \in Client \ {Creator} : Same(d)
  BY <1>5, <1>6 DEF Same
<1>15. OwnerGround' /\ ~Lasting(Creator)
  BY <1>9, <1>10, <1>11, <1>12 DEF OwnerGround, Lasting
<1>. QED  BY <1>1, <1>13, <1>14, <1>15, OneClientsStep

LEMMA AddMemberSound ==
    ASSUME Steady, NEW c \in Running, NEW m \in Client, NEW role \in GivenRoles, AddMember(c, m, role)
    PROVE  Sound'
<1>. DEFINE op == [seq |-> Len(log[c]), by |-> c, who |-> m, role |-> role,
                   epoch |-> 0, key |-> NoKey]
            s == {[to |-> m, epoch |-> e, key |-> keys[c][e]] : e \in DOMAIN keys[c]}
            l == log[c]
            t == Append(l, op)
<1>1. c \in Client /\ l \in Seq(Op) /\ keys[c] \in KeyRing /\ Len(l) \in Nat /\ TypeOK /\ TypeOK'
  BY CreatorIsClient, LogTypes DEF Steady
<1>2. op \in Op
  BY <1>1, RolesAssumption, BoundsAssumption DEF Op, Roles, Epochs
<1>3. s \in SUBSET Row
  BY <1>1, KeyRingIs DEF Row
<1>4. /\ log' = [log EXCEPT ![c] = Append(@, op)]
      /\ Send(c, <<[type |-> "Change", op |-> op, rows |-> s]>>)
      /\ Role(l, c) = "Owner"
      /\ UNCHANGED <<relayLog, rows, frames, connected, down, served, parked, fetching, pending,
                     waiting, keys>>
  BY DEF AddMember, Applies, relayVars, docVars
<1>5. op.who = m /\ op.seq = Len(l) /\ op.role # "None"
  BY RolesAssumption
<1>6. c = Creator /\ DOMAIN keys[c] = 0..Epoch(l)
  BY <1>1, <1>4, OwnerActs, OwnerSeals
<1>7. /\ \A r \in s : r.epoch \in DOMAIN keys[c] /\ r.key = keys[c][r.epoch]
      /\ \A e \in DOMAIN keys[c] : HasRow(s, m, e)
  <2>1. ASSUME NEW e \in DOMAIN keys[c]
        PROVE  HasRow(s, m, e)
    <3>. DEFINE r == [to |-> m, epoch |-> e, key |-> keys[c][e]]
    <3>1. r \in s /\ r.to = m /\ r.epoch = e
      OBVIOUS
    <3>. HIDE DEF r, s
    <3>. QED  BY <3>1 DEF HasRow
  <2>2. \A r \in s : r.epoch \in DOMAIN keys[c] /\ r.key = keys[c][r.epoch]
    OBVIOUS
  <2>. QED  BY <2>1, <2>2
<1>. HIDE DEF op, s
<1>8. /\ t \in Seq(Op) /\ Extends(t, l) /\ Epoch(t) = Epoch(l)
  <2>1. Epoch(t) = Epoch(l) + 0
    BY <1>1, <1>2, <1>5, EpochAppended
  <2>2. Epoch(l) \in Nat /\ t \in Seq(Op)
    BY <1>1, <1>2, AppendIs, EpochIsNat
  <2>. QED  BY <1>1, <1>2, <2>1, <2>2, EpochAppended
<1>9. \A r \in s : KeyAt(t, r.epoch, r.key)
  <2>. TAKE r \in s
  <2>1. \E i \in DOMAIN l : l[i].epoch = r.epoch /\ l[i].key = r.key
    BY <1>1, <1>7 DEF Steady, KeysFromLogs
  <2>2. KeyAt(l, r.epoch, r.key)
    BY <2>1 DEF KeyAt
  <2>. QED  BY <1>1, <1>8, <2>2, KeyAtLonger
<1>10. /\ \A e \in 0..Epoch(l) : HasRow(s, op.who, e)
       /\ DOMAIN keys'[c] = 0..Epoch(t)
  BY <1>4, <1>5, <1>6, <1>7, <1>8
<1>. QED  BY <1>2, <1>3, <1>4, <1>5, <1>6, <1>9, <1>10, OwnerChange

LEMMA RemoveMemberSound ==
    ASSUME Steady, NEW c \in Running, NEW m \in Client, RemoveMember(c, m)
    PROVE  Sound'
<1>. DEFINE new == Epoch(log[c]) + 1
            op == [seq |-> Len(log[c]), by |-> c, who |-> m, role |-> "None",
                   epoch |-> new, key |-> keysMade + 1]
            s == {[to |-> n, epoch |-> new, key |-> op.key] : n \in Staying(log[c], op)}
            l == log[c]
            t == Append(l, op)
            k == [e \in DOMAIN keys[c] \cup {new} |-> IF e = new THEN op.key ELSE keys[c][e]]
<1>1. /\ c \in Client /\ l \in Seq(Op) /\ keys[c] \in KeyRing /\ Len(l) \in Nat /\ TypeOK
      /\ Epoch(l) \in Nat
  BY SteadyFacts, CreatorIsClient, LogTypes DEF Steady
<1>2. op \in Op
  BY <1>1, RemovalIs
<1>3. /\ log' = [log EXCEPT ![c] = Append(@, op)]
      /\ Send(c, <<[type |-> "Change", op |-> op, rows |-> s]>>)
      /\ keys' = [keys EXCEPT ![c] = k]
      /\ Role(l, c) = "Owner" /\ keysMade <= MaxOps
      /\ UNCHANGED <<relayLog, rows, frames, connected, down, served, parked, fetching, pending,
                     waiting>>
  BY DEF RemoveMember, Applies, relayVars, docVars
<1>. HIDE DEF new
<1>4. op.seq = Len(l) /\ op.role = "None" /\ op.epoch = new /\ op.key = keysMade + 1
  OBVIOUS
<1>5. c = Creator /\ DOMAIN keys[c] = 0..Epoch(l)
  BY <1>1, <1>3, OwnerActs, OwnerSeals
<1>6. keys'[c] = k /\ DOMAIN k = DOMAIN keys[c] \cup {new} /\ \A d \in Client : d # c => keys'[d] = keys[d]
  BY <1>1, <1>3 DEF TypeOK
<1>7. /\ \A r \in s : r.to \in Members(t) /\ r.epoch = new /\ r.key = op.key
      /\ \A n \in Members(t) : HasRow(s, n, op.epoch)
  <2>1. ASSUME NEW n \in Members(t)
        PROVE  HasRow(s, n, op.epoch)
    <3>. DEFINE r == [to |-> n, epoch |-> new, key |-> op.key]
    <3>1. r \in s /\ r.to = n /\ r.epoch = op.epoch
      BY <1>4 DEF Staying
    <3>. HIDE DEF r, s, op
    <3>. QED  BY <3>1 DEF HasRow
  <2>2. \A r \in s : r.to \in Members(t) /\ r.epoch = new /\ r.key = op.key
    BY DEF Staying
  <2>. HIDE DEF s, op, t
  <2>. QED  BY <2>1, <2>2
<1>8. s \in SUBSET Row
  <2>1. new \in Epochs /\ op.key \in Keys
    <3>1. op.epoch \in Epochs
      BY <1>2 DEF Op
    <3>2. keysMade \in Keys
      BY <1>1 DEF TypeOK
    <3>. QED  BY <1>3, <1>4, <3>1, <3>2, BoundsAssumption DEF Keys
  <2>2. \A n \in Staying(l, op) : n \in Client
    BY DEF Staying, Members
  <2>. HIDE DEF op
  <2>. QED  BY <2>1, <2>2 DEF Row
<1>. HIDE DEF op, s, k
<1>9. t \in Seq(Op) /\ t[Len(l) + 1] = op /\ DOMAIN t = 1..Len(l) + 1 /\ Epoch(t) = new
  BY <1>1, <1>2, <1>4, AppendIs, EpochAppended DEF new
<1>. HIDE DEF t
<1>10. \A r \in s : KeyAt(t, r.epoch, r.key)
  <2>1. Len(l) + 1 \in DOMAIN t
    BY <1>1, <1>9
  <2>. QED  BY <1>4, <1>7, <1>9, <2>1 DEF KeyAt
<1>11. DOMAIN keys'[c] = 0..Epoch(t)
  <2>1. (0..Epoch(l)) \cup {new} = 0..new
    BY <1>1 DEF new
  <2>. QED  BY <1>5, <1>6, <1>9, <2>1
<1>. QED  BY <1>2, <1>3, <1>4, <1>5, <1>6, <1>7, <1>8, <1>10, <1>11, OwnerChange DEF t
-----------------------------------------------------------------------------
(* The relay accepts a change. *)

LEMMA RoleOfOthers ==
    ASSUME NEW l \in Seq(Op), NEW op \in Op, NEW m, m # op.who, Role(Append(l, op), m) # "None"
    PROVE  Role(l, m) # "None"
<1>. DEFINE t == Append(l, op)
            n == Len(l)
<1>1. /\ t \in Seq(Op) /\ n \in Nat /\ Len(t) = n + 1 /\ t[n + 1] = op
      /\ \A i \in 1..n : t[i] = l[i]
  BY AppendIs
<1>. HIDE DEF t
<1>2. PICK p \in 1..Len(t) : /\ t[p].who = m /\ t[p].role = Role(t, m)
                             /\ \A q \in 1..Len(t) : t[q].who = m => q <= p
  <2>1. Role(t, m) # "None"
    BY DEF t
  <2>. QED  BY <1>1, <2>1, RoleFrom
<1>3. p \in 1..n /\ l[p] = t[p] /\ \A q \in 1..Len(l) : l[q].who = m => q <= p
  <2>1. p # n + 1
    BY <1>1, <1>2
  <2>2. p \in 1..n
    BY <1>1, <1>2, <2>1
  <2>. QED  BY <1>1, <1>2, <2>2
<1>4. Role(l, m) = l[p].role
  BY <1>2, <1>3, LastRole
<1>. QED  BY <1>2, <1>3, <1>4 DEF t

\* The change is the owner's next one.
LEMMA AcceptedIs ==
    ASSUME Steady, NEW c \in Running, AcceptChange(c)
    PROVE  LET q == Head(up[Creator])
               n == Len(relayLog)
               e == Epoch(relayLog)
           IN  /\ c = Creator /\ q \in Range(up[Creator]) /\ IsChange(q) /\ q.op \in Op
               /\ relayLog' = Append(relayLog, q.op) /\ relayLog' \in Seq(Op)
               /\ Extends(relayLog', relayLog)
               /\ q.op.seq = n
               /\ SubSeq(log[Creator], 1, q.op.seq + 1) = relayLog'
               /\ EpochAt(log[Creator], q.op.seq) = e
               /\ Epoch(relayLog') = e + (IF q.op.role = "None" THEN 1 ELSE 0)
               /\ q.op.role = "None" => q.op.epoch = e + 1
               /\ up[Creator] # <<>> /\ up'[Creator] = Tail(up[Creator])
               /\ \A d \in Client : Range(up'[d]) \in SUBSET Range(up[d])
               /\ \A d \in Client : d # Creator => up'[d] = up[d]
<1>. DEFINE q == Head(up[c])
            l == log[Creator]
            n == Len(relayLog)
<1>1. /\ c \in Client /\ RelayTake(c, "Change") /\ Applies(relayLog, q.op)
      /\ relayLog' = Append(relayLog, q.op) /\ TypeOK /\ TypeOK'
  BY CreatorIsClient DEF AcceptChange, Steady
<1>2. /\ q \in Range(up[c]) /\ q.type = "Change" /\ up[c] # <<>> /\ up'[c] = Tail(up[c])
      /\ \A d \in Client : Range(up'[d]) \in SUBSET Range(up[d])
      /\ \A d \in Client : d # c => up'[d] = up[d]
  BY <1>1, UpTaken
<1>3. IsChange(q) /\ q.op \in Op
  BY <1>1, <1>2, InFlightTypes, UpMessageIs DEF IsChange
<1>4. c = Creator /\ OwnChange(l, q)
  BY <1>1, <1>2, <1>3 DEF Steady, ChangesFromOwner
<1>5. q.op.seq = n /\ (q.op.role = "None" => q.op.epoch = Epoch(relayLog) + 1)
  BY <1>1 DEF Applies
<1>. HIDE DEF q
<1>6. /\ relayLog \in Seq(Op) /\ l \in Seq(Op) /\ n \in Nat /\ relayLog' \in Seq(Op)
      /\ Len(relayLog') = n + 1 /\ relayLog'[n + 1] = q.op
      /\ \A i \in 1..n : relayLog'[i] = relayLog[i]
  <2>1. relayLog \in Seq(Op) /\ l \in Seq(Op)
    BY <1>1, LogTypes
  <2>. QED  BY <1>1, <1>3, <2>1, AppendIs
<1>7. /\ Epoch(relayLog') = Epoch(relayLog) + (IF q.op.role = "None" THEN 1 ELSE 0)
      /\ Extends(relayLog', relayLog)
  BY <1>1, <1>3, <1>6, EpochAppended
<1>8. n + 1 \in 1..Len(l) /\ q.op = l[n + 1] /\ Extends(l, relayLog)
  BY <1>4, <1>5, <1>6, SteadyFacts DEF OwnChange
<1>9. Extends(l, relayLog')
  BY <1>6, <1>8 DEF Extends
<1>10. SubSeq(l, 1, n + 1) = relayLog'
  <2>1. n + 1 \in 0..Len(relayLog')
    BY <1>6
  <2>2. SubSeq(l, 1, n + 1) = SubSeq(relayLog', 1, n + 1)
    BY <1>6, <1>9, <2>1, PrefixSame
  <2>3. SubSeq(relayLog', 1, n + 1) = relayLog'
    BY <1>6
  <2>. QED  BY <2>2, <2>3
<1>11. EpochAt(l, n) = Epoch(relayLog)
  <2>1. n \in 0..Len(relayLog)
    BY <1>6
  <2>2. EpochAt(relayLog, n) = EpochAt(l, n)
    BY <1>6, <1>8, <2>1, EpochOfPrefix
  <2>. QED  BY <1>6, <2>2, EpochOfLog
<1>. QED  BY <1>1, <1>2, <1>3, <1>4, <1>5, <1>6, <1>7, <1>10, <1>11 DEF q

LEMMA AcceptChangeSound ==
    ASSUME Steady, NEW c \in Running, AcceptChange(c)
    PROVE  Sound'
<1>. DEFINE q == Head(up[Creator])
            l == log[Creator]
            e == Epoch(relayLog)
            f == Epoch(relayLog')
            told == IF q.op.role = "None" THEN {m \in Members(relayLog) : connected[m]} ELSE {}
            b == [type |-> "EpochBump"]
<1>1. /\ c = Creator /\ q \in Range(up[Creator]) /\ IsChange(q) /\ q.op \in Op
      /\ relayLog' = Append(relayLog, q.op) /\ relayLog' \in Seq(Op)
      /\ Extends(relayLog', relayLog)
      /\ SubSeq(l, 1, q.op.seq + 1) = relayLog'
      /\ EpochAt(l, q.op.seq) = e
      /\ f = e + (IF q.op.role = "None" THEN 1 ELSE 0)
      /\ q.op.role = "None" => q.op.epoch = e + 1
      /\ up[Creator] # <<>> /\ up'[Creator] = Tail(up[Creator])
      /\ \A d \in Client : Range(up'[d]) \in SUBSET Range(up[d])
      /\ \A d \in Client : d # Creator => up'[d] = up[d]
  BY AcceptedIs
<1>2. /\ rows' = rows \cup q.rows
      /\ down' = [m \in Client |-> IF m \in told THEN Append(down[m], b) ELSE down[m]]
      /\ UNCHANGED <<frames, connected, log, served, keys, parked, fetching, pending, waiting>>
  BY <1>1 DEF AcceptChange, EngineUnchanged, spaceVars
<1>3. /\ Creator \in Client /\ TypeOK /\ relayLog \in Seq(Op) /\ e \in Nat /\ f \in Nat /\ e <= f
      /\ OwnerGround /\ FramesKnown /\ \A d \in Client : Aligned(d)
      /\ l \in Seq(Op) /\ up[Creator] \in Seq(UpMessages)
  <2>1. Creator \in Client /\ relayLog \in Seq(Op) /\ e \in Nat /\ l \in Seq(Op)
    BY SteadyFacts
  <2>2. f \in Nat /\ e <= f
    BY <1>1, <2>1
  <2>. QED  BY <2>1, <2>2, LogTypes DEF Steady, Sound, Ground
<1>4. b \in DownMessages /\ b.type = "EpochBump"
  BY DownMessageIs
<1>5. ASSUME NEW d \in Client
      PROVE  /\ d \in told => down'[d] = Append(down[d], b) /\ Named(d)
             /\ d \notin told => down'[d] = down[d]
             /\ \A x \in Range(down'[d]) : x \in Range(down[d]) \/ x = b
  <2>1. d \in told => down'[d] = Append(down[d], b)
    BY <1>2
  <2>2. d \notin told => down'[d] = down[d]
    BY <1>2
  <2>3. d \in told => Named(d)
    BY NamedIfMember DEF IsMember
  <2>4. \A x \in Range(Append(down[d], b)) : x \in Range(down[d]) \/ x = b
    <3>. HIDE DEF b
    <3>1. down[d] \in Seq(DownMessages)
      BY <1>3, LogTypes
    <3>2. /\ <<b>> \in Seq(DownMessages)
          /\ Append(down[d], b) = down[d] \o <<b>>
      BY <1>4, <3>1
    <3>3. Range(down[d] \o <<b>>) \in SUBSET (Range(down[d]) \cup Range(<<b>>))
      BY <3>1, <3>2, RangeOfBoth
    <3>4. Range(<<b>>) = {b}
      BY RangeOfOne
    <3>. QED  BY <3>2, <3>3, <3>4
  <2>. HIDE DEF b, told
  <2>. QED  BY <2>1, <2>2, <2>3, <2>4
<1>. HIDE DEF b
<1>6. RowsCommitted'
  <2>1. ASSUME NEW r \in rows' PROVE KeyAt(relayLog', r.epoch, r.key)
    <3>1. CASE r \in rows
      <4>1. KeyAt(relayLog, r.epoch, r.key)
        BY <1>3, <3>1 DEF OwnerGround, RowsCommitted
      <4>. QED  BY <1>1, <1>3, <4>1, KeyAtLonger
    <3>2. CASE r \in q.rows
      BY <1>1, <1>3, <3>2 DEF OwnerGround, RowsCommitted
    <3>. QED  BY <1>2, <3>1, <3>2
  <2>2. \A x \in Range(up'[Creator]) : IsChange(x) =>
            \A r \in x.rows : KeyAt(SubSeq(l, 1, x.op.seq + 1), r.epoch, r.key)
    BY <1>1, <1>3 DEF OwnerGround, RowsCommitted
  <2>3. log'[Creator] = l
    BY <1>2
  <2>. QED  BY <2>1, <2>2, <2>3 DEF RowsCommitted
<1>7. RowsThere'
  <2>1. ASSUME NEW m \in Members(relayLog'), NEW a \in 0..f
        PROVE  HasRow(rows', m, a)
    <3>1. RowsFor(q)
      BY <1>1, <1>3 DEF OwnerGround, RowsThere
    <3>2. m \in Client /\ Role(Append(relayLog, q.op), m) # "None"
      BY <1>1, <2>1 DEF Members
    <3>3. m # q.op.who => m \in Members(relayLog)
      BY <1>1, <1>3, <3>2, RoleOfOthers DEF Members
    <3>4. m \in Members(relayLog) /\ a <= e => HasRow(rows, m, a)
      BY <1>3 DEF OwnerGround, RowsThere
    <3>5. HasRow(rows, m, a) \/ HasRow(q.rows, m, a) => HasRow(rows', m, a)
      BY <1>2 DEF HasRow
    <3>6. CASE q.op.role = "None"
      <4>1. m # q.op.who
        BY <1>1, <1>3, <3>2, <3>6, RoleAppended
      <4>2. a <= e \/ a = q.op.epoch
        BY <1>1, <1>3, <3>6
      <4>3. HasRow(q.rows, m, q.op.epoch)
        BY <1>1, <3>1, <3>6 DEF RowsFor
      <4>. QED  BY <3>3, <3>4, <3>5, <4>1, <4>2, <4>3
    <3>7. CASE q.op.role # "None"
      <4>1. f = e
        BY <1>1, <1>3, <3>7
      <4>2. HasRow(q.rows, q.op.who, a)
        BY <1>1, <3>1, <3>7, <4>1 DEF RowsFor
      <4>3. a <= e
        BY <1>3, <4>1
      <4>. QED  BY <3>3, <3>4, <3>5, <4>2, <4>3
    <3>. QED  BY <3>6, <3>7
  <2>2. log'[Creator] = l
    BY <1>2
  <2>3. \A x : RowsFor(x)' <=> RowsFor(x)
    BY <2>2 DEF RowsFor
  <2>4. \A x \in Range(up'[Creator]) : IsChange(x) => RowsFor(x)'
    BY <1>1, <1>3, <2>3 DEF OwnerGround, RowsThere
  <2>. QED  BY <2>1, <2>4 DEF RowsThere, IsChange, RowsFor, HasRow
<1>8. OwnerCurrent'
  BY <1>2, <1>3 DEF OwnerGround, OwnerCurrent
<1>9. OwnerFrames'
  <2>1. PushesAfter(l, Tail(up[Creator]))
    BY <1>1, <1>3, PushesTaken DEF OwnerGround, OwnerFrames
  <2>2. log'[Creator] = l
    BY <1>2
  <2>. QED  BY <1>1, <2>1, <2>2 DEF OwnerFrames
<1>10. \A x \in Frame : x.epoch <= e => x.epoch <= f
  <2>1. \A x \in Frame : x.epoch \in Nat
    BY BoundsAssumption DEF Frame, Epochs
  <2>. QED  BY <1>3, <2>1
<1>11. FramesKnown'
  <2>1. ASSUME NEW x \in frames
        PROVE  x.epoch <= f /\ CanAuthorContent(relayLog', x.by)
    <3>1. x \in Frame /\ x.epoch <= e /\ CanAuthorContent(relayLog, x.by)
      BY <1>3 DEF FramesKnown, TypeOK
    <3>. QED  BY <1>1, <1>3, <1>10, <3>1, AuthorsStay
  <2>. QED  BY <1>2, <2>1 DEF FramesKnown
<1>12. ASSUME NEW d \in Client
       PROVE  Aligned(d)'
  <2>1. Aligned(d)
    BY <1>3
  <2>2. d # Creator => log'[d] = served'[d]
    BY <1>2, <2>1 DEF Aligned
  <2>3. ~Named(d)' => ~Named(d)
    <3>1. \A i \in DOMAIN relayLog : i \in DOMAIN relayLog' /\ relayLog'[i] = relayLog[i]
      BY <1>1, <1>3 DEF Extends
    <3>. QED  BY <3>1 DEF Named
  <2>4. ASSUME d # Creator, ~Named(d)'
        PROVE  Blank(d)'
    <3>1. Blank(d)
      BY <2>1, <2>3, <2>4 DEF Aligned
    <3>2. up'[d] = up[d] /\ down'[d] = down[d]
      BY <1>1, <1>5, <2>3, <2>4
    <3>. QED  BY <1>2, <3>1, <3>2 DEF Blank
  <2>5. FramesOf(d)'
    <3>1. \A x \in Range(down'[d]) : x.type = "Frame" => x.frame \in frames
      BY <1>4, <1>5, <2>1 DEF Aligned, FramesOf
    <3>2. ASSUME NEW x \in Range(up'[d]), IsPush(x)
          PROVE  x.frame.by = d /\ (d # Creator => x.frame.epoch <= f)
      <4>1. x \in Range(up[d])
        BY <1>1, <3>2
      <4>2. x.frame \in Frame
        BY <1>3, <3>2, <4>1, InFlightTypes, UpMessageIs DEF IsPush
      <4>. QED  BY <1>10, <2>1, <3>2, <4>1, <4>2 DEF Aligned, FramesOf
    <3>3. waiting[d] \subseteq frames
      BY <2>1 DEF Aligned, FramesOf
    <3>. QED  BY <1>2, <3>1, <3>2, <3>3 DEF FramesOf, IsPush
  <2>6. EnvelopesOf(d)'
    <3>1. \A v : Committed(d, v) => Committed(d, v)'
      BY <1>2 DEF Committed
    <3>2. /\ \A v \in Range(parked[d]) : Committed(d, v)
          /\ \A x \in Range(down'[d]) : x.type = "Envelopes" =>
                Whole(x.envelopes) /\ \A v \in Range(x.envelopes) : Committed(d, v)
      BY <1>4, <1>5, <2>1 DEF Aligned, EnvelopesOf
    <3>3. /\ \A v \in Range(parked'[d]) : Committed(d, v)'
          /\ \A x \in Range(down'[d]) : x.type = "Envelopes" =>
                Whole(x.envelopes) /\ \A v \in Range(x.envelopes) : Committed(d, v)'
      BY <1>2, <3>1, <3>2
    <3>. QED  BY <3>3 DEF EnvelopesOf, Committed
  <2>. QED  BY <2>2, <2>4, <2>5, <2>6 DEF Aligned
<1>13. ASSUME NEW d \in Client, Lasting(d)'
       PROVE  Path(d)'
  <2>1. /\ connected[d] /\ d # Creator
        /\ \A i \in DOMAIN relayLog : relayLog[i].who = d => relayLog[i].role # "None"
    <3>1. \A i \in DOMAIN relayLog : i \in DOMAIN relayLog' /\ relayLog'[i] = relayLog[i]
      BY <1>1, <1>3 DEF Extends
    <3>. QED  BY <1>2, <1>13, <3>1 DEF Lasting
  <2>2. up'[d] = up[d]
    BY <1>1, <2>1
  <2>3. CASE Named(d)
    <3>1. Lasting(d)
      BY <2>1, <2>3 DEF Lasting
    <3>2. /\ PathOf(d, e, log[d], DOMAIN keys[d], EpochsOf(parked[d]), up[d], down[d],
                    pending[d], waiting[d], fetching[d])
          /\ log[d] \in Seq(Op) /\ down[d] \in Seq(DownMessages)
      BY <3>1, PathIs
    <3>3. CASE q.op.role = "None"
      <4>1. d \in told
        BY <2>1, <3>1, <3>3, NamedIfMember DEF IsMember
      <4>2. down'[d] = Append(down[d], b)
        BY <1>5, <4>1
      <4>3. f = e + 1
        BY <1>1, <3>3
      <4>4. PathOf(d, f, log[d], DOMAIN keys[d], EpochsOf(parked[d]), up[d], Append(down[d], b),
                   pending[d], waiting[d], fetching[d])
        <5>. HIDE DEF e, f
        <5>. QED  BY <1>3, <1>4, <3>2, <4>3, PlainAnswer
      <4>. QED  BY <1>2, <2>2, <4>2, <4>4 DEF Path
    <3>4. CASE q.op.role # "None"
      <4>1. down'[d] = down[d]
        BY <1>5, <3>4
      <4>2. f = e
        BY <1>1, <1>3, <3>4
      <4>. QED  BY <1>2, <2>2, <3>2, <4>1, <4>2 DEF Path
    <3>. QED  BY <3>3, <3>4
  <2>4. CASE ~Named(d)
    <3>1. Blank(d)
      BY <1>3, <2>1, <2>4 DEF Aligned
    <3>2. down'[d] = down[d]
      BY <1>5, <2>4
    <3>3. pending[d] = FALSE
      BY <1>3, <3>1 DEF Blank, TypeOK
    <3>4. EpochsOf(parked[d]) = {}
      BY <3>1 DEF Blank, EpochsOf, Range
    <3>5. PathOf(d, f, log[d], DOMAIN keys[d], EpochsOf(parked[d]), up[d], down[d],
                 pending[d], waiting[d], fetching[d])
      <4>1. PathOf(d, f, <<>>, {}, {}, <<>>, <<>>, FALSE, {}, {})
        BY <1>3, BlankPath
      <4>. QED  BY <3>1, <3>3, <3>4, <4>1 DEF Blank
    <3>. QED  BY <1>2, <2>2, <3>2, <3>5 DEF Path
  <2>. QED  BY <2>3, <2>4
<1>14. \A d \in Running : connected'[d]
  BY <1>2, SteadyFacts
<1>15. OwnerGround'
  BY <1>6, <1>7, <1>8, <1>9 DEF OwnerGround
<1>. QED  BY <1>11, <1>12, <1>13, <1>14, <1>15 DEF Sound, Ground
-----------------------------------------------------------------------------
(* The invariant. *)

\* The relay's log only grows, and no loss is forgotten.
LEMMA StepGrows ==
    ASSUME TypeOK, TypeOK', [Next]_vars
    PROVE  Extends(relayLog', relayLog) /\ faults' >= faults /\ stale' >= stale
<1>1. relayLog \in Seq(Op) /\ relayLog' \in Seq(Op) /\ Len(relayLog) \in Nat
      /\ faults \in Int /\ stale \in Int
  BY DEF TypeOK
<1>2. CASE UNCHANGED vars
  <2>1. UNCHANGED <<relayLog, faults, stale>>
    BY <1>2 DEF vars, relayVars, boundVars
  <2>. QED  BY <1>1, <2>1, ExtendsSelf
<1>3. ASSUME NEW c \in Running, HandleCmd(c)
      PROVE  UNCHANGED <<relayLog, faults, stale>>
  BY <1>3 DEF HandleCmd, JoinSpace, AddMember, RemoveMember, Edit, relayVars, boundVars
<1>4. ASSUME NEW c \in Running, Flush(c)
      PROVE  UNCHANGED <<relayLog, faults, stale>>
  BY <1>4 DEF Flush, FlushDrops, FlushStalls, FlushSeals, relayVars, boundVars
<1>5. ASSUME NEW c \in Running, AcceptChange(c)
      PROVE  Extends(relayLog', relayLog) /\ UNCHANGED <<faults, stale>>
  <2>1. PICK op : relayLog' = Append(relayLog, op)
    BY <1>5 DEF AcceptChange
  <2>2. \A i \in 1..Len(relayLog) : relayLog'[i] = relayLog[i]
    BY <1>1, <2>1
  <2>3. Len(relayLog') = Len(relayLog) + 1
    BY <1>1, <2>1
  <2>4. UNCHANGED <<faults, stale>>
    BY <1>5 DEF AcceptChange, boundVars
  <2>. QED  BY <1>1, <2>2, <2>3, <2>4 DEF Extends
<1>6. ASSUME NEW c \in Running, Relay(c), ~AcceptChange(c)
      PROVE  UNCHANGED <<relayLog, faults>> /\ stale' >= stale
  <2>1. CASE ServeMembership(c)
    BY <1>1, <2>1 DEF ServeMembership, relayVars
  <2>2. CASE RefuseChange(c) \/ ServeEnvelopes(c) \/ StoreFrame(c) \/ \E f \in frames : ServeFrame(c, f)
    <3>1. UNCHANGED <<relayLog, faults, stale>>
      BY <2>2 DEF RefuseChange, ServeEnvelopes, StoreFrame, ServeFrame, relayVars, boundVars
    <3>. QED  BY <1>1, <3>1
  <2>. QED  BY <1>6, <2>1, <2>2 DEF Relay
<1>7. ASSUME NEW c \in Running, Recv(c)
      PROVE  UNCHANGED <<relayLog, faults, stale>>
  BY <1>7 DEF Recv, RecvFrame, RecvEnvelopes, RecvMembership, RejectMembership, RecvEpochBump,
              RecvNotMember, relayVars, boundVars
<1>8. ASSUME NEW c \in Running, Disconnect(c) \/ Connect(c) \/ Restart(c)
      PROVE  UNCHANGED <<relayLog, stale>> /\ faults' >= faults
  <2>1. UNCHANGED <<relayLog, stale>> /\ (faults' = faults \/ faults' = faults + 1)
    BY <1>8 DEF Disconnect, Connect, Restart, relayVars, boundVars
  <2>. QED  BY <1>1, <2>1
<1>. QED  BY <1>1, <1>2, <1>3, <1>4, <1>5, <1>6, <1>7, <1>8, ExtendsSelf DEF Next

LEMMA SteadyStep ==
    ASSUME IInv, IInv', CurrentInv, [Next]_vars, Undisturbed'
    PROVE  Steady
<1>1. TypeOK /\ TypeOK' /\ InformedInv /\ InformedInv'
  BY DEF IInv
<1>2. Extends(relayLog', relayLog) /\ faults' >= faults /\ stale' >= stale
  BY <1>1, StepGrows
<1>3. Informed' /\ faults' = 0 /\ stale' = 0
  BY DEF Undisturbed, Informed
<1>4. Informed /\ faults = 0
  BY <1>1, <1>2, <1>3, Monotone
<1>5. stale = 0
  BY <1>1, <1>2, <1>3 DEF TypeOK
<1>6. Epoch(relayLog) < MaxParked
  <2>1. relayLog \in Seq(Op) /\ relayLog' \in Seq(Op)
    BY <1>1 DEF TypeOK
  <2>2. Epoch(relayLog) \in Nat /\ Epoch(relayLog') \in Nat /\ Epoch(relayLog) <= Epoch(relayLog')
    BY <1>2, <2>1, EpochIsNat, EpochsCompare
  <2>. QED  BY <2>2, CapsAssumption DEF Undisturbed
<1>7. Undisturbed /\ Sound
  BY <1>4, <1>5, <1>6 DEF Undisturbed, Informed, CurrentInv
<1>8. /\ LogsGenuine /\ LogsAgree /\ ChangesFromOwner /\ KeysFromLogs
      /\ Queued(up[Creator], Len(relayLog), Len(log[Creator]))
  BY <1>1, <1>4 DEF InformedInv, ChangesQueued
<1>9. ~refused'
  BY <1>1, <1>3 DEF InformedInv, ChangesQueued
<1>. QED  BY <1>1, <1>7, <1>8, <1>9 DEF Steady

LEMMA StutterSound ==
    ASSUME Steady, UNCHANGED vars
    PROVE  Sound'
<1>1. UNCHANGED <<relayLog, rows, frames, connected, up, down, log, served, keys, parked, fetching,
                  pending, waiting>>
  BY DEF vars, relayVars, linkVars, spaceVars, docVars
<1>2. Creator \in Client /\ Aligned(Creator) /\ waiting[Creator] = {}
  BY SteadyFacts, OwnerSeals DEF Steady, Sound, Ground
<1>3. Aligned(Creator)'
  <2>1. waiting'[Creator] \subseteq frames' /\ \A v \in Range(parked'[Creator]) : Committed(Creator, v)
    BY <1>1, <1>2 DEF Aligned, FramesOf, EnvelopesOf
  <2>. QED  BY <1>1, <1>2, <2>1, AlignedStep
<1>4. OwnerGround'
  BY <1>1, <1>2, OwnerStep
<1>5. ~Lasting(Creator) /\ \A d \in Client \ {Creator} : Same(d)
  BY <1>1 DEF Lasting, Same
<1>. QED  BY <1>1, <1>2, <1>3, <1>4, <1>5, OneClientsStep

LEMMA NextSound ==
    ASSUME Steady, MaxAhead # 0, [Next]_vars
    PROVE  Sound'
<1>1. CASE UNCHANGED vars
  BY <1>1, StutterSound
<1>2. ASSUME NEW c \in Running, HandleCmd(c)
      PROVE  Sound'
  BY <1>2, JoinSpaceSound, AddMemberSound, RemoveMemberSound, EditSound DEF HandleCmd
<1>3. ASSUME NEW c \in Running, Flush(c)
      PROVE  Sound'
  BY <1>3, EditSound, FlushStallsSound, FlushSealsSound DEF Flush
<1>4. ASSUME NEW c \in Running, Relay(c)
      PROVE  Sound'
  BY <1>4, AcceptChangeSound, NothingLost, ServeMembershipSound, ServeEnvelopesSound, StoreFrameSound,
     ServeFrameSound DEF Relay
<1>5. ASSUME NEW c \in Running, Recv(c)
      PROVE  Sound'
  BY <1>5, RecvFrameSound, RecvEnvelopesSound, RecvMembershipSound, RejectMembershipSound,
     RecvEpochBumpSound, RecvNotMemberSound DEF Recv
<1>6. ASSUME NEW c \in Running, Disconnect(c) \/ Connect(c) \/ Restart(c)
      PROVE  Sound'
  BY <1>6, NothingLost
<1>. QED  BY <1>1, <1>2, <1>3, <1>4, <1>5, <1>6 DEF Next

\* To begin with there are the owner's log and the first key, and nothing is on its way.
LEMMA InitSound == Init => CurrentInv
<1>. SUFFICES ASSUME Init PROVE Sound
  BY DEF CurrentInv
<1>. DEFINE l == <<Create>>
<1>1. TypeOK /\ InformedInv /\ Creator \in Client /\ Running \in SUBSET Client
  BY InitTyped, InitKeeps, CreatorIsClient
<1>2. relayLog = l /\ log[Creator] = l /\ l \in Seq(Op) /\ Len(l) = 1 /\ DOMAIN l = {1} /\ l[1] = Create
  BY <1>1 DEF Init, TypeOK
<1>. HIDE DEF l
<1>3. \A c \in Client :
          /\ up[c] = <<>> /\ down[c] = <<>> /\ parked[c] = <<>> /\ served[c] = <<>>
          /\ waiting[c] = {} /\ fetching[c] = {} /\ ~pending[c]
          /\ c # Creator => log[c] = <<>> /\ DOMAIN keys[c] = {}
  BY DEF Init, NoKeys
<1>4. frames = {} /\ rows = {[to |-> Creator, epoch |-> 0, key |-> 1]} /\ DOMAIN keys[Creator] = {0}
  BY <1>1 DEF Init
<1>5. Epoch(l) = 0
  <2>1. {i \in DOMAIN l : l[i].role = "None"} = {}
    BY <1>2 DEF Create
  <2>. QED  BY <2>1, FS_EmptySet DEF Epoch
<1>6. Range(<<>>) = {} /\ DOMAIN <<>> = {}
  BY DEF Range
<1>7. OwnerGround
  <2>1. RowsCommitted
    <3>1. KeyAt(relayLog, 0, 1)
      BY <1>2 DEF KeyAt, Create
    <3>2. \A r \in rows : r.epoch = 0 /\ r.key = 1
      BY <1>4
    <3>3. Range(up[Creator]) = {}
      BY <1>1, <1>3, <1>6
    <3>. QED  BY <3>1, <3>2, <3>3 DEF RowsCommitted
  <2>2. RowsThere
    <3>1. ASSUME NEW m \in Members(relayLog)
          PROVE  HasRow(rows, m, 0)
      <4>1. m = Creator
        <5>1. Role(l, m) # "None"
          BY <1>2, <3>1 DEF Members
        <5>2. \E p \in 1..Len(l) : l[p].who = m
          BY <1>2, <5>1, RoleFrom
        <5>. QED  BY <1>2, <5>2 DEF Create
      <4>. QED  BY <1>4, <4>1 DEF HasRow
    <3>2. \A e \in 0..Epoch(relayLog) : e = 0
      BY <1>2, <1>5
    <3>3. Range(up[Creator]) = {}
      BY <1>1, <1>3, <1>6
    <3>. QED  BY <3>1, <3>2, <3>3 DEF RowsThere
  <2>3. OwnerCurrent
    <3>1. 0..Epoch(log[Creator]) = {0}
      BY <1>2, <1>5
    <3>. QED  BY <1>1, <1>3, <1>4, <3>1 DEF OwnerCurrent
  <2>4. OwnerFrames
    BY <1>1, <1>3, <1>6 DEF OwnerFrames, PushesAfter
  <2>. QED  BY <2>1, <2>2, <2>3, <2>4 DEF OwnerGround
<1>8. ASSUME NEW c \in Client
      PROVE  Aligned(c)
  <2>1. FramesOf(c)
    BY <1>3, <1>6 DEF FramesOf
  <2>2. EnvelopesOf(c)
    BY <1>3, <1>6 DEF EnvelopesOf
  <2>3. c # Creator => log[c] = served[c] /\ Blank(c)
    BY <1>3 DEF Blank
  <2>. QED  BY <2>1, <2>2, <2>3 DEF Aligned
<1>9. \A c \in Client : ~Lasting(c)
  <2>1. \A c \in Client : Named(c) => c = Creator
    BY <1>2 DEF Named, Create
  <2>. QED  BY <2>1 DEF Lasting
<1>10. \A c \in Running : connected[c]
  BY <1>1 DEF Init
<1>. QED  BY <1>4, <1>7, <1>8, <1>9, <1>10 DEF Sound, Ground, FramesKnown

\* Nothing the owner or a lasting member needs is lost on the way.
LEMMA CurrentHolds == ASSUME MaxAhead # 0 PROVE Spec => []CurrentInv
<1>1. IInv /\ IInv' /\ CurrentInv /\ [Next]_vars => CurrentInv'
  <2>. SUFFICES ASSUME IInv, IInv', CurrentInv, [Next]_vars, Undisturbed'
                PROVE  Sound'
    BY DEF CurrentInv
  <2>1. Steady
    BY SteadyStep
  <2>. QED  BY <2>1, NextSound
<1>. QED  BY <1>1, InitSound, InvHolds, PTL DEF Spec

-----------------------------------------------------------------------------
(* The property. *)

\* With nothing on its way the owner's log is the relay's.
LEMMA QuietOwner ==
    ASSUME IInv, Sound, Undisturbed, up[Creator] = <<>>
    PROVE  Current(Creator)
<1>1. TypeOK /\ Informed /\ LogsAgree /\ Queued(up[Creator], Len(relayLog), Len(log[Creator]))
  BY DEF IInv, InformedInv, Undisturbed, Informed, ChangesQueued
<1>2. /\ relayLog \in Seq(Op) /\ log[Creator] \in Seq(Op)
      /\ Len(relayLog) \in Nat /\ Len(log[Creator]) \in Nat
  BY <1>1, LogTypes
<1>3. Extends(log[Creator], relayLog)
  BY <1>1 DEF LogsAgree, Undisturbed
<1>4. Len(log[Creator]) <= Len(relayLog)
  <2>1. DOMAIN <<>> = {}
    OBVIOUS
  <2>2. \A i \in Len(relayLog)..Len(log[Creator]) - 1 : FALSE
    BY <1>1, <2>1 DEF Queued
  <2>3. Len(relayLog) \notin Len(relayLog)..Len(log[Creator]) - 1
    BY <2>2
  <2>. QED  BY <1>2, <2>3
<1>5. log[Creator] = relayLog
  BY <1>2, <1>3, <1>4, ExtendsEqual
<1>6. DOMAIN keys[Creator] = 0..Epoch(log[Creator]) /\ waiting[Creator] = {}
  BY DEF Sound, Ground, OwnerGround, OwnerCurrent
<1>7. Epoch(log[Creator]) \in DOMAIN keys[Creator]
  <2>1. Epoch(log[Creator]) \in Nat
    BY <1>2, EpochIsNat
  <2>. QED  BY <1>6, <2>1
<1>. QED  BY <1>5, <1>6, <1>7 DEF Current, CanSeal, SealingEpochs

\* What is on its way to and from a member is what it lacks.
LEMMA QuietMember ==
    ASSUME IInv, Sound, Undisturbed, NEW c \in Client, Lasting(c), Joined(c),
           up[c] = <<>>, down[c] = <<>>
    PROVE  Current(c)
<1>. DEFINE e == Epoch(relayLog)
            l == log[c]
            K == DOMAIN keys[c]
            A == EpochsOf(parked[c])
<1>1. TypeOK /\ Informed /\ LogsAgree /\ c # Creator
  BY DEF IInv, InformedInv, Undisturbed, Informed, Lasting
<1>2. relayLog \in Seq(Op) /\ l \in Seq(Op) /\ keys[c] \in KeyRing
  BY <1>1, LogTypes
<1>3. Extends(relayLog, l)
  BY <1>1 DEF LogsAgree
<1>4. e \in Nat /\ Epoch(l) \in Nat /\ Epoch(l) <= e
  BY <1>2, <1>3, EpochIsNat, EpochsCompare
<1>5. l # <<>> /\ PathOf(c, e, l, K, A, up[c], down[c], pending[c], waiting[c], fetching[c])
  BY DEF Sound, Path, Joined
<1>6. DOMAIN up[c] = {} /\ DOMAIN down[c] = {}
  OBVIOUS
<1>7. /\ waiting[c] \subseteq frames
      /\ \A f \in frames : f.epoch <= e /\ CanAuthorContent(relayLog, f.by)
  BY DEF Sound, Ground, Aligned, FramesOf, FramesKnown
<1>8. \A f \in frames : f.epoch \in Nat
  BY <1>1, BoundsAssumption DEF TypeOK, Frame, Epochs
<1>. HIDE DEF e, l, K, A
<1>9. \A type : ~Has(up[c], type) /\ ~Has(down[c], type)
  BY <1>6 DEF Has
<1>10. Knows(l, down[c])
  BY <1>5 DEF Knows
<1>11. Epoch(l) = e
  <2>1. Announced(e, l, up[c], down[c])
    BY <1>5 DEF PathOf
  <2>2. Reaches(l, down[c], Len(down[c]), e)
    BY <1>6, <1>9, <1>10, <2>1 DEF Announced, TwoBumps
  <2>3. e <= Epoch(l)
    BY <1>6, <2>2 DEF Reaches
  <2>. QED  BY <1>4, <2>3
<1>12. 0..e \subseteq K
  <2>1. Provided(e, l, K, A, up[c], down[c]) /\ Downward(l, K, A)
    BY <1>5 DEF PathOf
  <2>2. \A a \in 0..e : a \in K \cup A
    BY <1>6, <1>9, <1>10, <2>1 DEF Provided
  <2>3. \A a \in A : a \in Epoch(l) + 1..Epoch(l) + MaxAhead
    BY <1>5, <2>1 DEF Downward
  <2>4. \A a \in 0..e : a \notin A
    BY <1>4, <1>11, <2>3, CapsAssumption
  <2>. QED  BY <2>2, <2>4
<1>13. CanSeal(c)
  <2>1. Epoch(l) \in K
    BY <1>4, <1>11, <1>12
  <2>. QED  BY <2>1 DEF CanSeal, SealingEpochs, l, K
<1>14. waiting[c] = {}
  <2>1. Asked(c, l, K, up[c], down[c], waiting[c], fetching[c])
    BY <1>5 DEF PathOf
  <2>2. ASSUME NEW f \in waiting[c]
        PROVE  FALSE
    <3>1. Wants(c, l, K, f) /\ ~(f.by # c /\ ~CanAuthorContent(l, f.by))
      BY <1>6, <1>9, <2>1, <2>2 DEF Asked
    <3>2. f.epoch \notin K
      BY <3>1 DEF Wants
    <3>3. f.epoch \in 0..e
      BY <1>4, <1>7, <1>8, <2>2
    <3>. QED  BY <1>12, <3>2, <3>3
  <2>. QED  BY <2>2
<1>. QED  BY <1>11, <1>13, <1>14 DEF Current, e, l

LEMMA QuietIsCurrent ==
    ASSUME IInv, CurrentInv, Epoch(relayLog) < MaxParked
    PROVE  QuietMeansCurrent
<1>. SUFFICES ASSUME SoleOwner, faults = 0, stale = 0, NEW c \in Client, Quiet(c)
              PROVE  Current(c)
  BY DEF QuietMeansCurrent
<1>1. Undisturbed /\ Sound
  BY DEF Undisturbed, CurrentInv
<1>2. TypeOK
  BY DEF IInv
<1>3. up[c] = <<>> /\ down[c] = <<>>
  <2>1. up[c] \in Seq(UpMessages) /\ down[c] \in Seq(DownMessages)
    BY <1>2, LogTypes
  <2>2. Len(up[c]) + Len(down[c]) = 0
    BY DEF Quiet, Traffic
  <2>3. Len(up[c]) \in Nat /\ Len(down[c]) \in Nat
    BY <2>1
  <2>4. Len(up[c]) = 0 /\ Len(down[c]) = 0
    <3>1. \A x, y \in Nat : x + y = 0 => x = 0 /\ y = 0
      OBVIOUS
    <3>. QED  BY <2>2, <2>3, <3>1
  <2>. QED  BY <2>1, <2>4
<1>4. CASE c = Creator
  BY <1>1, <1>3, <1>4, QuietOwner
<1>5. CASE c # Creator
  <2>1. Role(relayLog, c) # "None"
    BY DEF Quiet, IsMember, Members
  <2>2. relayLog \in Seq(Op) /\ DOMAIN relayLog = 1..Len(relayLog)
    BY <1>2, LogTypes
  <2>3. Named(c)
    BY <2>1, <2>2, RoleFrom DEF Named
  <2>4. Lasting(c) /\ Joined(c)
    BY <1>5, <2>3 DEF Lasting, Quiet
  <2>. QED  BY <1>1, <1>3, <2>4, QuietMember
<1>. QED  BY <1>4, <1>5

(* A member that was never removed, has joined and has nothing on its way, is in the epoch  *)
(* the relay is in, can seal under its key, and has opened every frame it was sent: however *)
(* many members, changes and frames there are, and in whatever order announcements, logs,   *)
(* envelopes and frames crossed.  The epochs have to fit the places for parked envelopes    *)
(* (MAX_PARKED_ENVELOPES, src/sync/engine.rs): the envelopes of more are dropped unseen.    *)
(* And an envelope of the epoch after the log's has to be parked (MAX_ENVELOPES_AHEAD), or  *)
(* the answers to one announcement, the envelopes before the log, would leave the key out.  *)
THEOREM MembersAreCurrent ==
    ASSUME MaxAhead # 0
    PROVE  Spec => [](Epoch(relayLog) < MaxParked => QuietMeansCurrent)
<1>1. IInv /\ CurrentInv => (Epoch(relayLog) < MaxParked => QuietMeansCurrent)
  BY QuietIsCurrent
<1>. QED  BY <1>1, InvHolds, CurrentHolds, PTL
=============================================================================
