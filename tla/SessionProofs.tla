---------------------------- MODULE SessionProofs ----------------------------
(***************************************************************************)
(* Proofs about Session for every set of spaces and every plan: the types, *)
(* that waiters are served, that joins which succeed are loaded, that a    *)
(* waiter is dropped only with its space, and that the user is told the    *)
(* truth.                                                                  *)
(*                                                                         *)
(* The handlers of the engine are functions of an engine, so the           *)
(* inductive invariant is a predicate Good of one, and most lemmas say     *)
(* that a handler gives a good engine back.                                *)
(***************************************************************************)
EXTENDS Session, FiniteSetTheorems, SequenceTheorems, TLAPS

-----------------------------------------------------------------------------
(* The inductive invariant, for an engine g, the user's view sh and the    *)
(* phase ph of the program.                                                *)

\* No link without a running loop, and none after giving up; nothing is heard before
\* the bridge listens; joins have their own waiters.
Sane(g) ==
    /\ g \in EngineType
    /\ g.gaveUp # "no" => g.link = "none"
    /\ g.stage \in {"none", "done", "attempt"} => g.link = "none"
    /\ g.stage = "attempt" => g.gaveUp = "no"
    /\ ~g.listens => g.events = <<>>
    /\ \A c \in g.waits : c[1] \notin {"join", "create"}

\* What a join has counted as arrived is there.
Loaded(g) ==
    \A s \in Spaces :
        /\ "log" \in g.joins[s] => s \in g.logs
        /\ "keys" \in g.joins[s] => s \in g.keys
        /\ <<"join", s>> \in Calls \ g.forgot /\ g.calls[<<"join", s>>] = "ok" =>
                s \in g.logs \cap g.keys

\* A waiter is dropped only with its space; what the engine did not read has no result.
Kept(g) ==
    \A c \in Calls :
        /\ g.calls[c] = "gone" => c \in g.forgot
        /\ Holds(g.cmds, c) => g.calls[c] \notin Results

\* A request is in one place: once among the commands, or with the waiters.
Single(g) ==
    \A c \in AllCalls :
        /\ Holds(g.cmds, c) => c \notin g.waits \cup Joining(g)
        /\ \A i, j \in 1..Len(g.cmds) : g.cmds[i] = c /\ g.cmds[j] = c => i = j

\* While the program runs, nobody asks the engine to stop, and the bridge knows of
\* every request that is in some place.
Pends(g, c) == Holds(g.cmds, c) \/ c \in g.waits \cup Joining(g)
Waited(g, ph) ==
    ph = "running" =>
        /\ g.stage \notin {"closing", "done"} /\ ~Holds(g.cmds, <<"shutdown">>)
        /\ \A c \in Calls : Pends(g, c) => g.calls[c] = "asked"

\* The user will have been told the truth when the events are handled.
NoLink(q) == \A i \in 1..Len(q) : q[i] \notin LinkEvents
LastLink(q, i) ==
    i \in 1..Len(q) /\ q[i] \in LinkEvents /\ \A j \in (i + 1)..Len(q) : q[j] \notin LinkEvents
Told(g, ph, sh) ==
    ph = "running" /\ ~g.missed =>
        /\ NoLink(g.events) => (sh.connected <=> Connected(g))
        /\ \A i \in Nat : LastLink(g.events, i) =>
                (g.events[i] = <<"connected">> <=> Connected(g))
        /\ g.gaveUp = "no" => ~sh.dead /\ \A i \in 1..Len(g.events) : g.events[i] \notin Fatal
        /\ g.gaveUp # "no" /\ NoLink(g.events) => sh.dead /\ ~sh.connected
        /\ g.gaveUp # "no" =>
                \A i \in Nat : LastLink(g.events, i) => g.events[i] \in Fatal

Loose(g, ph, sh) ==
    Sane(g) /\ Loaded(g) /\ Kept(g) /\ Single(g) /\ Waited(g, ph) /\ Told(g, ph, sh)

\* OnTheWay and OnTheWayTo, of an engine.
Coming(g, c) ==
    \/ Holds(g.up, c) \/ Holds(g.down, c)
    \/ c[1] = "put" /\ (Holds(g.down, <<"named", c[2]>>) \/ Holds(g.down, <<"quota">>))
ComingTo(g, s, part) ==
    part \in g.joins[s] \/ Holds(g.up, <<part, s>>) \/ Holds(g.down, <<part, s>>)
        \/ Holds(g.down, <<"refused", s>>)
WaitsServed(g, X) == \A c \in g.waits \ (g.orphans \cup X) : Connected(g) /\ Coming(g, c)
JoinsServed(g, X) ==
    \A s \in Spaces \ X : <<"join", s>> \in Joining(g) \ g.orphans =>
        \A part \in {"log", "keys"} : ComingTo(g, s, part)
Served(g) == WaitsServed(g, {}) /\ JoinsServed(g, {})

Good(g, ph, sh) == Loose(g, ph, sh) /\ Served(g)

Inv == TypeOK /\ Good(eng, phase, shown)

-----------------------------------------------------------------------------
(* Requests, and sequences that hold something. *)

LEMMA CallTypes ==
    ASSUME NEW c \in AllCalls
    PROVE  /\ c[1] \in {"list", "join", "create", "get", "put"}
           /\ c[1] = "join" => c[2] \in Spaces /\ c = <<"join", c[2]>>
           /\ c[1] = "list" => c = <<"list">>
           /\ c[1] \in {"create", "get", "put"} => c[2] \in Spaces /\ c = <<c[1], c[2]>>
           /\ c[1] # "join" => c \in Requests
           /\ c # <<"shutdown">> /\ c[1] # "forget"
BY DEF AllCalls, Requests

LEMMA CallsAreCalls ==
    /\ Calls \subseteq AllCalls
    /\ plan \in Plans => plan.wants \subseteq Calls
BY PlansAssumption DEF Calls, Plan

LEMMA HoldsHead ==
    ASSUME NEW T, NEW q \in Seq(T), q # <<>>, NEW x
    PROVE  /\ Holds(q, x) <=> x = Head(q) \/ Holds(Tail(q), x)
           /\ Head(q) \in T
           /\ Tail(q) \in Seq(T)
BY DEF Holds

LEMMA AppendIs ==
    ASSUME NEW T, NEW q \in Seq(T), NEW m \in T
    PROVE  /\ Append(q, m) \in Seq(T)
           /\ Len(Append(q, m)) = Len(q) + 1 /\ Len(q) \in Nat
           /\ Append(q, m)[Len(q) + 1] = m
           /\ \A i \in 1..Len(q) : Append(q, m)[i] = q[i]
           /\ \A i \in 1..Len(Append(q, m)) :
                  Append(q, m)[i] = m \/ (i \in 1..Len(q) /\ Append(q, m)[i] = q[i])
<1>. DEFINE a == Append(q, m)
<1>1. /\ a \in Seq(T) /\ Len(a) = Len(q) + 1 /\ Len(q) \in Nat
      /\ a[Len(q) + 1] = m
      /\ \A i \in 1..Len(q) : a[i] = q[i]
  OBVIOUS
<1>. HIDE DEF a
<1>3. ASSUME NEW i \in 1..Len(a) PROVE a[i] = m \/ (i \in 1..Len(q) /\ a[i] = q[i])
  BY <1>1
<1>. QED  BY <1>1, <1>3 DEF a

\* An event of the link becomes the last one, another event leaves it.
LEMMA LinkLast ==
    ASSUME NEW q \in Seq(Events), NEW m \in LinkEvents, NEW a, a = Append(q, m)
    PROVE  ~NoLink(a) /\ \A i \in Nat : LastLink(a, i) => a[i] = m
<1>1. m \in Events
  BY DEF Events
<1>2. Len(a) = Len(q) + 1 /\ Len(q) \in Nat /\ a[Len(q) + 1] = m
  BY <1>1, AppendIs
<1>3. ~NoLink(a)
  <2>1. Len(q) + 1 \in 1..Len(a)
    BY <1>2
  <2>. QED  BY <1>2, <2>1 DEF NoLink
<1>4. ASSUME NEW i \in Nat, LastLink(a, i) PROVE a[i] = m
  <2>1. i \in 1..Len(a) /\ \A j \in (i + 1)..Len(a) : a[j] \notin LinkEvents
    BY <1>4 DEF LastLink
  <2>2. ASSUME i # Len(a) PROVE FALSE
    <3>1. Len(a) \in (i + 1)..Len(a)
      BY <1>2, <2>1, <2>2
    <3>. QED  BY <1>2, <2>1, <3>1
  <2>. QED  BY <1>2, <2>2
<1>. QED  BY <1>3, <1>4

LEMMA LinkAppend ==
    ASSUME NEW q \in Seq(Events), NEW m \in Events \ LinkEvents, NEW a, a = Append(q, m)
    PROVE  /\ NoLink(a) => NoLink(q)
           /\ \A i \in Nat : LastLink(a, i) => LastLink(q, i) /\ a[i] = q[i]
<1>2. /\ Len(a) = Len(q) + 1 /\ Len(q) \in Nat /\ a[Len(q) + 1] = m
      /\ \A i \in 1..Len(q) : a[i] = q[i]
  BY AppendIs
<1>3. NoLink(a) => NoLink(q)
  BY <1>2 DEF NoLink
<1>4. ASSUME NEW i \in Nat, LastLink(a, i) PROVE LastLink(q, i) /\ a[i] = q[i]
  <2>1. /\ i \in 1..Len(a) /\ a[i] \in LinkEvents
        /\ \A j \in (i + 1)..Len(a) : a[j] \notin LinkEvents
    BY <1>4 DEF LastLink
  <2>2. i # Len(q) + 1
    BY <1>2, <2>1
  <2>3. i \in 1..Len(q) /\ a[i] = q[i]
    BY <1>2, <2>1, <2>2
  <2>4. ASSUME NEW j \in (i + 1)..Len(q) PROVE q[j] \notin LinkEvents
    <3>1. j \in 1..Len(q) /\ j \in (i + 1)..Len(a)
      BY <1>2, <2>3
    <3>. QED  BY <1>2, <2>1, <3>1
  <2>. QED  BY <2>1, <2>3, <2>4 DEF LastLink
<1>. QED  BY <1>3, <1>4

\* The first event is taken.
LEMMA LinkTail ==
    ASSUME NEW q \in Seq(Events), q # <<>>
    PROVE  /\ Head(q) \in Events /\ Tail(q) \in Seq(Events)
           /\ Head(q) \in LinkEvents /\ NoLink(Tail(q)) => LastLink(q, 1) /\ q[1] = Head(q)
           /\ \A i \in Nat : LastLink(Tail(q), i) =>
                i + 1 \in Nat /\ LastLink(q, i + 1) /\ Tail(q)[i] = q[i + 1]
           /\ Head(q) \notin LinkEvents /\ NoLink(Tail(q)) => NoLink(q)
           /\ \A P : (\A i \in 1..Len(q) : q[i] \notin P) =>
                Head(q) \notin P /\ \A i \in 1..Len(Tail(q)) : Tail(q)[i] \notin P
<1>. DEFINE t == Tail(q)
            e == Head(q)
<1>1. /\ Len(q) \in Nat \ {0} /\ e = q[1] /\ e \in Events
      /\ t \in Seq(Events) /\ Len(t) = Len(q) - 1 /\ Len(t) \in Nat
      /\ \A i \in 1..Len(t) : t[i] = q[i + 1]
  OBVIOUS
<1>. HIDE DEF t, e
<1>2. \A i \in 2..Len(q) : i - 1 \in 1..Len(t) /\ q[i] = t[i - 1]
  <2>1. SUFFICES ASSUME NEW i \in 2..Len(q) PROVE i - 1 \in 1..Len(t) /\ q[i] = t[i - 1]
    OBVIOUS
  <2>2. i - 1 \in 1..Len(t) /\ (i - 1) + 1 = i
    BY <1>1
  <2>. QED  BY <1>1, <2>2
<1>3. ASSUME e \in LinkEvents, NoLink(t) PROVE LastLink(q, 1) /\ q[1] = e
  BY <1>1, <1>2, <1>3 DEF LastLink, NoLink
<1>4. ASSUME NEW i \in Nat, LastLink(t, i)
      PROVE  i + 1 \in Nat /\ LastLink(q, i + 1) /\ t[i] = q[i + 1]
  <2>1. /\ i \in 1..Len(t) /\ t[i] \in LinkEvents
        /\ \A j \in (i + 1)..Len(t) : t[j] \notin LinkEvents
    BY <1>4 DEF LastLink
  <2>2. i + 1 \in 1..Len(q) /\ t[i] = q[i + 1]
    BY <1>1, <2>1
  <2>3. ASSUME NEW j \in ((i + 1) + 1)..Len(q) PROVE q[j] \notin LinkEvents
    <3>1. j \in 2..Len(q) /\ j - 1 \in (i + 1)..Len(t)
      BY <1>1
    <3>. QED  BY <1>2, <2>1, <3>1
  <2>. QED  BY <2>1, <2>2, <2>3 DEF LastLink
<1>5. ASSUME e \notin LinkEvents, NoLink(t) PROVE NoLink(q)
  <2>1. \A i \in 1..Len(q) : i = 1 \/ i \in 2..Len(q)
    BY <1>1
  <2>. QED  BY <1>1, <1>2, <1>5, <2>1 DEF NoLink
<1>6. ASSUME NEW P, \A i \in 1..Len(q) : q[i] \notin P
      PROVE  e \notin P /\ \A i \in 1..Len(t) : t[i] \notin P
  <2>1. 1 \in 1..Len(q) /\ \A i \in 1..Len(t) : i + 1 \in 1..Len(q)
    BY <1>1
  <2>. QED  BY <1>1, <1>6, <2>1
<1>. QED  BY <1>1, <1>3, <1>4, <1>5, <1>6 DEF t, e

LEMMA HoldsAppend ==
    ASSUME NEW T, NEW q \in Seq(T), NEW m \in T, NEW x
    PROVE  /\ Holds(Append(q, m), x) <=> x = m \/ Holds(q, x)
           /\ Append(q, m) \in Seq(T)
<1>1. Append(q, m) \in Seq(T) /\ Len(Append(q, m)) = Len(q) + 1 /\ Append(q, m)[Len(q) + 1] = m
      /\ \A i \in 1..Len(q) : Append(q, m)[i] = q[i]
  OBVIOUS
<1>. QED  BY <1>1 DEF Holds

-----------------------------------------------------------------------------
(* What the replies, the events and a lost connection change. *)

LEMMA JoiningIs ==
    ASSUME NEW g, NEW c
    PROVE  c \in Joining(g) <=> \E s \in Spaces : c = <<"join", s>> /\ g.joins[s] # {}
BY DEF Joining

LEMMA ReplyFields ==
    ASSUME NEW g \in EngineType, NEW C, NEW r \in Results
    PROVE  LET h == Reply(g, C, r) IN
           /\ h \in EngineType
           /\ \A c \in Calls :
                h.calls[c] = IF c \in C /\ g.calls[c] = "asked" THEN r ELSE g.calls[c]
           /\ h.waits = g.waits \ C
           /\ h.orphans = g.orphans \ C
           /\ h.stage = g.stage /\ h.gaveUp = g.gaveUp /\ h.link = g.link
           /\ h.up = g.up /\ h.down = g.down /\ h.cmds = g.cmds
           /\ h.joins = g.joins /\ h.logs = g.logs /\ h.keys = g.keys
           /\ h.rejected = g.rejected /\ h.forgot = g.forgot
           /\ h.events = g.events /\ h.listens = g.listens /\ h.missed = g.missed
BY DEF Reply, EngineType, Results

LEMMA EmitFields ==
    ASSUME NEW g \in EngineType, NEW event \in Events
    PROVE  LET h == Emit(g, event) IN
           /\ h \in EngineType
           /\ g.listens => h.events = Append(g.events, event) /\ h.missed = g.missed
           /\ ~g.listens => h.events = g.events /\ h.missed = TRUE
           /\ h.calls = g.calls /\ h.waits = g.waits /\ h.orphans = g.orphans
           /\ h.stage = g.stage /\ h.gaveUp = g.gaveUp /\ h.link = g.link
           /\ h.up = g.up /\ h.down = g.down /\ h.cmds = g.cmds
           /\ h.joins = g.joins /\ h.logs = g.logs /\ h.keys = g.keys
           /\ h.rejected = g.rejected /\ h.forgot = g.forgot
           /\ h.listens = g.listens
<1>1. CASE g.listens
  <2>1. Emit(g, event) = [g EXCEPT !.events = Append(@, event)]
    BY <1>1 DEF Emit
  <2>2. Append(g.events, event) \in Seq(Events)
    BY DEF EngineType
  <2>. QED  BY <1>1, <2>1, <2>2 DEF EngineType
<1>2. CASE ~g.listens
  <2>1. Emit(g, event) = [g EXCEPT !.missed = TRUE]
    BY <1>2 DEF Emit
  <2>. QED  BY <1>2, <2>1 DEF EngineType
<1>. QED  BY <1>1, <1>2

LEMMA JoiningCalls ==
    ASSUME NEW g PROVE Joining(g) \subseteq AllCalls
BY DEF Joining, AllCalls

LEMMA DisconnectedFields ==
    ASSUME NEW g \in EngineType
    PROVE  LET h == Disconnected(g) IN
           /\ h \in EngineType
           /\ h.link = "none" /\ h.up = <<>> /\ h.down = <<>>
           /\ h.waits = {} /\ h.orphans = (g.orphans \ g.waits) \cup Joining(g)
           /\ \A c \in Calls :
                    h.calls[c] = IF c \in g.waits /\ g.calls[c] = "asked" THEN "disconnected"
                                 ELSE g.calls[c]
           /\ h.stage = g.stage /\ h.gaveUp = g.gaveUp /\ h.cmds = g.cmds
           /\ h.joins = g.joins /\ h.logs = g.logs /\ h.keys = g.keys
           /\ h.rejected = g.rejected /\ h.forgot = g.forgot
           /\ h.listens = g.listens
           /\ g.link = "none" => h.events = g.events /\ h.missed = g.missed
           /\ g.link # "none" /\ g.listens =>
                h.events = Append(g.events, <<"disconnected">>) /\ h.missed = g.missed
           /\ g.link # "none" /\ ~g.listens => h.events = g.events /\ h.missed = TRUE
<1>. DEFINE e == IF g.link = "none" THEN g ELSE Emit(g, <<"disconnected">>)
            r == Reply(e, e.waits, "disconnected")
            h == [r EXCEPT !.link = "none", !.up = <<>>, !.down = <<>>,
                           !.orphans = @ \cup Joining(e)]
<1>1. Disconnected(g) = h
  BY DEF Disconnected
<1>2. /\ e \in EngineType
      /\ e.calls = g.calls /\ e.waits = g.waits /\ e.orphans = g.orphans
      /\ e.stage = g.stage /\ e.gaveUp = g.gaveUp /\ e.cmds = g.cmds
      /\ e.joins = g.joins /\ e.logs = g.logs /\ e.keys = g.keys
      /\ e.rejected = g.rejected /\ e.forgot = g.forgot
      /\ e.listens = g.listens
      /\ g.link = "none" => e.events = g.events /\ e.missed = g.missed
      /\ g.link # "none" /\ g.listens =>
            e.events = Append(g.events, <<"disconnected">>) /\ e.missed = g.missed
      /\ g.link # "none" /\ ~g.listens => e.events = g.events /\ e.missed = TRUE
  <2>1. <<"disconnected">> \in Events
    BY DEF Events, LinkEvents
  <2>2. CASE g.link = "none"
    BY <2>2
  <2>3. CASE g.link # "none"
    BY <2>1, <2>3, EmitFields
  <2>. QED  BY <2>2, <2>3
<1>3. "disconnected" \in Results
  BY DEF Results
<1>. HIDE DEF e
<1>4. /\ r \in EngineType
      /\ \A c \in Calls :
              r.calls[c] = IF c \in e.waits /\ e.calls[c] = "asked" THEN "disconnected"
                           ELSE e.calls[c]
      /\ r.waits = e.waits \ e.waits
      /\ r.orphans = e.orphans \ e.waits
      /\ r.stage = e.stage /\ r.gaveUp = e.gaveUp /\ r.cmds = e.cmds
      /\ r.joins = e.joins /\ r.logs = e.logs /\ r.keys = e.keys
      /\ r.rejected = e.rejected /\ r.forgot = e.forgot
      /\ r.events = e.events /\ r.listens = e.listens /\ r.missed = e.missed
  BY <1>2, <1>3, ReplyFields
<1>5. Joining(e) = Joining(g) /\ Joining(e) \subseteq AllCalls
  BY <1>2, JoiningCalls DEF Joining
<1>. HIDE DEF r
<1>7. <<>> \in Seq(Requests) /\ <<>> \in Seq(Down) /\ r.orphans \cup Joining(e) \in SUBSET AllCalls
  BY <1>4, <1>5 DEF EngineType
<1>6. /\ h \in EngineType
      /\ h.link = "none" /\ h.up = <<>> /\ h.down = <<>>
      /\ h.orphans = r.orphans \cup Joining(e)
      /\ h.calls = r.calls /\ h.waits = r.waits
      /\ h.stage = r.stage /\ h.gaveUp = r.gaveUp /\ h.cmds = r.cmds
      /\ h.joins = r.joins /\ h.logs = r.logs /\ h.keys = r.keys
      /\ h.rejected = r.rejected /\ h.forgot = r.forgot
      /\ h.events = r.events /\ h.listens = r.listens /\ h.missed = r.missed
  BY <1>4, <1>7 DEF EngineType
<1>. HIDE DEF h
<1>. QED  BY <1>1, <1>2, <1>4, <1>5, <1>6

-----------------------------------------------------------------------------
(* What every handler is made of keeps an engine good. *)

Replies == Results \ {"gone"}

\* A request that is nowhere else may be answered.
LEMMA ReplyLoose ==
    ASSUME NEW g, NEW ph, NEW sh, Loose(g, ph, sh), NEW C, NEW r \in Replies,
           \A c \in C : ~Holds(g.cmds, c) /\ c \notin Joining(g),
           r = "ok" => \A s \in Spaces : <<"join", s>> \in C => s \in g.logs \cap g.keys
    PROVE  Loose(Reply(g, C, r), ph, sh)
<1>. DEFINE h == Reply(g, C, r)
<1>1. g \in EngineType /\ r \in Results
  BY DEF Loose, Sane, Replies
<1>2. /\ h \in EngineType
      /\ \A c \in Calls :
                h.calls[c] = IF c \in C /\ g.calls[c] = "asked" THEN r ELSE g.calls[c]
      /\ h.waits = g.waits \ C
      /\ h.stage = g.stage /\ h.gaveUp = g.gaveUp /\ h.link = g.link /\ h.cmds = g.cmds
      /\ h.joins = g.joins /\ h.logs = g.logs /\ h.keys = g.keys
      /\ h.rejected = g.rejected /\ h.forgot = g.forgot
      /\ h.events = g.events /\ h.listens = g.listens /\ h.missed = g.missed
  BY <1>1, ReplyFields
<1>3. Joining(h) = Joining(g)
  BY <1>2 DEF Joining
<1>. HIDE DEF h
<1>4. Sane(h)
  BY <1>2 DEF Loose, Sane
<1>5. Loaded(h)
  BY <1>2 DEF Loose, Loaded
<1>6. Kept(h)
  BY <1>2 DEF Loose, Kept, Replies
<1>7. Single(h)
  BY <1>2, <1>3 DEF Loose, Single
<1>8. Waited(h, ph)
  <2>1. \A c \in Calls : Pends(h, c) => c \notin C /\ Pends(g, c)
    BY <1>2, <1>3 DEF Pends
  <2>. QED  BY <1>2, <2>1 DEF Loose, Waited
<1>9. Told(h, ph, sh)
  BY <1>2 DEF Loose, Told, Connected
<1>. QED  BY <1>4, <1>5, <1>6, <1>7, <1>8, <1>9 DEF Loose, h

LEMMA ReplyServed ==
    ASSUME NEW g, g \in EngineType, NEW C, NEW r \in Results, WaitsServed(g, C), JoinsServed(g, {}),
           \A c \in C : c \notin Joining(g)
    PROVE  Served(Reply(g, C, r))
<1>. DEFINE h == Reply(g, C, r)
<1>2. /\ h.waits = g.waits \ C /\ h.orphans = g.orphans \ C
      /\ h.link = g.link /\ h.up = g.up /\ h.down = g.down
      /\ h.joins = g.joins
  BY ReplyFields
<1>3. Joining(h) = Joining(g)
  BY <1>2 DEF Joining
<1>. HIDE DEF h
<1>4. WaitsServed(h, {})
  <2>1. \A c : Coming(h, c) <=> Coming(g, c)
    BY <1>2 DEF Coming
  <2>. QED  BY <1>2, <2>1 DEF WaitsServed, Connected
<1>5. JoinsServed(h, {})
  <2>1. \A s, part : ComingTo(h, s, part) <=> ComingTo(g, s, part)
    BY <1>2 DEF ComingTo
  <2>. QED  BY <1>2, <1>3, <2>1 DEF JoinsServed
<1>. QED  BY <1>4, <1>5 DEF Served, h

LEMMA DisconnectedGood ==
    ASSUME NEW g, NEW ph, NEW sh, Loose(g, ph, sh)
    PROVE  Good(Disconnected(g), ph, sh)
<1>. DEFINE h == Disconnected(g)
<1>1. g \in EngineType
  BY DEF Loose, Sane
<1>2. /\ h \in EngineType
      /\ h.link = "none" /\ h.up = <<>> /\ h.down = <<>>
      /\ h.waits = {} /\ h.orphans = (g.orphans \ g.waits) \cup Joining(g)
      /\ \A c \in Calls :
              h.calls[c] = IF c \in g.waits /\ g.calls[c] = "asked" THEN "disconnected"
                           ELSE g.calls[c]
      /\ h.stage = g.stage /\ h.gaveUp = g.gaveUp /\ h.cmds = g.cmds
      /\ h.joins = g.joins /\ h.logs = g.logs /\ h.keys = g.keys
      /\ h.rejected = g.rejected /\ h.forgot = g.forgot
      /\ h.listens = g.listens
      /\ g.link = "none" => h.events = g.events /\ h.missed = g.missed
      /\ g.link # "none" /\ g.listens =>
            h.events = Append(g.events, <<"disconnected">>) /\ h.missed = g.missed
      /\ g.link # "none" /\ ~g.listens => h.events = g.events /\ h.missed = TRUE
  BY <1>1, DisconnectedFields
<1>3. Joining(h) = Joining(g)
  BY <1>2 DEF Joining
<1>10. \A c \in g.waits : c \notin Joining(g) /\ ~Holds(g.cmds, c)
  BY <1>1 DEF Loose, Sane, Single, Joining, EngineType
<1>. HIDE DEF h
<1>4. Sane(h)
  BY <1>2 DEF Loose, Sane
<1>5. Loaded(h)
  BY <1>2 DEF Loose, Loaded
<1>6. Kept(h)
  BY <1>2, <1>10 DEF Loose, Kept
<1>7. Single(h)
  BY <1>2, <1>3 DEF Loose, Single
<1>8. Waited(h, ph)
  <2>1. \A c \in Calls : Pends(h, c) => c \notin g.waits /\ Pends(g, c)
    BY <1>2, <1>3, <1>10 DEF Pends
  <2>. QED  BY <1>2, <2>1 DEF Loose, Waited
<1>9. Told(h, ph, sh)
  <2>1. CASE g.link = "none"
    BY <1>2, <2>1 DEF Loose, Told, Connected
  <2>2. CASE g.link # "none" /\ ~g.listens
    BY <1>2, <2>2 DEF Told
  <2>3. CASE g.link # "none" /\ g.listens
    <3>1. g.events \in Seq(Events) /\ g.gaveUp = "no"
      BY <1>1, <2>3 DEF Loose, Sane, EngineType
    <3>2. <<"disconnected">> \in LinkEvents /\ <<"disconnected">> \in Events
          /\ <<"disconnected">> \notin Fatal /\ <<"disconnected">> # <<"connected">>
      BY DEF Events, LinkEvents, Fatal
    <3>3. h.events = Append(g.events, <<"disconnected">>)
      BY <1>2, <2>3
    <3>4. /\ ~NoLink(h.events)
          /\ \A i \in Nat : LastLink(h.events, i) => h.events[i] = <<"disconnected">>
      <4>1. \A a : a = Append(g.events, <<"disconnected">>) =>
                ~NoLink(a) /\ \A i \in Nat : LastLink(a, i) => a[i] = <<"disconnected">>
        BY <3>1, <3>2, LinkLast
      <4>. QED  BY <3>3, <4>1
    <3>5. \A i \in 1..Len(h.events) :
              h.events[i] = <<"disconnected">>
                \/ (i \in 1..Len(g.events) /\ h.events[i] = g.events[i])
      BY <3>1, <3>2, <3>3, AppendIs
    <3>. QED  BY <1>2, <2>3, <3>1, <3>2, <3>4, <3>5 DEF Loose, Told, Connected
  <2>. QED  BY <2>1, <2>2, <2>3
<1>11. Served(h)
  BY <1>2, <1>3 DEF Served, WaitsServed, JoinsServed
<1>. QED  BY <1>4, <1>5, <1>6, <1>7, <1>8, <1>9, <1>11 DEF Loose, Good, h

LEMMA SendFields ==
    ASSUME NEW g \in EngineType, NEW m \in Requests, Writable(g)
    PROVE  LET h == Send(g, m) IN
           /\ h \in EngineType
           /\ h.up = Append(g.up, m)
           /\ h.calls = g.calls /\ h.waits = g.waits /\ h.orphans = g.orphans
           /\ h.stage = g.stage /\ h.gaveUp = g.gaveUp /\ h.link = g.link
           /\ h.down = g.down /\ h.cmds = g.cmds
           /\ h.joins = g.joins /\ h.logs = g.logs /\ h.keys = g.keys
           /\ h.rejected = g.rejected /\ h.forgot = g.forgot
           /\ h.events = g.events /\ h.listens = g.listens /\ h.missed = g.missed
<1>1. Send(g, m) = [g EXCEPT !.up = Append(@, m)]
  BY DEF Send, Writable
<1>2. Append(g.up, m) \in Seq(Requests)
  BY DEF EngineType
<1>. QED  BY <1>1, <1>2 DEF EngineType

\* A request on the way to the relay changes nothing that was true.
LEMMA SendLoose ==
    ASSUME NEW g, NEW ph, NEW sh, Loose(g, ph, sh), NEW m \in Requests, Writable(g)
    PROVE  Loose(Send(g, m), ph, sh)
<1>. DEFINE h == Send(g, m)
<1>1. g \in EngineType
  BY DEF Loose, Sane
<1>2. /\ h \in EngineType
      /\ h.calls = g.calls /\ h.waits = g.waits
      /\ h.stage = g.stage /\ h.gaveUp = g.gaveUp /\ h.link = g.link /\ h.cmds = g.cmds
      /\ h.joins = g.joins /\ h.logs = g.logs /\ h.keys = g.keys
      /\ h.rejected = g.rejected /\ h.forgot = g.forgot
      /\ h.events = g.events /\ h.listens = g.listens /\ h.missed = g.missed
  BY <1>1, SendFields
<1>3. Joining(h) = Joining(g)
  BY <1>2 DEF Joining
<1>. HIDE DEF h
<1>4. Sane(h)
  BY <1>2 DEF Loose, Sane
<1>5. Loaded(h)
  BY <1>2 DEF Loose, Loaded
<1>6. Kept(h)
  BY <1>2 DEF Loose, Kept
<1>7. Single(h)
  BY <1>2, <1>3 DEF Loose, Single
<1>8. Waited(h, ph)
  BY <1>2, <1>3 DEF Loose, Waited, Pends
<1>9. Told(h, ph, sh)
  BY <1>2 DEF Loose, Told, Connected
<1>. QED  BY <1>4, <1>5, <1>6, <1>7, <1>8, <1>9 DEF Loose, h

LEMMA SendServed ==
    ASSUME NEW g \in EngineType, NEW m \in Requests, NEW X, NEW Y, Writable(g)
    PROVE  /\ WaitsServed(g, X \cup {m}) => WaitsServed(Send(g, m), X)
           /\ JoinsServed(g, Y) => JoinsServed(Send(g, m), Y)
<1>. DEFINE h == Send(g, m)
<1>2. /\ h.up = Append(g.up, m) /\ h.link = g.link /\ h.down = g.down
      /\ h.waits = g.waits /\ h.orphans = g.orphans /\ h.joins = g.joins
  BY SendFields
<1>3. Joining(h) = Joining(g)
  BY <1>2 DEF Joining
<1>. HIDE DEF h
<1>4. \A x : Holds(h.up, x) <=> x = m \/ Holds(g.up, x)
  <2>1. g.up \in Seq(Requests)
    BY DEF EngineType
  <2>. QED  BY <1>2, <2>1, HoldsAppend
<1>5. Connected(h)
  BY <1>2 DEF Connected, Writable
<1>6. (\A c : Coming(g, c) \/ c = m => Coming(h, c))
      /\ \A s, part : ComingTo(g, s, part) => ComingTo(h, s, part)
  BY <1>2, <1>4 DEF Coming, ComingTo
<1>. QED  BY <1>2, <1>3, <1>5, <1>6 DEF WaitsServed, JoinsServed, h

-----------------------------------------------------------------------------
(* Commands. *)

LEMMA SendGood ==
    ASSUME NEW g, NEW ph, NEW sh, Loose(g, ph, sh), NEW m \in Requests, Connected(g),
           WaitsServed(g, {m}), JoinsServed(g, {})
    PROVE  Good(Send(g, m), ph, sh)
<1>1. g \in EngineType
  BY DEF Loose, Sane
<1>2. CASE Writable(g)
  <2>1. Loose(Send(g, m), ph, sh)
    BY <1>2, SendLoose
  <2>2. WaitsServed(g, {} \cup {m})
    BY DEF WaitsServed
  <2>3. WaitsServed(Send(g, m), {}) /\ JoinsServed(Send(g, m), {})
    BY <1>1, <1>2, <2>2, SendServed
  <2>. QED  BY <2>1, <2>3 DEF Good, Served
<1>3. CASE ~Writable(g)
  <2>1. g.link = "broken"
    BY <1>1, <1>3 DEF Connected, Writable, EngineType
  <2>2. Send(g, m) = Disconnected(g)
    BY <2>1 DEF Send, Writable
  <2>. QED  BY <2>2, DisconnectedGood
<1>. QED  BY <1>2, <1>3

LEMMA GoodWaits ==
    ASSUME NEW g, NEW m, Served(g) PROVE WaitsServed(g, {m})
BY DEF Served, WaitsServed

\* Without a connection nothing is sent; a good engine stays good whatever it sends.
LEMMA SendStaysGood ==
    ASSUME NEW g, NEW ph, NEW sh, Good(g, ph, sh), NEW m \in Requests
    PROVE  Good(Send(g, m), ph, sh) /\ Send(g, m).cmds = g.cmds
<1>1. g \in EngineType
  BY DEF Good, Loose, Sane
<1>2. CASE Connected(g)
  <2>1. Good(Send(g, m), ph, sh)
    BY <1>2, GoodWaits, SendGood DEF Good, Served
  <2>2. CASE Writable(g)
    BY <1>1, <2>1, <2>2, SendFields
  <2>3. CASE ~Writable(g)
    <3>1. g.link = "broken"
      BY <1>1, <1>2, <2>3 DEF Connected, Writable, EngineType
    <3>2. Send(g, m) = Disconnected(g)
      BY <3>1 DEF Send, Writable
    <3>. QED  BY <1>1, <2>1, <3>2, DisconnectedFields
  <2>. QED  BY <2>2, <2>3
<1>3. CASE ~Connected(g)
  <2>1. Send(g, m) = g
    BY <1>3 DEF Connected, Send, Writable
  <2>. QED  BY <2>1
<1>. QED  BY <1>2, <1>3

\* A request that is nowhere else may wait.
LEMMA WaitLoose ==
    ASSUME NEW g, NEW ph, NEW sh, Loose(g, ph, sh),
           NEW c \in AllCalls, c[1] \notin {"join", "create"}, ~Holds(g.cmds, c),
           ph = "running" /\ c \in Calls => g.calls[c] = "asked"
    PROVE  LET h == [g EXCEPT !.waits = @ \cup {c}] IN
           /\ Loose(h, ph, sh)
           /\ Served(g) => WaitsServed(h, {c}) /\ JoinsServed(h, {})
           /\ h.link = g.link
<1>. DEFINE h == [g EXCEPT !.waits = @ \cup {c}]
<1>1. g \in EngineType
  BY DEF Loose, Sane
<1>2. /\ h \in EngineType /\ h.waits = g.waits \cup {c} /\ h.orphans = g.orphans
      /\ h.calls = g.calls /\ h.up = g.up /\ h.down = g.down
      /\ h.stage = g.stage /\ h.gaveUp = g.gaveUp /\ h.link = g.link /\ h.cmds = g.cmds
      /\ h.joins = g.joins /\ h.logs = g.logs /\ h.keys = g.keys
      /\ h.rejected = g.rejected /\ h.forgot = g.forgot
      /\ h.events = g.events /\ h.listens = g.listens /\ h.missed = g.missed
  <2>1. g.waits \cup {c} \in SUBSET AllCalls
    BY <1>1 DEF EngineType
  <2>. QED  BY <1>1, <2>1 DEF EngineType
<1>3. Joining(h) = Joining(g)
  BY <1>2 DEF Joining
<1>. HIDE DEF h
<1>4. Sane(h)
  BY <1>2 DEF Loose, Sane
<1>5. Loaded(h)
  BY <1>2 DEF Loose, Loaded
<1>6. Kept(h)
  BY <1>2 DEF Loose, Kept
<1>7. Single(h)
  BY <1>2, <1>3 DEF Loose, Single
<1>8. Waited(h, ph)
  BY <1>2, <1>3 DEF Loose, Waited, Pends
<1>9. Told(h, ph, sh)
  BY <1>2 DEF Loose, Told, Connected
<1>10. ASSUME Served(g) PROVE WaitsServed(h, {c}) /\ JoinsServed(h, {})
  <2>1. (\A x : Coming(h, x) <=> Coming(g, x))
        /\ \A s, part : ComingTo(h, s, part) <=> ComingTo(g, s, part)
    BY <1>2 DEF Coming, ComingTo
  <2>. QED  BY <1>2, <1>3, <1>10, <2>1 DEF Served, WaitsServed, JoinsServed, Connected
<1>. QED  BY <1>2, <1>4, <1>5, <1>6, <1>7, <1>8, <1>9, <1>10 DEF Loose, h

\* A request may be answered as soon as it is read.
LEMMA ReplyGood ==
    ASSUME NEW g, NEW ph, NEW sh, Good(g, ph, sh), NEW c, NEW r \in Replies,
           ~Holds(g.cmds, c), c \notin Joining(g),
           r = "ok" => \A s \in Spaces : c = <<"join", s>> => s \in g.logs \cap g.keys
    PROVE  Good(Reply(g, {c}, r), ph, sh)
<1>1. g \in EngineType /\ r \in Results
  BY DEF Good, Loose, Sane, Replies
<1>2. Loose(Reply(g, {c}, r), ph, sh)
  <2>1. \A x \in {c} : ~Holds(g.cmds, x) /\ x \notin Joining(g)
    OBVIOUS
  <2>2. r = "ok" => \A s \in Spaces : <<"join", s>> \in {c} => s \in g.logs \cap g.keys
    OBVIOUS
  <2>. QED  BY <2>1, <2>2, ReplyLoose DEF Good
<1>3. Served(Reply(g, {c}, r))
  BY <1>1, GoodWaits, ReplyServed DEF Good, Served
<1>. QED  BY <1>2, <1>3 DEF Good

LEMMA ListGood ==
    ASSUME NEW g, NEW ph, NEW sh, Good(g, ph, sh), ~Pends(g, <<"list">>),
           ph = "running" /\ <<"list">> \in Calls => g.calls[<<"list">>] = "asked"
    PROVE  Good(ListSpaces(g), ph, sh)
<1>. DEFINE c == <<"list">>
            w == [g EXCEPT !.waits = @ \cup {c}]
<1>1. /\ c \in AllCalls /\ c[1] \notin {"join", "create"} /\ c \in Requests
      /\ ~Holds(g.cmds, c) /\ c \notin Joining(g)
  BY DEF AllCalls, Requests, Pends
<1>2. CASE Connected(g)
  <2>1. Loose(w, ph, sh) /\ WaitsServed(w, {c}) /\ JoinsServed(w, {}) /\ w.link = g.link
    BY <1>1, WaitLoose DEF Good
  <2>2. Connected(w)
    BY <1>2, <2>1 DEF Connected
  <2>3. ListSpaces(g) = Send(w, c)
    BY <1>2 DEF ListSpaces
  <2>. HIDE DEF w
  <2>. QED  BY <1>1, <2>1, <2>2, <2>3, SendGood
<1>3. CASE ~Connected(g)
  <2>1. ListSpaces(g) = Reply(g, {c}, "disconnected")
    BY <1>3 DEF ListSpaces
  <2>2. "disconnected" \in Replies /\ "disconnected" # "ok"
    BY DEF Replies, Results
  <2>. QED  BY <1>1, <2>1, <2>2, ReplyGood
<1>. QED  BY <1>2, <1>3

LEMMA TransferGood ==
    ASSUME NEW g, NEW ph, NEW sh, Good(g, ph, sh), NEW c \in AllCalls,
           c[1] \notin {"join", "create"},
           ~Pends(g, c), ph = "running" /\ c \in Calls => g.calls[c] = "asked"
    PROVE  Good(Transfer(g, c), ph, sh)
<1>. DEFINE h == Send(g, c)
            w == [h EXCEPT !.waits = @ \cup {c}]
<1>1. c \in Requests /\ ~Holds(g.cmds, c) /\ c \notin Joining(g) /\ c \notin g.waits
      /\ g \in EngineType /\ c \notin Joining(h)
  BY CallTypes DEF Pends, Joining, Good, Loose, Sane
<1>2. Transfer(g, c) = IF Writable(g) THEN w ELSE Reply(h, {c}, "disconnected")
  BY <1>1 DEF Transfer
<1>3. Good(h, ph, sh) /\ h.cmds = g.cmds
  BY <1>1, SendStaysGood
<1>4. CASE Writable(g)
  <2>1. h.up = Append(g.up, c) /\ h.calls = g.calls /\ h.link = g.link
    BY <1>1, <1>4, SendFields
  <2>2. Holds(h.up, c)
    <3>1. g.up \in Seq(Requests)
      BY <1>1 DEF EngineType
    <3>. QED  BY <1>1, <2>1, <3>1, HoldsAppend
  <2>. HIDE DEF h
  <2>7. /\ Loose(h, ph, sh) /\ Served(h) /\ ~Holds(h.cmds, c)
        /\ ph = "running" /\ c \in Calls => h.calls[c] = "asked"
    BY <1>1, <1>3, <2>1 DEF Good
  <2>3. Loose(w, ph, sh) /\ WaitsServed(w, {c}) /\ JoinsServed(w, {}) /\ w.link = h.link
    BY <2>7, WaitLoose
  <2>4. w.up = h.up
    BY <1>3 DEF Good, Loose, Sane, EngineType
  <2>5. Connected(w) /\ Coming(w, c)
    BY <1>4, <2>1, <2>2, <2>3, <2>4 DEF Connected, Writable, Coming
  <2>. HIDE DEF w
  <2>6. Served(w)
    BY <2>3, <2>5 DEF Served, WaitsServed
  <2>. QED  BY <1>2, <1>4, <2>3, <2>6 DEF Good
<1>5. CASE ~Writable(g)
  <2>1. "disconnected" \in Replies /\ "disconnected" # "ok"
    BY DEF Replies, Results
  <2>. HIDE DEF h
  <2>. QED  BY <1>1, <1>2, <1>3, <1>5, <2>1, ReplyGood
<1>. QED  BY <1>4, <1>5

LEMMA PutGood ==
    ASSUME NEW g, NEW ph, NEW sh, Good(g, ph, sh), NEW c \in AllCalls,
           c[1] \notin {"join", "create"},
           ~Pends(g, c), ph = "running" /\ c \in Calls => g.calls[c] = "asked"
    PROVE  Good(PutBlob(g, c), ph, sh)
<1>1. CASE c[2] \in g.keys \cup g.logs
  <2>1. PutBlob(g, c) = Transfer(g, c)
    BY <1>1 DEF PutBlob
  <2>. QED  BY <2>1, TransferGood
<1>2. CASE c[2] \notin g.keys \cup g.logs
  <2>1. PutBlob(g, c) = Reply(g, {c}, "refused")
    BY <1>2 DEF PutBlob
  <2>2. "refused" \in Replies /\ "refused" # "ok"
    BY DEF Replies, Results
  <2>3. ~Holds(g.cmds, c) /\ c \notin Joining(g)
    BY DEF Pends
  <2>. QED  BY <2>1, <2>2, <2>3, ReplyGood
<1>. QED  BY <1>1, <1>2

\* A join that is nowhere else may wait, and needs both answers from then on.
LEMMA JoinWaits ==
    ASSUME NEW g, NEW ph, NEW sh, Good(g, ph, sh), NEW s \in Spaces, ~Pends(g, <<"join", s>>),
           ph = "running" /\ <<"join", s>> \in Calls => g.calls[<<"join", s>>] = "asked"
    PROVE  LET h == [g EXCEPT !.joins[s] = @ \cup {"waiter"}] IN
           /\ Loose(h, ph, sh)
           /\ WaitsServed(h, {}) /\ JoinsServed(h, {s})
           /\ h.link = g.link
<1>. DEFINE h == [g EXCEPT !.joins[s] = @ \cup {"waiter"}]
            c == <<"join", s>>
<1>1. g \in EngineType
  BY DEF Good, Loose, Sane
<1>2. /\ h \in EngineType /\ h.waits = g.waits /\ h.orphans = g.orphans
      /\ h.calls = g.calls /\ h.up = g.up /\ h.down = g.down
      /\ h.stage = g.stage /\ h.gaveUp = g.gaveUp /\ h.link = g.link /\ h.cmds = g.cmds
      /\ h.logs = g.logs /\ h.keys = g.keys
      /\ h.rejected = g.rejected /\ h.forgot = g.forgot
      /\ h.events = g.events /\ h.listens = g.listens /\ h.missed = g.missed
      /\ h.joins[s] = g.joins[s] \cup {"waiter"}
      /\ \A t \in Spaces \ {s} : h.joins[t] = g.joins[t]
  BY <1>1 DEF EngineType
<1>3. Joining(h) = Joining(g) \cup {c}
  BY <1>2 DEF Joining
<1>. HIDE DEF h
<1>11. c \in AllCalls
  BY DEF AllCalls
<1>4. Sane(h)
  BY <1>2 DEF Good, Loose, Sane
<1>5. Loaded(h)
  <2>1. \A t \in Spaces : \A part \in {"log", "keys"} : part \in h.joins[t] => part \in g.joins[t]
    BY <1>2
  <2>. QED  BY <1>2, <2>1 DEF Good, Loose, Loaded
<1>6. Kept(h)
  BY <1>2 DEF Good, Loose, Kept
<1>7. Single(h)
  <2>1. ~Holds(g.cmds, c)
    BY DEF Pends
  <2>. QED  BY <1>2, <1>3, <2>1 DEF Good, Loose, Single
<1>8. Waited(h, ph)
  BY <1>2, <1>3 DEF Good, Loose, Waited, Pends
<1>9. Told(h, ph, sh)
  BY <1>2 DEF Good, Loose, Told, Connected
<1>10. WaitsServed(h, {}) /\ JoinsServed(h, {s})
  <2>1. \A x : Coming(h, x) <=> Coming(g, x)
    BY <1>2 DEF Coming
  <2>2. \A t \in Spaces \ {s} : \A part : ComingTo(h, t, part) <=> ComingTo(g, t, part)
    BY <1>2 DEF ComingTo
  <2>3. \A t \in Spaces \ {s} : <<"join", t>> \in Joining(h) <=> <<"join", t>> \in Joining(g)
    BY <1>3
  <2>4. WaitsServed(h, {})
    BY <1>2, <2>1 DEF Good, Served, WaitsServed, Connected
  <2>5. JoinsServed(h, {s})
    BY <1>2, <2>2, <2>3 DEF Good, Served, JoinsServed
  <2>. QED  BY <2>4, <2>5
<1>. QED  BY <1>2, <1>4, <1>5, <1>6, <1>7, <1>8, <1>9, <1>10 DEF Loose, h

LEMMA JoinSpaceGood ==
    ASSUME NEW g, NEW ph, NEW sh, Good(g, ph, sh), NEW s \in Spaces, ~Pends(g, <<"join", s>>),
           ph = "running" /\ <<"join", s>> \in Calls => g.calls[<<"join", s>>] = "asked"
    PROVE  Good(JoinSpace(g, s), ph, sh)
<1>. DEFINE c == <<"join", s>>
            w == [g EXCEPT !.joins[s] = @ \cup {"waiter"}]
            h1 == Send(w, <<"log", s>>)
            h2 == Send(h1, <<"keys", s>>)
<1>1. ~Holds(g.cmds, c) /\ c \notin Joining(g)
  BY DEF Pends
<1>2. <<"log", s>> \in Requests /\ <<"keys", s>> \in Requests
  BY DEF Requests
<1>3. CASE Known(g, s)
  <2>1. JoinSpace(g, s) = Reply(g, {c}, "ok")
    BY <1>3 DEF JoinSpace
  <2>2. "ok" \in Replies
    BY DEF Replies, Results
  <2>3. \A t \in Spaces : c = <<"join", t>> => t \in g.logs \cap g.keys
    BY <1>3 DEF Known
  <2>. QED  BY <1>1, <2>1, <2>2, <2>3, ReplyGood
<1>4. CASE ~Known(g, s) /\ ~Connected(g)
  <2>1. JoinSpace(g, s) = Reply(g, {c}, "disconnected")
    BY <1>4 DEF JoinSpace
  <2>2. "disconnected" \in Replies /\ "disconnected" # "ok"
    BY DEF Replies, Results
  <2>. QED  BY <1>1, <2>1, <2>2, ReplyGood
<1>5. CASE ~Known(g, s) /\ Connected(g)
  <2>1. JoinSpace(g, s) = h2
    BY <1>5 DEF JoinSpace
  <2>2. Loose(w, ph, sh) /\ WaitsServed(w, {}) /\ JoinsServed(w, {s}) /\ w.link = g.link
    BY JoinWaits
  <2>. HIDE DEF w
  <2>3. w \in EngineType
    BY <2>2 DEF Loose, Sane
  <2>4. CASE Writable(w)
    <3>1. /\ h1 \in EngineType /\ h1.link = w.link /\ h1.up = Append(w.up, <<"log", s>>)
          /\ Loose(h1, ph, sh)
      BY <1>2, <2>2, <2>3, <2>4, SendFields, SendLoose
    <3>2. WaitsServed(h1, {}) /\ JoinsServed(h1, {s})
      <4>1. WaitsServed(w, {} \cup {<<"log", s>>})
        BY <2>2 DEF WaitsServed
      <4>. QED  BY <1>2, <2>2, <2>3, <2>4, <4>1, SendServed
    <3>3. Writable(h1)
      BY <2>4, <3>1 DEF Writable
    <3>. HIDE DEF h1
    <3>4. /\ h2.up = Append(h1.up, <<"keys", s>>)
          /\ Loose(h2, ph, sh)
      BY <1>2, <3>1, <3>3, SendFields, SendLoose
    <3>5. WaitsServed(h2, {}) /\ JoinsServed(h2, {s})
      <4>1. WaitsServed(h1, {} \cup {<<"keys", s>>})
        BY <3>2 DEF WaitsServed
      <4>. QED  BY <1>2, <3>1, <3>2, <3>3, <4>1, SendServed
    <3>6. Holds(h2.up, <<"log", s>>) /\ Holds(h2.up, <<"keys", s>>)
      <4>1. w.up \in Seq(Requests) /\ h1.up \in Seq(Requests)
        BY <2>3, <3>1 DEF EngineType
      <4>2. Holds(Append(w.up, <<"log", s>>), <<"log", s>>)
        BY <1>2, <4>1, HoldsAppend
      <4>3. Holds(Append(h1.up, <<"keys", s>>), <<"log", s>>)
        <5>1. Holds(h1.up, <<"log", s>>)
          BY <3>1, <4>2
        <5>. QED  BY <1>2, <4>1, <5>1, HoldsAppend
      <4>4. Holds(Append(h1.up, <<"keys", s>>), <<"keys", s>>)
        BY <1>2, <4>1, HoldsAppend
      <4>. QED  BY <3>4, <4>3, <4>4
    <3>. HIDE DEF h2
    <3>7. \A part \in {"log", "keys"} : ComingTo(h2, s, part)
      BY <3>6 DEF ComingTo
    <3>8. JoinsServed(h2, {})
      BY <3>5, <3>7 DEF JoinsServed
    <3>. QED  BY <2>1, <3>4, <3>5, <3>8 DEF Good, Served
  <2>5. CASE ~Writable(w)
    <3>1. w.link = "broken"
      BY <1>5, <2>2, <2>3, <2>5 DEF Connected, Writable, EngineType
    <3>2. h1 = Disconnected(w)
      BY <3>1 DEF Send, Writable
    <3>3. h1.link = "none" /\ Good(h1, ph, sh)
      <4>1. Disconnected(w).link = "none"
        BY <2>3, DisconnectedFields
      <4>2. Good(Disconnected(w), ph, sh)
        BY <2>2, DisconnectedGood
      <4>. QED  BY <3>2, <4>1, <4>2
    <3>. HIDE DEF h1
    <3>4. h2 = h1
      BY <3>3 DEF Send, Writable
    <3>. QED  BY <2>1, <3>3, <3>4
  <2>. QED  BY <2>4, <2>5
<1>. QED  BY <1>3, <1>4, <1>5

\* What is the same in two engines: all that Good says about requests.
SameRequests(g, h) ==
    /\ h.waits = g.waits /\ h.orphans = g.orphans /\ h.joins = g.joins
    /\ h.logs = g.logs /\ h.keys = g.keys /\ h.up = g.up /\ h.down = g.down
    /\ h.forgot = g.forgot
    /\ h.calls = g.calls /\ h.cmds = g.cmds

LEMMA SameRequestsGood ==
    ASSUME NEW g, NEW ph, NEW sh, Good(g, ph, sh), NEW h, SameRequests(g, h),
           Connected(g) => Connected(h), Sane(h),
           ph = "running" => h.stage \notin {"closing", "done"},
           NEW new, Told(h, ph, new)
    PROVE  Good(h, ph, new)
<1>1. Joining(h) = Joining(g)
  BY DEF Joining, SameRequests
<1>2. Kept(h) /\ Loaded(h)
  BY DEF SameRequests, Good, Loose, Kept, Loaded
<1>3. Single(h)
  BY <1>1 DEF SameRequests, Good, Loose, Single
<1>4. Waited(h, ph)
  BY <1>1 DEF SameRequests, Good, Loose, Waited, Pends
<1>5. WaitsServed(h, {})
  BY DEF SameRequests, Good, Served, WaitsServed, Coming
<1>6. JoinsServed(h, {})
  BY <1>1 DEF SameRequests, Good, Served, JoinsServed, ComingTo
<1>. QED  BY <1>2, <1>3, <1>4, <1>5, <1>6 DEF Good, Loose, Served

\* What message m has for a request, and for the joins.
Brings(m, c) ==
    m = c \/ (c[1] = "put" /\ (m = <<"named", c[2]>> \/ m = <<"quota">>))
JoinsBut(g, m) ==
    \A s \in Spaces : <<"join", s>> \in Joining(g) \ g.orphans =>
        \A part \in {"log", "keys"} :
            ComingTo(g, s, part) \/ m = <<part, s>> \/ m = <<"refused", s>>

\* More spaces among the logs and the keys.
MoreLoadedIn(g, h) ==
    /\ h \in EngineType /\ g.logs \subseteq h.logs /\ g.keys \subseteq h.keys
    /\ h.forgot = g.forgot
    /\ h.waits = g.waits /\ h.orphans = g.orphans /\ h.joins = g.joins
    /\ h.calls = g.calls /\ h.up = g.up /\ h.down = g.down
    /\ h.stage = g.stage /\ h.gaveUp = g.gaveUp /\ h.link = g.link /\ h.cmds = g.cmds
    /\ h.events = g.events /\ h.listens = g.listens /\ h.missed = g.missed

LEMMA MoreLoaded ==
    ASSUME NEW g, NEW ph, NEW sh, Loose(g, ph, sh), NEW m, NEW h, MoreLoadedIn(g, h)
    PROVE  /\ Loose(h, ph, sh)
           /\ WaitsServed(g, {}) => WaitsServed(h, {})
           /\ JoinsBut(g, m) => JoinsBut(h, m)
           /\ JoinsServed(g, {}) => JoinsServed(h, {})
<1>2. MoreLoadedIn(g, h)
  OBVIOUS
<1>3. Joining(h) = Joining(g)
  BY <1>2 DEF MoreLoadedIn, Joining
<1>4. Sane(h) /\ Kept(h)
  BY <1>2 DEF MoreLoadedIn, Loose, Sane, Kept
<1>5. Loaded(h)
  BY <1>2 DEF MoreLoadedIn, Loose, Loaded
<1>6. Single(h)
  BY <1>2, <1>3 DEF MoreLoadedIn, Loose, Single
<1>7. Waited(h, ph)
  BY <1>2, <1>3 DEF MoreLoadedIn, Loose, Waited, Pends
<1>8. Told(h, ph, sh)
  BY <1>2 DEF MoreLoadedIn, Loose, Told, Connected
<1>9. WaitsServed(g, {}) => WaitsServed(h, {})
  BY <1>2 DEF MoreLoadedIn, WaitsServed, Coming, Connected
<1>10. JoinsBut(g, m) => JoinsBut(h, m)
  BY <1>2, <1>3 DEF MoreLoadedIn, JoinsBut, ComingTo
<1>12. JoinsServed(g, {}) => JoinsServed(h, {})
  BY <1>2, <1>3 DEF MoreLoadedIn, JoinsServed, ComingTo
<1>11. Loose(h, ph, sh)
  BY <1>4, <1>5, <1>6, <1>7, <1>8 DEF Loose
<1>. QED  BY <1>9, <1>10, <1>11, <1>12

LEMMA CreateGood ==
    ASSUME NEW g, NEW ph, NEW sh, Good(g, ph, sh), NEW s \in Spaces, ~Pends(g, <<"create", s>>)
    PROVE  Good(CreateSpace(g, s), ph, sh)
<1>. DEFINE c == <<"create", s>>
            k == [g EXCEPT !.logs = @ \cup {s}, !.keys = @ \cup {s}]
            h == Send(k, c)
            r == IF Writable(g) THEN "ok" ELSE "disconnected"
<1>1. c \in Requests /\ ~Holds(g.cmds, c) /\ g \in EngineType
  BY DEF Requests, AllCalls, Pends, Good, Loose, Sane
<1>2. \A q : c \notin Joining(q)
  BY DEF Joining
<1>3. "disconnected" \in Replies /\ r \in Replies
  BY DEF Replies, Results
<1>4. \A t \in Spaces : c # <<"join", t>>
  OBVIOUS
<1>5. CASE ~Connected(g)
  <2>1. CreateSpace(g, s) = Reply(g, {c}, "disconnected")
    BY <1>5 DEF CreateSpace
  <2>. QED  BY <1>1, <1>2, <1>3, <1>4, <2>1, ReplyGood
<1>6. CASE Connected(g)
  <2>1. CreateSpace(g, s) = Reply(h, {c}, r)
    BY <1>6 DEF CreateSpace
  <2>2. MoreLoadedIn(g, k)
    BY <1>1 DEF EngineType, MoreLoadedIn
  <2>3. Good(k, ph, sh) /\ k.cmds = g.cmds
    <3>. HIDE DEF k
    <3>1. Loose(k, ph, sh) /\ WaitsServed(k, {}) /\ JoinsServed(k, {})
      BY <2>2, MoreLoaded DEF Good, Served
    <3>. QED  BY <2>2, <3>1 DEF Good, Served, MoreLoadedIn
  <2>. HIDE DEF k
  <2>4. Good(h, ph, sh) /\ h.cmds = g.cmds
    BY <1>1, <2>3, SendStaysGood
  <2>. HIDE DEF h, c, r
  <2>. QED  BY <1>1, <1>2, <1>3, <1>4, <2>1, <2>4, ReplyGood
<1>. QED  BY <1>5, <1>6

\* All that is of a space goes, and who waited for it is dropped.
LEMMA ForgottenFields ==
    ASSUME NEW g \in EngineType, NEW s \in Spaces
    PROVE  LET h == Forgotten(g, s)
               W == WaitersOf(g, s)
           IN
           /\ h \in EngineType
           /\ \A c \in Calls :
                h.calls[c] = IF c \in W /\ g.calls[c] = "asked" THEN "gone" ELSE g.calls[c]
           /\ h.waits = g.waits \ W /\ h.orphans = g.orphans \ W
           /\ h.joins[s] = {} /\ \A t \in Spaces \ {s} : h.joins[t] = g.joins[t]
           /\ h.logs = g.logs \ {s} /\ h.keys = g.keys \ {s}
           /\ h.forgot = g.forgot \cup ({"join", "get", "put"} \X {s})
           /\ h.rejected = g.rejected
           /\ h.stage = g.stage /\ h.gaveUp = g.gaveUp /\ h.link = g.link
           /\ h.up = g.up /\ h.down = g.down /\ h.cmds = g.cmds
           /\ h.events = g.events /\ h.listens = g.listens /\ h.missed = g.missed
<1>. DEFINE W == WaitersOf(g, s)
            q == Reply(g, W, "gone")
            F == q.forgot \cup ({"join", "get", "put"} \X {s})
            N == [q.joins EXCEPT ![s] = {}]
            L == q.logs \ {s}
            K == q.keys \ {s}
            h == [q EXCEPT !.logs = L, !.keys = K, !.joins = N, !.forgot = F]
<1>1. "gone" \in Results
  BY DEF Results
<1>2. /\ q \in EngineType
      /\ \A c \in Calls :
              q.calls[c] = IF c \in W /\ g.calls[c] = "asked" THEN "gone" ELSE g.calls[c]
      /\ q.waits = g.waits \ W /\ q.orphans = g.orphans \ W
      /\ q.stage = g.stage /\ q.gaveUp = g.gaveUp /\ q.link = g.link
      /\ q.up = g.up /\ q.down = g.down /\ q.cmds = g.cmds
      /\ q.joins = g.joins /\ q.logs = g.logs /\ q.keys = g.keys
      /\ q.rejected = g.rejected /\ q.forgot = g.forgot
      /\ q.events = g.events /\ q.listens = g.listens /\ q.missed = g.missed
  BY <1>1, ReplyFields
<1>3. Forgotten(g, s) = h
  BY DEF Forgotten
<1>. HIDE DEF q
<1>4. F \in SUBSET AllCalls /\ L \in SUBSET Spaces /\ K \in SUBSET Spaces
  <2>1. {"join", "get", "put"} \X {s} \subseteq AllCalls
    BY DEF AllCalls
  <2>. QED  BY <1>2, <2>1 DEF EngineType
<1>5. /\ N \in [Spaces -> SUBSET {"waiter", "log", "keys"}]
      /\ N[s] = {} /\ \A t \in Spaces \ {s} : N[t] = q.joins[t]
  BY <1>2 DEF EngineType
<1>6. /\ F = g.forgot \cup ({"join", "get", "put"} \X {s})
      /\ L = g.logs \ {s} /\ K = g.keys \ {s}
  BY <1>2
<1>. HIDE DEF F, N, L, K
<1>7. /\ h \in EngineType
      /\ h.logs = L /\ h.keys = K /\ h.joins = N /\ h.forgot = F
      /\ h.calls = q.calls /\ h.waits = q.waits /\ h.orphans = q.orphans
      /\ h.stage = q.stage /\ h.gaveUp = q.gaveUp /\ h.link = q.link
      /\ h.up = q.up /\ h.down = q.down /\ h.cmds = q.cmds /\ h.rejected = q.rejected
      /\ h.events = q.events /\ h.listens = q.listens /\ h.missed = q.missed
  BY <1>2, <1>4, <1>5 DEF EngineType
<1>. HIDE DEF h, W
<1>. QED  BY <1>2, <1>3, <1>5, <1>6, <1>7 DEF W

LEMMA ForgottenGood ==
    ASSUME NEW g, NEW ph, NEW sh, Good(g, ph, sh), NEW s \in Spaces
    PROVE  Good(Forgotten(g, s), ph, sh)
<1>. DEFINE h == Forgotten(g, s)
            W == WaitersOf(g, s)
<1>1. g \in EngineType
  BY DEF Good, Loose, Sane
<1>2. /\ h \in EngineType
      /\ \A c \in Calls :
                h.calls[c] = IF c \in W /\ g.calls[c] = "asked" THEN "gone" ELSE g.calls[c]
      /\ h.waits = g.waits \ W /\ h.orphans = g.orphans \ W
      /\ h.joins[s] = {} /\ \A t \in Spaces \ {s} : h.joins[t] = g.joins[t]
      /\ h.logs = g.logs \ {s} /\ h.keys = g.keys \ {s}
      /\ h.forgot = g.forgot \cup ({"join", "get", "put"} \X {s})
      /\ h.stage = g.stage /\ h.gaveUp = g.gaveUp /\ h.link = g.link
      /\ h.up = g.up /\ h.down = g.down /\ h.cmds = g.cmds
      /\ h.events = g.events /\ h.listens = g.listens /\ h.missed = g.missed
  BY <1>1, ForgottenFields
<1>3. Joining(h) = Joining(g) \ {<<"join", s>>}
  BY <1>2 DEF Joining
<1>4. /\ W \subseteq g.waits \cup Joining(g)
      /\ W \subseteq {"join", "get", "put"} \X {s}
      /\ <<"join", s>> \in Joining(g) => <<"join", s>> \in W
      /\ \A t \in Spaces \ {s} : <<"join", t>> \notin W
  BY DEF WaitersOf
<1>5. \A c \in W : ~Holds(g.cmds, c)
  <2>1. \A c \in W : c \in AllCalls
    BY <1>4 DEF AllCalls
  <2>. QED  BY <1>4, <2>1 DEF Good, Loose, Single
<1>. HIDE DEF h, W
<1>6. Sane(h)
  BY <1>2 DEF Good, Loose, Sane
<1>7. Loaded(h)
  <2>1. SUFFICES ASSUME NEW t \in Spaces
                 PROVE  /\ "log" \in h.joins[t] => t \in h.logs
                        /\ "keys" \in h.joins[t] => t \in h.keys
                        /\ <<"join", t>> \in Calls \ h.forgot /\ h.calls[<<"join", t>>] = "ok" =>
                                t \in h.logs \cap h.keys
    BY DEF Loaded
  <2>2. CASE t = s
    BY <1>2, <2>2
  <2>3. CASE t # s
    <3>1. /\ h.joins[t] = g.joins[t]
          /\ (t \in h.logs <=> t \in g.logs) /\ (t \in h.keys <=> t \in g.keys)
      BY <1>2, <2>3
    <3>2. <<"join", t>> \in Calls \ h.forgot /\ h.calls[<<"join", t>>] = "ok" =>
              <<"join", t>> \in Calls \ g.forgot /\ g.calls[<<"join", t>>] = "ok"
      BY <1>2
    <3>. QED  BY <3>1, <3>2 DEF Good, Loose, Loaded
  <2>. QED  BY <2>2, <2>3
<1>8. Kept(h)
  BY <1>2, <1>4, <1>5 DEF Good, Loose, Kept
<1>9. Single(h)
  BY <1>2, <1>3 DEF Good, Loose, Single
<1>10. Waited(h, ph)
  <2>1. \A c \in Calls : Pends(h, c) => c \notin W /\ Pends(g, c)
    <3>1. SUFFICES ASSUME NEW c \in Calls, Pends(h, c) PROVE c \notin W /\ Pends(g, c)
      OBVIOUS
    <3>2. CASE Holds(h.cmds, c)
      BY <1>2, <1>5, <3>2 DEF Pends
    <3>3. CASE c \in h.waits
      BY <1>2, <3>3 DEF Pends
    <3>4. CASE c \in Joining(h)
      BY <1>3, <1>4, <3>4 DEF Pends, Joining
    <3>. QED  BY <3>1, <3>2, <3>3, <3>4 DEF Pends
  <2>. QED  BY <1>2, <2>1 DEF Good, Loose, Waited
<1>11. Told(h, ph, sh)
  BY <1>2 DEF Good, Loose, Told, Connected
<1>12. WaitsServed(h, {})
  <2>1. \A x : Coming(h, x) <=> Coming(g, x)
    BY <1>2 DEF Coming
  <2>. QED  BY <1>2, <2>1 DEF Good, Served, WaitsServed, Connected
<1>13. JoinsServed(h, {})
  <2>1. SUFFICES ASSUME NEW t \in Spaces, <<"join", t>> \in Joining(h) \ h.orphans,
                        NEW part \in {"log", "keys"}
                 PROVE  ComingTo(h, t, part)
    BY DEF JoinsServed
  <2>2. t # s /\ <<"join", t>> \in Joining(g) \ g.orphans
    BY <1>2, <1>3, <1>4, <2>1
  <2>3. ComingTo(g, t, part)
    BY <2>2 DEF Good, Served, JoinsServed
  <2>. QED  BY <1>2, <2>2, <2>3 DEF ComingTo
<1>. QED  BY <1>6, <1>7, <1>8, <1>9, <1>10, <1>11, <1>12, <1>13 DEF Good, Loose, Served, h

LEMMA HandleCmdGood ==
    ASSUME NEW g, NEW ph, NEW sh, Good(g, ph, sh), NEW c \in AllCalls, ~Pends(g, c),
           ph = "running" /\ c \in Calls => g.calls[c] = "asked"
    PROVE  Good(HandleCmd(g, c), ph, sh)
<1>1. CASE c[1] = "join"
  <2>1. c[2] \in Spaces /\ c = <<"join", c[2]>>
    BY <1>1, CallTypes
  <2>2. HandleCmd(g, c) = JoinSpace(g, c[2])
    BY <1>1 DEF HandleCmd
  <2>3. PICK s \in Spaces : c = <<"join", s>> /\ s = c[2]
    BY <2>1
  <2>4. Good(JoinSpace(g, s), ph, sh)
    BY <2>3, JoinSpaceGood
  <2>. QED  BY <2>2, <2>3, <2>4
<1>2. CASE c[1] = "list"
  <2>1. c = <<"list">>
    BY <1>2, CallTypes
  <2>2. HandleCmd(g, c) = ListSpaces(g)
    BY <1>2 DEF HandleCmd
  <2>3. Good(ListSpaces(g), ph, sh)
    BY <2>1, ListGood
  <2>. QED  BY <2>2, <2>3
<1>3. CASE c[1] = "get"
  <2>1. HandleCmd(g, c) = Transfer(g, c)
    BY <1>3 DEF HandleCmd
  <2>. QED  BY <1>3, <2>1, TransferGood
<1>4. CASE c[1] = "put"
  <2>1. HandleCmd(g, c) = PutBlob(g, c)
    BY <1>4 DEF HandleCmd
  <2>. QED  BY <1>4, <2>1, PutGood
<1>5. CASE c[1] = "create"
  <2>1. PICK s \in Spaces : c = <<"create", s>> /\ s = c[2]
    BY <1>5, CallTypes
  <2>2. HandleCmd(g, c) = CreateSpace(g, s)
    BY <1>5, <2>1 DEF HandleCmd
  <2>3. ~Pends(g, <<"create", s>>)
    BY <2>1
  <2>. QED  BY <2>2, <2>3, CreateGood
<1>. QED  BY <1>1, <1>2, <1>3, <1>4, <1>5, CallTypes

-----------------------------------------------------------------------------
(* Messages of the relay. *)

\* Those that wait may be answered.
LEMMA AnswersGood ==
    ASSUME NEW g, NEW ph, NEW sh, Loose(g, ph, sh), NEW C, C \subseteq g.waits,
           WaitsServed(g, C), JoinsServed(g, {}), NEW r \in Replies
    PROVE  Good(Reply(g, C, r), ph, sh)
<1>1. g \in EngineType /\ r \in Results
  BY DEF Loose, Sane, Replies
<1>2. \A c \in C : c \in AllCalls /\ c[1] \notin {"join", "create"}
  BY <1>1 DEF Loose, Sane, EngineType
<1>3. \A c \in C : ~Holds(g.cmds, c) /\ c \notin Joining(g)
  <2>1. \A c \in C : ~Holds(g.cmds, c)
    BY <1>2 DEF Loose, Single
  <2>2. \A c \in C : c \notin Joining(g)
    BY <1>2 DEF Joining
  <2>. QED  BY <2>1, <2>2
<1>4. \A s \in Spaces : <<"join", s>> \notin C
  BY <1>2
<1>5. Loose(Reply(g, C, r), ph, sh)
  BY <1>3, <1>4, ReplyLoose
<1>6. Served(Reply(g, C, r))
  BY <1>1, <1>3, ReplyServed
<1>. QED  BY <1>5, <1>6 DEF Good

\* Joins may end when they are answered.
LEMMA JoinsEnd ==
    ASSUME NEW g, NEW ph, NEW sh, Loose(g, ph, sh), WaitsServed(g, {}), NEW r \in Replies,
           NEW J \in [Spaces -> SUBSET {"waiter", "log", "keys"}],
           \A s \in Spaces : J[s] = {} \/ J[s] = g.joins[s],
           NEW C,
           \A c : c \in C <=> \E s \in Spaces : c = <<"join", s>> /\ g.joins[s] # {} /\ J[s] = {},
           r = "ok" => \A s \in Spaces : <<"join", s>> \in C => s \in g.logs \cap g.keys,
           \A s \in Spaces : J[s] # {} /\ <<"join", s>> \in Joining(g) \ g.orphans =>
              \A part \in {"log", "keys"} : ComingTo(g, s, part)
    PROVE  Good([Reply(g, C, r) EXCEPT !.joins = J], ph, sh)
<1>. DEFINE q == Reply(g, C, r)
            h == [q EXCEPT !.joins = J]
<1>1. g \in EngineType /\ r \in Results
  BY DEF Loose, Sane, Replies
<1>2. /\ q \in EngineType
      /\ \A c \in Calls :
            q.calls[c] = IF c \in C /\ g.calls[c] = "asked" THEN r ELSE g.calls[c]
      /\ q.waits = g.waits \ C /\ q.orphans = g.orphans \ C
      /\ q.stage = g.stage /\ q.gaveUp = g.gaveUp /\ q.link = g.link /\ q.cmds = g.cmds
      /\ q.up = g.up /\ q.down = g.down /\ q.logs = g.logs /\ q.keys = g.keys
      /\ q.rejected = g.rejected /\ q.forgot = g.forgot
      /\ q.events = g.events /\ q.listens = g.listens /\ q.missed = g.missed
  BY <1>1, ReplyFields
<1>. HIDE DEF q
<1>3. /\ h \in EngineType /\ h.joins = J
      /\ h.calls = q.calls /\ h.waits = q.waits /\ h.orphans = q.orphans
      /\ h.stage = q.stage /\ h.gaveUp = q.gaveUp /\ h.link = q.link /\ h.cmds = q.cmds
      /\ h.up = q.up /\ h.down = q.down /\ h.logs = q.logs /\ h.keys = q.keys
      /\ h.rejected = q.rejected /\ h.forgot = q.forgot
      /\ h.events = q.events /\ h.listens = q.listens /\ h.missed = q.missed
  BY <1>2 DEF EngineType
<1>. HIDE DEF h
<1>4. Joining(h) = Joining(g) \ C
  BY <1>3 DEF Joining
<1>5. \A c \in C : ~Holds(g.cmds, c) /\ c \notin g.waits /\ c \in Joining(g)
  <2>1. \A c \in C : c \in Joining(g) /\ c \in AllCalls
    BY DEF Joining, AllCalls
  <2>2. \A c \in C : ~Holds(g.cmds, c)
    BY <2>1 DEF Loose, Single
  <2>3. \A c \in C : c[1] = "join"
    OBVIOUS
  <2>4. \A c \in C : c \notin g.waits
    BY <2>3 DEF Loose, Sane
  <2>. QED  BY <2>1, <2>2, <2>4
<1>6. Sane(h)
  BY <1>2, <1>3 DEF Loose, Sane
<1>7. Loaded(h)
  <2>1. SUFFICES ASSUME NEW s \in Spaces
                 PROVE  /\ "log" \in h.joins[s] => s \in h.logs
                        /\ "keys" \in h.joins[s] => s \in h.keys
                        /\ <<"join", s>> \in Calls \ h.forgot /\ h.calls[<<"join", s>>] = "ok" =>
                              s \in h.logs \cap h.keys
    BY DEF Loaded
  <2>2. h.joins[s] \subseteq g.joins[s] /\ h.logs = g.logs /\ h.keys = g.keys
                                        /\ h.forgot = g.forgot
    BY <1>2, <1>3
  <2>3. <<"join", s>> \in Calls /\ h.calls[<<"join", s>>] = "ok" =>
            g.calls[<<"join", s>>] = "ok" \/ (<<"join", s>> \in C /\ r = "ok")
    BY <1>2, <1>3
  <2>4. /\ "log" \in g.joins[s] => s \in g.logs
        /\ "keys" \in g.joins[s] => s \in g.keys
        /\ <<"join", s>> \in Calls \ g.forgot /\ g.calls[<<"join", s>>] = "ok" =>
              s \in g.logs \cap g.keys
    BY DEF Loose, Loaded
  <2>5. <<"join", s>> \in C /\ r = "ok" => s \in g.logs \cap g.keys
    OBVIOUS
  <2>. QED  BY <2>2, <2>3, <2>4, <2>5
<1>8. Kept(h)
  BY <1>2, <1>3, <1>5 DEF Loose, Kept, Replies
<1>9. Single(h)
  BY <1>2, <1>3, <1>4 DEF Loose, Single
<1>10. Waited(h, ph)
  <2>1. \A c \in Calls : Pends(h, c) => c \notin C /\ Pends(g, c)
    BY <1>2, <1>3, <1>4, <1>5 DEF Pends
  <2>. QED  BY <1>2, <1>3, <2>1 DEF Loose, Waited
<1>11. Told(h, ph, sh)
  BY <1>2, <1>3 DEF Loose, Told, Connected
<1>12. WaitsServed(h, {})
  <2>1. \A x : Coming(h, x) <=> Coming(g, x)
    BY <1>2, <1>3 DEF Coming
  <2>. QED  BY <1>2, <1>3, <1>5, <2>1 DEF WaitsServed, Connected
<1>13. JoinsServed(h, {})
  <2>1. SUFFICES ASSUME NEW s \in Spaces, <<"join", s>> \in Joining(h) \ h.orphans,
                        NEW part \in {"log", "keys"}
                 PROVE  ComingTo(h, s, part)
    BY DEF JoinsServed
  <2>2. J[s] # {}
    BY <1>3, <2>1 DEF Joining
  <2>3. <<"join", s>> \in Joining(g) \ g.orphans
    BY <1>2, <1>3, <1>4, <2>1
  <2>4. ComingTo(g, s, part)
    BY <2>2, <2>3
  <2>. QED  BY <1>2, <1>3, <2>2, <2>4 DEF ComingTo
<1>. QED  BY <1>6, <1>7, <1>8, <1>9, <1>10, <1>11, <1>12, <1>13 DEF Good, Served, Loose, h, q

\* One of the two answers of a join.
LEMMA FinishJoinGood ==
    ASSUME NEW g, NEW ph, NEW sh, Loose(g, ph, sh), NEW s \in Spaces, NEW part \in {"log", "keys"},
           WaitsServed(g, {}), JoinsBut(g, <<part, s>>),
           part = "log" => s \in g.logs, part = "keys" => s \in g.keys
    PROVE  Good(FinishJoin(g, s, part), ph, sh)
<1>1. g \in EngineType
  BY DEF Loose, Sane
<1>2. \A t \in Spaces \ {s} : <<"join", t>> \in Joining(g) \ g.orphans =>
          \A p \in {"log", "keys"} : ComingTo(g, t, p)
  BY DEF JoinsBut
<1>3. CASE g.joins[s] = {}
  <2>1. FinishJoin(g, s, part) = g
    BY <1>3 DEF FinishJoin
  <2>2. <<"join", s>> \notin Joining(g)
    BY <1>3 DEF Joining
  <2>3. JoinsServed(g, {})
    BY <1>2, <2>2 DEF JoinsServed
  <2>. QED  BY <2>1, <2>3 DEF Good, Served
<1>4. CASE g.joins[s] # {} /\ g.joins[s] \cup {part} = {"waiter", "log", "keys"}
  <2>. DEFINE C == {<<"join", s>>}
              J == [g.joins EXCEPT ![s] = {}]
  <2>1. FinishJoin(g, s, part) = [Reply(g, C, "ok") EXCEPT !.joins[s] = {}]
    BY <1>4 DEF FinishJoin
  <2>2. "ok" \in Replies /\ "ok" \in Results
    BY DEF Replies, Results
  <2>3. Reply(g, C, "ok").joins = g.joins
    BY <1>1, <2>2, ReplyFields
  <2>4. FinishJoin(g, s, part) = [Reply(g, C, "ok") EXCEPT !.joins = J]
    BY <2>1, <2>3
  <2>5. J \in [Spaces -> SUBSET {"waiter", "log", "keys"}]
        /\ \A t \in Spaces : J[t] = IF t = s THEN {} ELSE g.joins[t]
    BY <1>1 DEF EngineType
  <2>. HIDE DEF J
  <2>6. s \in g.logs \cap g.keys
    BY <1>4 DEF Loose, Loaded
  <2>7. \A c : c \in C <=> \E t \in Spaces : c = <<"join", t>> /\ g.joins[t] # {} /\ J[t] = {}
    BY <1>4, <2>5
  <2>8. \A t \in Spaces : J[t] # {} /\ <<"join", t>> \in Joining(g) \ g.orphans =>
            \A p \in {"log", "keys"} : ComingTo(g, t, p)
    BY <1>2, <2>5
  <2>9. \A t \in Spaces : <<"join", t>> \in C => t \in g.logs \cap g.keys
    BY <2>6
  <2>10. \A t \in Spaces : J[t] = {} \/ J[t] = g.joins[t]
    BY <2>5
  <2>. HIDE DEF C
  <2>. QED  BY <2>2, <2>4, <2>5, <2>7, <2>8, <2>9, <2>10, JoinsEnd
<1>5. CASE g.joins[s] # {} /\ g.joins[s] \cup {part} # {"waiter", "log", "keys"}
  <2>. DEFINE h == [g EXCEPT !.joins[s] = @ \cup {part}]
  <2>1. FinishJoin(g, s, part) = h
    BY <1>5 DEF FinishJoin
  <2>2. /\ h \in EngineType /\ h.waits = g.waits /\ h.orphans = g.orphans
        /\ h.calls = g.calls /\ h.up = g.up /\ h.down = g.down
        /\ h.stage = g.stage /\ h.gaveUp = g.gaveUp /\ h.link = g.link /\ h.cmds = g.cmds
        /\ h.logs = g.logs /\ h.keys = g.keys
        /\ h.rejected = g.rejected /\ h.forgot = g.forgot
        /\ h.events = g.events /\ h.listens = g.listens /\ h.missed = g.missed
        /\ h.joins[s] = g.joins[s] \cup {part}
        /\ \A t \in Spaces \ {s} : h.joins[t] = g.joins[t]
    BY <1>1 DEF EngineType
  <2>. HIDE DEF h
  <2>3. Joining(h) = Joining(g)
    BY <1>5, <2>2 DEF Joining
  <2>4. Sane(h) /\ Kept(h)
    BY <2>2 DEF Loose, Sane, Kept
  <2>5. Loaded(h)
    BY <2>2 DEF Loose, Loaded
  <2>6. Single(h)
    BY <2>2, <2>3 DEF Loose, Single
  <2>7. Waited(h, ph)
    BY <2>2, <2>3 DEF Loose, Waited, Pends
  <2>8. Told(h, ph, sh)
    BY <2>2 DEF Loose, Told, Connected
  <2>9. WaitsServed(h, {})
    BY <2>2 DEF WaitsServed, Coming, Connected
  <2>10. JoinsServed(h, {})
    <3>1. \A t \in Spaces, p \in {"log", "keys"} :
              ComingTo(g, t, p) \/ <<part, s>> = <<p, t>> => ComingTo(h, t, p)
      BY <2>2 DEF ComingTo
    <3>2. \A p, t : <<part, s>> = <<p, t>> => part = p /\ s = t
      OBVIOUS
    <3>. QED  BY <2>2, <2>3, <3>1 DEF JoinsServed, JoinsBut
  <2>. QED  BY <2>1, <2>4, <2>5, <2>6, <2>7, <2>8, <2>9, <2>10 DEF Good, Served, Loose
<1>. QED  BY <1>3, <1>4, <1>5

LEMMA MessageTypes ==
    ASSUME NEW m \in Down
    PROVE  /\ m[1] \in {"log", "keys", "list", "get", "put", "named", "quota", "refused",
                         "internal",
                         "account", "deleted"}
           /\ m[1] \notin {"list", "quota", "internal"} => m[2] \in Spaces /\ m = <<m[1], m[2]>>
           /\ m[1] \in {"list", "quota", "internal"} => m = <<m[1]>>
BY DEF Down

\* A refusal that does not say which join it is about ends them all.
LEMMA FailJoinsGood ==
    ASSUME NEW g, NEW ph, NEW sh, Loose(g, ph, sh), WaitsServed(g, {})
    PROVE  Good(FailJoins(g), ph, sh)
<1>. DEFINE J == [s \in Spaces |-> {}]
            C == Joining(g)
<1>1. \A s \in Spaces : J[s] = {}
  OBVIOUS
<1>2. J \in [Spaces -> SUBSET {"waiter", "log", "keys"}]
  OBVIOUS
<1>3. FailJoins(g) = [Reply(g, C, "refused") EXCEPT !.joins = J]
  BY DEF FailJoins
<1>. HIDE DEF J
<1>4. \A c : c \in C <=> \E s \in Spaces : c = <<"join", s>> /\ g.joins[s] # {} /\ J[s] = {}
  BY <1>1 DEF Joining
<1>5. "refused" \in Replies
  BY DEF Replies, Results
<1>. HIDE DEF C
<1>. QED  BY <1>1, <1>2, <1>3, <1>4, <1>5, JoinsEnd

\* The joins of a refused space end no more.
LEMMA FalloutGood ==
    ASSUME NEW g, NEW ph, NEW sh, Loose(g, ph, sh), WaitsServed(g, {}), NEW s \in Spaces,
           JoinsBut(g, <<"refused", s>>)
    PROVE  Good(Fallout(g, s), ph, sh)
<1>. DEFINE O == g.orphans \cup (Joining(g) \cap {<<"join", s>>})
            h == [g EXCEPT !.orphans = O]
<1>1. g \in EngineType
  BY DEF Loose, Sane
<1>2. Fallout(g, s) = h
  BY DEF Fallout
<1>3. /\ O \in SUBSET AllCalls /\ g.orphans \subseteq O
      /\ <<"join", s>> \in Joining(g) => <<"join", s>> \in O
  BY <1>1, JoiningCalls DEF EngineType
<1>. HIDE DEF O
<1>4. /\ h \in EngineType /\ h.orphans = O
      /\ h.waits = g.waits /\ h.joins = g.joins /\ h.calls = g.calls
      /\ h.up = g.up /\ h.down = g.down /\ h.logs = g.logs /\ h.keys = g.keys
      /\ h.forgot = g.forgot
      /\ h.stage = g.stage /\ h.gaveUp = g.gaveUp /\ h.link = g.link /\ h.cmds = g.cmds
      /\ h.events = g.events /\ h.listens = g.listens /\ h.missed = g.missed
  BY <1>1, <1>3 DEF EngineType
<1>. HIDE DEF h
<1>5. Joining(h) = Joining(g)
  BY <1>4 DEF Joining
<1>6. Sane(h) /\ Kept(h) /\ Loaded(h)
  BY <1>4 DEF Loose, Sane, Kept, Loaded
<1>7. Single(h)
  BY <1>4, <1>5 DEF Loose, Single
<1>8. Waited(h, ph)
  BY <1>4, <1>5 DEF Loose, Waited, Pends
<1>9. Told(h, ph, sh)
  BY <1>4 DEF Loose, Told, Connected
<1>10. WaitsServed(h, {})
  BY <1>3, <1>4 DEF WaitsServed, Coming, Connected
<1>11. JoinsServed(h, {})
  <2>1. SUFFICES ASSUME NEW t \in Spaces, <<"join", t>> \in Joining(h) \ h.orphans,
                        NEW part \in {"log", "keys"}
                 PROVE  ComingTo(h, t, part)
    BY DEF JoinsServed
  <2>2. t # s /\ <<"join", t>> \in Joining(g) \ g.orphans
    BY <1>3, <1>4, <1>5, <2>1
  <2>3. ComingTo(g, t, part)
    BY <2>2 DEF JoinsBut
  <2>. QED  BY <1>4, <2>3 DEF ComingTo
<1>. QED  BY <1>2, <1>6, <1>7, <1>8, <1>9, <1>10, <1>11 DEF Good, Loose, Served

\* An event about a space leaves what is said of the link.
LEMMA EmitSpaceGood ==
    ASSUME NEW g, NEW ph, NEW sh, Good(g, ph, sh), NEW event \in SpaceEvents
    PROVE  Good(Emit(g, event), ph, sh)
<1>. DEFINE h == Emit(g, event)
<1>1. g \in EngineType /\ g.events \in Seq(Events)
  BY DEF Good, Loose, Sane, EngineType
<1>2. event \in Events /\ event \notin LinkEvents /\ event \notin Fatal
  BY DEF Events, LinkEvents, SpaceEvents, Fatal
<1>3. /\ h \in EngineType /\ SameRequests(g, h)
      /\ g.listens => h.events = Append(g.events, event) /\ h.missed = g.missed
      /\ ~g.listens => h.events = g.events /\ h.missed = TRUE
      /\ h.stage = g.stage /\ h.gaveUp = g.gaveUp /\ h.link = g.link /\ h.listens = g.listens
  BY <1>1, <1>2, EmitFields DEF SameRequests
<1>. HIDE DEF h
<1>4. Sane(h)
  BY <1>3 DEF Good, Loose, Sane, SameRequests
<1>5. ph = "running" => h.stage \notin {"closing", "done"}
  BY <1>3 DEF Good, Loose, Waited
<1>6. Told(h, ph, sh)
  <2>1. SUFFICES ASSUME ph = "running", ~h.missed PROVE Told(h, ph, sh)
    BY DEF Told
  <2>2. h.events = Append(g.events, event) /\ ~g.missed /\ (Connected(h) <=> Connected(g))
    BY <1>3, <2>1 DEF Connected
  <2>3. /\ NoLink(h.events) => NoLink(g.events)
        /\ \A i \in Nat : LastLink(h.events, i) =>
                LastLink(g.events, i) /\ h.events[i] = g.events[i]
    <3>1. event \in Events \ LinkEvents
      BY <1>2
    <3>2. \A a : a = Append(g.events, event) =>
              /\ NoLink(a) => NoLink(g.events)
              /\ \A i \in Nat : LastLink(a, i) =>
                      LastLink(g.events, i) /\ a[i] = g.events[i]
      BY <1>1, <3>1, LinkAppend
    <3>. QED  BY <2>2, <3>2
  <2>4. \A i \in 1..Len(h.events) :
            h.events[i] = event \/ (i \in 1..Len(g.events) /\ h.events[i] = g.events[i])
    BY <1>1, <1>2, <2>2, AppendIs
  <2>5. Told(g, ph, sh)
    BY DEF Good, Loose
  <2>. QED  BY <1>2, <1>3, <2>1, <2>2, <2>3, <2>4, <2>5 DEF Told
<1>7. Connected(g) => Connected(h)
  BY <1>3 DEF Connected
<1>. QED  BY <1>3, <1>4, <1>5, <1>6, <1>7, SameRequestsGood DEF h

LEMMA HandleMsgGood ==
    ASSUME NEW g, NEW ph, NEW sh, Loose(g, ph, sh), NEW m \in Down,
           WaitsServed(g, {c \in g.waits : Brings(m, c)}), JoinsBut(g, m)
    PROVE  Good(HandleMsg(g, m), ph, sh)
<1>. DEFINE X == {c \in g.waits : Brings(m, c)}
<1>1. g \in EngineType /\ WaitsServed(g, X)
  BY DEF Loose, Sane
<1>2. \A c \in g.waits : c \in AllCalls /\ c[1] \in {"list", "get", "put"}
  <2>1. \A c \in g.waits : c \in AllCalls /\ c[1] \notin {"join", "create"}
    BY <1>1 DEF Loose, Sane, EngineType
  <2>. QED  BY <2>1, CallTypes
<1>3. "ok" \in Replies /\ "refused" \in Replies
  BY DEF Replies, Results
<1>4. m[1] \notin {"log", "keys", "refused"} => JoinsServed(g, {})
  BY DEF JoinsBut, JoinsServed
<1>5. m[1] \in {"log", "keys", "refused", "internal", "account", "deleted"} => X = {}
  BY <1>2 DEF Brings
<1>6. ASSUME NEW C, NEW r \in Replies, C = X, JoinsServed(g, {})
      PROVE  Good(Reply(g, C, r), ph, sh)
  <2>1. C \subseteq g.waits /\ WaitsServed(g, C)
    BY <1>1, <1>6
  <2>. QED  BY <1>6, <2>1, AnswersGood
<1>7. CASE m[1] = "log"
  <2>. DEFINE s == m[2]
              h == [g EXCEPT !.logs = @ \cup {s}]
  <2>1. s \in Spaces /\ m = <<"log", s>>
    BY <1>7, MessageTypes
  <2>2. MoreLoadedIn(g, h) /\ s \in h.logs
    BY <1>1, <2>1 DEF EngineType, MoreLoadedIn
  <2>3. HandleMsg(g, m) = FinishJoin(h, s, "log")
    BY <1>7 DEF HandleMsg
  <2>4. WaitsServed(g, {})
    BY <1>1, <1>5, <1>7
  <2>. HIDE DEF h, s
  <2>5. Loose(h, ph, sh) /\ WaitsServed(h, {}) /\ JoinsBut(h, m)
    BY <2>2, <2>4, MoreLoaded
  <2>. QED  BY <2>1, <2>2, <2>3, <2>5, FinishJoinGood
<1>8. CASE m[1] = "keys"
  <2>. DEFINE s == m[2]
              h == [g EXCEPT !.keys = @ \cup {s}]
  <2>1. s \in Spaces /\ m = <<"keys", s>>
    BY <1>8, MessageTypes
  <2>2. MoreLoadedIn(g, h) /\ s \in h.keys
    BY <1>1, <2>1 DEF EngineType, MoreLoadedIn
  <2>3. HandleMsg(g, m) = FinishJoin(h, s, "keys")
    BY <1>8 DEF HandleMsg
  <2>4. WaitsServed(g, {})
    BY <1>1, <1>5, <1>8
  <2>. HIDE DEF h, s
  <2>5. Loose(h, ph, sh) /\ WaitsServed(h, {}) /\ JoinsBut(h, m)
    BY <2>2, <2>4, MoreLoaded
  <2>. QED  BY <2>1, <2>2, <2>3, <2>5, FinishJoinGood
<1>9. CASE m[1] \in {"list", "get", "put"}
  <2>1. HandleMsg(g, m) = Reply(g, g.waits \cap {m}, "ok")
    BY <1>9 DEF HandleMsg
  <2>2. g.waits \cap {m} = X
    BY <1>9 DEF Brings
  <2>. HIDE DEF X
  <2>. QED  BY <1>3, <1>4, <1>6, <1>9, <2>1, <2>2
<1>10. CASE m[1] = "named"
  <2>1. HandleMsg(g, m) = Reply(g, g.waits \cap {<<"put", m[2]>>}, "refused")
    BY <1>10 DEF HandleMsg
  <2>2. g.waits \cap {<<"put", m[2]>>} = X
    <3>1. m = <<"named", m[2]>>
      BY <1>10, MessageTypes
    <3>2. \A c \in g.waits : Brings(m, c) <=> c[1] = "put" /\ m[2] = c[2]
      BY <1>2, <3>1 DEF Brings
    <3>3. \A c \in g.waits : c[1] = "put" => c = <<"put", c[2]>>
      BY <1>2, CallTypes
    <3>. QED  BY <3>2, <3>3
  <2>. HIDE DEF X
  <2>. QED  BY <1>3, <1>4, <1>6, <1>10, <2>1, <2>2
<1>11. CASE m[1] = "quota"
  <2>1. HandleMsg(g, m) = Reply(g, Uploads(g), "refused")
    BY <1>11 DEF HandleMsg
  <2>2. Uploads(g) = X
    <3>1. m = <<"quota">>
      BY <1>11, MessageTypes
    <3>2. \A c \in g.waits : Brings(m, c) <=> c[1] = "put"
      BY <1>2, <3>1 DEF Brings
    <3>. QED  BY <3>2 DEF Uploads
  <2>. HIDE DEF X
  <2>. QED  BY <1>3, <1>4, <1>6, <1>11, <2>1, <2>2
<1>12. CASE m[1] = "refused"
  <2>1. m[2] \in Spaces /\ m = <<"refused", m[2]>> /\ WaitsServed(g, {})
    BY <1>1, <1>5, <1>12, MessageTypes
  <2>2. CASE m[2] \in g.rejected
    <3>1. HandleMsg(g, m) = Fallout(g, m[2])
      BY <1>12, <2>2 DEF HandleMsg
    <3>2. PICK s \in Spaces : s = m[2] /\ m = <<"refused", s>>
      BY <2>1
    <3>. QED  BY <2>1, <3>1, <3>2, FalloutGood
  <2>3. CASE m[2] \notin g.rejected
    <3>1. HandleMsg(g, m) = FailJoins(g)
      BY <1>12, <2>3 DEF HandleMsg
    <3>. QED  BY <2>1, <3>1, FailJoinsGood
  <2>. QED  BY <2>2, <2>3
<1>14. CASE m[1] \in {"deleted", "account"}
  <2>1. m[2] \in Spaces
    BY <1>14, MessageTypes
  <2>. DEFINE f == Forgotten(g, m[2])
              k == [f EXCEPT !.rejected = @ \cup {m[2]}]
  <2>2. Good(g, ph, sh)
    BY <1>1, <1>4, <1>5, <1>14 DEF Good, Served
  <2>3. Good(f, ph, sh) /\ f \in EngineType
    BY <1>1, <2>1, <2>2, ForgottenGood, ForgottenFields
  <2>4. CASE m[1] = "deleted"
    <3>1. HandleMsg(g, m) = Emit(f, <<"SpaceDeleted", m[2]>>)
      BY <2>4 DEF HandleMsg
    <3>2. <<"SpaceDeleted", m[2]>> \in SpaceEvents
      BY <2>1 DEF SpaceEvents
    <3>. HIDE DEF f
    <3>. QED  BY <2>3, <3>1, <3>2, EmitSpaceGood
  <2>5. CASE m[1] = "account"
    <3>1. HandleMsg(g, m) = Emit(k, <<"SpaceRejected", m[2]>>)
      BY <2>5 DEF HandleMsg
    <3>2. <<"SpaceRejected", m[2]>> \in SpaceEvents
      BY <2>1 DEF SpaceEvents
    <3>. HIDE DEF f
    <3>3. /\ k \in EngineType /\ SameRequests(f, k) /\ k.link = f.link /\ k.gaveUp = f.gaveUp
          /\ k.events = f.events /\ k.listens = f.listens /\ k.missed = f.missed
          /\ k.stage = f.stage
      BY <2>1, <2>3 DEF EngineType, SameRequests
    <3>. HIDE DEF k
    <3>4. Sane(k)
      BY <2>3, <3>3 DEF Good, Loose, Sane, SameRequests
    <3>5. Told(k, ph, sh) /\ (Connected(f) => Connected(k))
      BY <2>3, <3>3 DEF Good, Loose, Told, Connected
    <3>6. ph = "running" => k.stage \notin {"closing", "done"}
      BY <2>3, <3>3 DEF Good, Loose, Waited
    <3>7. Good(k, ph, sh)
      BY <2>3, <3>3, <3>4, <3>5, <3>6, SameRequestsGood
    <3>. QED  BY <3>1, <3>2, <3>7, EmitSpaceGood
  <2>. QED  BY <1>14, <2>4, <2>5
<1>13. CASE m[1] = "internal"
  <2>1. HandleMsg(g, m) = g
    BY <1>13 DEF HandleMsg
  <2>. QED  BY <1>1, <1>4, <1>5, <1>13, <2>1 DEF Good, Served
<1>. QED  BY <1>7, <1>8, <1>9, <1>10, <1>11, <1>12, <1>13, <1>14, MessageTypes

-----------------------------------------------------------------------------
(* The steps of the engine. *)

\* The first message is taken off the link and handled.
LEMMA HandleWsGood ==
    ASSUME NEW g, NEW ph, NEW sh, Good(g, ph, sh), g.down # <<>>
    PROVE  Good(HandleWs(g), ph, sh)
<1>. DEFINE h == [g EXCEPT !.probing = FALSE, !.down = Tail(@)]
            m == Head(g.down)
<1>1. g \in EngineType
  BY DEF Good, Loose, Sane
<1>2. m \in Down /\ Tail(g.down) \in Seq(Down)
      /\ \A x : Holds(g.down, x) <=> x = m \/ Holds(Tail(g.down), x)
  <2>1. g.down \in Seq(Down)
    BY <1>1 DEF EngineType
  <2>. QED  BY <2>1, HoldsHead
<1>3. /\ h \in EngineType /\ h.down = Tail(g.down)
      /\ h.waits = g.waits /\ h.orphans = g.orphans /\ h.joins = g.joins
      /\ h.calls = g.calls /\ h.up = g.up /\ h.logs = g.logs /\ h.keys = g.keys
      /\ h.rejected = g.rejected /\ h.forgot = g.forgot
      /\ h.stage = g.stage /\ h.gaveUp = g.gaveUp /\ h.link = g.link /\ h.cmds = g.cmds
      /\ h.events = g.events /\ h.listens = g.listens /\ h.missed = g.missed
  BY <1>1, <1>2 DEF EngineType
<1>4. HandleWs(g) = HandleMsg(h, m)
  BY DEF HandleWs
<1>. HIDE DEF h, m
<1>5. Joining(h) = Joining(g)
  BY <1>3 DEF Joining
<1>6. Sane(h) /\ Kept(h)
  BY <1>3 DEF Good, Loose, Sane, Kept
<1>7. Loaded(h)
  BY <1>3 DEF Good, Loose, Loaded
<1>8. Single(h)
  BY <1>3, <1>5 DEF Good, Loose, Single
<1>9. Waited(h, ph)
  BY <1>3, <1>5 DEF Good, Loose, Waited, Pends
<1>10. Told(h, ph, sh)
  BY <1>3 DEF Good, Loose, Told, Connected
<1>11. Loose(h, ph, sh)
  BY <1>6, <1>7, <1>8, <1>9, <1>10 DEF Loose
<1>12. WaitsServed(h, {c \in h.waits : Brings(m, c)})
  <2>1. SUFFICES ASSUME NEW c \in h.waits \ h.orphans, ~Brings(m, c)
                 PROVE  Connected(h) /\ Coming(h, c)
    BY DEF WaitsServed
  <2>2. Connected(g) /\ Coming(g, c)
    BY <1>3, <2>1 DEF Good, Served, WaitsServed
  <2>. QED  BY <1>2, <1>3, <2>1, <2>2 DEF Coming, Connected, Brings
<1>13. JoinsBut(h, m)
  <2>1. SUFFICES ASSUME NEW s \in Spaces, <<"join", s>> \in Joining(h) \ h.orphans,
                        NEW part \in {"log", "keys"}
                 PROVE  ComingTo(h, s, part) \/ m = <<part, s>> \/ m = <<"refused", s>>
    BY DEF JoinsBut
  <2>2. ComingTo(g, s, part)
    BY <1>3, <1>5, <2>1 DEF Good, Served, JoinsServed
  <2>. QED  BY <1>2, <1>3, <2>2 DEF ComingTo
<1>. QED  BY <1>2, <1>4, <1>11, <1>12, <1>13, HandleMsgGood

Commands == AllCalls \cup ({"forget"} \X Spaces) \cup {<<"shutdown">>}

\* A command is taken: it pends no more.
LEMMA TakeGood ==
    ASSUME NEW g, NEW ph, NEW sh, Good(g, ph, sh), g.cmds # <<>>
    PROVE  LET h == [g EXCEPT !.cmds = Tail(@), !.forgot = @ \ {Head(g.cmds)}]
               c == Head(g.cmds)
           IN  /\ Good(h, ph, sh)
               /\ c \in Commands
               /\ c = <<"shutdown">> => ph # "running"
               /\ c \in AllCalls => ~Pends(h, c)
               /\ ph = "running" /\ c \in Calls => h.calls[c] = "asked"
<1>. DEFINE c == Head(g.cmds)
            F == g.forgot \ {c}
            h == [g EXCEPT !.cmds = Tail(@), !.forgot = F]
<1>1. g \in EngineType
  BY DEF Good, Loose, Sane
<1>2. g.cmds \in Seq(Commands)
  BY <1>1 DEF EngineType, Commands
<1>3. c \in Commands /\ Tail(g.cmds) \in Seq(Commands)
      /\ \A x : Holds(g.cmds, x) <=> x = c \/ Holds(Tail(g.cmds), x)
  BY <1>2, HoldsHead
<1>4. /\ h \in EngineType /\ h.cmds = Tail(g.cmds) /\ h.down = g.down
      /\ h.waits = g.waits /\ h.orphans = g.orphans /\ h.joins = g.joins
      /\ h.calls = g.calls /\ h.up = g.up /\ h.logs = g.logs /\ h.keys = g.keys
      /\ h.forgot = F
      /\ h.stage = g.stage /\ h.gaveUp = g.gaveUp /\ h.link = g.link
      /\ h.events = g.events /\ h.listens = g.listens /\ h.missed = g.missed
  <2>1. F \in SUBSET AllCalls /\ Tail(g.cmds) \in Seq(Commands)
    BY <1>1, <1>3 DEF EngineType
  <2>. HIDE DEF F
  <2>. QED  BY <1>1, <2>1 DEF EngineType, Commands
<1>16. F = g.forgot \ {c}
  OBVIOUS
<1>5. /\ Len(g.cmds) \in Nat \ {0} /\ c = g.cmds[1] /\ Len(h.cmds) = Len(g.cmds) - 1
      /\ \A i \in 1..Len(h.cmds) : h.cmds[i] = g.cmds[i + 1]
  BY <1>2, <1>4
<1>. HIDE DEF h, c, F
<1>6. Joining(h) = Joining(g)
  BY <1>4 DEF Joining
<1>17. c \in Calls => g.calls[c] \notin Results
  <2>1. Holds(g.cmds, c)
    BY <1>3
  <2>. QED  BY <2>1 DEF Good, Loose, Kept
<1>18. Kept(h)
  BY <1>3, <1>4, <1>16, <1>17 DEF Good, Loose, Kept, Results
<1>19. Loaded(h)
  <2>1. SUFFICES ASSUME NEW s \in Spaces
                 PROVE  /\ "log" \in h.joins[s] => s \in h.logs
                        /\ "keys" \in h.joins[s] => s \in h.keys
                        /\ <<"join", s>> \in Calls \ h.forgot /\ h.calls[<<"join", s>>] = "ok" =>
                                s \in h.logs \cap h.keys
    BY DEF Loaded
  <2>2. <<"join", s>> \in Calls \ h.forgot /\ h.calls[<<"join", s>>] = "ok" =>
            <<"join", s>> \in Calls \ g.forgot
    BY <1>4, <1>16, <1>17 DEF Results
  <2>. QED  BY <1>4, <2>2 DEF Good, Loose, Loaded
<1>7. Sane(h) /\ Kept(h) /\ Loaded(h)
  BY <1>4, <1>18, <1>19 DEF Good, Loose, Sane
<1>8. \A x \in AllCalls : \A i, j \in 1..Len(g.cmds) : g.cmds[i] = x /\ g.cmds[j] = x => i = j
  BY DEF Good, Loose, Single
<1>9. Single(h)
  <2>1. ASSUME NEW x \in AllCalls, NEW i \in 1..Len(h.cmds), NEW j \in 1..Len(h.cmds),
               h.cmds[i] = x, h.cmds[j] = x
        PROVE  i = j
    <3>1. i + 1 \in 1..Len(g.cmds) /\ j + 1 \in 1..Len(g.cmds)
          /\ g.cmds[i + 1] = x /\ g.cmds[j + 1] = x
      BY <1>5, <2>1
    <3>2. i + 1 = j + 1
      BY <1>8, <3>1
    <3>. QED  BY <3>2
  <2>2. ASSUME NEW x \in AllCalls, Holds(h.cmds, x) PROVE x \notin h.waits \cup Joining(h)
    <3>1. Holds(g.cmds, x)
      BY <1>3, <1>4, <2>2
    <3>. QED  BY <1>4, <1>6, <3>1 DEF Good, Loose, Single
  <2>. QED  BY <2>1, <2>2 DEF Single
<1>10. Waited(h, ph)
  BY <1>3, <1>4, <1>6 DEF Good, Loose, Waited, Pends
<1>11. Told(h, ph, sh)
  BY <1>4 DEF Good, Loose, Told, Connected
<1>12. WaitsServed(h, {}) /\ JoinsServed(h, {})
  BY <1>4, <1>6 DEF Good, Served, WaitsServed, JoinsServed, Coming, ComingTo, Connected
<1>13. c = <<"shutdown">> => ph # "running"
  BY <1>3 DEF Good, Loose, Waited
<1>14. ASSUME c \in AllCalls PROVE ~Pends(h, c)
  <2>1. c \in AllCalls /\ Holds(g.cmds, c)
    BY <1>3, <1>14
  <2>2. c \notin h.waits \cup Joining(h)
    BY <1>4, <1>6, <2>1 DEF Good, Loose, Single
  <2>3. ASSUME Holds(h.cmds, c) PROVE FALSE
    <3>1. PICK i \in 1..Len(h.cmds) : h.cmds[i] = c
      BY <2>3 DEF Holds
    <3>2. i + 1 \in 1..Len(g.cmds) /\ 1 \in 1..Len(g.cmds) /\ g.cmds[i + 1] = c /\ g.cmds[1] = c
      BY <1>5, <3>1
    <3>3. i + 1 = 1
      BY <1>8, <2>1, <3>2
    <3>. QED  BY <3>3
  <2>. QED  BY <2>2, <2>3 DEF Pends
<1>15. ASSUME ph = "running", c \in Calls PROVE h.calls[c] = "asked"
  BY <1>3, <1>4, <1>15 DEF Good, Loose, Waited, Pends
<1>. QED
  BY <1>3, <1>7, <1>9, <1>10, <1>11, <1>12, <1>13, <1>14, <1>15 DEF Good, Loose, Served, h, c, F

LEMMA CommandGood ==
    ASSUME TypeOK, Good(eng, phase, shown), Command
    PROVE  Good(eng', phase, shown)
<1>. DEFINE h == [eng EXCEPT !.cmds = Tail(@), !.forgot = @ \ {Head(eng.cmds)}]
            c == Head(eng.cmds)
<1>1. eng.cmds # <<>>
  BY DEF Command, Reads
<1>2. /\ Good(h, phase, shown)
      /\ c \in Commands
      /\ c = <<"shutdown">> => phase # "running"
      /\ c \in AllCalls => ~Pends(h, c)
      /\ phase = "running" /\ c \in Calls => h.calls[c] = "asked"
  BY <1>1, TakeGood
<1>3. eng' = IF c = <<"shutdown">> THEN [h EXCEPT !.stage = "closing"] ELSE HandleCmd(h, c)
  BY DEF Command, Becomes
<1>4. h.stage = "loop" /\ h \in EngineType
  <2>1. eng.stage = "loop" /\ eng \in EngineType
    BY DEF Command, Loops, TypeOK
  <2>. QED  BY <1>2, <2>1 DEF Good, Loose, Sane, EngineType
<1>. HIDE DEF h, c
<1>5. CASE c = <<"shutdown">>
  <2>. DEFINE k == [h EXCEPT !.stage = "closing"]
  <2>1. k \in EngineType /\ k.stage = "closing" /\ SameRequests(h, k)
        /\ k.link = h.link /\ k.gaveUp = h.gaveUp
        /\ k.events = h.events /\ k.listens = h.listens /\ k.missed = h.missed
    BY <1>4 DEF EngineType, SameRequests
  <2>2. eng' = k
    BY <1>3, <1>5
  <2>. HIDE DEF k
  <2>3. Sane(k)
    BY <1>2, <2>1 DEF SameRequests, Good, Loose, Sane
  <2>4. Told(k, phase, shown) /\ phase # "running" /\ (Connected(h) => Connected(k))
    BY <1>2, <1>5, <2>1 DEF Told, Connected
  <2>. QED  BY <1>2, <2>1, <2>2, <2>3, <2>4, SameRequestsGood
<1>6. CASE c \in AllCalls
  <2>1. eng' = HandleCmd(h, c)
    BY <1>3, <1>6, CallTypes
  <2>. QED  BY <1>2, <1>6, <2>1, HandleCmdGood
<1>7. CASE c \in {"forget"} \X Spaces
  <2>1. PICK s \in Spaces : c = <<"forget", s>>
    BY <1>7
  <2>2. eng' = HandleCmd(h, c) /\ HandleCmd(h, c) = Forgotten(h, s)
    BY <1>3, <2>1 DEF HandleCmd
  <2>. QED  BY <1>2, <2>2, ForgottenGood
<1>. QED  BY <1>2, <1>5, <1>6, <1>7 DEF Commands

\* What the user will be told, after one more event.
LEMMA EmitTold ==
    ASSUME NEW g, NEW ph, NEW sh, NEW event \in LinkEvents, NEW h,
           g.events \in Seq(Events), Told(g, ph, sh),
           ph = "running" /\ ~h.missed =>
                h.events = Append(g.events, event) /\ ~g.missed,
           event = <<"connected">> <=> Connected(h),
           event \in Fatal <=> h.gaveUp # "no",
           g.gaveUp = "no"
    PROVE  Told(h, ph, sh)
<1>1. SUFFICES ASSUME ph = "running", ~h.missed PROVE Told(h, ph, sh)
  BY DEF Told
<1>2. h.events = Append(g.events, event) /\ ~g.missed /\ event \in Events
  BY <1>1 DEF Events
<1>3. \A i \in 1..Len(h.events) :
          h.events[i] = event \/ (i \in 1..Len(g.events) /\ h.events[i] = g.events[i])
  BY <1>2, AppendIs
<1>6. ~NoLink(h.events) /\ \A i \in Nat : LastLink(h.events, i) => h.events[i] = event
  <2>1. \A a : a = Append(g.events, event) =>
            ~NoLink(a) /\ \A i \in Nat : LastLink(a, i) => a[i] = event
    BY LinkLast
  <2>. QED  BY <1>2, <2>1
<1>4. ~sh.dead /\ \A i \in 1..Len(g.events) : g.events[i] \notin Fatal
  BY <1>1, <1>2 DEF Told
<1>5. h.gaveUp = "no" => \A i \in 1..Len(h.events) : h.events[i] \notin Fatal
  BY <1>3, <1>4
<1>. QED  BY <1>4, <1>5, <1>6 DEF Told

\* A step of the loop that leaves the view of the user alone.
LEMMA QuietGood ==
    ASSUME NEW g, NEW ph, NEW sh, Good(g, ph, sh), NEW h \in EngineType, SameRequests(g, h),
           h.link = g.link, h.gaveUp = g.gaveUp, h.events = g.events,
           h.listens = g.listens, h.missed = g.missed,
           h.stage = g.stage \/ (h.stage = "attempt" /\ h.link = "none" /\ h.gaveUp = "no")
    PROVE  Good(h, ph, sh)
<1>1. Sane(h)
  BY DEF Good, Loose, Sane, SameRequests
<1>2. Told(h, ph, sh)
  BY DEF Good, Loose, Told, Connected
<1>3. ph = "running" => h.stage \notin {"closing", "done"}
  BY DEF Good, Loose, Waited
<1>. QED  BY <1>1, <1>2, <1>3, SameRequestsGood DEF Connected

\* An attempt to connect ends.
LEMMA AttemptEnds ==
    ASSUME NEW g, NEW ph, NEW sh, Good(g, ph, sh), g.stage = "attempt",
           NEW event \in LinkEvents \ {<<"disconnected">>}, NEW h \in EngineType,
           SameRequests(g, h), h.stage = "loop", h.listens = g.listens,
           h.link = IF event = <<"connected">> THEN "up" ELSE g.link,
           h.gaveUp = IF event \in Fatal THEN event[1] ELSE g.gaveUp,
           g.listens => h.events = Append(g.events, event) /\ h.missed = g.missed,
           ~g.listens => h.events = g.events /\ h.missed = TRUE
    PROVE  Good(h, ph, sh)
<1>1. g.link = "none" /\ g.gaveUp = "no" /\ g.events \in Seq(Events) /\ Told(g, ph, sh)
  BY DEF Good, Loose, Sane, EngineType
<1>6. event \in Fatal => event # <<"connected">> /\ event[1] # "no"
  BY DEF Fatal
<1>2. (event = <<"connected">> <=> Connected(h)) /\ (event \in Fatal <=> h.gaveUp # "no")
  BY <1>1, <1>6 DEF Connected
<1>3. Told(h, ph, sh)
  BY <1>1, <1>2, EmitTold
<1>4. Sane(h)
  BY <1>1, <1>2, <1>6 DEF Good, Loose, Sane, SameRequests
<1>5. Connected(g) => Connected(h)
  BY <1>1 DEF Connected
<1>. QED  BY <1>3, <1>4, <1>5, SameRequestsGood

LEMMA HandshakeGood ==
    ASSUME TypeOK, Good(eng, phase, shown), Handshake
    PROVE  Good(eng', phase, shown)
<1>1. eng.stage = "attempt" /\ eng \in EngineType
  BY DEF Handshake, Attempts, TypeOK
<1>2. CASE eng' = [Emit(eng, <<"connected">>) EXCEPT !.stage = "loop", !.link = "up",
                                                     !.probing = FALSE]
  <2>1. /\ <<"connected">> \in LinkEvents \ {<<"disconnected">>} /\ <<"connected">> \notin Fatal
        /\ <<"connected">> \in Events
    BY DEF Events, LinkEvents, Fatal
  <2>. DEFINE q == Emit(eng, <<"connected">>)
  <2>2. /\ q \in EngineType /\ SameRequests(eng, q)
        /\ eng.listens => q.events = Append(eng.events, <<"connected">>) /\ q.missed = eng.missed
        /\ ~eng.listens => q.events = eng.events /\ q.missed = TRUE
        /\ q.listens = eng.listens /\ q.gaveUp = eng.gaveUp
    BY <1>1, <2>1, EmitFields DEF SameRequests
  <2>3. eng' = [q EXCEPT !.stage = "loop", !.link = "up", !.probing = FALSE]
    BY <1>2
  <2>. HIDE DEF q
  <2>4. /\ eng' \in EngineType /\ SameRequests(eng, eng')
        /\ eng'.stage = "loop" /\ eng'.link = "up" /\ eng'.listens = q.listens
        /\ eng'.gaveUp = q.gaveUp /\ eng'.events = q.events /\ eng'.missed = q.missed
    BY <2>2, <2>3 DEF SameRequests, EngineType
  <2>. QED  BY <1>1, <2>1, <2>2, <2>4, AttemptEnds
<1>3. CASE eng' = [Emit(eng, <<"failed">>) EXCEPT !.stage = "loop"]
  <2>1. /\ <<"failed">> \in LinkEvents \ {<<"disconnected">>} /\ <<"failed">> \notin Fatal
        /\ <<"failed">> \in Events /\ <<"failed">> # <<"connected">>
    BY DEF Events, LinkEvents, Fatal
  <2>. DEFINE q == Emit(eng, <<"failed">>)
  <2>2. /\ q \in EngineType /\ SameRequests(eng, q)
        /\ eng.listens => q.events = Append(eng.events, <<"failed">>) /\ q.missed = eng.missed
        /\ ~eng.listens => q.events = eng.events /\ q.missed = TRUE
        /\ q.listens = eng.listens /\ q.gaveUp = eng.gaveUp /\ q.link = eng.link
    BY <1>1, <2>1, EmitFields DEF SameRequests
  <2>3. eng' = [q EXCEPT !.stage = "loop"]
    BY <1>3
  <2>. HIDE DEF q
  <2>4. /\ eng' \in EngineType /\ SameRequests(eng, eng')
        /\ eng'.stage = "loop" /\ eng'.link = q.link /\ eng'.listens = q.listens
        /\ eng'.gaveUp = q.gaveUp /\ eng'.events = q.events /\ eng'.missed = q.missed
    BY <2>2, <2>3 DEF SameRequests, EngineType
  <2>. QED  BY <1>1, <2>1, <2>2, <2>4, AttemptEnds
<1>4. ASSUME NEW why \in Fatal,
             eng' = [Emit(eng, why) EXCEPT !.stage = "loop", !.gaveUp = why[1]]
      PROVE  Good(eng', phase, shown)
  <2>1. /\ why \in LinkEvents \ {<<"disconnected">>} /\ why # <<"connected">>
        /\ why \in Events /\ why[1] \in {"rejected", "incompatible"}
    BY DEF Events, LinkEvents, Fatal
  <2>. DEFINE q == Emit(eng, why)
  <2>2. /\ q \in EngineType /\ SameRequests(eng, q)
        /\ eng.listens => q.events = Append(eng.events, why) /\ q.missed = eng.missed
        /\ ~eng.listens => q.events = eng.events /\ q.missed = TRUE
        /\ q.listens = eng.listens /\ q.link = eng.link
    BY <1>1, <2>1, EmitFields DEF SameRequests
  <2>3. eng' = [q EXCEPT !.stage = "loop", !.gaveUp = why[1]]
    BY <1>4
  <2>. HIDE DEF q
  <2>4. /\ eng' \in EngineType /\ SameRequests(eng, eng')
        /\ eng'.stage = "loop" /\ eng'.link = q.link /\ eng'.listens = q.listens
        /\ eng'.gaveUp = why[1] /\ eng'.events = q.events /\ eng'.missed = q.missed
    BY <2>1, <2>2, <2>3 DEF SameRequests, EngineType
  <2>. QED  BY <1>1, <2>1, <2>2, <2>4, AttemptEnds
<1>. QED  BY <1>2, <1>3, <1>4 DEF Handshake, Becomes

LEMMA TimerGood ==
    ASSUME TypeOK, Good(eng, phase, shown),
           LostWs \/ TryConnect \/ Probe \/ Pong \/ LivenessTimeout \/ Message
    PROVE  Good(eng', phase, shown)
<1>1. eng \in EngineType /\ Loose(eng, phase, shown)
  BY DEF TypeOK, Good
<1>2. CASE eng' = Disconnected(eng)
  BY <1>1, <1>2, DisconnectedGood
<1>3. CASE TryConnect
  <2>1. eng' = [eng EXCEPT !.stage = "attempt"] /\ eng.link = "none" /\ eng.gaveUp = "no"
    BY <1>3 DEF TryConnect, Becomes, Connected, MayTry
  <2>2. /\ eng' \in EngineType /\ SameRequests(eng, eng') /\ eng'.stage = "attempt"
        /\ eng'.link = eng.link /\ eng'.gaveUp = eng.gaveUp /\ eng'.events = eng.events
        /\ eng'.listens = eng.listens /\ eng'.missed = eng.missed
    BY <1>1, <2>1 DEF EngineType, SameRequests
  <2>. QED  BY <2>1, <2>2, QuietGood
<1>4. ASSUME NEW b \in BOOLEAN, eng' = [eng EXCEPT !.probing = b]
      PROVE  Good(eng', phase, shown)
  <2>1. /\ eng' \in EngineType /\ SameRequests(eng, eng') /\ eng'.stage = eng.stage
        /\ eng'.link = eng.link /\ eng'.gaveUp = eng.gaveUp /\ eng'.events = eng.events
        /\ eng'.listens = eng.listens /\ eng'.missed = eng.missed
    BY <1>1, <1>4 DEF EngineType, SameRequests
  <2>. QED  BY <2>1, QuietGood
<1>5. CASE Message
  BY <1>5, HandleWsGood DEF Message, Becomes
<1>6. CASE Probe
  BY <1>2, <1>4, <1>6 DEF Probe, Probed, Becomes
<1>7. CASE LostWs \/ LivenessTimeout
  BY <1>2, <1>7 DEF LostWs, LivenessTimeout, Becomes
<1>8. CASE Pong
  BY <1>4, <1>8 DEF Pong, Becomes
<1>. QED  BY <1>3, <1>5, <1>6, <1>7, <1>8

\* An engine that has nothing, under a view that says so.
LEMMA NoEngineFields ==
    /\ NoEngine \in EngineType
    /\ NoEngine.stage = "none" /\ NoEngine.gaveUp = "no" /\ NoEngine.link = "none"
    /\ NoEngine.up = <<>> /\ NoEngine.down = <<>> /\ NoEngine.cmds = <<>>
    /\ NoEngine.waits = {} /\ NoEngine.orphans = {} /\ Joining(NoEngine) = {}
    /\ \A s \in Spaces : NoEngine.joins[s] = {}
    /\ \A c \in Calls : NoEngine.calls[c] = "none"
    /\ NoEngine.events = <<>> /\ ~NoEngine.listens /\ ~NoEngine.missed
    /\ NoEngine.forgot = {}
BY DEF NoEngine, EngineType, Idle, Joining

Empty(g, st) ==
    /\ g \in EngineType /\ g.stage = st /\ SameRequests(NoEngine, g)
    /\ g.gaveUp = "no" /\ g.link = "none" /\ g.events = <<>> /\ ~g.listens /\ ~g.missed

LEMMA NewEngineIsEmpty ==
    ASSUME NEW st \in {"none", "loop", "attempt", "closing", "done"}
    PROVE  Empty([NoEngine EXCEPT !.stage = st], st) /\ Empty(NoEngine, "none")
BY NoEngineFields DEF EngineType, SameRequests, Empty

LEMMA EmptyGood ==
    ASSUME NEW st \in {"none", "loop", "done"}, NEW h, Empty(h, st), NEW ph, NEW sh,
           ph = "running" => st # "done", ph = "running" => sh = NotYet
    PROVE  Good(h, ph, sh)
<1>1. h \in EngineType /\ h.stage = st /\ SameRequests(NoEngine, h)
      /\ h.gaveUp = "no" /\ h.link = "none" /\ h.events = <<>> /\ ~h.listens /\ ~h.missed
  BY DEF Empty
<1>2. h.waits = {} /\ h.orphans = {} /\ h.cmds = <<>> /\ h.up = <<>> /\ h.down = <<>>
      /\ (\A s \in Spaces : h.joins[s] = {}) /\ (\A c \in Calls : h.calls[c] = "none")
  BY <1>1, NoEngineFields DEF SameRequests
<1>3. Joining(h) = {}
  BY <1>2 DEF Joining
<1>4. \A x : ~Holds(h.cmds, x)
  BY <1>2 DEF Holds
<1>5. Sane(h) /\ Loaded(h) /\ Kept(h)
  BY <1>1, <1>2, <1>4 DEF Sane, Loaded, Kept
<1>6. Single(h) /\ Waited(h, ph)
  BY <1>1, <1>2, <1>3, <1>4 DEF Single, Waited, Pends
<1>7. Told(h, ph, sh)
  BY <1>1 DEF Told, Connected, NotYet, NoLink, LastLink
<1>8. Served(h)
  BY <1>2, <1>3 DEF Served, WaitsServed, JoinsServed
<1>. QED  BY <1>5, <1>6, <1>7, <1>8 DEF Good, Loose

LEMMA StopGood ==
    ASSUME TypeOK, Good(eng, phase, shown), Stop
    PROVE  Good(eng', phase, shown)
<1>1. phase # "running"
  BY DEF Stop, Good, Loose, Waited
<1>2. Empty(eng', "done")
  BY NewEngineIsEmpty DEF Stop, Becomes
<1>. QED  BY <1>1, <1>2, EmptyGood

-----------------------------------------------------------------------------
(* The steps of the network and of the relay. *)

LEMMA RequestTypes ==
    ASSUME NEW m \in Requests
    PROVE  /\ m[1] \in {"log", "keys", "list", "create", "get", "put"}
           /\ m[1] # "list" => m[2] \in Spaces /\ m = <<m[1], m[2]>>
           /\ m[1] = "list" => m = <<"list">>
           /\ m[1] # "create" => m \in Down
           /\ CallOf(m) \in AllCalls
           /\ m[1] # "list" => <<"refused", m[2]>> \in Down /\ <<"account", m[2]>> \in Down
           /\ m[1] = "put" => <<"named", m[2]>> \in Down
           /\ <<"quota">> \in Down
<1>1. /\ m[1] \in {"log", "keys", "list", "create", "get", "put"}
      /\ m[1] # "list" => m[2] \in Spaces /\ m = <<m[1], m[2]>>
      /\ m[1] = "list" => m = <<"list">>
  BY DEF Requests, AllCalls
<1>2. m[1] # "create" => m \in Down
  BY <1>1 DEF Down
<1>3. CallOf(m) \in AllCalls
  BY <1>1 DEF CallOf, AllCalls
<1>4. /\ m[1] = "put" => <<"named", m[2]>> \in Down
      /\ m[1] # "list" => <<"refused", m[2]>> \in Down /\ <<"account", m[2]>> \in Down
      /\ <<"quota">> \in Down
  BY <1>1 DEF Down
<1>. QED  BY <1>1, <1>2, <1>3, <1>4

\* A request goes up no more and something comes down for it.
Answered(g, a, O) == [g EXCEPT !.up = Tail(@), !.down = Append(@, a), !.orphans = O]

LEMMA AnsweredGood ==
    ASSUME NEW g, NEW ph, NEW sh, Good(g, ph, sh), g.up # <<>>, NEW a \in Down,
           NEW O \in SUBSET AllCalls,
           g.orphans \subseteq O,
           \A c \in g.waits : Head(g.up) = c => c \in O \/ Brings(a, c),
           \A s \in Spaces, part \in {"log", "keys"} :
                Head(g.up) = <<part, s>> =>
                    <<"join", s>> \in O \/ a = <<part, s>> \/ a = <<"refused", s>>
    PROVE  Good(Answered(g, a, O), ph, sh)
<1>. DEFINE h == Answered(g, a, O)
<1>1. g \in EngineType
  BY DEF Good, Loose, Sane
<1>2. /\ Tail(g.up) \in Seq(Requests)
      /\ \A x : Holds(g.up, x) <=> x = Head(g.up) \/ Holds(Tail(g.up), x)
  <2>1. g.up \in Seq(Requests)
    BY <1>1 DEF EngineType
  <2>. QED  BY <2>1, HoldsHead
<1>3. /\ Append(g.down, a) \in Seq(Down)
      /\ \A x : Holds(Append(g.down, a), x) <=> x = a \/ Holds(g.down, x)
  <2>1. g.down \in Seq(Down)
    BY <1>1 DEF EngineType
  <2>. QED  BY <2>1, HoldsAppend
<1>4. /\ h \in EngineType /\ h.up = Tail(g.up) /\ h.down = Append(g.down, a) /\ h.orphans = O
      /\ h.waits = g.waits /\ h.joins = g.joins
      /\ h.calls = g.calls /\ h.logs = g.logs /\ h.keys = g.keys
      /\ h.rejected = g.rejected /\ h.forgot = g.forgot
      /\ h.stage = g.stage /\ h.gaveUp = g.gaveUp /\ h.link = g.link /\ h.cmds = g.cmds
      /\ h.events = g.events /\ h.listens = g.listens /\ h.missed = g.missed
  BY <1>1, <1>2, <1>3 DEF EngineType, Answered
<1>. HIDE DEF h
<1>5. Joining(h) = Joining(g)
  BY <1>4 DEF Joining
<1>6. Sane(h) /\ Kept(h) /\ Loaded(h)
  BY <1>4 DEF Good, Loose, Sane, Kept, Loaded
<1>7. Single(h)
  BY <1>4, <1>5 DEF Good, Loose, Single
<1>8. Waited(h, ph)
  BY <1>4, <1>5 DEF Good, Loose, Waited, Pends
<1>9. Told(h, ph, sh)
  BY <1>4 DEF Good, Loose, Told, Connected
<1>10. WaitsServed(h, {})
  <2>1. SUFFICES ASSUME NEW c \in h.waits \ h.orphans PROVE Connected(h) /\ Coming(h, c)
    BY DEF WaitsServed
  <2>2. Connected(g) /\ Coming(g, c)
    BY <1>4, <2>1 DEF Good, Served, WaitsServed
  <2>3. CASE c = Head(g.up)
    BY <1>3, <1>4, <2>1, <2>2, <2>3 DEF Coming, Connected, Brings
  <2>4. CASE c # Head(g.up)
    BY <1>2, <1>3, <1>4, <2>2, <2>4 DEF Coming, Connected
  <2>. QED  BY <2>3, <2>4
<1>11. JoinsServed(h, {})
  <2>1. SUFFICES ASSUME NEW s \in Spaces, <<"join", s>> \in Joining(h) \ h.orphans,
                        NEW part \in {"log", "keys"}
                 PROVE  ComingTo(h, s, part)
    BY DEF JoinsServed
  <2>2. ComingTo(g, s, part)
    BY <1>4, <1>5, <2>1 DEF Good, Served, JoinsServed
  <2>3. CASE Head(g.up) = <<part, s>>
    BY <1>3, <1>4, <2>1, <2>3 DEF ComingTo
  <2>4. CASE Head(g.up) # <<part, s>>
    BY <1>2, <1>3, <1>4, <2>2, <2>4 DEF ComingTo
  <2>. QED  BY <2>3, <2>4
<1>. QED  BY <1>6, <1>7, <1>8, <1>9, <1>10, <1>11 DEF Good, Loose, Served, h

LEMMA RelayAnswersGood ==
    ASSUME TypeOK, Good(eng, phase, shown), RelayAnswers
    PROVE  Good(eng', phase, shown)
<1>. DEFINE m == Head(eng.up)
<1>1. eng \in EngineType /\ eng.up # <<>>
  BY DEF TypeOK, RelayAnswers, Answering
<1>2. m \in Requests
  <2>1. eng.up \in Seq(Requests)
    BY <1>1 DEF EngineType
  <2>. QED  BY <1>1, <2>1, HoldsHead
<1>3. PICK a \in Answers(m) :
          eng' = [eng EXCEPT !.up = Tail(@), !.down = Append(@, a),
                             !.orphans = @ \cup Unanswered(m, a)]
  BY DEF RelayAnswers, Becomes
<1>. DEFINE O == eng.orphans \cup Unanswered(m, a)
<1>4. eng' = Answered(eng, a, O)
  BY <1>1, <1>3 DEF EngineType, Answered
<1>5. O \in SUBSET AllCalls /\ eng.orphans \subseteq O
  <2>1. m[1] \in {"get", "put"} => m \in AllCalls
    BY <1>2 DEF Requests
  <2>. QED  BY <1>1, <2>1 DEF EngineType, Unanswered
<1>9. a[1] = "refused" /\ m[1] \in {"get", "put"} => m \in O
  BY DEF Unanswered
<1>. HIDE DEF m, O
<1>6. /\ a \in Down
      /\ a = m \/ (m[1] \in {"log", "keys", "get", "put"} /\ a = <<"refused", m[2]>>)
            \/ (m[1] = "put" /\ (a = <<"named", m[2]>> \/ a = <<"quota">>))
  BY <1>2, <1>3, RequestTypes DEF Answers
<1>7. \A c \in eng.waits : m = c => c \in O \/ Brings(a, c)
  <2>1. \A c \in eng.waits : c \in AllCalls
    BY <1>1 DEF EngineType
  <2>2. \A c \in eng.waits : c[1] \notin {"log", "keys"}
    BY <2>1 DEF AllCalls
  <2>. QED  BY <1>6, <1>9, <2>2 DEF Brings
<1>8. \A s \in Spaces, part \in {"log", "keys"} :
          m = <<part, s>> => a = <<part, s>> \/ a = <<"refused", s>>
  BY <1>6
<1>. QED  BY <1>1, <1>4, <1>5, <1>6, <1>7, <1>8, AnsweredGood DEF m

\* Nobody waits for a creation.
LEMMA RelayCreatesGood ==
    ASSUME TypeOK, Good(eng, phase, shown), RelayCreates
    PROVE  Good(eng', phase, shown)
<1>. DEFINE m == Head(eng.up)
            h == [eng EXCEPT !.up = Tail(@)]
            a == <<"account", m[2]>>
<1>1. eng \in EngineType /\ eng.up # <<>> /\ m[1] = "create"
  BY DEF TypeOK, RelayCreates, Answering
<1>2. m \in Requests /\ Tail(eng.up) \in Seq(Requests)
      /\ \A x : Holds(eng.up, x) <=> x = m \/ Holds(Tail(eng.up), x)
  <2>1. eng.up \in Seq(Requests)
    BY <1>1 DEF EngineType
  <2>. QED  BY <1>1, <2>1, HoldsHead
<1>3. \/ eng' = h
      \/ eng' = [eng EXCEPT !.up = Tail(@), !.down = Append(@, a)]
  BY DEF RelayCreates, Becomes
<1>4. \A c \in eng.waits : m # c
  BY <1>1 DEF Good, Loose, Sane
<1>5. \A s \in Spaces, part \in {"log", "keys"} : m # <<part, s>>
  BY <1>1
<1>6. CASE eng' = [eng EXCEPT !.up = Tail(@), !.down = Append(@, a)]
  <2>1. eng' = Answered(eng, a, eng.orphans) /\ eng.orphans \in SUBSET AllCalls
    BY <1>1, <1>6 DEF EngineType, Answered
  <2>2. a \in Down
    BY <1>1, <1>2, RequestTypes
  <2>. HIDE DEF a
  <2>. QED  BY <1>1, <1>4, <1>5, <2>1, <2>2, AnsweredGood
<1>7. CASE eng' = h
  <2>1. /\ h \in EngineType /\ h.up = Tail(eng.up) /\ h.down = eng.down
        /\ h.orphans = eng.orphans /\ h.waits = eng.waits /\ h.joins = eng.joins
        /\ h.calls = eng.calls /\ h.logs = eng.logs /\ h.keys = eng.keys /\ h.forgot = eng.forgot
        /\ h.stage = eng.stage /\ h.gaveUp = eng.gaveUp /\ h.link = eng.link /\ h.cmds = eng.cmds
        /\ h.events = eng.events /\ h.listens = eng.listens /\ h.missed = eng.missed
    BY <1>1, <1>2 DEF EngineType
  <2>. HIDE DEF h, m
  <2>2. Joining(h) = Joining(eng)
    BY <2>1 DEF Joining
  <2>3. Sane(h) /\ Kept(h) /\ Loaded(h)
    BY <2>1 DEF Good, Loose, Sane, Kept, Loaded
  <2>4. Single(h)
    BY <2>1, <2>2 DEF Good, Loose, Single
  <2>5. Waited(h, phase)
    BY <2>1, <2>2 DEF Good, Loose, Waited, Pends
  <2>6. Told(h, phase, shown)
    BY <2>1 DEF Good, Loose, Told, Connected
  <2>7. WaitsServed(h, {})
    BY <1>2, <1>4, <2>1 DEF Good, Served, WaitsServed, Coming, Connected
  <2>8. JoinsServed(h, {})
    BY <1>2, <1>5, <2>1, <2>2 DEF Good, Served, JoinsServed, ComingTo
  <2>9. Good(h, phase, shown)
    BY <2>3, <2>4, <2>5, <2>6, <2>7, <2>8 DEF Good, Loose, Served
  <2>. QED  BY <1>7, <2>9
<1>. QED  BY <1>3, <1>6, <1>7

\* More may come down at any time.
LEMMA SpaceDeletedGood ==
    ASSUME TypeOK, Good(eng, phase, shown), NEW s \in Spaces, SpaceDeleted(s)
    PROVE  Good(eng', phase, shown)
<1>. DEFINE m == <<"deleted", s>>
            h == [eng EXCEPT !.down = Append(@, m)]
<1>1. eng \in EngineType
  BY DEF TypeOK
<1>2. eng' = h \/ eng' = eng
  BY DEF SpaceDeleted
<1>3. m \in Down
  BY DEF Down
<1>. HIDE DEF m
<1>4. /\ Append(eng.down, m) \in Seq(Down)
      /\ \A x : Holds(eng.down, x) => Holds(Append(eng.down, m), x)
  <2>1. eng.down \in Seq(Down)
    BY <1>1 DEF EngineType
  <2>. QED  BY <1>3, <2>1, HoldsAppend
<1>5. /\ h \in EngineType /\ h.down = Append(eng.down, m) /\ h.up = eng.up
      /\ h.orphans = eng.orphans /\ h.waits = eng.waits /\ h.joins = eng.joins
      /\ h.calls = eng.calls /\ h.logs = eng.logs /\ h.keys = eng.keys /\ h.forgot = eng.forgot
      /\ h.stage = eng.stage /\ h.gaveUp = eng.gaveUp /\ h.link = eng.link /\ h.cmds = eng.cmds
      /\ h.events = eng.events /\ h.listens = eng.listens /\ h.missed = eng.missed
  BY <1>1, <1>4 DEF EngineType
<1>. HIDE DEF h
<1>6. Joining(h) = Joining(eng)
  BY <1>5 DEF Joining
<1>7. Sane(h) /\ Kept(h) /\ Loaded(h)
  BY <1>5 DEF Good, Loose, Sane, Kept, Loaded
<1>8. Single(h)
  BY <1>5, <1>6 DEF Good, Loose, Single
<1>9. Waited(h, phase)
  BY <1>5, <1>6 DEF Good, Loose, Waited, Pends
<1>10. Told(h, phase, shown)
  BY <1>5 DEF Good, Loose, Told, Connected
<1>11. WaitsServed(h, {})
  BY <1>4, <1>5 DEF Good, Served, WaitsServed, Coming, Connected
<1>12. JoinsServed(h, {})
  BY <1>4, <1>5, <1>6 DEF Good, Served, JoinsServed, ComingTo
<1>13. Good(h, phase, shown)
  BY <1>7, <1>8, <1>9, <1>10, <1>11, <1>12 DEF Good, Loose, Served
<1>. QED  BY <1>2, <1>13

LEMMA RelayFailsGood ==
    ASSUME TypeOK, Good(eng, phase, shown), RelayFails
    PROVE  Good(eng', phase, shown)
<1>. DEFINE m == Head(eng.up)
            O == eng.orphans \cup {CallOf(m)}
<1>1. eng \in EngineType /\ eng.up # <<>>
  BY DEF TypeOK, RelayFails, Answering
<1>2. m \in Requests
  <2>1. eng.up \in Seq(Requests)
    BY <1>1 DEF EngineType
  <2>. QED  BY <1>1, <2>1, HoldsHead
<1>3. eng' = Answered(eng, <<"internal">>, O)
  BY DEF RelayFails, Becomes, Answered
<1>4. O \in SUBSET AllCalls /\ eng.orphans \subseteq O
  BY <1>1, <1>2, RequestTypes DEF EngineType
<1>5. <<"internal">> \in Down
  BY DEF Down
<1>6. \A c \in eng.waits : m = c => c \in O
  <2>1. \A c \in eng.waits : c[1] \notin {"log", "keys"}
    BY <1>1 DEF EngineType, AllCalls
  <2>. QED  BY <2>1 DEF CallOf
<1>7. \A s \in Spaces, part \in {"log", "keys"} : m = <<part, s>> => <<"join", s>> \in O
  BY DEF CallOf
<1>. HIDE DEF O
<1>. QED  BY <1>1, <1>3, <1>4, <1>5, <1>6, <1>7, AnsweredGood

LEMMA LinkFailsGood ==
    ASSUME TypeOK, Good(eng, phase, shown), LinkFails
    PROVE  Good(eng', phase, shown)
<1>1. eng \in EngineType /\ eng.link = "up"
  BY DEF TypeOK, LinkFails
<1>2. PICK how \in {"silent", "broken"} : eng' = [eng EXCEPT !.link = how]
  BY DEF LinkFails, Becomes
<1>3. /\ eng' \in EngineType /\ SameRequests(eng, eng') /\ eng'.link = how
      /\ eng'.stage = eng.stage /\ eng'.gaveUp = eng.gaveUp /\ eng'.events = eng.events
      /\ eng'.listens = eng.listens /\ eng'.missed = eng.missed
  BY <1>1, <1>2 DEF EngineType, SameRequests
<1>4. Connected(eng) /\ Connected(eng')
  BY <1>1, <1>3 DEF Connected
<1>5. Sane(eng')
  BY <1>1, <1>3 DEF Good, Loose, Sane, SameRequests
<1>6. Told(eng', phase, shown)
  BY <1>3, <1>4 DEF Good, Loose, Told
<1>7. phase = "running" => eng'.stage \notin {"closing", "done"}
  BY <1>3 DEF Good, Loose, Waited
<1>. QED  BY <1>3, <1>4, <1>5, <1>6, <1>7, SameRequestsGood

-----------------------------------------------------------------------------
(* Requests are issued. *)

LEMMA SetToSeqIs ==
    ASSUME NEW S, IsFiniteSet(S)
    PROVE  /\ SetToSeq(S) \in Seq(S)
           /\ \A i, j \in 1..Len(SetToSeq(S)) : SetToSeq(S)[i] = SetToSeq(S)[j] => i = j
<1>1. Cardinality(S) \in Nat
  BY FS_CardinalityType
<1>2. \E f \in [1..Cardinality(S) -> S] : IsInjective(f)
  BY FS_NatBijection, FS_CountingElements DEF IsInjective, ExistsBijection, Bijection, Injection
<1>3. SetToSeq(S) \in [1..Cardinality(S) -> S] /\ IsInjective(SetToSeq(S))
  BY <1>2 DEF SetToSeq
<1>4. SetToSeq(S) \in Seq(S) /\ Len(SetToSeq(S)) = Cardinality(S)
  BY <1>1, <1>3
<1>. QED  BY <1>3, <1>4 DEF IsInjective

LEMMA CallsFinite == ASSUME NEW S \in SUBSET AllCalls PROVE IsFiniteSet(S)
<1>1. IsFiniteSet({"create", "join", "get", "put"}) /\ IsFiniteSet({<<"list">>})
  <2>1. \A x : IsFiniteSet({x})
    BY FS_Singleton
  <2>2. /\ IsFiniteSet({"create"} \cup {"join"}) /\ IsFiniteSet({"get"} \cup {"put"})
        /\ IsFiniteSet({<<"list">>})
    BY <2>1, FS_Union
  <2>3. IsFiniteSet(({"create"} \cup {"join"}) \cup ({"get"} \cup {"put"}))
    BY <2>2, FS_Union
  <2>4. {"create", "join", "get", "put"} = ({"create"} \cup {"join"}) \cup ({"get"} \cup {"put"})
    OBVIOUS
  <2>. QED  BY <2>2, <2>3, <2>4
<1>2. IsFiniteSet({"create", "join", "get", "put"} \X Spaces)
  BY <1>1, SpacesAssumption, FS_Product
<1>3. IsFiniteSet(AllCalls)
  BY <1>1, <1>2, FS_Union DEF AllCalls
<1>. QED  BY <1>3, FS_Subset

LEMMA IssuedGood ==
    ASSUME NEW g, NEW sh, Good(g, "running", sh), NEW new \in SUBSET Calls,
           \A c \in new : g.calls[c] = "none"
    PROVE  Good(Issued(g, new), "running", sh)
<1>. DEFINE h == Issued(g, new)
            q == SetToSeq(new)
            d == g.cmds
            e == d \o q
            T == Commands
<1>1. g \in EngineType /\ d \in Seq(T)
  BY DEF Good, Loose, Sane, EngineType, Commands
<1>2. new \subseteq AllCalls /\ IsFiniteSet(new)
  BY CallsAreCalls, CallsFinite
<1>3. q \in Seq(new) /\ \A i, j \in 1..Len(q) : q[i] = q[j] => i = j
  BY <1>2, SetToSeqIs
<1>4. q \in Seq(T)
  <2>1. new \subseteq T
    BY <1>2 DEF Commands
  <2>. HIDE DEF q, T
  <2>. QED  BY <1>3, <2>1
<1>5. /\ e \in Seq(T) /\ Len(e) = Len(d) + Len(q) /\ Len(d) \in Nat /\ Len(q) \in Nat
      /\ \A i \in 1..Len(e) : e[i] = IF i <= Len(d) THEN d[i] ELSE q[i - Len(d)]
  <2>. HIDE DEF q, d, T
  <2>. QED  BY <1>1, <1>4
<1>6. /\ h \in EngineType /\ h.cmds = e
      /\ \A c \in Calls : h.calls[c] = IF c \in new THEN "asked" ELSE g.calls[c]
      /\ h.waits = g.waits /\ h.orphans = g.orphans /\ h.joins = g.joins
      /\ h.up = g.up /\ h.down = g.down /\ h.logs = g.logs /\ h.keys = g.keys
      /\ h.rejected = g.rejected /\ h.forgot = g.forgot
      /\ h.stage = g.stage /\ h.gaveUp = g.gaveUp /\ h.link = g.link
      /\ h.events = g.events /\ h.listens = g.listens /\ h.missed = g.missed
  <2>. HIDE DEF q
  <2>1. h = [g EXCEPT !.calls = [c \in Calls |-> IF c \in new THEN "asked" ELSE @[c]],
                      !.cmds = d \o q]
    BY DEF Issued, q
  <2>2. [c \in Calls |-> IF c \in new THEN "asked" ELSE g.calls[c]]
            \in [Calls -> {"none", "asked"} \cup Results]
    BY <1>1 DEF EngineType
  <2>. HIDE DEF h, e
  <2>3. h = [g EXCEPT !.calls = [c \in Calls |-> IF c \in new THEN "asked" ELSE @[c]],
                      !.cmds = e]
    BY <2>1 DEF e
  <2>. QED  BY <1>1, <1>5, <2>2, <2>3 DEF EngineType, Commands
<1>7. \A c \in new : ~Pends(g, c)
  BY DEF Good, Loose, Waited
<1>. HIDE DEF h, q, d, e, T
<1>8. \A i \in 1..Len(q) : q[i] \in new
  BY <1>3
<1>9. \A x : Holds(e, x) => Holds(g.cmds, x) \/ x \in new
  <2>1. SUFFICES ASSUME NEW x, NEW i \in 1..Len(e), e[i] = x, x \notin new PROVE Holds(g.cmds, x)
    BY DEF Holds
  <2>2. i <= Len(d)
    <3>1. ASSUME i > Len(d) PROVE FALSE
      <4>1. i - Len(d) \in 1..Len(q) /\ e[i] = q[i - Len(d)]
        BY <1>5, <2>1, <3>1
      <4>. QED  BY <1>8, <2>1, <4>1
    <3>. QED  BY <1>5, <3>1
  <2>3. i \in 1..Len(d) /\ d[i] = x
    BY <1>5, <2>1, <2>2
  <2>. QED  BY <2>3 DEF Holds, d
<1>10. Joining(h) = Joining(g)
  BY <1>6 DEF Joining
<1>16. Kept(h)
  <2>1. "asked" \notin Results /\ "asked" # "gone"
    BY DEF Results
  <2>. QED  BY <1>6, <1>9, <2>1 DEF Good, Loose, Kept
<1>11. Sane(h) /\ Kept(h) /\ Loaded(h)
  BY <1>6, <1>16 DEF Good, Loose, Sane, Loaded
<1>12. Single(h)
  <2>1. ASSUME NEW x \in AllCalls, Holds(e, x) PROVE x \notin h.waits \cup Joining(h)
    <3>1. CASE x \in new
      BY <1>6, <1>7, <1>10, <3>1 DEF Pends
    <3>2. CASE Holds(g.cmds, x)
      BY <1>6, <1>10, <3>2 DEF Good, Loose, Single
    <3>. QED  BY <1>9, <2>1, <3>1, <3>2
  <2>2. ASSUME NEW x \in AllCalls, NEW i \in 1..Len(e), NEW j \in 1..Len(e), e[i] = x, e[j] = x
        PROVE  i = j
    <3>1. \A k \in 1..Len(e) : k > Len(d) =>
              k - Len(d) \in 1..Len(q) /\ e[k] = q[k - Len(d)] /\ e[k] \in new
      BY <1>5, <1>8
    <3>2. \A k \in 1..Len(e) : k <= Len(d) => k \in 1..Len(d) /\ e[k] = d[k]
      BY <1>5
    <3>3. \A k \in 1..Len(e) : k <= Len(d) /\ e[k] = x => x \notin new
      BY <1>7, <3>2 DEF Pends, Holds, d
    <3>4. CASE i <= Len(d) /\ j <= Len(d)
      <4>1. i \in 1..Len(d) /\ j \in 1..Len(d) /\ d[i] = x /\ d[j] = x
        BY <2>2, <3>2, <3>4
      <4>. QED  BY <4>1 DEF Good, Loose, Single, d
    <3>5. CASE i > Len(d) /\ j > Len(d)
      <4>1. i - Len(d) = j - Len(d)
        BY <1>3, <2>2, <3>1, <3>5
      <4>. QED  BY <1>5, <4>1
    <3>. QED  BY <1>5, <2>2, <3>1, <3>3, <3>4, <3>5
  <2>. QED  BY <1>6, <2>1, <2>2 DEF Single
<1>13. Waited(h, "running")
  <2>1. <<"shutdown">> \notin new
    BY <1>2 DEF AllCalls
  <2>2. ~Holds(e, <<"shutdown">>) /\ h.stage \notin {"closing", "done"}
    BY <1>6, <1>9, <2>1 DEF Good, Loose, Waited
  <2>3. ASSUME NEW c \in Calls, Pends(h, c) PROVE h.calls[c] = "asked"
    <3>1. Pends(g, c) \/ c \in new
      BY <1>6, <1>9, <1>10, <2>3 DEF Pends
    <3>2. Pends(g, c) => g.calls[c] = "asked"
      BY DEF Good, Loose, Waited
    <3>. QED  BY <1>6, <3>1, <3>2
  <2>. QED  BY <1>6, <2>2, <2>3 DEF Waited
<1>14. Told(h, "running", sh)
  BY <1>6 DEF Good, Loose, Told, Connected
<1>15. WaitsServed(h, {}) /\ JoinsServed(h, {})
  BY <1>6, <1>10 DEF Good, Served, WaitsServed, JoinsServed, Coming, ComingTo, Connected
<1>. QED  BY <1>11, <1>12, <1>13, <1>14, <1>15 DEF Good, Loose, Served, h

LEMMA AskedGood ==
    ASSUME TypeOK, NEW g, NEW sh, Good(g, "running", sh), NEW C
    PROVE  Good(Asked(g, C), "running", sh)
<1>. DEFINE new == {c \in C \cap plan.wants : g.calls[c] = "none"}
<1>1. new \subseteq Calls /\ \A c \in new : g.calls[c] = "none"
  BY CallsAreCalls DEF TypeOK
<1>2. Asked(g, C) = Issued(g, new)
  BY DEF Asked
<1>. HIDE DEF new
<1>. QED  BY <1>1, <1>2, IssuedGood

-----------------------------------------------------------------------------
(* The steps of the user interface. *)

\* Connect and Reconnect begin with a new engine, Disconnect ends with none.
LEMMA StartGood ==
    ASSUME TypeOK, phase = "running", Start
    PROVE  Good(eng', phase', shown')
<1>1. Good([NoEngine EXCEPT !.stage = "loop"], "running", NotYet)
  BY NewEngineIsEmpty, EmptyGood
<1>2. Good(Asked([NoEngine EXCEPT !.stage = "loop"], {"join"} \X bound), "running", NotYet)
  BY <1>1, AskedGood
<1>. QED  BY <1>2 DEF Start, Adopted

LEMMA DisconnectGood ==
    ASSUME Disconnect
    PROVE  Good(eng', phase', shown')
<1>1. Good(NoEngine, phase, NotYet)
  BY NewEngineIsEmpty, EmptyGood
<1>. QED  BY <1>1 DEF Disconnect

\* The engine gets a command that is not a request.
LEMMA CmdGood ==
    ASSUME NEW g, NEW ph, NEW sh, Good(g, ph, sh), NEW c \in Commands \ AllCalls,
           ph = "running" => c # <<"shutdown">>
    PROVE  LET h == [g EXCEPT !.cmds = Append(@, c)] IN Good(h, ph, sh) /\ h \in EngineType
<1>. DEFINE a == Append(g.cmds, c)
            h == [g EXCEPT !.cmds = a]
<1>1. g \in EngineType
  BY DEF Good, Loose, Sane
<1>2. /\ a \in Seq(Commands)
      /\ \A x : Holds(a, x) <=> x = c \/ Holds(g.cmds, x)
      /\ \A i \in 1..Len(a) : a[i] = c \/ (i \in 1..Len(g.cmds) /\ a[i] = g.cmds[i])
  <2>1. g.cmds \in Seq(Commands)
    BY <1>1 DEF EngineType, Commands
  <2>. QED  BY <2>1, HoldsAppend, AppendIs
<1>. HIDE DEF a
<1>3. /\ h \in EngineType /\ h.cmds = a
      /\ h.calls = g.calls /\ h.waits = g.waits /\ h.orphans = g.orphans /\ h.joins = g.joins
      /\ h.up = g.up /\ h.down = g.down /\ h.logs = g.logs /\ h.keys = g.keys
      /\ h.forgot = g.forgot /\ h.stage = g.stage /\ h.gaveUp = g.gaveUp /\ h.link = g.link
      /\ h.events = g.events /\ h.listens = g.listens /\ h.missed = g.missed
  BY <1>1, <1>2 DEF EngineType, Commands
<1>. HIDE DEF h
<1>4. Joining(h) = Joining(g)
  BY <1>3 DEF Joining
<1>5. \A x \in AllCalls : x # c
  OBVIOUS
<1>6. Sane(h) /\ Loaded(h)
  BY <1>3 DEF Good, Loose, Sane, Loaded
<1>7. Kept(h)
  BY <1>2, <1>3, <1>5, CallsAreCalls DEF Good, Loose, Kept
<1>8. Single(h)
  <2>1. ASSUME NEW x \in AllCalls, Holds(h.cmds, x) PROVE x \notin h.waits \cup Joining(h)
    BY <1>2, <1>3, <1>4, <1>5, <2>1 DEF Good, Loose, Single
  <2>2. ASSUME NEW x \in AllCalls, NEW i \in 1..Len(h.cmds), NEW j \in 1..Len(h.cmds),
               h.cmds[i] = x, h.cmds[j] = x
        PROVE  i = j
    <3>1. i \in 1..Len(g.cmds) /\ j \in 1..Len(g.cmds) /\ g.cmds[i] = x /\ g.cmds[j] = x
      BY <1>2, <1>3, <1>5, <2>2
    <3>. QED  BY <3>1 DEF Good, Loose, Single
  <2>. QED  BY <2>1, <2>2 DEF Single
<1>9. Waited(h, ph)
  <2>1. \A x \in Calls : Pends(h, x) <=> Pends(g, x)
    BY <1>2, <1>3, <1>4, <1>5, CallsAreCalls DEF Pends
  <2>. QED  BY <1>2, <1>3, <2>1 DEF Good, Loose, Waited
<1>10. Told(h, ph, sh)
  BY <1>3 DEF Good, Loose, Told, Connected
<1>11. WaitsServed(h, {}) /\ JoinsServed(h, {})
  BY <1>3, <1>4 DEF Good, Served, WaitsServed, JoinsServed, Coming, ComingTo, Connected
<1>12. [g EXCEPT !.cmds = Append(@, c)] = h
  BY DEF h, a
<1>. QED  BY <1>3, <1>6, <1>7, <1>8, <1>9, <1>10, <1>11, <1>12 DEF Good, Loose, Served

LEMMA ForgetGood ==
    ASSUME TypeOK, Good(eng, phase, shown), NEW s \in Spaces, Forget(s)
    PROVE  Good(eng', phase', shown')
<1>. DEFINE c == <<"forget", s>>
<1>1. c \in Commands \ AllCalls /\ c # <<"shutdown">>
  BY CallTypes DEF Commands
<1>. HIDE DEF c
<1>2. Good([eng EXCEPT !.cmds = Append(@, c)], phase, shown)
  BY <1>1, CmdGood
<1>. QED  BY <1>2 DEF Forget, c

LEMMA AsksGood ==
    ASSUME TypeOK, Good(eng, phase, shown), NEW c, Asks(c)
    PROVE  Good(eng', phase', shown')
BY AskedGood DEF Asks, Becomes

LEMMA ListenGood ==
    ASSUME TypeOK, Good(eng, phase, shown), Listen
    PROVE  Good(eng', phase', shown')
<1>1. eng \in EngineType /\ eng' = [eng EXCEPT !.listens = TRUE]
  BY DEF TypeOK, Listen, Becomes
<1>2. /\ eng' \in EngineType /\ SameRequests(eng, eng') /\ eng'.listens /\ eng'.link = eng.link
      /\ eng'.stage = eng.stage /\ eng'.gaveUp = eng.gaveUp /\ eng'.events = eng.events
      /\ eng'.missed = eng.missed
  BY <1>1 DEF EngineType, SameRequests
<1>3. Sane(eng')
  BY <1>2 DEF Good, Loose, Sane, SameRequests
<1>4. Told(eng', phase, shown)
  BY <1>2 DEF Good, Loose, Told, Connected
<1>5. phase = "running" => eng'.stage \notin {"closing", "done"}
  BY <1>2 DEF Good, Loose, Waited
<1>6. Connected(eng) => Connected(eng')
  BY <1>2 DEF Connected
<1>7. Good(eng', phase, shown)
  BY <1>2, <1>3, <1>4, <1>5, <1>6, SameRequestsGood
<1>. QED  BY <1>7 DEF Listen, ui

LEMMA HandleEventGood ==
    ASSUME TypeOK, Good(eng, phase, shown), HandleEvent
    PROVE  Good(eng', phase', shown')
<1>. DEFINE q == eng.events
            event == Head(q)
            h == [eng EXCEPT !.events = Tail(@)]
<1>1. phase = "running" /\ phase' = phase /\ q # <<>> /\ eng \in EngineType
  BY DEF HandleEvent, TypeOK
<1>2. \/ /\ event \in LinkEvents
         /\ shown' = [shown EXCEPT !.connected = (event = <<"connected">>),
                                   !.dead = @ \/ event \in Fatal]
         /\ eng' = IF event = <<"connected">> THEN Adopted(h) ELSE h
      \/ /\ event \in SpaceEvents
         /\ shown'.connected = shown.connected /\ shown'.dead = shown.dead
         /\ eng' = h
  <2>1. shown \in [connected : BOOLEAN, dead : BOOLEAN, refused : SUBSET Spaces]
    BY DEF TypeOK
  <2>. QED  BY <2>1 DEF HandleEvent, Becomes
<1>3. q \in Seq(Events)
  BY <1>1 DEF EngineType
<1>4. /\ event \in Events /\ Tail(q) \in Seq(Events)
      /\ event \in LinkEvents /\ NoLink(Tail(q)) => LastLink(q, 1) /\ q[1] = event
      /\ \A i \in Nat : LastLink(Tail(q), i) =>
                i + 1 \in Nat /\ LastLink(q, i + 1) /\ Tail(q)[i] = q[i + 1]
      /\ event \notin LinkEvents /\ NoLink(Tail(q)) => NoLink(q)
      /\ (\A i \in 1..Len(q) : q[i] \notin Fatal) =>
                event \notin Fatal /\ \A i \in 1..Len(Tail(q)) : Tail(q)[i] \notin Fatal
  <2>. HIDE DEF q
  <2>. QED  BY <1>1, <1>3, LinkTail
<1>5. /\ h \in EngineType /\ SameRequests(eng, h) /\ h.events = Tail(q)
      /\ h.listens = eng.listens /\ h.link = eng.link
      /\ h.stage = eng.stage /\ h.gaveUp = eng.gaveUp /\ h.missed = eng.missed
  BY <1>1, <1>4 DEF EngineType, SameRequests
<1>6. \/ /\ event \in LinkEvents
         /\ shown'.connected <=> event = <<"connected">>
         /\ shown'.dead <=> shown.dead \/ event \in Fatal
      \/ /\ event \notin LinkEvents
         /\ shown'.connected <=> shown.connected
         /\ shown'.dead <=> shown.dead
  <2>1. shown \in [connected : BOOLEAN, dead : BOOLEAN, refused : SUBSET Spaces]
    BY DEF TypeOK
  <2>2. event \in SpaceEvents => event \notin LinkEvents
    BY DEF SpaceEvents, LinkEvents, Fatal
  <2>. HIDE DEF event, h
  <2>. QED  BY <1>2, <2>1, <2>2
<1>13. eng' = h \/ eng' = Adopted(h)
  BY <1>2
<1>. HIDE DEF h, event, q
<1>7. Told(h, phase, shown')
  <2>1. SUFFICES ASSUME ~h.missed PROVE Told(h, phase, shown')
    BY DEF Told
  <2>2. /\ NoLink(q) => (shown.connected <=> Connected(eng))
        /\ \A i \in Nat : LastLink(q, i) => (q[i] = <<"connected">> <=> Connected(eng))
        /\ eng.gaveUp = "no" => ~shown.dead /\ \A i \in 1..Len(q) : q[i] \notin Fatal
        /\ eng.gaveUp # "no" /\ NoLink(q) => shown.dead /\ ~shown.connected
        /\ eng.gaveUp # "no" => \A i \in Nat : LastLink(q, i) => q[i] \in Fatal
    BY <1>1, <1>5, <2>1 DEF Good, Loose, Told, q
  <2>3. event \in Fatal => event # <<"connected">>
    BY DEF Fatal
  <2>4. h.events = Tail(q) /\ h.gaveUp = eng.gaveUp /\ (Connected(h) <=> Connected(eng))
    BY <1>5 DEF Connected
  <2>10. ASSUME NEW i \in Nat, LastLink(h.events, i)
         PROVE  i + 1 \in Nat /\ LastLink(q, i + 1) /\ h.events[i] = q[i + 1]
    <3>1. LastLink(Tail(q), i)
      BY <2>4, <2>10
    <3>2. i + 1 \in Nat /\ LastLink(q, i + 1) /\ Tail(q)[i] = q[i + 1]
      BY <1>4, <3>1
    <3>. QED  BY <2>4, <3>2
  <2>5. NoLink(h.events) => (shown'.connected <=> Connected(h))
    BY <1>4, <1>6, <2>2, <2>4
  <2>6. \A i \in Nat : LastLink(h.events, i) => (h.events[i] = <<"connected">> <=> Connected(h))
    <3>1. SUFFICES ASSUME NEW i \in Nat, LastLink(h.events, i)
                   PROVE  h.events[i] = <<"connected">> <=> Connected(h)
      OBVIOUS
    <3>2. i + 1 \in Nat /\ LastLink(q, i + 1) /\ h.events[i] = q[i + 1]
      BY <2>10, <3>1
    <3>3. q[i + 1] = <<"connected">> <=> Connected(eng)
      BY <2>2, <3>2
    <3>. HIDE DEF LastLink
    <3>. QED  BY <2>4, <3>2, <3>3
  <2>7. h.gaveUp = "no" => ~shown'.dead /\ \A i \in 1..Len(h.events) : h.events[i] \notin Fatal
    BY <1>4, <1>6, <2>2, <2>4
  <2>8. h.gaveUp # "no" /\ NoLink(h.events) => shown'.dead /\ ~shown'.connected
    BY <1>4, <1>6, <2>2, <2>3, <2>4
  <2>9. h.gaveUp # "no" => \A i \in Nat : LastLink(h.events, i) => h.events[i] \in Fatal
    BY <2>2, <2>4, <2>10
  <2>. QED  BY <2>5, <2>6, <2>7, <2>8, <2>9 DEF Told
<1>14. ~eng.listens => q = <<>>
  BY DEF Good, Loose, Sane, q
<1>8. Sane(h)
  BY <1>1, <1>5, <1>14 DEF Good, Loose, Sane, SameRequests
<1>9. phase = "running" => h.stage \notin {"closing", "done"}
  BY <1>5 DEF Good, Loose, Waited
<1>10. Connected(eng) => Connected(h)
  BY <1>5 DEF Connected
<1>11. Good(h, "running", shown')
  BY <1>1, <1>5, <1>7, <1>8, <1>9, <1>10, SameRequestsGood
<1>12. Good(Adopted(h), "running", shown')
  BY <1>11, AskedGood DEF Adopted
<1>. QED  BY <1>1, <1>11, <1>12, <1>13

LEMMA HandleResultGood ==
    ASSUME TypeOK, Good(eng, phase, shown), NEW c \in Calls, HandleResult(c)
    PROVE  Good(eng', phase', shown')
<1>. DEFINE h == [eng EXCEPT !.calls[c] = "none"]
<1>1. phase = "running" /\ phase' = phase /\ shown' = shown /\ eng' = h
      /\ eng \in EngineType /\ eng.calls[c] \in Results
  BY DEF HandleResult, Becomes, TypeOK
<1>2. /\ h \in EngineType
      /\ \A x \in Calls : h.calls[x] = IF x = c THEN "none" ELSE eng.calls[x]
      /\ h.waits = eng.waits /\ h.orphans = eng.orphans /\ h.joins = eng.joins
      /\ h.up = eng.up /\ h.down = eng.down /\ h.logs = eng.logs /\ h.keys = eng.keys
      /\ h.rejected = eng.rejected /\ h.forgot = eng.forgot
      /\ h.stage = eng.stage /\ h.gaveUp = eng.gaveUp /\ h.link = eng.link /\ h.cmds = eng.cmds
      /\ h.events = eng.events /\ h.listens = eng.listens /\ h.missed = eng.missed
  BY <1>1 DEF EngineType
<1>. HIDE DEF h
<1>3. Joining(h) = Joining(eng)
  BY <1>2 DEF Joining
<1>4. Sane(h) /\ Kept(h)
  BY <1>2 DEF Good, Loose, Sane, Kept, Results
<1>5. Loaded(h)
  BY <1>2 DEF Good, Loose, Loaded
<1>6. Single(h)
  BY <1>2, <1>3 DEF Good, Loose, Single
<1>7. Waited(h, phase)
  <2>1. eng.calls[c] # "asked"
    BY <1>1 DEF Results
  <2>2. ~Pends(eng, c)
    BY <1>1, <2>1 DEF Good, Loose, Waited
  <2>3. \A x : Pends(h, x) <=> Pends(eng, x)
    BY <1>2, <1>3 DEF Pends
  <2>. QED  BY <1>2, <2>2, <2>3 DEF Good, Loose, Waited
<1>8. Told(h, phase, shown)
  BY <1>2 DEF Good, Loose, Told, Connected
<1>9. WaitsServed(h, {}) /\ JoinsServed(h, {})
  BY <1>2, <1>3 DEF Good, Served, WaitsServed, JoinsServed, Coming, ComingTo, Connected
<1>. QED  BY <1>1, <1>4, <1>5, <1>6, <1>7, <1>8, <1>9 DEF Good, Loose, Served

\* The interface hears of the engine no more.
LEMMA LeaveGood ==
    ASSUME TypeOK, Good(eng, phase, shown), Leave
    PROVE  Good(eng', phase', shown')
<1>. DEFINE k == [eng EXCEPT !.cmds = Append(@, <<"shutdown">>)]
            h == [k EXCEPT !.calls = Idle, !.events = <<>>, !.listens = FALSE]
<1>1. phase' = "leaving" /\ shown' = shown /\ eng \in EngineType
      /\ eng' = IF Exists
                THEN [eng EXCEPT !.cmds = Append(@, <<"shutdown">>), !.calls = Idle,
                                 !.events = <<>>, !.listens = FALSE]
                ELSE eng
  BY DEF Leave, TypeOK
<1>2. Waited(eng, "leaving") /\ Told(eng, "leaving", shown)
  BY DEF Waited, Told
<1>3. Good(eng, "leaving", shown)
  BY <1>2 DEF Good, Loose
<1>4. <<"shutdown">> \in Commands \ AllCalls
  BY CallTypes DEF Commands
<1>5. Good(k, "leaving", shown) /\ k \in EngineType
  BY <1>3, <1>4, CmdGood
<1>6. [eng EXCEPT !.cmds = Append(@, <<"shutdown">>), !.calls = Idle,
                  !.events = <<>>, !.listens = FALSE] = h
  <2>. DEFINE a == Append(eng.cmds, <<"shutdown">>)
  <2>1. /\ k = [eng EXCEPT !.cmds = a]
        /\ [eng EXCEPT !.cmds = Append(@, <<"shutdown">>), !.calls = Idle,
                       !.events = <<>>, !.listens = FALSE]
             = [eng EXCEPT !.cmds = a, !.calls = Idle, !.events = <<>>, !.listens = FALSE]
    OBVIOUS
  <2>. HIDE DEF a, k
  <2>. QED  BY <1>1, <2>1 DEF EngineType
<1>7. Idle \in [Calls -> {"none", "asked"} \cup Results] /\ (\A x \in Calls : Idle[x] = "none")
      /\ <<>> \in Seq(Events)
  BY DEF Idle
<1>. HIDE DEF k
<1>8. /\ h \in EngineType /\ h.cmds = k.cmds /\ h.calls = Idle
      /\ h.waits = k.waits /\ h.orphans = k.orphans /\ h.joins = k.joins
      /\ h.up = k.up /\ h.down = k.down /\ h.logs = k.logs /\ h.keys = k.keys
      /\ h.forgot = k.forgot /\ h.stage = k.stage /\ h.gaveUp = k.gaveUp /\ h.link = k.link
      /\ h.events = <<>> /\ ~h.listens /\ h.missed = k.missed
  BY <1>5, <1>7 DEF EngineType
<1>. HIDE DEF h
<1>9. Joining(h) = Joining(k)
  BY <1>8 DEF Joining
<1>10. Sane(h) /\ Kept(h) /\ Loaded(h)
  BY <1>5, <1>7, <1>8 DEF Good, Loose, Sane, Kept, Loaded, Results
<1>11. Single(h)
  BY <1>5, <1>8, <1>9 DEF Good, Loose, Single
<1>12. Waited(h, "leaving") /\ Told(h, "leaving", shown)
  BY DEF Waited, Told
<1>13. WaitsServed(h, {}) /\ JoinsServed(h, {})
  BY <1>5, <1>8, <1>9 DEF Good, Served, WaitsServed, JoinsServed, Coming, ComingTo, Connected
<1>14. Good(h, "leaving", shown)
  BY <1>10, <1>11, <1>12, <1>13 DEF Good, Loose, Served
<1>. QED  BY <1>1, <1>3, <1>6, <1>14

-----------------------------------------------------------------------------
(* The invariant is inductive. *)

LEMMA InitInv == ASSUME Init PROVE Inv
<1>2. Good(NoEngine, "running", NotYet)
  BY NewEngineIsEmpty, EmptyGood
<1>3. TypeOK
  <2>1. plan.asks \in Nat /\ plan.faults \in Nat
    BY PlansAssumption DEF Init, Plan
  <2>2. plan.asks \in 0..plan.asks /\ plan.faults \in 0..plan.faults
    BY <2>1
  <2>3. Joinable \ Creatable \subseteq Spaces
    BY DEF Joinable
  <2>. QED  BY <2>2, <2>3, NoEngineFields DEF Init, TypeOK, NotYet
<1>. QED  BY <1>2, <1>3 DEF Init, Inv

\* The variables besides the engine keep their types.
LEMMA NextTypes ==
    ASSUME TypeOK, Next
    PROVE  /\ phase' \in {"running", "leaving", "gone"}
           /\ plan' \in Plans /\ asks' \in 0..plan'.asks /\ faults' \in 0..plan'.faults
           /\ shown' \in [connected : BOOLEAN, dead : BOOLEAN, refused : SUBSET Spaces]
           /\ bound' \subseteq Spaces
           /\ member' \in [Spaces -> {"unused", "drawn", "out", "in", "destroyed"}]
<1>. USE DEF TypeOK
<1>. DEFINE Same == /\ phase' = phase /\ plan' = plan /\ asks' = asks /\ faults' = faults
                    /\ shown' = shown /\ bound' = bound /\ member' = member
<1>1. plan.asks \in Nat /\ plan.faults \in Nat
  BY PlansAssumption DEF Plan
<1>2. ASSUME EngineSteps PROVE Same
  BY <1>2 DEF EngineSteps, Command, Message, LostWs, TryConnect, Handshake, Probe, Pong,
              LivenessTimeout, Stop, ui
<1>3. CASE EngineSteps
  BY <1>2, <1>3
<1>4. CASE RelaySteps
  <2>1. CASE RelayAnswers
    BY <2>1 DEF RelayAnswers, ui
  <2>2. CASE RelayFails \/ LinkFails
    <3>1. faults' = faults - 1 /\ faults > 0 /\ member' = member /\ UNCHANGED ui
      BY <2>2 DEF RelayFails, LinkFails
    <3>2. faults' \in 0..plan.faults
      BY <1>1, <3>1
    <3>. QED  BY <3>1, <3>2 DEF ui
  <2>3. CASE RelayCreates
    BY <2>3 DEF RelayCreates, ui
  <2>4. ASSUME NEW s \in Spaces, Invited(s) PROVE Same \/ (member' = [member EXCEPT ![s] = "in"]
                /\ UNCHANGED <<ui, faults>>)
    BY <2>4 DEF Invited
  <2>5. ASSUME NEW s \in Spaces, SpaceDeleted(s)
        PROVE  /\ member' = [member EXCEPT ![s] = "destroyed"] /\ UNCHANGED ui
               /\ faults' \in 0..plan.faults
    BY <1>1, <2>5 DEF SpaceDeleted
  <2>. QED  BY <1>4, <2>1, <2>2, <2>3, <2>4, <2>5 DEF RelaySteps, ui
<1>5. CASE UserSteps
  <2>1. NotYet \in [connected : BOOLEAN, dead : BOOLEAN, refused : SUBSET Spaces]
    BY DEF NotYet
  <2>2. CASE Connect \/ Reconnect \/ Disconnect
    BY <2>1, <2>2 DEF Connect, Reconnect, Disconnect, Start
  <2>3. CASE Leave \/ Exit
    BY <2>3 DEF Leave, Exit
  <2>4. CASE \E c \in plan.wants : Ask(c)
    BY <1>1, <2>4 DEF Ask, Asks
  <2>5. ASSUME NEW s \in Spaces, Create(s)
        PROVE  /\ member' = [member EXCEPT ![s] = "drawn"] /\ asks' \in 0..plan.asks
               /\ UNCHANGED <<phase, shown, bound, plan, faults>>
    BY <1>1, <2>5 DEF Create, Asks
  <2>6. ASSUME NEW s \in Spaces, Forget(s)
        PROVE  /\ bound' \subseteq Spaces /\ asks' \in 0..plan.asks
               /\ UNCHANGED <<phase, shown, plan, member, faults>>
    BY <1>1, <2>6 DEF Forget
  <2>. QED  BY <1>5, <2>2, <2>3, <2>4, <2>5, <2>6 DEF UserSteps
<1>6. CASE PumpSteps
  <2>1. CASE Listen
    BY <2>1 DEF Listen, ui
  <2>2. CASE HandleEvent
    <3>1. /\ phase' = phase /\ plan' = plan /\ asks' = asks /\ faults' = faults
          /\ member' = member /\ bound' \subseteq bound
      BY <2>2 DEF HandleEvent
    <3>2. Head(eng.events) \in SpaceEvents => Head(eng.events)[2] \in Spaces
      BY DEF SpaceEvents
    <3>3. shown' \in [connected : BOOLEAN, dead : BOOLEAN, refused : SUBSET Spaces]
      <4>. DEFINE event == Head(eng.events)
      <4>1. shown \in [connected : BOOLEAN, dead : BOOLEAN, refused : SUBSET Spaces]
        OBVIOUS
      <4>2. \/ \E c \in BOOLEAN, d \in BOOLEAN :
                   shown' = [shown EXCEPT !.connected = c, !.dead = d]
            \/ event \in SpaceEvents /\ shown' = IF event[1] = "SpaceRejected"
                  THEN [shown EXCEPT !.refused = shown.refused \cup {event[2]}] ELSE shown
        BY <2>2, <4>1 DEF HandleEvent
      <4>3. event \in SpaceEvents => shown.refused \cup {event[2]} \in SUBSET Spaces
        BY <3>2, <4>1
      <4>. HIDE DEF event, TypeOK
      <4>. QED  BY <4>1, <4>2, <4>3
    <3>. QED  BY <3>1, <3>3
  <2>3. ASSUME NEW c \in plan.wants, HandleResult(c)
        PROVE  /\ Same \/ (phase' = phase /\ plan' = plan /\ asks' = asks /\ faults' = faults
                             /\ shown' = shown /\ member' = member)
               /\ bound' \subseteq Spaces
    <3>1. c \in AllCalls
      BY CallsAreCalls
    <3>2. c[1] \in {"join", "create"} => c[2] \in Spaces
      BY <3>1, CallTypes
    <3>. QED  BY <2>3, <3>2 DEF HandleResult, Binds
  <2>4. ASSUME NEW c \in plan.wants, Reship(c) PROVE Same
    BY <2>4 DEF Reship, Asks
  <2>. QED  BY <1>6, <2>1, <2>2, <2>3, <2>4 DEF PumpSteps
<1>. QED  BY <1>3, <1>4, <1>5, <1>6 DEF Next

LEMMA NextGood ==
    ASSUME TypeOK, Good(eng, phase, shown), Next
    PROVE  Good(eng', phase', shown')
<1>1. CASE EngineSteps
  <2>1. phase' = phase /\ shown' = shown
    BY <1>1 DEF EngineSteps, Command, Message, LostWs, TryConnect, Handshake, Probe, Pong,
                LivenessTimeout, Stop, ui
  <2>2. Good(eng', phase, shown)
    BY <1>1, CommandGood, HandshakeGood, TimerGood, StopGood DEF EngineSteps
  <2>. QED  BY <2>1, <2>2
<1>2. CASE RelaySteps
  <2>1. phase' = phase /\ shown' = shown
    BY <1>2 DEF RelaySteps, RelayAnswers, RelayCreates, RelayFails, LinkFails, Invited,
                SpaceDeleted, ui
  <2>2. ASSUME NEW s \in Spaces, Invited(s) PROVE Good(eng', phase', shown')
    BY <2>2 DEF Invited, ui
  <2>3. CASE RelayAnswers \/ RelayCreates \/ RelayFails \/ LinkFails
    BY <2>1, <2>3, RelayAnswersGood, RelayCreatesGood, RelayFailsGood, LinkFailsGood
  <2>4. ASSUME NEW s \in Spaces, SpaceDeleted(s) PROVE Good(eng', phase', shown')
    BY <2>1, <2>4, SpaceDeletedGood
  <2>. QED  BY <1>2, <2>2, <2>3, <2>4 DEF RelaySteps
<1>3. CASE UserSteps
  <2>1. CASE Connect \/ Reconnect
    BY <2>1, StartGood DEF Connect, Reconnect
  <2>2. CASE Disconnect
    BY <2>2, DisconnectGood
  <2>3. CASE Leave
    BY <2>3, LeaveGood
  <2>4. CASE Exit
    <3>1. Good(NoEngine, "gone", shown)
      BY NewEngineIsEmpty, EmptyGood
    <3>. QED  BY <2>4, <3>1 DEF Exit
  <2>5. ASSUME NEW c \in plan.wants, Ask(c) PROVE Good(eng', phase', shown')
    BY <2>5, AsksGood DEF Ask
  <2>6. ASSUME NEW s \in Spaces, Create(s) PROVE Good(eng', phase', shown')
    BY <2>6, AsksGood DEF Create
  <2>7. ASSUME NEW s \in Spaces, Forget(s) PROVE Good(eng', phase', shown')
    BY <2>7, ForgetGood
  <2>. QED  BY <1>3, <2>1, <2>2, <2>3, <2>4, <2>5, <2>6, <2>7 DEF UserSteps
<1>4. CASE PumpSteps
  <2>1. plan.wants \subseteq Calls
    BY CallsAreCalls DEF TypeOK
  <2>2. ASSUME NEW c \in plan.wants, Reship(c) PROVE Good(eng', phase', shown')
    BY <2>2, AsksGood DEF Reship
  <2>3. ASSUME NEW c \in plan.wants, HandleResult(c) PROVE Good(eng', phase', shown')
    BY <2>1, <2>3, HandleResultGood
  <2>. QED  BY <1>4, <2>2, <2>3, ListenGood, HandleEventGood DEF PumpSteps
<1>. QED  BY <1>1, <1>2, <1>3, <1>4 DEF Next

LEMMA NextInv == ASSUME Inv, [Next]_vars PROVE Inv'
<1>1. CASE Next
  <2>1. Good(eng', phase', shown')
    BY <1>1, NextGood DEF Inv
  <2>2. eng' \in EngineType /\ (eng'.gaveUp # "no" => eng'.link = "none")
    BY <2>1 DEF Good, Loose, Sane
  <2>3. TypeOK'
    BY <1>1, <2>2, NextTypes DEF Inv, TypeOK
  <2>. QED  BY <2>1, <2>3 DEF Inv
<1>2. CASE UNCHANGED vars
  <2>1. /\ phase' = phase /\ shown' = shown /\ bound' = bound /\ plan' = plan /\ asks' = asks
        /\ eng' = eng /\ member' = member /\ faults' = faults
    BY <1>2 DEF vars
  <2>. QED  BY <2>1 DEF Inv, TypeOK
<1>. QED  BY <1>1, <1>2

LEMMA InvHolds == Spec => []Inv
BY InitInv, NextInv, PTL DEF Spec

-----------------------------------------------------------------------------
(* Every variable keeps its type, and an engine that has given up has no     *)
(* link (engine.rs run).                                                     *)
THEOREM TypesCorrect == Spec => []TypeOK
<1>1. Inv => TypeOK
  BY DEF Inv
<1>. QED  BY <1>1, InvHolds, PTL

(* No waiter of the engine is left behind: its request or its answer is on   *)
(* the way over the present connection, for any number of requests, faults   *)
(* and connections (engine.rs disconnect, put_blob, join_space, handle_ws).  *)
THEOREM NoWaiterIsLeft == Spec => []WaitersAreServed
<1>1. Inv => WaitersAreServed
  BY DEF Inv, Good, Served, WaitsServed, JoinsServed, WaitersAreServed, Coming, ComingTo,
         OnTheWay, OnTheWayTo
<1>. QED  BY <1>1, InvHolds, PTL

(* Once it has handled the events the interface shows what the engine is,    *)
(* through any number of attempts, losses and refusals (app.rs               *)
(* handle_sync_event, state.rs connect_sync).                                *)
THEOREM UserIsToldTheTruth == Spec => []DrainedUiAgrees
<1>1. Inv => DrainedUiAgrees
  <2>1. SUFFICES ASSUME Inv, phase = "running", ~eng.missed, eng.events = <<>>
                 PROVE  /\ shown.connected = Connected(eng)
                        /\ (eng.gaveUp # "no") = SyncIsDead
    BY DEF DrainedUiAgrees
  <2>4. NoLink(eng.events)
    BY <2>1 DEF NoLink
  <2>2. /\ Told(eng, "running", shown)
        /\ shown \in [connected : BOOLEAN, dead : BOOLEAN, refused : SUBSET Spaces]
    BY <2>1 DEF Inv, Good, Loose, TypeOK
  <2>3. shown.connected \in BOOLEAN /\ shown.dead \in BOOLEAN
    BY <2>2
  <2>. QED  BY <2>1, <2>2, <2>3, <2>4 DEF Told, SyncIsDead, Connected
<1>. QED  BY <1>1, InvHolds, PTL

(* A join that succeeds has the log and the keys of its space, whatever      *)
(* answers of earlier attempts are mixed in, unless the space was forgotten  *)
(* since (engine.rs JoinSpace, finish_join, forget_space_state).             *)
THEOREM JoinsAreLoaded == Spec => []JoinOkMeansLoaded
<1>1. Inv => JoinOkMeansLoaded
  BY DEF Inv, Good, Loose, Loaded, JoinOkMeansLoaded
<1>. QED  BY <1>1, InvHolds, PTL

(* While its engine runs a waiter is dropped without an answer only because  *)
(* its space was forgotten: deleted here, destroyed by its owner, or refused *)
(* by the relay; never because another of its kind displaced it (mod.rs      *)
(* request, engine.rs put_blob, forget_space_state).                         *)
THEOREM NoWaiterIsDropped == Spec => []NobodyIsDropped
<1>1. Inv => NobodyIsDropped
  BY DEF Inv, Good, Loose, Kept, NobodyIsDropped
<1>. QED  BY <1>1, InvHolds, PTL
=============================================================================
