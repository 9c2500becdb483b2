------------------------------ MODULE NisProofs ------------------------------
(***************************************************************************)
(* What a client of the information server takes for a complete answer is  *)
(* one, to its own question: for any number of connections, clients,       *)
(* statuses, lines of events and messages in flight.                       *)
(***************************************************************************)
EXTENDS Nis, SequenceTheorems, TLAPS

(* What is sent.                                                           *)
Shown == {<<"STATUS", StatusWords(Readings[n])>> : n \in 1..Len(Readings)}
         \cup {<<"STATFLAG", Readings[n]>> : n \in 1..Len(Readings)}
Msgs == {EndMark, EndLine, <<"Not available">>} \cup ({"APC", "LINEV", "event"} \X Nat) \cup Shown

Places == {"none", "recv", "open", "rlock", "words", "flags", "head", "lines", "events", "fgets",
           "notavail", "last"}
Rings == [1..NLE -> Nat]
Handler == [pc : Places, sent : Nat, le : {<<>>} \cup Rings, i : Nat, nrec : Nat]
Connection == [up : Seq({"status", "events"}), down : Seq(Msgs), client : BOOLEAN,
               server : BOOLEAN, late : BOOLEAN]
Caller == [pc : {"idle", "open", "recv"}, call : {"none", "status", "events"},
           sock : Conns \cup {"none"}, tries : Nat, got : Seq(Msgs),
           ok : {"none", "good", "failed", "cut", "late"}, since : Nat, trims : Nat]

NisTypeOK ==
    /\ ups \in [status : {Readings[n] : n \in 1..Len(Readings)}, linev : 1..Len(Readings)]
    /\ upslock \in Conns \cup {"free", "device"} /\ mutex \in Conns \cup {"free"}
    /\ largebuf \in Seq(Msgs) /\ eventfile \in Seq(Nat) /\ logged \in Nat /\ trims \in Nat
    /\ dev \in [pc : {"idle", "status", "linev", "read", "truncate", "write"}, buf : Seq(Nat)]
    /\ serving \in BOOLEAN
    /\ thread \in [Conns -> Handler]
    /\ wire \in [Conns -> Connection]
    /\ client \in [Clients -> Caller]

(* The locks, and what is looked at under them.                            *)
Buffering == {"rlock", "words", "flags", "head", "lines"}
LinesOf(s, n) == <<<<"STATUS", StatusWords(s)>>, <<"LINEV", n>>>>
AllLines(s, n) == <<<<"STATUS", StatusWords(s)>>, <<"LINEV", n>>, <<"STATFLAG", s>>, EndLine>>
LocksInv ==
    /\ \A c \in Conns : thread[c].pc \in Buffering <=> mutex = c
    /\ \A c \in Conns : thread[c].pc \in {"words", "flags"} <=> upslock = c
    /\ dev.pc # "idle" <=> upslock = "device"
DeviceInv ==
    /\ dev.pc \in {"status", "linev"} => ups.linev < Len(Readings)
    /\ serving => ups.status = Readings[IF dev.pc = "linev" THEN ups.linev + 1 ELSE ups.linev]
    /\ dev.pc = "read" => TrimNeeded
ThreadInv(c) ==
    /\ wire[c].server <=> thread[c].pc # "none"
    /\ thread[c].pc \in {"rlock", "words"} => largebuf = <<>>
    /\ thread[c].pc = "flags" => largebuf = LinesOf(ups.status, ups.linev)
    /\ thread[c].pc = "fgets" => thread[c].le \in Rings /\ thread[c].i < NLE
    /\ thread[c].pc = "last" =>
          /\ thread[c].sent <= thread[c].nrec /\ thread[c].nrec <= NLE
          /\ thread[c].nrec > 0 => thread[c].le \in Rings /\ thread[c].i < NLE
ServerInv ==
    /\ NisTypeOK /\ LocksInv /\ DeviceInv
    /\ \A c \in Conns : ThreadInv(c)
    /\ ~serving => \A c \in Conns : ~wire[c].server

(* The connections and their owners.                                       *)
SocksInv ==
    /\ \A k, l \in Clients : client[k].sock = client[l].sock => k = l \/ client[k].sock = "none"
    /\ \A k \in Clients : /\ client[k].sock # "none" => wire[client[k].sock].client
                          /\ client[k].pc = "open" => client[k].sock = "none"
                          /\ client[k].pc = "recv" => client[k].sock # "none"
                          /\ client[k].pc # "idle" => client[k].call # "none"
                          /\ client[k].ok = "good" => client[k].pc = "idle" /\ client[k].call # "none"

(* The right answers.                                                      *)
StatusAt(n) == <<<<"APC", 4>>, <<"STATUS", StatusWords(Readings[n])>>, <<"LINEV", n>>,
                 <<"STATFLAG", Readings[n]>>, EndLine>>
Base(n) == IF n > NLE THEN n - NLE ELSE 0
Kept(n) == IF n > NLE THEN NLE ELSE n
EventsAt(n) == [j \in 1..Kept(n) |-> <<"event", eventfile[Base(n) + j]>>]
RightStatus(f, since) == \E n \in since..ups.linev : f = StatusAt(n)
RightEvents(f, since, told) ==
    \/ f = <<<<"Not available">>>>
    \/ trims # told
    \/ \E n \in since..Len(eventfile) : f = EventsAt(n)
Right(r, f) == IF r.call = "status" THEN RightStatus(f, r.since) ELSE RightEvents(f, r.since, r.trims)

(* How far an answer is.                                                   *)
NoEnd(s) == \A i \in DOMAIN s : s[i] # EndMark
Whole(r, s) == NoEnd(s) \/ \E f \in Seq(Msgs) : s = Append(f, EndMark) /\ NoEnd(f) /\ Right(r, f)
Starts(s, n, f) == Len(s) = n /\ \A j \in 1..n : s[j] = f[j]

Back(i, d) == IF i >= d THEN i - d ELSE i - d + NLE
Fwd(i, d) == IF i + d < NLE THEN i + d ELSE i + d - NLE
Fetched(t) ==
    /\ t.nrec <= Len(eventfile)
    /\ t.nrec < NLE => t.i = t.nrec
    /\ t.nrec = NLE => t.i = 0
    /\ \A d \in 1..NLE : d <= t.nrec => t.le[Back(t.i, d) + 1] = eventfile[t.nrec - d + 1]
Picked(t, n) ==
    /\ t.nrec = Kept(n)
    /\ \A d \in 0..NLE : d < t.nrec - t.sent => t.le[Fwd(t.i, d) + 1] = eventfile[Base(n) + t.sent + d + 1]

Sending(r, t, s) ==
    \/ /\ r.call = "status" /\ s = <<>>
       /\ \/ t.pc \in {"open", "rlock", "words", "flags"}
          \/ t.pc = "head" /\ \E n \in r.since..ups.linev : largebuf = AllLines(Readings[n], n)
    \/ /\ r.call = "status" /\ t.pc = "lines" /\ t.sent <= 4
       /\ \E n \in r.since..ups.linev : /\ largebuf = AllLines(Readings[n], n)
                                        /\ Starts(s, t.sent + 1, StatusAt(n))
    \/ /\ r.call = "events" /\ s = <<>>
       /\ \/ t.pc \in {"events", "notavail"}
          \/ t.pc = "fgets" /\ (trims = r.trims => Fetched(t))
    \/ /\ r.call = "events" /\ t.pc = "last" /\ NoEnd(s)
       /\ \/ t.nrec = 0 /\ s = <<<<"Not available">>>>
          \/ trims # r.trims
          \/ \E n \in r.since..Len(eventfile) : Picked(t, n) /\ Starts(s, t.sent, EventsAt(n))

Flow(r, t, w, s) ==
    /\ Whole(r, s)
    /\ t.pc = "recv" => w.up = <<>> \/ (w.up = <<r.call>> /\ s = <<>>)
    /\ t.pc \notin {"none", "recv"} => w.up = <<>> /\ Sending(r, t, s)
FlowInv(k) ==
    LET r == client[k]
        t == thread[r.sock]
        w == wire[r.sock]
    IN /\ r.pc = "recv" /\ ~w.late => Flow(r, t, w, r.got \o w.down)
       /\ r.pc = "idle" /\ r.sock # "none" /\ ~w.late =>
             w.down = <<>> /\ (w.server => t.pc = "recv" /\ w.up = <<>>)
(* A question that has been asked.                                         *)
Asked(r) ==
    /\ r.call # "none" /\ r.trims <= trims /\ NoEnd(r.got)
    /\ r.call = "status" => 1 <= r.since /\ r.since <= ups.linev
    /\ r.call = "events" /\ r.trims = trims => r.since <= Len(eventfile)
AskedInv(k) == client[k].pc = "recv" => Asked(client[k])
DoneInv(k) ==
    client[k].ok = "good" => client[k].trims <= trims /\ Right(client[k], client[k].got)

NisInv ==
    /\ ServerInv /\ SocksInv
    /\ \A k \in Clients : FlowInv(k) /\ AskedInv(k) /\ DoneInv(k)

---------------------------------------------------------------------------
(* Sequences of messages.                                                  *)
LEMMA CatAppend ==
    ASSUME NEW S, NEW g \in Seq(S), NEW d \in Seq(S), NEW m \in S
    PROVE  /\ Append(g \o d, m) \in Seq(S)
           /\ g \o Append(d, m) = Append(g \o d, m)
<1> DEFINE a == g \o Append(d, m)
           b == Append(g \o d, m)
<1>1. Append(d, m) \in Seq(S) /\ Len(Append(d, m)) = Len(d) + 1
  OBVIOUS
<1>2. /\ g \o d \in Seq(S) /\ Len(g \o d) = Len(g) + Len(d)
      /\ \A i \in 1 .. Len(g) + Len(d) : (g \o d)[i] = IF i <= Len(g) THEN g[i] ELSE d[i - Len(g)]
  BY ConcatProperties
<1>3. /\ a \in Seq(S) /\ Len(a) = Len(g) + (Len(d) + 1)
      /\ \A i \in 1 .. Len(g) + (Len(d) + 1) :
           a[i] = IF i <= Len(g) THEN g[i] ELSE Append(d, m)[i - Len(g)]
  <2> DEFINE e == Append(d, m)
  <2>1. e \in Seq(S) /\ Len(e) = Len(d) + 1
    BY <1>1
  <2>2. /\ g \o e \in Seq(S) /\ Len(g \o e) = Len(g) + Len(e)
        /\ \A i \in 1 .. Len(g) + Len(e) : (g \o e)[i] = IF i <= Len(g) THEN g[i] ELSE e[i - Len(g)]
    <3> HIDE DEF e
    <3> QED
      BY <2>1, ConcatProperties
  <2> QED
    BY <2>1, <2>2
<1>4. b \in Seq(S) /\ Len(b) = Len(g) + Len(d) + 1
  BY <1>2
<1>5. ASSUME NEW i \in 1 .. Len(a) PROVE a[i] = b[i]
  <2>1. /\ Len(g) \in Nat /\ Len(d) \in Nat /\ i \in Nat /\ 1 <= i
        /\ i <= Len(g) + Len(d) + 1
    BY <1>3
  <2>2. CASE i = Len(g) + Len(d) + 1
    <3>1. b[i] = m
      BY <1>2, <2>2
    <3>2. a[i] = Append(d, m)[i - Len(g)] /\ i - Len(g) = Len(d) + 1
      BY <1>3, <2>1, <2>2
    <3> QED
      BY <3>1, <3>2
  <2>3. CASE i <= Len(g) + Len(d)
    <3>1. b[i] = (g \o d)[i]
      BY <1>2, <2>1, <2>3
    <3>2. CASE i <= Len(g)
      BY <1>2, <1>3, <2>1, <2>3, <3>1, <3>2
    <3>3. CASE ~(i <= Len(g))
      <4>1. i - Len(g) \in 1 .. Len(d)
        BY <2>1, <2>3, <3>3
      <4>2. Append(d, m)[i - Len(g)] = d[i - Len(g)]
        BY <4>1
      <4> QED
        BY <1>2, <1>3, <2>1, <2>3, <3>1, <3>3, <4>2
    <3> QED
      BY <3>2, <3>3
  <2> QED
    BY <2>1, <2>2, <2>3
<1> HIDE DEF a, b
<1>6. Len(a) = Len(b)
  BY <1>3, <1>4
<1>7. a = b
  BY <1>3, <1>4, <1>5, <1>6, SeqEqual
<1> QED
  BY <1>4, <1>7 DEF a, b

LEMMA PairsCat ==
    ASSUME NEW x, NEW y, NEW z, NEW w
    PROVE  <<x, y>> \o <<z, w>> = <<x, y, z, w>>
<1> DEFINE S == {x, y, z, w}
           a == <<x, y>>
           b == <<z, w>>
           d == <<x, y, z, w>>
<1>1. /\ a \in Seq(S) /\ Len(a) = 2 /\ a[1] = x /\ a[2] = y
      /\ b \in Seq(S) /\ Len(b) = 2 /\ b[1] = z /\ b[2] = w
      /\ d \in Seq(S) /\ Len(d) = 4 /\ d[1] = x /\ d[2] = y /\ d[3] = z /\ d[4] = w
  OBVIOUS
<1> HIDE DEF S, a, b, d
<1>2. /\ a \o b \in Seq(S) /\ Len(a \o b) = Len(a) + Len(b)
      /\ \A i \in 1 .. Len(a) + Len(b) : (a \o b)[i] = IF i <= Len(a) THEN a[i] ELSE b[i - Len(a)]
  BY <1>1, ConcatProperties
<1>3. /\ Len(a \o b) = 4 /\ (a \o b)[1] = x /\ (a \o b)[2] = y
      /\ (a \o b)[3] = b[1] /\ (a \o b)[4] = b[2]
  BY <1>1, <1>2
<1>4. \A i \in 1 .. 4 : (a \o b)[i] = d[i]
  BY <1>1, <1>3
<1>5. a \o b = d
  BY <1>1, <1>2, <1>3, <1>4, SeqEqual
<1> QED
  BY <1>5 DEF a, b, d

LEMMA CatTail ==
    ASSUME NEW S, NEW g \in Seq(S), NEW d \in Seq(S), d # <<>>
    PROVE  /\ Head(d) \in S /\ Tail(d) \in Seq(S) /\ Append(g, Head(d)) \in Seq(S)
           /\ Append(g, Head(d)) \o Tail(d) = g \o d
<1>1. /\ Head(d) \in S /\ Tail(d) \in Seq(S) /\ Len(d) \in Nat \ {0} /\ Len(Tail(d)) = Len(d) - 1
      /\ \A i \in 1 .. Len(Tail(d)) : Tail(d)[i] = d[i + 1]
      /\ Head(d) = d[1]
  BY HeadTailProperties, EmptySeq DEF Head
<1> DEFINE h == Append(g, Head(d))
           a == h \o Tail(d)
           b == g \o d
<1>2. h \in Seq(S) /\ Len(h) = Len(g) + 1 /\ \A i \in 1 .. Len(g) + 1 : h[i] = IF i <= Len(g) THEN g[i] ELSE d[1]
  BY <1>1
<1>3. /\ a \in Seq(S) /\ Len(a) = Len(h) + Len(Tail(d))
      /\ \A i \in 1 .. Len(h) + Len(Tail(d)) : a[i] = IF i <= Len(h) THEN h[i] ELSE Tail(d)[i - Len(h)]
  BY <1>1, <1>2, ConcatProperties
<1>4. /\ b \in Seq(S) /\ Len(b) = Len(g) + Len(d)
      /\ \A i \in 1 .. Len(g) + Len(d) : b[i] = IF i <= Len(g) THEN g[i] ELSE d[i - Len(g)]
  BY ConcatProperties
<1>5. ASSUME NEW i \in 1 .. Len(a) PROVE a[i] = b[i]
  <2>1. /\ Len(g) \in Nat /\ Len(d) \in Nat \ {0} /\ i \in Nat /\ 1 <= i
        /\ i <= Len(g) + Len(d)
    BY <1>1, <1>2, <1>3
  <2> HIDE DEF a, b, h
  <2>2. CASE i <= Len(g) + 1
    <3>1. a[i] = h[i]
      BY <1>1, <1>2, <1>3, <2>1, <2>2
    <3>2. b[i] = IF i <= Len(g) THEN g[i] ELSE d[i - Len(g)]
      BY <1>4, <2>1
    <3>3. h[i] = IF i <= Len(g) THEN g[i] ELSE d[1]
      BY <1>2, <2>1, <2>2
    <3>4. CASE i <= Len(g)
      BY <3>1, <3>2, <3>3, <3>4
    <3>5. CASE ~(i <= Len(g))
      <4>1. i - Len(g) = 1
        BY <2>1, <2>2, <3>5
      <4> QED
        BY <3>1, <3>2, <3>3, <3>5, <4>1
    <3> QED
      BY <3>4, <3>5
  <2>3. CASE ~(i <= Len(g) + 1)
    <3>1. i - Len(h) \in 1 .. Len(Tail(d)) /\ i - Len(h) + 1 = i - Len(g) /\ ~(i <= Len(h)) /\ ~(i <= Len(g))
      BY <1>1, <1>2, <2>1, <2>3
    <3>2. a[i] = Tail(d)[i - Len(h)]
      BY <1>1, <1>2, <1>3, <2>1, <3>1
    <3>3. Tail(d)[i - Len(h)] = d[i - Len(g)]
      BY <1>1, <3>1
    <3>4. b[i] = d[i - Len(g)]
      BY <1>4, <2>1, <3>1
    <3> QED
      BY <3>2, <3>3, <3>4
  <2> QED
    BY <2>2, <2>3
<1>6. Len(a) = Len(b)
  <2> HIDE DEF a, b, h
  <2> QED
    BY <1>1, <1>2, <1>3, <1>4
<1>7. a = b
  <2> HIDE DEF a, b, h
  <2> QED
    BY <1>3, <1>4, <1>5, <1>6, SeqEqual
<1> QED
  BY <1>1, <1>2, <1>7 DEF a, b, h

(* An answer ends with its only end mark.                                  *)
LEMMA NoEndAppend ==
    ASSUME NEW s \in Seq(Msgs), NEW m \in Msgs, NoEnd(s), m # EndMark
    PROVE  NoEnd(Append(s, m))
  BY DEF NoEnd

LEMMA NoEndOne ==
    ASSUME NEW m, m # EndMark
    PROVE  Append(<<>>, m) = <<m>> /\ NoEnd(<<m>>)
  BY DEF NoEnd

LEMMA NoEndCat ==
    ASSUME NEW g \in Seq(Msgs), NEW d \in Seq(Msgs), NoEnd(g \o d)
    PROVE  NoEnd(d)
<1>1. /\ g \o d \in Seq(Msgs) /\ Len(g \o d) = Len(g) + Len(d)
      /\ \A i \in 1 .. Len(g) + Len(d) : (g \o d)[i] = IF i <= Len(g) THEN g[i] ELSE d[i - Len(g)]
  BY ConcatProperties
<1>2. Len(g) \in Nat /\ Len(d) \in Nat /\ DOMAIN d = 1 .. Len(d) /\ DOMAIN (g \o d) = 1 .. Len(g \o d)
  BY <1>1, LenProperties
<1>3. ASSUME NEW i \in 1 .. Len(d) PROVE d[i] # EndMark
  <2>1. i + Len(g) \in 1 .. Len(g) + Len(d) /\ ~(i + Len(g) <= Len(g)) /\ (i + Len(g)) - Len(g) = i
    BY <1>2
  <2>2. (g \o d)[i + Len(g)] = d[i]
    BY <1>1, <2>1
  <2> QED
    BY <1>1, <1>2, <2>1, <2>2 DEF NoEnd
<1> QED
  BY <1>2, <1>3 DEF NoEnd

(* The end mark is read: it was the last message.                          *)
LEMMA EndRead ==
    ASSUME NEW g \in Seq(Msgs), NEW d \in Seq(Msgs), d # <<>>, Head(d) = EndMark,
           NEW f \in Seq(Msgs), g \o d = Append(f, EndMark), NoEnd(f)
    PROVE  f = g /\ Tail(d) = <<>>
<1>1. /\ g \o d \in Seq(Msgs) /\ Len(g \o d) = Len(g) + Len(d)
      /\ \A i \in 1 .. Len(g) + Len(d) : (g \o d)[i] = IF i <= Len(g) THEN g[i] ELSE d[i - Len(g)]
  BY ConcatProperties
<1>2. /\ Len(d) \in Nat \ {0} /\ Len(g) \in Nat /\ Len(f) \in Nat
      /\ Tail(d) \in Seq(Msgs) /\ Len(Tail(d)) = Len(d) - 1 /\ Head(d) = d[1]
  BY HeadTailProperties, EmptySeq
<1> DEFINE s == g \o d
<1>3. /\ Len(s) = Len(f) + 1
      /\ \A i \in 1 .. Len(f) : s[i] = f[i]
  OBVIOUS
<1>4. s[Len(g) + 1] = EndMark
  BY <1>1, <1>2
<1> HIDE DEF s
<1>5. Len(f) <= Len(g)
  <2>1. SUFFICES ASSUME Len(g) + 1 \in 1 .. Len(f) PROVE FALSE
    BY <1>2
  <2>2. f[Len(g) + 1] = EndMark
    BY <1>3, <1>4, <2>1
  <2> QED
    BY <2>1, <2>2 DEF NoEnd
<1>6. Len(f) = Len(g) /\ Len(d) = 1
  BY <1>1, <1>2, <1>3, <1>5 DEF s
<1>7. \A i \in 1 .. Len(f) : f[i] = g[i]
  BY <1>1, <1>2, <1>3, <1>6 DEF s
<1>8. f = g
  BY <1>6, <1>7, SeqEqual
<1>9. Len(Tail(d)) = 0
  BY <1>2, <1>6
<1> QED
  BY <1>2, <1>8, <1>9, EmptySeq

---------------------------------------------------------------------------
(* The messages.                                                           *)
LEMMA Sizes ==
    /\ NLE \in Nat \ {0} /\ Window \in Nat \ {0} /\ EventMax \in Nat \ {0} /\ OldEvents \in Nat
    /\ MaxLog \in Nat /\ MaxAsks \in Nat /\ Len(Readings) \in Nat \ {0}
    /\ Conns \cap {"free", "device", "none"} = {}
  BY NisAssumption

LEMMA Kinds ==
    /\ EndMark \in Msgs /\ EndLine \in Msgs /\ EndLine # EndMark
    /\ <<"Not available">> \in Msgs /\ <<"Not available">> # EndMark
    /\ \A n \in Nat : /\ <<"APC", n>> \in Msgs /\ <<"APC", n>> # EndMark
                      /\ <<"LINEV", n>> \in Msgs /\ <<"LINEV", n>> # EndMark
                      /\ <<"event", n>> \in Msgs /\ <<"event", n>> # EndMark
    /\ \A n \in 1 .. Len(Readings) :
          /\ <<"STATUS", StatusWords(Readings[n])>> \in Msgs
          /\ <<"STATFLAG", Readings[n]>> \in Msgs
    /\ \A x : <<"STATUS", x>> # EndMark /\ <<"STATFLAG", x>> # EndMark
<1>1. /\ EndMark \in Msgs /\ EndLine \in Msgs /\ <<"Not available">> \in Msgs
      /\ \A n \in Nat : <<"APC", n>> \in Msgs /\ <<"LINEV", n>> \in Msgs /\ <<"event", n>> \in Msgs
  BY DEF Msgs
<1>2. \A n \in 1 .. Len(Readings) :
          /\ <<"STATUS", StatusWords(Readings[n])>> \in Msgs
          /\ <<"STATFLAG", Readings[n]>> \in Msgs
  BY DEF Msgs, Shown
<1>3. EndLine # EndMark /\ <<"Not available">> # EndMark
  BY DEF EndLine, EndMark
<1>4. ASSUME NEW a, NEW b PROVE <<a, b>> # EndMark
  <2>1. Len(<<a, b>>) = 2 /\ Len(EndMark) = 1
    BY DEF EndMark
  <2> QED
    BY <2>1
<1> QED
  BY <1>1, <1>2, <1>3, <1>4

LEMMA Status ==
    ASSUME NEW n \in 1 .. Len(Readings)
    PROVE  /\ StatusAt(n) \in Seq(Msgs) /\ NoEnd(StatusAt(n)) /\ Len(StatusAt(n)) = 5
           /\ AllLines(Readings[n], n) \in Seq(Msgs) /\ Len(AllLines(Readings[n], n)) = 4
           /\ StatusAt(n)[1] = <<"APC", 4>>
           /\ \A j \in 1 .. 4 : StatusAt(n)[j + 1] = AllLines(Readings[n], n)[j]
<1> DEFINE s == <<"STATUS", StatusWords(Readings[n])>>
           f == <<"STATFLAG", Readings[n]>>
           h == <<"APC", 4>>
           v == <<"LINEV", n>>
<1>1. /\ s \in Msgs /\ f \in Msgs /\ h \in Msgs /\ v \in Msgs /\ EndLine \in Msgs
      /\ s # EndMark /\ f # EndMark /\ h # EndMark /\ v # EndMark /\ EndLine # EndMark
  <2>1. n \in Nat /\ 4 \in Nat
    BY Sizes
  <2> QED
    BY <2>1, Kinds
<1>2. StatusAt(n) = <<h, s, v, f, EndLine>> /\ AllLines(Readings[n], n) = <<s, v, f, EndLine>>
  BY DEF StatusAt, AllLines
<1> HIDE DEF s, f, h, v
<1>3. /\ <<h, s, v, f, EndLine>> \in Seq(Msgs) /\ NoEnd(<<h, s, v, f, EndLine>>)
      /\ <<s, v, f, EndLine>> \in Seq(Msgs)
  BY <1>1 DEF NoEnd
<1>4. \A j \in 1 .. 4 : <<h, s, v, f, EndLine>>[j + 1] = <<s, v, f, EndLine>>[j]
  OBVIOUS
<1> QED
  BY <1>2, <1>3, <1>4 DEF h

(* The last lines of a file of n.                                          *)
LEMMA KeptLines ==
    ASSUME NEW n \in Nat
    PROVE  /\ Base(n) \in Nat /\ Kept(n) \in 0 .. NLE /\ Base(n) + Kept(n) = n
           /\ n > NLE => Kept(n) = NLE
           /\ n <= NLE => Kept(n) = n /\ Base(n) = 0
           /\ \A j \in 1 .. Kept(n) : Base(n) + j \in 1 .. n
  BY Sizes DEF Base, Kept

LEMMA Events ==
    ASSUME eventfile \in Seq(Nat), NEW n \in 0 .. Len(eventfile)
    PROVE  /\ EventsAt(n) \in Seq(Msgs) /\ NoEnd(EventsAt(n)) /\ Len(EventsAt(n)) = Kept(n)
           /\ \A j \in 1 .. Kept(n) : EventsAt(n)[j] = <<"event", eventfile[Base(n) + j]>>
<1> DEFINE e == EventsAt(n)
<1>1. /\ n \in Nat /\ Kept(n) \in Nat
      /\ \A j \in 1 .. Kept(n) : Base(n) + j \in 1 .. Len(eventfile)
  <2>1. Len(eventfile) \in Nat /\ NLE \in Nat
    BY LenProperties, Sizes
  <2>2. n \in Nat /\ n <= Len(eventfile)
    BY <2>1
  <2>3. Kept(n) \in 0 .. NLE /\ \A j \in 1 .. Kept(n) : Base(n) + j \in 1 .. n
    BY <2>2, KeptLines
  <2> QED
    BY <2>1, <2>2, <2>3
<1>2. \A j \in 1 .. Kept(n) : eventfile[Base(n) + j] \in Nat
  BY <1>1, ElementOfSeq
<1>3. e = [j \in 1 .. Kept(n) |-> <<"event", eventfile[Base(n) + j]>>]
  BY DEF EventsAt
<1>4. \A j \in 1 .. Kept(n) : /\ e[j] = <<"event", eventfile[Base(n) + j]>>
                              /\ e[j] \in Msgs /\ e[j] # EndMark
  BY <1>2, <1>3, Kinds
<1>5. DOMAIN e = 1 .. Kept(n) /\ e \in [1 .. Kept(n) -> Msgs]
  BY <1>3, <1>4
<1>6. e \in Seq(Msgs) /\ Len(e) = Kept(n)
  <2>1. PICK z \in Nat : z = Kept(n)
    BY <1>1
  <2> HIDE DEF e
  <2>2. e \in [1 .. z -> Msgs] /\ DOMAIN e = 1 .. z
    BY <1>5, <2>1
  <2>3. e \in Seq(Msgs)
    BY <2>2, SeqDef
  <2>4. Len(e) = z
    BY <2>2, <2>3, LenProperties
  <2> QED
    BY <2>1, <2>3, <2>4
<1> QED
  BY <1>4, <1>5, <1>6 DEF NoEnd

---------------------------------------------------------------------------
(* The ring of output_events().                                            *)
LEMMA Ring ==
    ASSUME NEW i \in 0 .. NLE - 1
    PROVE  /\ i % NLE = i /\ (i + 1) % NLE \in 0 .. NLE - 1
           /\ (i + 1) % NLE = IF i + 1 = NLE THEN 0 ELSE i + 1
<1>1. NLE \in Nat \ {0} /\ i \in Nat /\ i < NLE
  BY Sizes
<1>2. i % NLE = i
  BY <1>1
<1>3. CASE i + 1 = NLE
  BY <1>1, <1>2, <1>3
<1>4. CASE i + 1 < NLE
  BY <1>1, <1>2, <1>4
<1> QED
  BY <1>1, <1>3, <1>4

LEMMA BackAndForth ==
    ASSUME NEW i \in 0 .. NLE - 1, NEW m, m = IF i + 1 = NLE THEN 0 ELSE i + 1
    PROVE  /\ Back(m, 1) = i /\ Fwd(i, 0) = i
           /\ \A d \in 1 .. NLE : Back(i, d) \in 0 .. NLE - 1
           /\ \A d \in 2 .. NLE : Back(m, d) = Back(i, d - 1) /\ Back(i, d - 1) # i
           /\ \A d \in 0 .. NLE - 1 : /\ Fwd(i, d) \in 0 .. NLE - 1
                                      /\ Back(i, NLE - d) = Fwd(i, d)
                                      /\ d + 1 < NLE => Fwd(m, d) = Fwd(i, d + 1)
  BY Sizes DEF Back, Fwd

LEMMA OneBefore ==
    ASSUME NEW n \in Nat, NEW d \in 1 .. NLE, d <= n + 1, d # 1
    PROVE  /\ d \in 2 .. NLE /\ d - 1 \in 1 .. NLE /\ d - 1 <= n
           /\ (n + 1) - d + 1 = n - (d - 1) + 1
  BY Sizes

(* One line more goes round.                                               *)
LEMMA FetchOne ==
    ASSUME eventfile \in Seq(Nat), NEW t \in Handler, t.le \in Rings, t.i \in 0 .. NLE - 1,
           Fetched(t), t.nrec < Len(eventfile),
           NEW u, u = [t EXCEPT !.le[t.i + 1] = eventfile[t.nrec + 1], !.nrec = @ + 1, !.i = (@ + 1) % NLE]
    PROVE  u \in Handler /\ u.le \in Rings /\ u.i \in 0 .. NLE - 1 /\ u.pc = t.pc /\ Fetched(u)
<1> DEFINE i == t.i
           n == t.nrec
           m == (t.i + 1) % NLE
           x == eventfile[t.nrec + 1]
<1>1. /\ NLE \in Nat \ {0} /\ i \in 0 .. NLE - 1 /\ n \in Nat /\ m \in 0 .. NLE - 1 /\ x \in Nat
      /\ m = IF i + 1 = NLE THEN 0 ELSE i + 1
  <2>1. n \in Nat /\ n + 1 \in 1 .. Len(eventfile)
    BY DEF Handler
  <2> QED
    BY <2>1, Sizes, Ring, ElementOfSeq
<1>2. /\ u.le = [t.le EXCEPT ![i + 1] = x] /\ u.nrec = n + 1 /\ u.i = m /\ u.pc = t.pc
      /\ u.sent = t.sent /\ u = [pc |-> t.pc, sent |-> t.sent, le |-> u.le, i |-> m, nrec |-> n + 1]
  BY DEF Handler
<1>3. /\ u.le \in Rings /\ i + 1 \in 1 .. NLE
      /\ \A j \in 1 .. NLE : u.le[j] = IF j = i + 1 THEN x ELSE t.le[j]
  <2> HIDE DEF m, x, i
  <2>1. i + 1 \in 1 .. NLE
    BY <1>1
  <2>2. PICK r \in Rings : r = t.le
    OBVIOUS
  <2>3. [r EXCEPT ![i + 1] = x] \in Rings
    BY <1>1, <2>1 DEF Rings
  <2>4. \A j \in 1 .. NLE : [r EXCEPT ![i + 1] = x][j] = IF j = i + 1 THEN x ELSE r[j]
    BY DEF Rings
  <2> QED
    BY <1>2, <2>1, <2>2, <2>3, <2>4
<1>4. u \in Handler
  <2> HIDE DEF m, x, i, n
  <2>1. t.pc \in Places /\ t.sent \in Nat /\ m \in Nat /\ n + 1 \in Nat
    BY <1>1 DEF Handler
  <2> QED
    BY <1>2, <1>3, <2>1 DEF Handler
<1>5. /\ n <= Len(eventfile) /\ (n < NLE => i = n) /\ (n = NLE => i = 0)
      /\ \A d \in 1 .. NLE : d <= n => t.le[Back(i, d) + 1] = eventfile[n - d + 1]
  BY DEF Fetched
<1>6. /\ n + 1 <= Len(eventfile) /\ (n + 1 < NLE => m = n + 1) /\ (n + 1 = NLE => m = 0)
  <2> DEFINE l == Len(eventfile)
  <2>1. l \in Nat /\ n < l
    BY LenProperties
  <2> HIDE DEF m, x, i, n, l
  <2>2. n + 1 <= l
    BY <1>1, <2>1
  <2>3. n + 1 < NLE => m = n + 1
    BY <1>1, <1>5
  <2>4. n + 1 = NLE => m = 0
    BY <1>1, <1>5
  <2> QED
    BY <2>2, <2>3, <2>4 DEF l
<1>7. /\ Back(m, 1) = i /\ \A d \in 1 .. NLE : Back(i, d) \in 0 .. NLE - 1
      /\ \A d \in 2 .. NLE : Back(m, d) = Back(i, d - 1) /\ Back(i, d - 1) # i
  <2>1. i \in 0 .. NLE - 1 /\ m = IF i + 1 = NLE THEN 0 ELSE i + 1
    BY <1>1
  <2> HIDE DEF m, i
  <2>2. Back(m, 1) = i
    BY <2>1, BackAndForth
  <2>3. \A d \in 1 .. NLE : Back(i, d) \in 0 .. NLE - 1
    BY <2>1, BackAndForth
  <2>4. \A d \in 2 .. NLE : Back(m, d) = Back(i, d - 1) /\ Back(i, d - 1) # i
    BY <2>1, BackAndForth
  <2> QED
    BY <2>2, <2>3, <2>4
<1>8. ASSUME NEW d \in 1 .. NLE, d <= n + 1
      PROVE  u.le[Back(m, d) + 1] = eventfile[(n + 1) - d + 1]
  <2> HIDE DEF m, i, n, x
  <2>1. CASE d = 1
    <3>1. (n + 1) - d + 1 = n + 1
      BY <1>1, <2>1
    <3> QED
      BY <1>3, <1>7, <2>1, <3>1 DEF n, x
  <2>2. CASE d # 1
    <3>1. d \in 2 .. NLE /\ d - 1 \in 1 .. NLE /\ d - 1 <= n /\ (n + 1) - d + 1 = n - (d - 1) + 1
      BY <1>1, <1>8, <2>2, OneBefore
    <3>2. Back(m, d) = Back(i, d - 1) /\ Back(i, d - 1) # i /\ Back(i, d - 1) \in 0 .. NLE - 1
      BY <1>7, <3>1
    <3>3. Back(m, d) + 1 \in 1 .. NLE /\ Back(m, d) + 1 # i + 1
      <4> DEFINE b == Back(m, d)
      <4>1. b \in 0 .. NLE - 1 /\ b # i
        BY <3>2
      <4> HIDE DEF b
      <4>2. b + 1 \in 1 .. NLE /\ b + 1 # i + 1
        BY <1>1, <4>1
      <4> QED
        BY <4>2 DEF b
    <3>4. t.le[Back(i, d - 1) + 1] = eventfile[n - (d - 1) + 1]
      BY <1>5, <3>1
    <3> QED
      BY <1>3, <3>1, <3>2, <3>3, <3>4
  <2> QED
    BY <2>1, <2>2
<1>9. Fetched(u)
  <2> HIDE DEF m, i, n, x
  <2> QED
    BY <1>2, <1>6, <1>8 DEF Fetched
<1> QED
  BY <1>1, <1>2, <1>3, <1>4, <1>9

(* The end of the file: the last lines are in the ring, from the oldest on.*)
LEMMA FetchedAll ==
    ASSUME eventfile \in Seq(Nat), NEW t \in Handler, t.i \in 0 .. NLE - 1,
           Fetched(t), ~(t.nrec < Len(eventfile)),
           NEW u, u.le = t.le, u.sent = 0, u.nrec = IF t.nrec > NLE THEN NLE ELSE t.nrec,
           u.i = IF t.nrec > NLE THEN t.i ELSE 0
    PROVE  Picked(u, Len(eventfile))
<1> DEFINE n == Len(eventfile)
           i == t.i
           j == u.i
           k == Kept(n)
           b == Base(n)
<1>1. /\ n \in Nat /\ t.nrec = n /\ i \in 0 .. NLE - 1 /\ NLE \in Nat \ {0} /\ i \in Nat
      /\ \A d \in 1 .. NLE : d <= n => t.le[Back(i, d) + 1] = eventfile[n - d + 1]
      /\ n < NLE => i = n
      /\ n = NLE => i = 0
      /\ j = IF n > NLE THEN i ELSE 0
  <2>1. t.nrec \in Nat /\ n \in Nat
    BY LenProperties DEF Handler
  <2>2. t.nrec <= n
    BY DEF Fetched
  <2>3. t.nrec = n
    BY <2>1, <2>2
  <2> QED
    BY <2>1, <2>3, Sizes DEF Fetched
<1>2. b \in Nat /\ k \in 0 .. NLE /\ b + k = n /\ (n > NLE => k = NLE) /\ (n <= NLE => k = n /\ b = 0)
  BY <1>1, KeptLines
<1>3. u.nrec = k
  BY <1>1 DEF Kept
<1>4. ASSUME NEW d \in 0 .. NLE, d < k
      PROVE  u.le[Fwd(j, d) + 1] = eventfile[b + 0 + d + 1]
  <2> HIDE DEF n, i, j, k, b
  <2>1. k - d \in 1 .. NLE /\ k - d <= n /\ n - (k - d) + 1 = b + 0 + d + 1
    BY <1>1, <1>2, <1>4
  <2>2. Back(i, k - d) = Fwd(j, d)
    <3>1. CASE n > NLE
      BY <1>1, <1>2, <1>4, <3>1 DEF Back, Fwd
    <3>2. CASE n = NLE
      BY <1>1, <1>2, <1>4, <3>2 DEF Back, Fwd
    <3>3. CASE n < NLE
      BY <1>1, <1>2, <1>4, <3>3 DEF Back, Fwd
    <3> QED
      BY <1>1, <3>1, <3>2, <3>3
  <2>3. t.le[Back(i, k - d) + 1] = eventfile[n - (k - d) + 1]
    BY <1>1, <2>1
  <2> QED
    BY <2>1, <2>2, <2>3
<1>5. u.nrec - u.sent = k
  <2> HIDE DEF k, n
  <2> QED
    BY <1>1, <1>2, <1>3
<1> QED
  BY <1>3, <1>4, <1>5 DEF Picked

(* A line is sent.                                                         *)
LEMMA NextPlace ==
    ASSUME NEW k \in 0 .. NLE, NEW z \in Nat, NEW b \in Nat, z < k
    PROVE  z + 1 \in 1 .. k /\ 0 \in 0 .. NLE /\ 0 < k - z /\ b + z + 0 + 1 = b + (z + 1)
  BY Sizes

LEMMA PlaceAfter ==
    ASSUME NEW k \in 0 .. NLE, NEW z \in Nat, NEW b \in Nat, NEW d \in 0 .. NLE, d < k - (z + 1)
    PROVE  /\ d + 1 \in 0 .. NLE /\ d + 1 < k - z /\ d \in 0 .. NLE - 1 /\ d + 1 < NLE
           /\ b + z + (d + 1) + 1 = b + (z + 1) + d + 1
  BY Sizes

LEMMA SendOne ==
    ASSUME eventfile \in Seq(Nat), NEW n \in 0 .. Len(eventfile), NEW t \in Handler,
           t.i \in 0 .. NLE - 1, t.sent < t.nrec, Picked(t, n),
           NEW s \in Seq(Msgs), Starts(s, t.sent, EventsAt(n)),
           NEW m, m = <<"event", t.le[t.i + 1]>>,
           NEW u, u = [t EXCEPT !.sent = @ + 1, !.i = (@ + 1) % NLE]
    PROVE  /\ m \in Msgs /\ m # EndMark
           /\ Picked(u, n) /\ Starts(Append(s, m), u.sent, EventsAt(n))
<1> DEFINE i == t.i
           z == t.sent
           w == (t.i + 1) % NLE
           b == Base(n)
           k == Kept(n)
<1>1. /\ NLE \in Nat \ {0} /\ i \in 0 .. NLE - 1 /\ z \in Nat /\ w \in 0 .. NLE - 1
      /\ w = IF i + 1 = NLE THEN 0 ELSE i + 1
      /\ n \in Nat /\ b \in Nat /\ k \in 0 .. NLE /\ b + k = n /\ t.nrec = k /\ z < k
  <2>1. n \in Nat
    BY LenProperties
  <2> QED
    BY <2>1, Sizes, Ring, KeptLines DEF Handler, Picked
<1>2. /\ u.sent = z + 1 /\ u.i = w /\ u.nrec = k /\ u.le = t.le
  BY <1>1 DEF Handler
<1>3. /\ Fwd(i, 0) = i
      /\ \A d \in 0 .. NLE - 1 : d + 1 < NLE => Fwd(w, d) = Fwd(i, d + 1)
  <2> HIDE DEF i, w
  <2> QED
    BY <1>1, BackAndForth
<1>4. \A d \in 0 .. NLE : d < k - z => t.le[Fwd(i, d) + 1] = eventfile[b + z + d + 1]
  BY <1>1 DEF Picked
<1>5. m = EventsAt(n)[z + 1]
  <2> HIDE DEF i, z, b, k, w
  <2>1. 0 \in 0 .. NLE /\ 0 < k - z /\ b + z + 0 + 1 = b + (z + 1) /\ z + 1 \in 1 .. k
    BY <1>1, NextPlace
  <2>2. t.le[i + 1] = eventfile[b + (z + 1)]
    BY <1>3, <1>4, <2>1
  <2>3. EventsAt(n)[z + 1] = <<"event", eventfile[b + (z + 1)]>>
    BY <2>1, Events DEF k, b
  <2> QED
    BY <2>2, <2>3 DEF i
<1>6. m \in Msgs /\ m # EndMark
  <2>1. z + 1 \in 1 .. Len(EventsAt(n)) /\ EventsAt(n) \in Seq(Msgs) /\ NoEnd(EventsAt(n))
    <3>1. Len(EventsAt(n)) = k /\ EventsAt(n) \in Seq(Msgs) /\ NoEnd(EventsAt(n))
      BY Events
    <3> HIDE DEF z, k, i, b, w
    <3>2. z + 1 \in 1 .. k
      BY <1>1, NextPlace
    <3> QED
      BY <3>1, <3>2
  <2>2. PICK e \in Seq(Msgs) : e = EventsAt(n)
    BY <2>1
  <2>3. z + 1 \in 1 .. Len(e) /\ m = e[z + 1]
    BY <1>5, <2>1, <2>2
  <2>4. m \in Msgs
    BY <2>3, ElementOfSeq
  <2>5. NoEnd(e) /\ z + 1 \in DOMAIN e
    BY <2>1, <2>2, <2>3, LenProperties
  <2> QED
    BY <2>3, <2>4, <2>5 DEF NoEnd
<1>7. Picked(u, n)
  <2>1. ASSUME NEW d \in 0 .. NLE, d < k - (z + 1)
        PROVE  t.le[Fwd(w, d) + 1] = eventfile[b + (z + 1) + d + 1]
    <3> HIDE DEF i, z, b, k, w
    <3>1. /\ d + 1 \in 0 .. NLE /\ d + 1 < k - z /\ d \in 0 .. NLE - 1 /\ d + 1 < NLE
          /\ b + z + (d + 1) + 1 = b + (z + 1) + d + 1
      <4>1. k \in 0 .. NLE /\ z \in Nat /\ b \in Nat /\ d < k - (z + 1)
        BY <1>1, <2>1
      <4> QED
        BY <4>1, PlaceAfter
    <3>2. t.le[Fwd(i, d + 1) + 1] = eventfile[b + z + (d + 1) + 1]
      BY <1>4, <3>1
    <3> QED
      BY <1>3, <3>1, <3>2
  <2> HIDE DEF i, z, b, k, w
  <2> QED
    BY <1>2, <2>1 DEF Picked, k, b
<1>8. Starts(Append(s, m), u.sent, EventsAt(n))
  <2>1. Len(s) = z /\ \A j \in 1 .. z : s[j] = EventsAt(n)[j]
    BY DEF Starts
  <2> DEFINE a == Append(s, m)
  <2>2. Len(a) = z + 1 /\ a[z + 1] = m /\ \A j \in 1 .. z : a[j] = s[j]
    BY <1>6, <2>1
  <2>3. ASSUME NEW j \in 1 .. z + 1 PROVE a[j] = EventsAt(n)[j]
    <3>0. z \in Nat
      BY <1>1
    <3> HIDE DEF a, z
    <3>1. j \in 1 .. z \/ j = z + 1
      BY <3>0
    <3> QED
      BY <1>5, <2>1, <2>2, <3>1
  <2> HIDE DEF z
  <2> QED
    BY <1>2, <2>2, <2>3 DEF Starts
<1> QED
  BY <1>6, <1>7, <1>8

---------------------------------------------------------------------------
(* What the others do does not spoil an answer: readings get newer, and    *)
(* the event file grows or is truncated.                                   *)
Onward ==
    /\ ups.linev <= ups'.linev /\ trims <= trims'
    /\ trims' = trims => /\ Len(eventfile) <= Len(eventfile')
                         /\ \A j \in 1 .. Len(eventfile) : eventfile'[j] = eventfile[j]

LEMMA Lengths ==
    ASSUME NisTypeOK
    PROVE  /\ Len(eventfile) \in Nat /\ ups.linev \in Nat /\ 1 <= ups.linev
           /\ ups.linev <= Len(Readings) /\ trims \in Nat /\ Len(Readings) \in Nat
<1>1. eventfile \in Seq(Nat) /\ ups.linev \in 1 .. Len(Readings) /\ trims \in Nat
  BY DEF NisTypeOK
<1> QED
  BY <1>1, LenProperties, Sizes

LEMMA EventsStay ==
    ASSUME NisTypeOK, NisTypeOK', Onward, trims' = trims, NEW n \in 0 .. Len(eventfile)
    PROVE  EventsAt(n)' = EventsAt(n) /\ n \in 0 .. Len(eventfile')
<1>1. Len(eventfile) \in Nat /\ Len(eventfile') \in Nat /\ Len(eventfile) <= Len(eventfile')
  BY Lengths, LenProperties DEF NisTypeOK, Onward
<1>2. n \in Nat /\ n <= Len(eventfile)
  BY <1>1
<1>3. ASSUME NEW j \in 1 .. Kept(n) PROVE eventfile'[Base(n) + j] = eventfile[Base(n) + j]
  <2>1. Base(n) + j \in 1 .. n
    BY <1>2, KeptLines
  <2>2. Base(n) + j \in 1 .. Len(eventfile)
    <3> DEFINE b == Base(n) + j
               l == Len(eventfile)
    <3> HIDE DEF b, l
    <3>1. b \in 1 .. l
      BY <1>1, <1>2, <2>1 DEF b, l
    <3> QED
      BY <3>1 DEF b, l
  <2> QED
    BY <2>2 DEF Onward
<1>4. n \in 0 .. Len(eventfile')
  BY <1>1, <1>2
<1> QED
  BY <1>3, <1>4 DEF EventsAt

LEMMA RightStays ==
    ASSUME NisTypeOK, NisTypeOK', Onward, NEW r \in Caller, NEW f, r.trims <= trims, Right(r, f)
    PROVE  Right(r, f)'
<1>1. r.since \in Nat /\ r.trims \in Nat
  BY DEF Caller
<1>2. ups.linev \in Nat /\ ups'.linev \in Nat /\ trims \in Nat /\ trims' \in Nat
  BY Lengths DEF NisTypeOK
<1>3. CASE r.call = "status"
  <2>1. PICK n \in r.since .. ups.linev : f = StatusAt(n)
    BY <1>3 DEF Right, RightStatus
  <2>2. n \in r.since .. ups'.linev
    BY <1>1, <1>2 DEF Onward
  <2> QED
    BY <1>3, <2>1, <2>2 DEF Right, RightStatus
<1>4. CASE r.call # "status"
  <2>1. CASE trims' # r.trims
    BY <1>4, <2>1 DEF Right, RightEvents
  <2>2. CASE trims' = r.trims
    <3>1. trims' = trims
      BY <1>1, <1>2, <2>2 DEF Onward
    <3>2. f = <<<<"Not available">>>> \/ \E n \in r.since .. Len(eventfile) : f = EventsAt(n)
      BY <1>4, <2>2, <3>1 DEF Right, RightEvents
    <3>3. ASSUME NEW n \in r.since .. Len(eventfile), f = EventsAt(n)
          PROVE  \E m \in r.since .. Len(eventfile') : f = EventsAt(m)'
      <4>1. n \in 0 .. Len(eventfile)
        BY <1>1, Lengths
      <4>2. EventsAt(n)' = EventsAt(n) /\ n \in 0 .. Len(eventfile')
        BY <3>1, <4>1, EventsStay
      <4>3. n \in r.since .. Len(eventfile')
        BY <1>1, <4>2, Lengths
      <4> QED
        BY <3>3, <4>2, <4>3
    <3> QED
      BY <1>4, <3>2, <3>3 DEF Right, RightEvents
  <2> QED
    BY <2>1, <2>2
<1> QED
  BY <1>3, <1>4

LEMMA WholeStays ==
    ASSUME NisTypeOK, NisTypeOK', Onward, NEW r \in Caller, NEW s, r.trims <= trims, Whole(r, s)
    PROVE  Whole(r, s)'
<1>1. CASE NoEnd(s)
  BY <1>1 DEF Whole, NoEnd
<1>2. CASE ~NoEnd(s)
  <2>1. PICK f \in Seq(Msgs) : s = Append(f, EndMark) /\ NoEnd(f) /\ Right(r, f)
    BY <1>2 DEF Whole
  <2>2. Right(r, f)' /\ NoEnd(f)'
    BY <2>1, RightStays DEF NoEnd
  <2> QED
    BY <2>1, <2>2 DEF Whole
<1> QED
  BY <1>1, <1>2

LEMMA FetchedStays ==
    ASSUME NisTypeOK, NisTypeOK', Onward, trims' = trims, NEW t \in Handler, Fetched(t)
    PROVE  Fetched(t)'
<1> DEFINE l == Len(eventfile)
           m == Len(eventfile')
<1>1. l \in Nat /\ m \in Nat /\ l <= m /\ t.nrec \in Nat /\ t.nrec <= l
  BY Lengths, LenProperties DEF NisTypeOK, Onward, Handler, Fetched
<1>2. t.nrec <= m
  <2> HIDE DEF l, m
  <2> QED
    BY <1>1
<1>3. ASSUME NEW d \in 1 .. NLE, d <= t.nrec
      PROVE  t.le[Back(t.i, d) + 1] = eventfile'[t.nrec - d + 1]
  <2>1. t.nrec - d + 1 \in 1 .. l
    <3> HIDE DEF l, m
    <3> QED
      BY <1>1, <1>3, Sizes
  <2>2. eventfile'[t.nrec - d + 1] = eventfile[t.nrec - d + 1]
    BY <2>1 DEF Onward
  <2> QED
    BY <1>3, <2>2 DEF Fetched
<1> QED
  BY <1>2, <1>3 DEF Fetched

LEMMA PickedStays ==
    ASSUME NisTypeOK, NisTypeOK', Onward, trims' = trims, NEW t \in Handler,
           NEW n \in 0 .. Len(eventfile), Picked(t, n)
    PROVE  Picked(t, n)'
<1> DEFINE l == Len(eventfile)
           b == Base(n)
           k == Kept(n)
           z == t.sent
<1>1. l \in Nat /\ z \in Nat /\ n \in Nat /\ n <= l
  BY Lengths DEF Handler
<1>2. /\ b \in Nat /\ k \in 0 .. NLE /\ b + k = n
      /\ t.nrec = k
  BY <1>1, KeptLines DEF Picked
<1>3. ASSUME NEW d \in 0 .. NLE, d < t.nrec - t.sent
      PROVE  t.le[Fwd(t.i, d) + 1] = eventfile'[b + t.sent + d + 1]
  <2>1. b + z + d + 1 \in 1 .. l
    <3>1. d < k - z
      BY <1>2, <1>3
    <3> HIDE DEF l, b, k, z
    <3> QED
      BY <1>1, <1>2, <3>1, Sizes
  <2>2. eventfile'[b + z + d + 1] = eventfile[b + z + d + 1]
    BY <2>1 DEF Onward
  <2> QED
    BY <1>3, <2>2 DEF Picked
<1> QED
  BY <1>2, <1>3 DEF Picked

LEMMA SendingStays ==
    ASSUME NisTypeOK, NisTypeOK', Onward, NEW r \in Caller, NEW t \in Handler, NEW s, r.trims <= trims,
           Sending(r, t, s), largebuf' = largebuf \/ t.pc \notin {"head", "lines"}
    PROVE  Sending(r, t, s)'
<1>1. r.since \in Nat /\ r.trims \in Nat /\ NoEnd(s)' = NoEnd(s)
  BY DEF Caller, NoEnd
<1>2. ups.linev \in Nat /\ ups'.linev \in Nat /\ trims \in Nat /\ trims' \in Nat /\ ups.linev <= ups'.linev
  BY Lengths DEF NisTypeOK, Onward
<1>3. CASE r.call = "status"
  <2>1. ASSUME NEW n \in r.since .. ups.linev PROVE n \in r.since .. ups'.linev
    BY <1>1, <1>2
  <2>2. CASE s = <<>> /\ t.pc \in {"open", "rlock", "words", "flags"}
    BY <1>3, <2>2 DEF Sending
  <2>3. CASE s = <<>> /\ t.pc = "head" /\ \E n \in r.since .. ups.linev : largebuf = AllLines(Readings[n], n)
    BY <1>3, <2>1, <2>3 DEF Sending
  <2>4. CASE /\ t.pc = "lines" /\ t.sent <= 4
             /\ \E n \in r.since .. ups.linev : /\ largebuf = AllLines(Readings[n], n)
                                                /\ Starts(s, t.sent + 1, StatusAt(n))
    BY <1>3, <2>1, <2>4 DEF Sending
  <2> QED
    BY <1>3, <2>2, <2>3, <2>4 DEF Sending
<1>4. CASE r.call = "events"
  <2>1. CASE trims' # r.trims
    BY <1>1, <1>4, <2>1 DEF Sending
  <2>2. CASE trims' = r.trims
    <3>1. trims' = trims /\ trims = r.trims
      BY <1>1, <1>2, <2>2 DEF Onward
    <3>2. CASE s = <<>> /\ t.pc \in {"events", "notavail"}
      BY <1>4, <3>2 DEF Sending
    <3>3. CASE s = <<>> /\ t.pc = "fgets" /\ Fetched(t)
      BY <1>4, <3>1, <3>3, FetchedStays DEF Sending
    <3>4. CASE t.pc = "last" /\ NoEnd(s) /\ t.nrec = 0 /\ s = <<<<"Not available">>>>
      BY <1>1, <1>4, <3>4 DEF Sending
    <3>5. ASSUME t.pc = "last" /\ NoEnd(s), NEW n \in r.since .. Len(eventfile), Picked(t, n),
                 Starts(s, t.sent, EventsAt(n))
          PROVE  Sending(r, t, s)'
      <4>1. n \in 0 .. Len(eventfile)
        BY <1>1, Lengths
      <4>2. EventsAt(n)' = EventsAt(n) /\ n \in 0 .. Len(eventfile') /\ Picked(t, n)'
        BY <3>1, <3>5, <4>1, EventsStay, PickedStays
      <4>3. n \in r.since .. Len(eventfile')
        BY <1>1, <4>2, Lengths
      <4>4. Starts(s, t.sent, EventsAt(n))'
        BY <3>5, <4>2 DEF Starts
      <4> QED
        BY <1>1, <1>4, <3>5, <4>2, <4>3, <4>4 DEF Sending
    <3> QED
      BY <1>4, <3>1, <3>2, <3>3, <3>4, <3>5 DEF Sending
  <2> QED
    BY <2>1, <2>2
<1> QED
  BY <1>3, <1>4 DEF Sending

LEMMA FlowStays ==
    ASSUME NisTypeOK, NisTypeOK', Onward, NEW r \in Caller, NEW t \in Handler, NEW w, NEW s, r.trims <= trims,
           Flow(r, t, w, s), largebuf' = largebuf \/ t.pc \notin {"head", "lines"}
    PROVE  Flow(r, t, w, s)'
  BY WholeStays, SendingStays DEF Flow

LEMMA AskedStays ==
    ASSUME NisTypeOK, NisTypeOK', Onward, NEW r \in Caller, Asked(r)
    PROVE  Asked(r)'
<1>1. r.since \in Nat /\ r.trims \in Nat
  BY DEF Caller
<1>2. /\ ups.linev \in Nat /\ ups'.linev \in Nat /\ trims \in Nat /\ trims' \in Nat
      /\ Len(eventfile) \in Nat /\ Len(eventfile') \in Nat
  <2>1. ups'.linev \in Nat /\ trims' \in Nat /\ eventfile' \in Seq(Nat)
    BY Sizes DEF NisTypeOK
  <2>2. Len(eventfile') \in Nat
    BY <2>1, LenProperties
  <2> QED
    BY <2>1, <2>2, Lengths
<1> DEFINE l == Len(eventfile)
           m == Len(eventfile')
<1>3. /\ r.call = "status" => 1 <= r.since /\ r.since <= ups.linev
      /\ r.call = "events" /\ r.trims = trims => r.since <= l
      /\ r.call # "none" /\ r.trims <= trims /\ NoEnd(r.got)'
      /\ ups.linev <= ups'.linev /\ trims <= trims' /\ (trims' = trims => l <= m)
  BY DEF Asked, Onward, NoEnd
<1>4. /\ r.call = "status" => 1 <= r.since /\ r.since <= ups'.linev
      /\ r.call = "events" /\ r.trims = trims' => r.since <= m
      /\ r.trims <= trims'
  <2> HIDE DEF l, m
  <2> QED
    BY <1>1, <1>2, <1>3 DEF l, m
<1> QED
  BY <1>3, <1>4 DEF Asked

LEMMA ClientStays ==
    ASSUME NisTypeOK, NisTypeOK', Onward, NEW k \in Clients, AskedInv(k), DoneInv(k), client'[k] = client[k]
    PROVE  AskedInv(k)' /\ DoneInv(k)'
<1>1. PICK r \in Caller : r = client[k]
  BY DEF NisTypeOK
<1>2. ASSUME r.pc = "recv" PROVE Asked(r)'
  BY <1>1, <1>2, AskedStays DEF AskedInv
<1>3. ASSUME r.ok = "good" PROVE r.trims <= trims' /\ Right(r, r.got)'
  <2>1. r.trims <= trims /\ Right(r, r.got)
    BY <1>1, <1>3 DEF DoneInv
  <2>2. r.trims \in Nat /\ trims \in Nat /\ trims' \in Nat /\ trims <= trims'
    BY Lengths DEF NisTypeOK, Caller, Onward
  <2> QED
    BY <2>1, <2>2, RightStays
<1>4. AskedInv(k)'
  BY <1>1, <1>2 DEF AskedInv
<1> QED
  BY <1>1, <1>3, <1>4 DEF DoneInv

LEMMA FlowFrame ==
    ASSUME NisTypeOK, NisTypeOK', Onward, NEW k \in Clients, FlowInv(k), AskedInv(k), DoneInv(k), SocksInv,
           client'[k] = client[k],
           client[k].sock # "none" =>
              /\ thread'[client[k].sock] = thread[client[k].sock]
              /\ wire'[client[k].sock] = wire[client[k].sock]
              /\ largebuf' = largebuf \/ thread[client[k].sock].pc \notin {"head", "lines"}
    PROVE  FlowInv(k)' /\ AskedInv(k)' /\ DoneInv(k)'
<1>1. PICK r \in Caller : r = client[k]
  BY DEF NisTypeOK
<1>2. CASE r.sock = "none"
  <2>1. r.pc # "recv"
    BY <1>1, <1>2 DEF SocksInv
  <2>2. FlowInv(k)'
    BY <1>1, <1>2, <2>1 DEF FlowInv
  <2> QED
    BY <2>2, ClientStays
<1>3. CASE r.sock # "none"
  <2>1. r.sock \in Conns
    BY <1>3 DEF Caller
  <2>2. PICK t \in Handler : t = thread[r.sock]
    BY <2>1 DEF NisTypeOK
  <2>3. PICK w : w = wire[r.sock]
    OBVIOUS
  <2>4. ASSUME r.pc = "recv", ~w.late PROVE Flow(r, t, w, r.got \o w.down)'
    <3>1. PICK s : s = r.got \o w.down
      OBVIOUS
    <3>2. Flow(r, t, w, s) /\ r.trims <= trims
      BY <1>1, <2>2, <2>3, <2>4, <3>1 DEF FlowInv, AskedInv, Asked
    <3>3. Flow(r, t, w, s)'
      BY <1>1, <1>3, <2>2, <3>2, FlowStays
    <3> QED
      BY <3>1, <3>3
  <2>5. /\ client'[k] = r /\ thread'[r.sock] = t /\ wire'[r.sock] = w
    BY <1>1, <1>3, <2>2, <2>3
  <2>6. r.pc = "idle" /\ ~w.late => w.down = <<>> /\ (w.server => t.pc = "recv" /\ w.up = <<>>)
    BY <1>1, <1>3, <2>2, <2>3 DEF FlowInv
  <2>7. FlowInv(k)'
    BY <2>4, <2>5, <2>6 DEF FlowInv
  <2> QED
    BY <2>7, ClientStays
<1> QED
  BY <1>2, <1>3

(* What a step of the thread of c has to keep.                             *)
FlowsOn(c) ==
    \A r \in Caller :
        r.pc = "recv" /\ Asked(r) /\ Flow(r, thread[c], wire[c], r.got \o wire[c].down)
           => Flow(r, thread[c], wire[c], r.got \o wire[c].down)'
Rests(c) == wire[c].down = <<>> /\ (wire[c].server => thread[c].pc = "recv" /\ wire[c].up = <<>>)
ThreadOnly(c) ==
    /\ client' = client /\ Onward
    /\ \A b \in Conns \ {c} : /\ thread'[b] = thread[b] /\ wire'[b] = wire[b]
                              /\ largebuf' = largebuf \/ thread[b].pc \notin {"head", "lines"}
    /\ wire'[c].late = wire[c].late /\ wire'[c].client = wire[c].client

ClientsInv == SocksInv /\ \A k \in Clients : FlowInv(k) /\ AskedInv(k) /\ DoneInv(k)

LEMMA ThreadStep ==
    ASSUME ServerInv, NisTypeOK', ClientsInv, NEW c \in Conns, ThreadOnly(c), FlowsOn(c),
           ~wire[c].late /\ Rests(c) => Rests(c)'
    PROVE  ClientsInv'
<1>1. NisTypeOK /\ SocksInv /\ Onward
  BY DEF ServerInv, ClientsInv, ThreadOnly
<1>2. SocksInv'
  <2>1. \A k \in Clients : client[k].sock \in Conns \cup {"none"}
    BY <1>1 DEF NisTypeOK, Caller
  <2>2. ASSUME NEW b \in Conns PROVE wire'[b].client = wire[b].client
    <3>1. CASE b = c
      BY <3>1 DEF ThreadOnly
    <3>2. CASE b # c
      <4>1. wire'[b] = wire[b]
        BY <3>2 DEF ThreadOnly
      <4> QED
        BY <4>1
    <3> QED
      BY <3>1, <3>2
  <2> QED
    BY <1>1, <2>1, <2>2 DEF SocksInv, ThreadOnly
<1>3. ASSUME NEW k \in Clients PROVE FlowInv(k)' /\ AskedInv(k)' /\ DoneInv(k)'
  <2>1. FlowInv(k) /\ AskedInv(k) /\ DoneInv(k) /\ client'[k] = client[k]
    BY DEF ClientsInv, ThreadOnly
  <2>2. client[k].sock \in Conns \cup {"none"}
    BY <1>1 DEF NisTypeOK, Caller
  <2>3. CASE client[k].sock # c
    <3>1. ASSUME client[k].sock # "none"
          PROVE  /\ thread'[client[k].sock] = thread[client[k].sock]
                 /\ wire'[client[k].sock] = wire[client[k].sock]
                 /\ largebuf' = largebuf \/ thread[client[k].sock].pc \notin {"head", "lines"}
      <4>1. PICK b \in Conns \ {c} : b = client[k].sock
        BY <2>2, <2>3, <3>1
      <4>2. /\ thread'[b] = thread[b] /\ wire'[b] = wire[b]
            /\ largebuf' = largebuf \/ thread[b].pc \notin {"head", "lines"}
        BY DEF ThreadOnly
      <4> QED
        BY <4>1, <4>2
    <3> QED
      BY <1>1, <2>1, <3>1, FlowFrame
  <2>4. CASE client[k].sock = c
    <3>1. AskedInv(k)' /\ DoneInv(k)'
      BY <1>1, <2>1, ClientStays
    <3>2. PICK r \in Caller : r = client[k] /\ r = client'[k] /\ r.sock = c
      BY <1>1, <2>1, <2>4 DEF NisTypeOK
    <3>3. ASSUME r.pc = "recv", ~wire'[c].late PROVE Flow(r, thread[c], wire[c], r.got \o wire[c].down)'
      <4>1. ~wire[c].late
        BY <3>3 DEF ThreadOnly
      <4>2. Flow(r, thread[c], wire[c], r.got \o wire[c].down)
        BY <2>1, <3>2, <3>3, <4>1 DEF FlowInv
      <4>3. Asked(r)
        BY <2>1, <3>2, <3>3 DEF AskedInv
      <4> QED
        BY <3>3, <4>2, <4>3 DEF FlowsOn
    <3>4. ASSUME r.pc = "idle", ~wire'[c].late PROVE Rests(c)'
      <4>1. ~wire[c].late
        BY <3>4 DEF ThreadOnly
      <4>2. c # "none"
        BY Sizes
      <4> QED
        BY <2>1, <3>2, <3>4, <4>1, <4>2 DEF FlowInv, Rests
    <3>5. FlowInv(k)'
      BY <3>2, <3>3, <3>4 DEF FlowInv, Rests
    <3> QED
      BY <3>1, <3>5
  <2> QED
    BY <2>3, <2>4
<1> QED
  BY <1>2, <1>3 DEF ClientsInv

---------------------------------------------------------------------------
(* The steps of a thread.                                                  *)
LEMMA Still ==
    ASSUME NisTypeOK, ups' = ups, trims' = trims, eventfile' = eventfile
    PROVE  Onward
  BY Lengths DEF Onward

(* Where a thread is when it has a question.                               *)
LEMMA Working ==
    ASSUME ServerInv, NEW c \in Conns, thread[c].pc \notin {"none", "recv"}
    PROVE  ~Rests(c)
  BY DEF ServerInv, ThreadInv, Rests

LEMMA ThreadWorks ==
    ASSUME ServerInv, NisTypeOK', ClientsInv, NEW c \in Conns, thread[c].pc \notin {"none", "recv"},
           ThreadOnly(c), FlowsOn(c)
    PROVE  ClientsInv'
  BY Working, ThreadStep

LEMMA CloseKeeps ==
    ASSUME ServerInv, NisTypeOK', ClientsInv, NEW c \in Conns, Closed(c),
           UNCHANGED <<ups, eventfile, trims, largebuf, client>>
    PROVE  ClientsInv'
<1>1. NisTypeOK /\ Onward
  BY Still DEF ServerInv
<1>2. /\ thread'[c] = NoThread /\ wire'[c] = [wire[c] EXCEPT !.server = FALSE, !.up = <<>>]
      /\ \A b \in Conns \ {c} : thread'[b] = thread[b] /\ wire'[b] = wire[b]
  BY <1>1 DEF Closed, NisTypeOK
<1>3. /\ wire'[c].late = wire[c].late /\ wire'[c].client = wire[c].client
      /\ wire'[c].down = wire[c].down /\ ~wire'[c].server
  BY <1>1, <1>2 DEF NisTypeOK, Connection
<1>4. ThreadOnly(c)
  BY <1>1, <1>2, <1>3 DEF ThreadOnly
<1>5. Rests(c) => Rests(c)'
  BY <1>3 DEF Rests
<1>6. FlowsOn(c)
  <2>1. SUFFICES ASSUME NEW r \in Caller, r.pc = "recv", Asked(r),
                        Flow(r, thread[c], wire[c], r.got \o wire[c].down)
                 PROVE  Flow(r, thread[c], wire[c], r.got \o wire[c].down)'
    BY DEF FlowsOn
  <2>2. PICK s : s = r.got \o wire[c].down /\ s = r.got \o wire'[c].down
    BY <1>3
  <2>3. Whole(r, s)
    BY <2>1, <2>2 DEF Flow
  <2>4. Whole(r, s)'
    BY <1>1, <2>1, <2>3, WholeStays DEF Asked
  <2>5. thread'[c].pc = "none"
    BY <1>2 DEF NoThread
  <2> QED
    BY <2>2, <2>4, <2>5 DEF Flow
<1> QED
  BY <1>4, <1>5, <1>6, ThreadStep

LEMMA RequestKeeps ==
    ASSUME ServerInv, NisTypeOK', ClientsInv, NEW c \in Conns, handle_client_request(c)
    PROVE  ClientsInv'
<1>1. /\ NisTypeOK /\ Onward /\ thread[c].pc = "recv"
      /\ UNCHANGED <<ups, eventfile, trims, largebuf, client>>
  BY Still DEF ServerInv, handle_client_request, daemonVars, At
<1>2. CASE wire[c].up = <<>> /\ Closed(c)
  BY <1>1, <1>2, CloseKeeps
<1>3. CASE /\ wire[c].up # <<>>
           /\ wire' = [wire EXCEPT ![c].up = Tail(@)]
           /\ Step(c, IF Head(wire[c].up) = "status" THEN "open" ELSE "events")
  <2>1. /\ thread'[c].pc = IF Head(wire[c].up) = "status" THEN "open" ELSE "events"
        /\ wire'[c].up = Tail(wire[c].up) /\ wire'[c].down = wire[c].down
        /\ wire'[c].late = wire[c].late /\ wire'[c].client = wire[c].client
        /\ wire'[c].server = wire[c].server
        /\ \A b \in Conns \ {c} : thread'[b] = thread[b] /\ wire'[b] = wire[b]
    BY <1>1, <1>3 DEF Step, NisTypeOK, Connection, Handler
  <2>2. ThreadOnly(c)
    BY <1>1, <2>1 DEF ThreadOnly
  <2>3. wire[c].server
    BY <1>1 DEF ServerInv, ThreadInv
  <2>4. ~Rests(c)
    BY <1>3, <2>3 DEF Rests
  <2>5. FlowsOn(c)
    <3>1. SUFFICES ASSUME NEW r \in Caller, r.pc = "recv", Asked(r),
                          Flow(r, thread[c], wire[c], r.got \o wire[c].down)
                   PROVE  Flow(r, thread[c], wire[c], r.got \o wire[c].down)'
      BY DEF FlowsOn
    <3>2. PICK s : s = r.got \o wire[c].down /\ s = r.got \o wire'[c].down
      BY <2>1
    <3>3. Whole(r, s) /\ wire[c].up = <<r.call>> /\ s = <<>>
      BY <1>1, <1>3, <3>1, <3>2 DEF Flow
    <3>4. Whole(r, s)'
      BY <1>1, <3>1, <3>3, WholeStays DEF Asked
    <3>5. wire'[c].up = <<>> /\ Head(wire[c].up) = r.call
      <4>1. Head(<<r.call>>) = r.call /\ Tail(<<r.call>>) = <<>>
        OBVIOUS
      <4> QED
        BY <2>1, <3>3, <4>1
    <3>6. \/ r.call = "status" /\ thread'[c].pc = "open"
          \/ r.call = "events" /\ thread'[c].pc = "events"
      <4>1. r.call \in {"status", "events"}
        BY <3>1 DEF Asked, Caller
      <4>2. thread'[c].pc = IF r.call = "status" THEN "open" ELSE "events"
        BY <2>1, <3>5
      <4> QED
        BY <4>1, <4>2
    <3> QED
      BY <3>2, <3>3, <3>4, <3>5, <3>6 DEF Flow, Sending
  <2> QED
    BY <2>2, <2>4, <2>5, ThreadStep
<1> QED
  BY <1>2, <1>3 DEF handle_client_request

(* A step of output_status() or output_events() that sends nothing.        *)
LEMMA QuietThread ==
    ASSUME ServerInv, NisTypeOK', ClientsInv, NEW c \in Conns, thread[c].pc \notin {"none", "recv"},
           UNCHANGED <<ups, eventfile, trims, client, wire>>,
           NEW u, thread' = [thread EXCEPT ![c] = u], u.pc \notin {"none", "recv"},
           \A b \in Conns \ {c} : largebuf' = largebuf \/ thread[b].pc \notin {"head", "lines"},
           \A r \in Caller : r.pc = "recv" /\ Asked(r) /\ Sending(r, thread[c], <<>>) => Sending(r, u, <<>>)',
           \A r \in Caller : \A s : Sending(r, thread[c], s) => s = <<>>
    PROVE  ClientsInv'
<1>1. NisTypeOK /\ Onward
  BY Still DEF ServerInv
<1>2. /\ thread'[c] = u /\ wire'[c] = wire[c]
      /\ \A b \in Conns \ {c} : thread'[b] = thread[b] /\ wire'[b] = wire[b]
  BY <1>1 DEF NisTypeOK
<1>3. ThreadOnly(c)
  BY <1>1, <1>2 DEF ThreadOnly
<1>4. FlowsOn(c)
  <2>1. SUFFICES ASSUME NEW r \in Caller, r.pc = "recv", Asked(r),
                        Flow(r, thread[c], wire[c], r.got \o wire[c].down)
                 PROVE  Flow(r, thread[c], wire[c], r.got \o wire[c].down)'
    BY DEF FlowsOn
  <2>2. PICK s : s = r.got \o wire[c].down /\ s = r.got \o wire'[c].down
    BY <1>2
  <2>3. Whole(r, s) /\ wire[c].up = <<>> /\ Sending(r, thread[c], s)
    BY <2>1, <2>2 DEF Flow
  <2>4. Whole(r, s)'
    BY <1>1, <2>1, <2>3, WholeStays DEF Asked
  <2>5. s = <<>>
    BY <2>3
  <2>6. Sending(r, u, s)'
    BY <2>1, <2>3, <2>5
  <2> QED
    BY <1>2, <2>2, <2>3, <2>4, <2>6 DEF Flow
<1> QED
  BY <1>3, <1>4, ThreadWorks

LEMMA OpenKeeps ==
    ASSUME ServerInv, NisTypeOK', ClientsInv, NEW c \in Conns, status_open(c)
    PROVE  ClientsInv'
<1>1. PICK u : u = [thread[c] EXCEPT !.pc = "rlock"]
  OBVIOUS
<1>2. thread[c] \in Handler /\ thread[c].pc = "open" /\ mutex = "free"
  BY DEF ServerInv, NisTypeOK, status_open, At, TakesMutex
<1>3. u.pc = "rlock" /\ thread' = [thread EXCEPT ![c] = u]
  BY <1>1, <1>2 DEF status_open, Step, Handler
<1>4. \A b \in Conns : thread[b].pc \notin {"head", "lines"}
  <2>1. \A b \in Conns : mutex # b
    BY <1>2, Sizes
  <2> QED
    BY <2>1 DEF ServerInv, LocksInv, Buffering
<1>5. UNCHANGED <<ups, eventfile, trims, client, wire>>
  BY DEF status_open
<1>6. \A r \in Caller : \A s : Sending(r, thread[c], s) => s = <<>> /\ r.call = "status"
  BY <1>2 DEF Sending
<1>7. \A r \in Caller : Sending(r, thread[c], <<>>) => Sending(r, u, <<>>)'
  BY <1>3, <1>6 DEF Sending
<1> QED
  BY <1>2, <1>3, <1>4, <1>5, <1>6, <1>7, QuietThread

LEMMA LockKeeps ==
    ASSUME ServerInv, NisTypeOK', ClientsInv, NEW c \in Conns, read_lock(c)
    PROVE  ClientsInv'
<1>1. PICK u : u = [thread[c] EXCEPT !.pc = "words"]
  OBVIOUS
<1>2. thread[c] \in Handler /\ thread[c].pc = "rlock"
  BY DEF ServerInv, NisTypeOK, read_lock, At
<1>3. u.pc = "words" /\ thread' = [thread EXCEPT ![c] = u]
  BY <1>1, <1>2 DEF read_lock, Step, Handler
<1>4. UNCHANGED <<ups, eventfile, trims, client, wire, largebuf>>
  BY DEF read_lock
<1>5. \A r \in Caller : \A s : Sending(r, thread[c], s) => s = <<>> /\ r.call = "status"
  BY <1>2 DEF Sending
<1>6. \A r \in Caller : Sending(r, thread[c], <<>>) => Sending(r, u, <<>>)'
  BY <1>3, <1>5 DEF Sending
<1> QED
  BY <1>2, <1>3, <1>4, <1>5, <1>6, QuietThread

(* The lines are written under the read lock: they are of one reading.     *)
LEMMA OutputKeeps ==
    ASSUME ServerInv, NisTypeOK', ClientsInv, NEW c \in Conns, output_status(c)
    PROVE  ClientsInv'
<1>1. /\ thread[c] \in Handler /\ serving /\ thread[c].pc \in {"words", "flags"}
      /\ UNCHANGED <<ups, eventfile, trims, client, wire>>
  BY DEF ServerInv, NisTypeOK, output_status, At
<1>2. \A b \in Conns \ {c} : thread[b].pc \notin {"head", "lines"}
  BY <1>1 DEF ServerInv, LocksInv, Buffering
<1>3. \A r \in Caller : \A s : Sending(r, thread[c], s) => s = <<>> /\ r.call = "status"
  BY <1>1 DEF Sending
<1>4. CASE At(c, "words") /\ Step(c, "flags")
  <2>1. PICK u : u = [thread[c] EXCEPT !.pc = "flags"]
    OBVIOUS
  <2>2. u.pc = "flags" /\ thread' = [thread EXCEPT ![c] = u]
    BY <1>1, <1>4, <2>1 DEF Step, Handler
  <2>3. \A r \in Caller : Sending(r, thread[c], <<>>) => Sending(r, u, <<>>)'
    BY <1>3, <2>2 DEF Sending
  <2> QED
    BY <1>1, <1>2, <1>3, <2>2, <2>3, QuietThread
<1>5. CASE At(c, "flags") /\ status_write(<<FlagsLine, EndLine>>) /\ Step(c, "head")
  <2>1. PICK u : u = [thread[c] EXCEPT !.pc = "head"]
    OBVIOUS
  <2>2. u.pc = "head" /\ thread' = [thread EXCEPT ![c] = u]
    BY <1>1, <1>5, <2>1 DEF Step, Handler
  <2>3. PICK n \in 1 .. Len(Readings) : n = ups.linev
    BY DEF ServerInv, NisTypeOK
  <2>4. ups.status = Readings[n]
    <3>1. upslock = c /\ c # "device"
      BY <1>5, Sizes DEF ServerInv, LocksInv, At
    <3>2. dev.pc = "idle"
      BY <3>1 DEF ServerInv, LocksInv
    <3> QED
      BY <1>1, <2>3, <3>2 DEF ServerInv, DeviceInv
  <2>5. largebuf = LinesOf(Readings[n], n)
    BY <1>5, <2>3, <2>4 DEF ServerInv, ThreadInv, At
  <2>6. largebuf' = AllLines(Readings[n], n)
    <3> DEFINE a == <<"STATUS", StatusWords(Readings[n])>>
               b == <<"LINEV", n>>
               f == <<"STATFLAG", Readings[n]>>
    <3>1. largebuf = <<a, b>> /\ largebuf' = largebuf \o <<f, EndLine>>
      BY <1>5, <2>4, <2>5 DEF LinesOf, status_write, FlagsLine
    <3> HIDE DEF a, b, f
    <3>2. <<a, b>> \o <<f, EndLine>> = <<a, b, f, EndLine>>
      BY PairsCat
    <3> QED
      BY <3>1, <3>2 DEF a, b, f, AllLines
  <2>7. ASSUME NEW r \in Caller, r.pc = "recv", Asked(r), Sending(r, thread[c], <<>>)
        PROVE  Sending(r, u, <<>>)'
    <3>1. r.call = "status" /\ r.since \in Nat
      BY <1>3, <2>7 DEF Caller
    <3>2. r.since <= ups.linev
      BY <2>7, <3>1 DEF Asked
    <3>3. n \in r.since .. ups'.linev
      BY <1>1, <2>3, <3>1, <3>2, Sizes
    <3> QED
      BY <2>2, <2>6, <3>1, <3>3 DEF Sending
  <2> QED
    BY <1>1, <1>2, <1>3, <2>2, <2>7, QuietThread
<1> QED
  BY <1>4, <1>5 DEF output_status

(* A message is sent.                                                      *)
LEMMA SendKeeps ==
    ASSUME ServerInv, NisTypeOK', ClientsInv, NEW c \in Conns, thread[c].pc \notin {"none", "recv"},
           UNCHANGED <<ups, eventfile, trims, client, largebuf>>,
           NEW m \in Msgs, net_send(c, m),
           NEW u, thread' = [thread EXCEPT ![c] = u],
           \A r \in Caller : \A s \in Seq(Msgs) :
              /\ r.pc = "recv" /\ Asked(r) /\ Sending(r, thread[c], s)
              => /\ Whole(r, Append(s, m))
                 /\ u.pc \notin {"none", "recv"} => Sending(r, u, Append(s, m))
    PROVE  ClientsInv'
<1>1. NisTypeOK /\ Onward
  BY Still DEF ServerInv
<1>2. /\ thread'[c] = u
      /\ wire'[c].down = Append(wire[c].down, m) /\ wire'[c].up = wire[c].up
      /\ wire'[c].late = wire[c].late /\ wire'[c].client = wire[c].client
      /\ \A b \in Conns \ {c} : thread'[b] = thread[b] /\ wire'[b] = wire[b]
      /\ wire[c].down \in Seq(Msgs)
  BY <1>1 DEF net_send, NisTypeOK, Connection
<1>3. ThreadOnly(c)
  BY <1>1, <1>2 DEF ThreadOnly
<1>4. u \in Handler
  BY <1>2 DEF NisTypeOK
<1>5. FlowsOn(c)
  <2>1. SUFFICES ASSUME NEW r \in Caller, r.pc = "recv", Asked(r),
                        Flow(r, thread[c], wire[c], r.got \o wire[c].down)
                 PROVE  Flow(r, thread[c], wire[c], r.got \o wire[c].down)'
    BY DEF FlowsOn
  <2>2. PICK d \in Seq(Msgs) : d = wire[c].down
    BY <1>2
  <2>3. PICK g \in Seq(Msgs) : g = r.got
    BY DEF Caller
  <2>4. PICK s \in Seq(Msgs) : s = g \o d
    BY ConcatProperties
  <2>5. g \o Append(d, m) = Append(s, m) /\ Append(s, m) \in Seq(Msgs)
    BY <2>4, CatAppend
  <2>6. wire[c].up = <<>> /\ Sending(r, thread[c], s)
    BY <2>1, <2>2, <2>3, <2>4 DEF Flow
  <2>7. Whole(r, Append(s, m)) /\ (u.pc \notin {"none", "recv"} => Sending(r, u, Append(s, m)))
    BY <2>1, <2>6
  <2>8. PICK z : z = Append(s, m)
    OBVIOUS
  <2>9. Whole(r, z)' /\ (u.pc \notin {"none", "recv"} => Sending(r, u, z)')
    BY <1>1, <1>4, <2>1, <2>7, <2>8, WholeStays, SendingStays DEF Asked
  <2>10. r.got \o wire'[c].down = z /\ thread'[c] = u /\ wire'[c].up = <<>>
    BY <1>2, <2>2, <2>3, <2>5, <2>6, <2>8
  <2> QED
    BY <2>9, <2>10 DEF Flow
<1> QED
  BY <1>3, <1>5, ThreadWorks

(* The header, the lines, the end mark.                                    *)
LEMMA CloseStatusKeeps ==
    ASSUME ServerInv, NisTypeOK', ClientsInv, NEW c \in Conns, status_close(c)
    PROVE  ClientsInv'
<1>1. /\ thread[c] \in Handler /\ thread[c].pc \in {"head", "lines"} /\ largebuf \in Seq(Msgs)
      /\ UNCHANGED <<ups, eventfile, trims, client, largebuf>>
  BY DEF ServerInv, NisTypeOK, status_close, At
<1>2. PICK t \in Handler : t = thread[c]
  BY <1>1
<1>3. ASSUME NEW r \in Caller, r.call = "status", Asked(r), NEW n \in r.since .. ups.linev
      PROVE  n \in 1 .. Len(Readings)
  <2>1. r.since \in Nat /\ 1 <= r.since
    BY <1>3 DEF Caller, Asked
  <2> QED
    BY <2>1, Lengths DEF ServerInv
<1>4. ASSUME NEW r \in Caller, NEW n \in r.since .. ups.linev, largebuf = AllLines(Readings[n], n)
      PROVE  n \in Nat /\ Len(largebuf) = 4
  <2>1. r.since \in Nat /\ ups.linev \in Nat
    BY Lengths DEF Caller, ServerInv
  <2> QED
    BY <1>4, <2>1 DEF AllLines
<1>5. CASE /\ At(c, "head") /\ net_send(c, <<"APC", Len(largebuf)>>)
           /\ thread' = [thread EXCEPT ![c].pc = "lines", ![c].sent = 0]
  <2>1. PICK u : u = [t EXCEPT !.pc = "lines", !.sent = 0]
    OBVIOUS
  <2>2. u.pc = "lines" /\ u.sent = 0 /\ thread' = [thread EXCEPT ![c] = u]
    BY <1>2, <1>5, <2>1 DEF Handler
  <2>3. PICK m \in Msgs : m = <<"APC", Len(largebuf)>> /\ m # EndMark
    <3>1. Len(largebuf) \in Nat
      BY <1>1, LenProperties
    <3> QED
      BY <3>1, Kinds
  <2>4. ASSUME NEW r \in Caller, NEW s \in Seq(Msgs), Sending(r, t, s)
        PROVE  Whole(r, Append(s, m)) /\ Sending(r, u, Append(s, m))
    <3>1. r.call = "status" /\ s = <<>> /\ t.pc = "head"
      BY <1>2, <1>5, <2>4 DEF Sending, At
    <3>2. PICK n \in r.since .. ups.linev : largebuf = AllLines(Readings[n], n)
      BY <1>2, <1>5, <2>4 DEF Sending, At
    <3>3. m = <<"APC", 4>>
      BY <1>4, <2>3, <3>2
    <3>4. Append(s, m) = <<m>> /\ NoEnd(<<m>>)
      BY <2>3, <3>1, NoEndOne
    <3>5. Starts(<<m>>, 0 + 1, StatusAt(n))
      <4>1. StatusAt(n)[1] = <<"APC", 4>>
        BY DEF StatusAt
      <4> QED
        BY <3>3, <4>1 DEF Starts
    <3> QED
      BY <2>2, <3>1, <3>2, <3>4, <3>5 DEF Sending, Whole
  <2> QED
    BY <1>1, <1>2, <1>5, <2>2, <2>3, <2>4, SendKeeps
<1>6. CASE /\ At(c, "lines") /\ thread[c].sent < Len(largebuf)
           /\ net_send(c, largebuf[thread[c].sent + 1])
           /\ thread' = [thread EXCEPT ![c].sent = @ + 1]
  <2>1. PICK u : u = [t EXCEPT !.sent = @ + 1]
    OBVIOUS
  <2>2. /\ t.pc = "lines" /\ u.pc = "lines" /\ u.sent = t.sent + 1 /\ thread' = [thread EXCEPT ![c] = u]
        /\ t.sent \in Nat /\ t.sent < Len(largebuf)
    BY <1>2, <1>6, <2>1 DEF Handler, At
  <2>3. PICK m \in Msgs : m = largebuf[t.sent + 1]
    <3>1. t.sent + 1 \in 1 .. Len(largebuf)
      <4>1. Len(largebuf) \in Nat
        BY <1>1, LenProperties
      <4> QED
        BY <2>2, <4>1
    <3> QED
      BY <1>1, <3>1, ElementOfSeq
  <2>4. ASSUME NEW r \in Caller, NEW s \in Seq(Msgs), Asked(r), Sending(r, t, s)
        PROVE  Whole(r, Append(s, m)) /\ Sending(r, u, Append(s, m))
    <3>1. r.call = "status" /\ t.pc = "lines" /\ t.sent <= 4
      BY <2>2, <2>4 DEF Sending
    <3>2. PICK n \in r.since .. ups.linev : /\ largebuf = AllLines(Readings[n], n)
                                            /\ Starts(s, t.sent + 1, StatusAt(n))
      BY <2>2, <2>4 DEF Sending
    <3>3. PICK z \in Nat : z = t.sent
      BY <2>2
    <3>4. z < 4 /\ z + 1 \in 1 .. 4
      <4>1. Len(largebuf) = 4
        BY <1>4, <3>2
      <4> QED
        BY <2>2, <3>3, <4>1
    <3>5. m = StatusAt(n)[(z + 1) + 1]
      <4>1. \A j \in 1 .. 4 : StatusAt(n)[j + 1] = AllLines(Readings[n], n)[j]
        BY <1>3, <2>4, <3>1, Status
      <4> QED
        BY <2>3, <3>2, <3>3, <3>4, <4>1
    <3>6. /\ Len(Append(s, m)) = (z + 1) + 1 /\ Append(s, m)[(z + 1) + 1] = m
          /\ \A j \in 1 .. z + 1 : Append(s, m)[j] = s[j] /\ s[j] = StatusAt(n)[j]
      BY <3>2, <3>3 DEF Starts
    <3>7. Starts(Append(s, m), (z + 1) + 1, StatusAt(n))
      <4>1. \A j \in 1 .. (z + 1) + 1 : j \in 1 .. z + 1 \/ j = (z + 1) + 1
        BY <3>3
      <4> QED
        BY <3>5, <3>6, <4>1 DEF Starts
    <3>8. m # EndMark /\ NoEnd(s)
      <4>1. NoEnd(StatusAt(n)) /\ DOMAIN StatusAt(n) = 1 .. 5
        BY <1>3, <2>4, <3>1, Status, LenProperties
      <4>2. DOMAIN s = 1 .. z + 1
        BY <3>2, <3>3, LenProperties DEF Starts
      <4>3. \A j \in 1 .. z + 1 : j \in 1 .. 5
        BY <3>4
      <4>4. (z + 1) + 1 \in 1 .. 5
        BY <3>4
      <4> QED
        BY <3>5, <3>6, <4>1, <4>2, <4>3, <4>4 DEF NoEnd
    <3>9. Whole(r, Append(s, m))
      BY <3>8, NoEndAppend DEF Whole
    <3>10. u.sent <= 4 /\ u.sent + 1 = (z + 1) + 1
      BY <2>2, <3>3, <3>4
    <3> QED
      BY <2>2, <3>1, <3>2, <3>7, <3>9, <3>10 DEF Sending
  <2> QED
    BY <1>1, <1>2, <1>6, <2>2, <2>3, <2>4, SendKeeps
<1>7. CASE /\ At(c, "lines") /\ thread[c].sent >= Len(largebuf)
           /\ net_send(c, EndMark) /\ Step(c, "recv")
  <2>1. PICK u : u = [t EXCEPT !.pc = "recv"]
    OBVIOUS
  <2>2. /\ t.pc = "lines" /\ u.pc = "recv" /\ thread' = [thread EXCEPT ![c] = u]
        /\ t.sent \in Nat /\ t.sent >= Len(largebuf)
    BY <1>2, <1>7, <2>1 DEF Handler, At, Step
  <2>3. ASSUME NEW r \in Caller, NEW s \in Seq(Msgs), Asked(r), Sending(r, t, s)
        PROVE  Whole(r, Append(s, EndMark))
    <3>1. r.call = "status" /\ t.sent <= 4
      BY <2>2, <2>3 DEF Sending
    <3>2. PICK n \in r.since .. ups.linev : /\ largebuf = AllLines(Readings[n], n)
                                            /\ Starts(s, t.sent + 1, StatusAt(n))
      BY <2>2, <2>3 DEF Sending
    <3>3. t.sent = 4
      <4>1. Len(largebuf) = 4
        BY <1>4, <3>2
      <4> QED
        BY <2>2, <3>1, <4>1
    <3>4. n \in 1 .. Len(Readings)
      BY <1>3, <2>3, <3>1
    <3>5. StatusAt(n) \in Seq(Msgs) /\ NoEnd(StatusAt(n)) /\ Len(StatusAt(n)) = 5
      BY <3>4, Status
    <3>6. Len(s) = 5 /\ \A j \in 1 .. 5 : s[j] = StatusAt(n)[j]
      BY <3>2, <3>3 DEF Starts
    <3>7. s = StatusAt(n)
      BY <3>5, <3>6, SeqEqual
    <3>8. Right(r, s)
      BY <3>1, <3>7 DEF Right, RightStatus
    <3> QED
      BY <3>5, <3>7, <3>8 DEF Whole
  <2> QED
    BY <1>1, <1>2, <1>7, <2>2, <2>3, Kinds, SendKeeps
<1>8. CASE Closed(c)
  BY <1>1, <1>8, CloseKeeps
<1> QED
  BY <1>5, <1>6, <1>7, <1>8 DEF status_close

(* The event file is opened, or cannot be.                                 *)
LEMMA OpenEventsKeeps ==
    ASSUME ServerInv, NisTypeOK', ClientsInv, NEW c \in Conns, OpenEvents(c)
    PROVE  ClientsInv'
<1>1. /\ thread[c] \in Handler /\ thread[c].pc = "events"
      /\ UNCHANGED <<ups, eventfile, trims, client, wire, largebuf>>
  BY DEF ServerInv, NisTypeOK, OpenEvents, daemonVars, At
<1>2. \A r \in Caller : \A s : Sending(r, thread[c], s) => s = <<>> /\ r.call = "events"
  BY <1>1 DEF Sending
<1>3. CASE thread' = [thread EXCEPT ![c] = [NoThread EXCEPT !.pc = "fgets", !.le = [j \in 1..NLE |-> 0]]]
  <2>1. PICK u : u = [NoThread EXCEPT !.pc = "fgets", !.le = [j \in 1..NLE |-> 0]]
    OBVIOUS
  <2>2. u.pc = "fgets" /\ u.nrec = 0 /\ u.i = 0 /\ thread' = [thread EXCEPT ![c] = u]
    BY <1>3, <2>1 DEF NoThread
  <2>3. Fetched(u)'
    <3>1. Len(eventfile) \in Nat /\ eventfile' = eventfile
      BY <1>1, Lengths DEF ServerInv
    <3>2. \A d \in 1 .. NLE : ~(d <= 0)
      BY Sizes
    <3> QED
      BY <2>2, <3>1, <3>2 DEF Fetched
  <2>4. \A r \in Caller : Sending(r, thread[c], <<>>) => Sending(r, u, <<>>)'
    BY <1>2, <2>2, <2>3 DEF Sending
  <2> QED
    BY <1>1, <1>2, <2>2, <2>4, QuietThread
<1>4. CASE Step(c, "notavail")
  <2>1. PICK u : u = [thread[c] EXCEPT !.pc = "notavail"]
    OBVIOUS
  <2>2. u.pc = "notavail" /\ thread' = [thread EXCEPT ![c] = u]
    BY <1>1, <1>4, <2>1 DEF Step, Handler
  <2>3. \A r \in Caller : Sending(r, thread[c], <<>>) => Sending(r, u, <<>>)'
    BY <1>2, <2>2 DEF Sending
  <2>4. u.pc \notin {"none", "recv"} /\ thread[c].pc \notin {"none", "recv"}
    BY <1>1, <2>2
  <2> QED
    BY <1>1, <1>2, <2>2, <2>3, <2>4, QuietThread
<1> QED
  BY <1>3, <1>4 DEF OpenEvents

(* A line of the file, or its end.                                         *)
LEMMA FetchKeeps ==
    ASSUME ServerInv, NisTypeOK', ClientsInv, NEW c \in Conns, FetchEvent(c)
    PROVE  ClientsInv'
<1>1. /\ thread[c] \in Handler /\ thread[c].pc = "fgets" /\ eventfile \in Seq(Nat)
      /\ UNCHANGED <<ups, eventfile, trims, client, wire, largebuf>>
  BY DEF ServerInv, NisTypeOK, FetchEvent, daemonVars, At
<1>2. PICK t \in Handler : t = thread[c]
  BY <1>1
<1>3. t.le \in Rings /\ t.i \in 0 .. NLE - 1
  <2>1. t.le \in Rings /\ t.i < NLE /\ t.i \in Nat
    BY <1>1, <1>2 DEF ServerInv, ThreadInv, Handler
  <2> QED
    BY <2>1, Sizes
<1>4. \A r \in Caller : \A s : Sending(r, t, s) => s = <<>> /\ r.call = "events" /\ (trims = r.trims => Fetched(t))
  BY <1>1, <1>2 DEF Sending
<1>5. CASE t.nrec < Len(eventfile)
  <2>1. PICK u : u = [t EXCEPT !.le[t.i + 1] = eventfile[t.nrec + 1], !.nrec = @ + 1, !.i = (@ + 1) % NLE]
    OBVIOUS
  <2>2. thread' = [thread EXCEPT ![c] = u]
    BY <1>2, <1>5, <2>1 DEF FetchEvent
  <2>3. u.pc = "fgets"
    BY <1>1, <1>2, <2>1 DEF Handler
  <2>4. Fetched(t) => Fetched(u)
    BY <1>1, <1>3, <1>5, <2>1, FetchOne
  <2>5. Fetched(u)' <=> Fetched(u)
    BY <1>1 DEF Fetched
  <2>6. \A r \in Caller : Sending(r, t, <<>>) => Sending(r, u, <<>>)'
    BY <1>1, <1>4, <2>3, <2>4, <2>5 DEF Sending
  <2>7. /\ u.pc \notin {"none", "recv"} /\ thread[c].pc \notin {"none", "recv"}
        /\ \A r \in Caller : \A s : Sending(r, thread[c], s) => s = <<>>
        /\ \A r \in Caller : Sending(r, thread[c], <<>>) => Sending(r, u, <<>>)'
    BY <1>1, <1>2, <1>4, <2>3, <2>6
  <2> QED
    BY <1>1, <2>2, <2>7, QuietThread
<1>6. CASE ~(t.nrec < Len(eventfile))
  <2>1. PICK u : u = [t EXCEPT !.pc = "last", !.sent = 0,
                               !.nrec = IF @ > NLE THEN NLE ELSE @,
                               !.i = IF t.nrec > NLE THEN FirstOfRing(@) ELSE 0]
    OBVIOUS
  <2>2. thread' = [thread EXCEPT ![c] = u]
    BY <1>2, <1>6, <2>1 DEF FetchEvent
  <2>3. /\ u.pc = "last" /\ u.sent = 0 /\ u.le = t.le /\ u.nrec = (IF t.nrec > NLE THEN NLE ELSE t.nrec)
        /\ u.i = (IF t.nrec > NLE THEN t.i ELSE 0)
    <3>1. t.i % NLE = t.i
      BY <1>3, Ring
    <3> QED
      BY <2>1, <3>1 DEF Handler, FirstOfRing
  <2>4. PICK n \in Nat : n = Len(eventfile)
    BY <1>1, LenProperties
  <2>5. Fetched(t) => Picked(u, n)
    BY <1>1, <1>3, <1>6, <2>3, <2>4, FetchedAll
  <2>6. Picked(u, n)' <=> Picked(u, n)
    BY <1>1 DEF Picked
  <2>7. Starts(<<>>, 0, EventsAt(n))'
    BY DEF Starts
  <2>8. ASSUME NEW r \in Caller, Asked(r), Sending(r, t, <<>>)
        PROVE  Sending(r, u, <<>>)'
    <3>1. r.call = "events" /\ (trims = r.trims => Picked(u, n)') /\ NoEnd(<<>>)'
      BY <1>4, <2>5, <2>6, <2>8 DEF NoEnd
    <3>2. CASE trims = r.trims
      <4>1. r.since <= n /\ r.since \in Nat
        BY <2>4, <2>8, <3>1, <3>2 DEF Asked, Caller
      <4>2. n \in r.since .. Len(eventfile')
        BY <1>1, <2>4, <4>1
      <4> QED
        BY <2>3, <2>7, <3>1, <3>2, <4>2 DEF Sending
    <3>3. CASE trims # r.trims
      BY <1>1, <2>3, <3>1, <3>3 DEF Sending
    <3> QED
      BY <3>2, <3>3
  <2> QED
    BY <1>1, <1>2, <1>4, <2>2, <2>3, <2>8, QuietThread
<1> QED
  BY <1>5, <1>6

(* The lines, from the oldest on, and the end mark; or that there is no    *)
(* file.                                                                   *)
LEMMA SendEventsKeeps ==
    ASSUME ServerInv, NisTypeOK', ClientsInv, NEW c \in Conns, SendEvents(c)
    PROVE  ClientsInv'
<1>1. /\ thread[c] \in Handler /\ thread[c].pc \in {"last", "notavail"} /\ eventfile \in Seq(Nat)
      /\ UNCHANGED <<ups, eventfile, trims, client, largebuf>>
  BY DEF ServerInv, NisTypeOK, SendEvents, daemonVars, At
<1>2. PICK t \in Handler : t = thread[c]
  BY <1>1
<1>3. /\ t.sent \in Nat /\ t.nrec \in Nat
      /\ t.pc = "last" /\ t.nrec > 0 => t.le \in Rings /\ t.i \in 0 .. NLE - 1
  <2>1. t.pc = "last" /\ t.nrec > 0 => t.le \in Rings /\ t.i < NLE
    BY <1>1, <1>2 DEF ServerInv, ThreadInv
  <2>2. t.sent \in Nat /\ t.nrec \in Nat /\ t.i \in Nat
    BY DEF Handler
  <2> QED
    BY <2>1, <2>2, Sizes
<1>4. ASSUME NEW r \in Caller, NEW n \in r.since .. Len(eventfile)
      PROVE  n \in 0 .. Len(eventfile)
  BY <1>1, LenProperties DEF Caller
<1>5. CASE /\ At(c, "last") /\ thread[c].sent < thread[c].nrec
           /\ net_send(c, <<"event", thread[c].le[thread[c].i + 1]>>)
           /\ thread' = [thread EXCEPT ![c].sent = @ + 1, ![c].i = (@ + 1) % NLE]
  <2>1. PICK u : u = [t EXCEPT !.sent = @ + 1, !.i = (@ + 1) % NLE]
    OBVIOUS
  <2>2. /\ t.pc = "last" /\ u.pc = "last" /\ t.sent < t.nrec /\ thread' = [thread EXCEPT ![c] = u]
    BY <1>2, <1>5, <2>1 DEF Handler, At
  <2>3. t.le \in Rings /\ t.i \in 0 .. NLE - 1
    BY <1>3, <2>2
  <2>4. PICK m \in Msgs : m = <<"event", t.le[t.i + 1]>> /\ m # EndMark
    <3>1. t.i + 1 \in 1 .. NLE
      BY <2>3, Sizes
    <3>2. t.le[t.i + 1] \in Nat
      BY <2>3, <3>1 DEF Rings
    <3> QED
      BY <3>2, Kinds
  <2>5. ASSUME NEW r \in Caller, NEW s \in Seq(Msgs), Sending(r, t, s)
        PROVE  Whole(r, Append(s, m)) /\ Sending(r, u, Append(s, m))
    <3>1. r.call = "events" /\ NoEnd(s)
      BY <2>2, <2>5 DEF Sending
    <3>2. NoEnd(Append(s, m)) /\ Whole(r, Append(s, m))
      BY <2>4, <3>1, NoEndAppend DEF Whole
    <3>3. CASE trims # r.trims
      BY <2>2, <3>1, <3>2, <3>3 DEF Sending
    <3>4. ASSUME NEW n \in r.since .. Len(eventfile), Picked(t, n), Starts(s, t.sent, EventsAt(n))
          PROVE  Sending(r, u, Append(s, m))
      <4>1. n \in 0 .. Len(eventfile)
        BY <1>4
      <4>2. Picked(u, n) /\ Starts(Append(s, m), u.sent, EventsAt(n))
        BY <1>1, <2>1, <2>2, <2>3, <2>4, <3>4, <4>1, SendOne
      <4> QED
        BY <2>2, <3>1, <3>2, <4>2 DEF Sending
    <3>5. t.nrec # 0
      BY <1>3, <2>2
    <3> QED
      BY <2>2, <2>5, <3>2, <3>3, <3>4, <3>5 DEF Sending
  <2> QED
    BY <1>1, <1>2, <1>5, <2>2, <2>4, <2>5, SendKeeps
<1>6. CASE /\ At(c, "last") /\ thread[c].sent = thread[c].nrec
           /\ net_send(c, EndMark)
           /\ thread' = [thread EXCEPT ![c] = [NoThread EXCEPT !.pc = "recv"]]
  <2>1. PICK u : u = [NoThread EXCEPT !.pc = "recv"]
    OBVIOUS
  <2>2. t.pc = "last" /\ u.pc = "recv" /\ t.sent = t.nrec /\ thread' = [thread EXCEPT ![c] = u]
    BY <1>2, <1>6, <2>1 DEF NoThread, At
  <2>3. ASSUME NEW r \in Caller, NEW s \in Seq(Msgs), Sending(r, t, s)
        PROVE  Whole(r, Append(s, EndMark))
    <3>1. r.call = "events" /\ NoEnd(s)
      BY <2>2, <2>3 DEF Sending
    <3>2. Right(r, s)
      <4>1. CASE s = <<<<"Not available">>>> \/ trims # r.trims
        BY <3>1, <4>1 DEF Right, RightEvents
      <4>2. ASSUME NEW n \in r.since .. Len(eventfile), Picked(t, n), Starts(s, t.sent, EventsAt(n))
            PROVE  Right(r, s)
        <5>1. n \in 0 .. Len(eventfile)
          BY <1>4
        <5>2. EventsAt(n) \in Seq(Msgs) /\ Len(EventsAt(n)) = Kept(n) /\ t.sent = Kept(n)
          BY <1>1, <2>2, <4>2, <5>1, Events DEF Picked
        <5>3. s = EventsAt(n)
          BY <4>2, <5>2, SeqEqual DEF Starts
        <5> QED
          BY <3>1, <5>3 DEF Right, RightEvents
      <4> QED
        BY <2>2, <2>3, <4>1, <4>2 DEF Sending
    <3> QED
      BY <3>1, <3>2 DEF Whole
  <2>4. /\ thread[c].pc \notin {"none", "recv"} /\ EndMark \in Msgs /\ net_send(c, EndMark)
        /\ \A q \in Caller : \A s \in Seq(Msgs) :
              q.pc = "recv" /\ Asked(q) /\ Sending(q, thread[c], s)
              => /\ Whole(q, Append(s, EndMark))
                 /\ u.pc \notin {"none", "recv"} => Sending(q, u, Append(s, EndMark))
    BY <1>2, <1>6, <2>2, <2>3, Kinds
  <2> QED
    BY <1>1, <2>2, <2>4, SendKeeps
<1>7. CASE /\ At(c, "notavail") /\ net_send(c, <<"Not available">>)
           /\ thread' = [thread EXCEPT ![c].pc = "last", ![c].sent = 0, ![c].nrec = 0]
  <2>1. PICK u : u = [t EXCEPT !.pc = "last", !.sent = 0, !.nrec = 0]
    OBVIOUS
  <2>2. t.pc = "notavail" /\ u.pc = "last" /\ u.nrec = 0 /\ thread' = [thread EXCEPT ![c] = u]
    BY <1>2, <1>7, <2>1 DEF Handler, At
  <2>3. PICK m \in Msgs : m = <<"Not available">> /\ m # EndMark
    BY Kinds
  <2>4. ASSUME NEW r \in Caller, NEW s \in Seq(Msgs), Sending(r, t, s)
        PROVE  Whole(r, Append(s, m)) /\ Sending(r, u, Append(s, m))
    <3>1. r.call = "events" /\ s = <<>>
      BY <2>2, <2>4 DEF Sending
    <3>2. Append(s, m) = <<m>> /\ NoEnd(<<m>>)
      BY <2>3, <3>1, NoEndOne
    <3> QED
      BY <2>2, <2>3, <3>1, <3>2 DEF Sending, Whole
  <2> QED
    BY <1>1, <1>2, <1>7, <2>2, <2>3, <2>4, SendKeeps
<1>8. CASE Closed(c)
  BY <1>1, <1>8, CloseKeeps
<1> QED
  BY <1>5, <1>6, <1>7, <1>8 DEF SendEvents

---------------------------------------------------------------------------
(* The steps of a client.                                                  *)
Others(k) ==
    /\ UNCHANGED <<ups, eventfile, trims, largebuf>>
    /\ \A l \in Clients \ {k} :
          /\ client'[l] = client[l]
          /\ client[l].sock # "none" => /\ thread'[client[l].sock] = thread[client[l].sock]
                                        /\ wire'[client[l].sock] = wire[client[l].sock]

(* Nobody else owns the connection that a client keeps or takes.           *)
OwnSock(k) ==
    /\ client'[k].sock # "none" =>
          /\ client'[k].sock = client[k].sock \/ ~wire[client'[k].sock].client
          /\ wire'[client'[k].sock].client
    /\ client'[k].pc = "open" => client'[k].sock = "none"
    /\ client'[k].pc = "recv" => client'[k].sock # "none"
    /\ client'[k].pc # "idle" => client'[k].call # "none"
    /\ client'[k].ok = "good" => client'[k].pc = "idle" /\ client'[k].call # "none"

LEMMA ClientStep ==
    ASSUME ServerInv, NisTypeOK', ClientsInv, NEW k \in Clients, Others(k), OwnSock(k),
           (FlowInv(k) /\ AskedInv(k) /\ DoneInv(k))'
    PROVE  ClientsInv'
<1>1. NisTypeOK /\ SocksInv /\ Onward
  BY Still DEF ServerInv, ClientsInv, Others
<1>2. ASSUME NEW l \in Clients PROVE FlowInv(l)' /\ AskedInv(l)' /\ DoneInv(l)'
  <2>1. CASE l = k
    BY <2>1
  <2>2. CASE l # k
    <3>1. FlowInv(l) /\ AskedInv(l) /\ DoneInv(l)
      BY DEF ClientsInv
    <3>2. /\ client'[l] = client[l] /\ largebuf' = largebuf
          /\ client[l].sock # "none" => /\ thread'[client[l].sock] = thread[client[l].sock]
                                        /\ wire'[client[l].sock] = wire[client[l].sock]
      BY <2>2 DEF Others
    <3> QED
      BY <1>1, <3>1, <3>2, FlowFrame
  <2> QED
    BY <2>1, <2>2
<1>3. ASSUME NEW l \in Clients \ {k}
      PROVE  /\ client'[l] = client[l]
             /\ client[l].sock # "none" => wire'[client[l].sock].client /\ wire[client[l].sock].client
  <2>1. client[l].sock # "none" => wire[client[l].sock].client
    BY <1>1 DEF SocksInv
  <2>2. /\ client'[l] = client[l]
        /\ client[l].sock # "none" => wire'[client[l].sock] = wire[client[l].sock]
    BY DEF Others
  <2> QED
    BY <2>1, <2>2
<1>4. ASSUME NEW l \in Clients \ {k} PROVE client'[l].sock = client'[k].sock => client'[k].sock = "none"
  <2>1. SUFFICES ASSUME client[l].sock = client'[k].sock, client'[k].sock # "none" PROVE FALSE
    BY <1>3
  <2>2. wire[client[l].sock].client
    BY <1>3, <2>1
  <2>3. client'[k].sock = client[k].sock
    BY <2>1, <2>2 DEF OwnSock
  <2> QED
    BY <1>1, <2>1, <2>3 DEF SocksInv
<1>5. ASSUME NEW l \in Clients, NEW j \in Clients, client'[l].sock = client'[j].sock
      PROVE  l = j \/ client'[l].sock = "none"
  <2>1. CASE l = k \/ j = k
    BY <1>4, <1>5, <2>1
  <2>2. CASE l # k /\ j # k
    <3>1. client'[l] = client[l] /\ client'[j] = client[j]
      BY <1>3, <2>2
    <3> QED
      BY <1>1, <1>5, <3>1 DEF SocksInv
  <2> QED
    BY <2>1, <2>2
<1>6. ASSUME NEW l \in Clients
      PROVE  /\ client'[l].sock # "none" => wire'[client'[l].sock].client
             /\ client'[l].pc = "open" => client'[l].sock = "none"
             /\ client'[l].pc = "recv" => client'[l].sock # "none"
             /\ client'[l].pc # "idle" => client'[l].call # "none"
             /\ client'[l].ok = "good" => client'[l].pc = "idle" /\ client'[l].call # "none"
  <2>1. CASE l = k
    BY <2>1 DEF OwnSock
  <2>2. CASE l # k
    <3>1. client'[l] = client[l] /\ (client[l].sock # "none" => wire'[client[l].sock].client)
      BY <1>3, <2>2
    <3> QED
      BY <1>1, <3>1 DEF SocksInv
  <2> QED
    BY <2>1, <2>2
<1>7. SocksInv'
  BY <1>5, <1>6 DEF SocksInv
<1> QED
  BY <1>2, <1>7 DEF ClientsInv

(* A question is on its way over a connection with nothing else on it.     *)
LEMMA SentKeeps ==
    ASSUME ServerInv, NisTypeOK', NEW k \in Clients, UNCHANGED <<ups, eventfile, trims>>,
           NEW c \in Conns, NEW q, client' = [client EXCEPT ![k] = q],
           q.pc = "recv", q.sock = c, q.got = <<>>, q.trims = trims, q.ok # "good", q.call # "none",
           q.since = (IF q.call = "status" THEN ups.linev ELSE Len(eventfile)),
           ~wire'[c].late => /\ wire'[c].down = <<>>
                             /\ \/ thread'[c].pc = "none"
                                \/ thread'[c].pc = "recv" /\ wire'[c].up = <<q.call>>
    PROVE  (FlowInv(k) /\ AskedInv(k) /\ DoneInv(k))'
<1>1. client'[k] = q /\ NisTypeOK
  BY DEF ServerInv, NisTypeOK
<1>2. NoEnd(<<>>)' /\ <<>> \o <<>> = <<>>
  <2>1. <<>> \in Seq(Msgs)
    BY EmptySeq
  <2> QED
    BY <2>1, ConcatEmptySeq DEF NoEnd
<1>3. Asked(q)'
  BY <1>1, <1>2, Lengths DEF Asked
<1>4. ASSUME ~wire'[c].late PROVE Flow(q, thread[c], wire[c], q.got \o wire[c].down)'
  BY <1>2, <1>4 DEF Flow, Whole
<1>5. FlowInv(k)'
  BY <1>1, <1>4 DEF FlowInv
<1> QED
  BY <1>1, <1>3, <1>5 DEF AskedInv, DoneInv

(* The connection is closed, or has never been opened.                     *)
LEMMA ShutIs ==
    ASSUME NisTypeOK, NEW k \in Clients, NEW w \in [Conns -> Connection], NEW v, v = Shut(k, w)
    PROVE  /\ \A b \in Conns : b # client[k].sock => v[b] = w[b]
           /\ client[k].sock = "none" => v = w
<1>1. client[k].sock \in Conns \cup {"none"}
  BY DEF NisTypeOK, Caller
<1> QED
  BY <1>1 DEF Shut

(* A client that waits for nothing, and for whom nothing is under way.     *)
LEMMA RestKeeps ==
    ASSUME ServerInv, NisTypeOK', ClientsInv, NEW k \in Clients, UNCHANGED <<ups, eventfile, trims, largebuf, thread>>,
           NEW q, client' = [client EXCEPT ![k] = q], q.pc # "recv",
           q.pc = "open" => q.call # "none",
           q.ok = "good" => /\ q.pc = "idle" /\ q.call # "none" /\ q.trims <= trims /\ Right(q, q.got),
           \A b \in Conns : b # client[k].sock => wire'[b] = wire[b],
           \/ q.sock = "none"
           \/ /\ q.sock = client[k].sock /\ q.pc = "idle"
              /\ wire'[q.sock].client
              /\ ~wire'[q.sock].late =>
                    /\ wire'[q.sock].down = <<>>
                    /\ wire'[q.sock].server => thread[q.sock].pc = "recv" /\ wire'[q.sock].up = <<>>
    PROVE  ClientsInv'
<1>1. client'[k] = q /\ NisTypeOK /\ \A l \in Clients \ {k} : client'[l] = client[l]
  BY DEF ServerInv, NisTypeOK
<1>2. q \in Caller
  BY <1>1 DEF NisTypeOK
<1>3. OwnSock(k)
  BY <1>1, <1>2 DEF OwnSock, Caller
<1>4. ASSUME NEW l \in Clients \ {k}, client[l].sock # "none"
      PROVE  wire'[client[l].sock] = wire[client[l].sock]
  <2>1. client[l].sock \in Conns
    BY <1>1, <1>4 DEF NisTypeOK, Caller
  <2>2. client[l].sock # client[k].sock
    BY <1>4 DEF ClientsInv, SocksInv
  <2> QED
    BY <2>1, <2>2
<1>5. Others(k)
  BY <1>1, <1>4 DEF Others
<1>6. Right(q, q.got)' <=> Right(q, q.got)
  <2>1. \A n : EventsAt(n)' = EventsAt(n)
    BY DEF EventsAt
  <2> QED
    BY <2>1 DEF Right, RightStatus, RightEvents
<1>7. DoneInv(k)'
  BY <1>1, <1>6 DEF DoneInv
<1>8. FlowInv(k)'
  BY <1>1 DEF FlowInv
<1>9. AskedInv(k)'
  BY <1>1 DEF AskedInv
<1> QED
  BY <1>3, <1>5, <1>7, <1>8, <1>9, ClientStep

(* A call that returns leaves its connection closed or at rest.            *)
LEMMA ReturnKeeps ==
    ASSUME ServerInv, NisTypeOK', ClientsInv, NEW k \in Clients, UNCHANGED <<ups, eventfile, trims, largebuf, thread>>,
           NEW w \in [Conns -> Connection], NEW ok, NEW shut \in BOOLEAN, Return(k, w, ok, shut),
           ok = "good" => /\ client[k].call # "none" /\ client[k].trims <= trims
                          /\ Right(client[k], client[k].got),
           \A b \in Conns : b # client[k].sock => w[b] = wire[b],
           ~shut /\ client[k].sock # "none" =>
              /\ w[client[k].sock].client
              /\ ~w[client[k].sock].late =>
                    /\ w[client[k].sock].down = <<>>
                    /\ w[client[k].sock].server =>
                          thread[client[k].sock].pc = "recv" /\ w[client[k].sock].up = <<>>
    PROVE  ClientsInv'
<1>1. PICK r \in Caller : r = client[k]
  BY DEF ServerInv, NisTypeOK
<1>2. PICK q : q = [r EXCEPT !.pc = "idle", !.ok = ok, !.got = IF ok \in {"good", "cut"} THEN @ ELSE <<>>,
                             !.sock = IF shut THEN "none" ELSE @]
  OBVIOUS
<1>3. client' = [client EXCEPT ![k] = q]
  BY <1>1, <1>2 DEF Return
<1>4. /\ q.pc = "idle" /\ q.ok = ok /\ q.call = r.call /\ q.trims = r.trims /\ q.since = r.since
      /\ q.got = (IF ok \in {"good", "cut"} THEN r.got ELSE <<>>)
      /\ q.sock = (IF shut THEN "none" ELSE r.sock)
  BY <1>2 DEF Caller
<1>5. wire' = IF shut THEN Shut(k, w) ELSE w
  BY DEF Return
<1>6. \A b \in Conns : b # client[k].sock => wire'[b] = wire[b]
  <2>1. CASE shut
    <3>1. wire' = Shut(k, w)
      BY <1>5, <2>1
    <3> QED
      BY <3>1, ShutIs DEF ServerInv
  <2>2. CASE ~shut
    BY <1>5, <2>2
  <2> QED
    BY <2>1, <2>2
<1>7. q.ok = "good" => q.pc = "idle" /\ q.call # "none" /\ q.trims <= trims /\ Right(q, q.got)
  <2>1. \A f : Right(r, f) => Right(q, f)
    BY <1>4 DEF Right
  <2> QED
    BY <1>1, <1>4, <2>1
<1>8. \/ q.sock = "none"
      \/ /\ q.sock = client[k].sock /\ q.pc = "idle"
         /\ wire'[q.sock].client
         /\ ~wire'[q.sock].late =>
               /\ wire'[q.sock].down = <<>>
               /\ wire'[q.sock].server => thread[q.sock].pc = "recv" /\ wire'[q.sock].up = <<>>
  <2>1. CASE shut \/ r.sock = "none"
    BY <1>4, <2>1
  <2>2. CASE ~shut /\ r.sock # "none"
    <3>1. wire' = w /\ q.sock = r.sock
      BY <1>4, <1>5, <2>2
    <3> QED
      BY <1>1, <1>4, <2>2, <3>1
  <2> QED
    BY <2>1, <2>2
<1>9. q.pc # "recv" /\ (q.pc = "open" => q.call # "none")
  BY <1>4
<1> QED
  BY <1>3, <1>6, <1>7, <1>8, <1>9, RestKeeps

LEMMA AgainKeeps ==
    ASSUME ServerInv, NisTypeOK', ClientsInv, NEW k \in Clients, UNCHANGED <<ups, eventfile, trims, largebuf, thread>>,
           NEW w \in [Conns -> Connection], Again(k, w), client[k].call # "none", client[k].ok # "good",
           \A b \in Conns : b # client[k].sock => w[b] = wire[b]
    PROVE  ClientsInv'
<1>1. CASE client[k].tries > 1
  <2>1. PICK r \in Caller : r = client[k]
    BY DEF ServerInv, NisTypeOK
  <2>2. PICK q : q = [r EXCEPT !.pc = "open", !.tries = @ - 1, !.sock = "none"]
    OBVIOUS
  <2>3. client' = [client EXCEPT ![k] = q]
    BY <1>1, <2>1, <2>2 DEF Again
  <2>4. q.pc = "open" /\ q.sock = "none" /\ q.call = client[k].call /\ q.ok = client[k].ok
    BY <2>1, <2>2 DEF Caller
  <2>5. wire' = Shut(k, w)
    BY <1>1 DEF Again
  <2>6. \A b \in Conns : b # client[k].sock => wire'[b] = wire[b]
    BY <2>5, ShutIs DEF ServerInv
  <2> QED
    BY <2>3, <2>4, <2>6, RestKeeps
<1>2. CASE ~(client[k].tries > 1)
  <2>1. Return(k, w, "failed", TRUE)
    BY <1>2 DEF Again
  <2> QED
    BY <2>1, ReturnKeeps
<1> QED
  BY <1>1, <1>2

LEMMA RecvEndsKeeps ==
    ASSUME ServerInv, NisTypeOK', ClientsInv, NEW k \in Clients, UNCHANGED <<ups, eventfile, trims, largebuf, thread>>,
           client[k].pc = "recv",
           NEW w \in [Conns -> Connection], NEW negative \in BOOLEAN, NEW how, RecvEnds(k, w, negative, how),
           how = "good" => Right(client[k], client[k].got),
           \A b \in Conns : b # client[k].sock => w[b] = wire[b],
           w[client[k].sock].client,
           ~negative /\ ~w[client[k].sock].late =>
              /\ w[client[k].sock].down = <<>>
              /\ w[client[k].sock].server =>
                    thread[client[k].sock].pc = "recv" /\ w[client[k].sock].up = <<>>
    PROVE  ClientsInv'
<1>1. /\ client[k] \in Caller /\ client[k].sock \in Conns /\ client[k].call # "none"
      /\ client[k].ok # "good" /\ client[k].trims <= trims
  BY DEF ServerInv, NisTypeOK, ClientsInv, SocksInv, AskedInv, Asked, Caller
<1>2. PICK c \in Conns : c = client[k].sock
  BY <1>1
<1>3. ASSUME ~negative, Return(k, w, how, FALSE) PROVE ClientsInv'
  BY <1>1, <1>3, ReturnKeeps
<1>4. ASSUME NEW ok, Return(k, w, ok, TRUE), ok \in {"failed", how} PROVE ClientsInv'
  BY <1>1, <1>4, ReturnKeeps
<1>5. ASSUME Again(k, w) PROVE ClientsInv'
  BY <1>1, <1>5, AgainKeeps
<1>6. CASE Update(k, w, negative, how)
  BY <1>3, <1>5, <1>6 DEF Update
<1>7. CASE GetEvents(k, w, negative, how)
  <2>1. PICK v : v = [w EXCEPT ![c].late = @ \/ negative]
    OBVIOUS
  <2>2. Return(k, v, how, FALSE)
    BY <1>2, <1>7, <2>1 DEF GetEvents
  <2>3. /\ v \in [Conns -> Connection]
        /\ v[c].client = w[c].client /\ v[c].down = w[c].down /\ v[c].server = w[c].server
        /\ v[c].up = w[c].up
        /\ \A b \in Conns : b # c => v[b] = w[b]
    <3>1. PICK x : x = [w[c] EXCEPT !.late = @ \/ negative]
      OBVIOUS
    <3>2. /\ x \in Connection /\ x.client = w[c].client /\ x.down = w[c].down
          /\ x.server = w[c].server /\ x.up = w[c].up
      BY <3>1 DEF Connection
    <3>3. v = [w EXCEPT ![c] = x]
      BY <2>1, <3>1
    <3> QED
      BY <3>2, <3>3
  <2>4. ~v[c].late => ~negative /\ ~w[c].late
    <3>1. v[c].late = (w[c].late \/ negative)
      BY <2>1 DEF Connection
    <3> QED
      BY <3>1
  <2>5. \A b \in Conns : b # client[k].sock => v[b] = wire[b]
    BY <1>2, <2>3
  <2>6. client[k].sock # "none" =>
              /\ v[client[k].sock].client
              /\ ~v[client[k].sock].late =>
                    /\ v[client[k].sock].down = <<>>
                    /\ v[client[k].sock].server =>
                          thread[client[k].sock].pc = "recv" /\ v[client[k].sock].up = <<>>
    BY <1>2, <2>3, <2>4
  <2> QED
    BY <1>1, <2>2, <2>3, <2>5, <2>6, ReturnKeeps
<1>8. CASE fetch_data(k, w, negative, how) \/ fetch_events(k, w, negative, how)
  <2>1. PICK ok : ok = IF negative THEN "failed" ELSE how
    OBVIOUS
  <2>2. Return(k, w, ok, TRUE)
    BY <1>8, <2>1 DEF fetch_data, fetch_events
  <2> QED
    BY <1>4, <2>1, <2>2
<1> QED
  BY <1>6, <1>7, <1>8 DEF RecvEnds

(* What has been read does not count, only what the answer is to.          *)
LEMMA FlowSame ==
    ASSUME NEW r, NEW q, NEW t, NEW w, NEW v, NEW s, Flow(r, t, w, s),
           q.call = r.call, q.since = r.since, q.trims = r.trims, v.up = w.up
    PROVE  Flow(q, t, v, s)
<1>1. \A f : Right(r, f) <=> Right(q, f)
  BY DEF Right, RightStatus, RightEvents
<1>2. Whole(q, s)
  BY <1>1 DEF Flow, Whole
<1>3. Sending(r, t, s) => Sending(q, t, s)
  BY DEF Sending
<1> QED
  BY <1>2, <1>3 DEF Flow

(* A message is read, or the end of the answer, or of the wait for it.     *)
LEMMA RecvKeeps ==
    ASSUME ServerInv, NisTypeOK', ClientsInv, NEW k \in Clients, net_recv(k)
    PROVE  ClientsInv'
<1>1. /\ NisTypeOK /\ SocksInv /\ FlowInv(k) /\ AskedInv(k) /\ DoneInv(k)
      /\ UNCHANGED <<ups, eventfile, trims, largebuf, thread>> /\ client[k].pc = "recv"
  BY DEF ServerInv, ClientsInv, net_recv, daemonVars
<1>2. PICK r \in Caller : r = client[k]
  BY <1>1 DEF NisTypeOK
<1>3. PICK c \in Conns : c = r.sock /\ c # "none"
  BY <1>1, <1>2, Sizes DEF SocksInv, Caller
<1>4. PICK w \in Connection : w = wire[c]
  BY <1>1 DEF NisTypeOK
<1>5. PICK t \in Handler : t = thread[c]
  BY <1>1 DEF NisTypeOK
<1>6. PICK g \in Seq(Msgs), d \in Seq(Msgs) : g = r.got /\ d = w.down
  BY DEF Caller, Connection
<1>7. w.client /\ Asked(r) /\ (~w.late => Flow(r, t, w, g \o d))
  BY <1>1, <1>2, <1>3, <1>4, <1>5, <1>6 DEF SocksInv, AskedInv, FlowInv
<1>8. PICK read : read = [wire EXCEPT ![c].down = Tail(@)]
  OBVIOUS
<1>9. d # <<>> => /\ read \in [Conns -> Connection]
                  /\ read[c].down = Tail(d) /\ read[c].late = w.late /\ read[c].up = w.up
                  /\ read[c].client = w.client /\ read[c].server = w.server
                  /\ \A b \in Conns : b # c => read[b] = wire[b]
  <2>1. d # <<>> => Tail(d) \in Seq(Msgs)
    BY HeadTailProperties
  <2> QED
    BY <1>1, <1>4, <1>6, <1>8, <2>1 DEF NisTypeOK, Connection
<1>10. CASE /\ d # <<>> /\ Head(d) # EndMark
            /\ client' = [client EXCEPT ![k].got = Append(@, Head(d))]
            /\ wire' = read
  <2>1. PICK m \in Msgs : m = Head(d) /\ m # EndMark
    BY <1>10, HeadTailProperties
  <2>2. PICK q : q = [r EXCEPT !.got = Append(@, m)]
    OBVIOUS
  <2>3. /\ client' = [client EXCEPT ![k] = q] /\ client'[k] = q
        /\ q.pc = "recv" /\ q.sock = c /\ q.got = Append(g, m) /\ q.call = r.call
        /\ q.since = r.since /\ q.trims = r.trims /\ q.ok = r.ok
        /\ \A l \in Clients \ {k} : client'[l] = client[l]
    BY <1>1, <1>2, <1>3, <1>6, <1>10, <2>1, <2>2 DEF Caller, NisTypeOK
  <2>4. Append(g, m) \o Tail(d) = g \o d
    BY <1>10, <2>1, CatTail
  <2>5. Asked(q)
    <3>1. NoEnd(Append(g, m))
      BY <1>6, <1>7, <2>1, NoEndAppend DEF Asked
    <3> QED
      BY <1>7, <2>3, <3>1 DEF Asked
  <2>6. NisTypeOK /\ Onward
    BY <1>1, Still
  <2>7. q \in Caller
    BY <2>3 DEF NisTypeOK
  <2>8. Asked(q)'
    BY <2>5, <2>6, <2>7, AskedStays
  <2>9. ASSUME ~wire'[c].late PROVE Flow(q, thread[c], wire[c], q.got \o wire[c].down)'
    <3>1. PICK v : v = wire'[c]
      OBVIOUS
    <3>2. PICK s : s = g \o d
      OBVIOUS
    <3>3. Flow(r, t, w, s)
      BY <1>7, <1>9, <1>10, <2>9, <3>2
    <3>4. Flow(q, t, v, s)
      BY <1>9, <1>10, <2>3, <3>1, <3>3, FlowSame
    <3>5. Flow(q, t, v, s)'
      BY <1>1, <2>6, <2>7, <3>4, FlowStays, <2>5 DEF Asked
    <3>6. q.got \o wire'[c].down = s /\ thread'[c] = t
      BY <1>1, <1>5, <1>9, <1>10, <2>3, <2>4, <3>2
    <3> QED
      BY <3>1, <3>5, <3>6
  <2>10. FlowInv(k)' /\ AskedInv(k)' /\ DoneInv(k)'
    <3>1. FlowInv(k)'
      BY <2>3, <2>9 DEF FlowInv
    <3>2. AskedInv(k)'
      BY <2>3, <2>8 DEF AskedInv
    <3>3. q.ok # "good"
      BY <1>1, <1>2, <2>3 DEF SocksInv
    <3> QED
      BY <2>3, <3>1, <3>2, <3>3 DEF DoneInv
  <2>11. OwnSock(k)
    <3>1. wire'[c].client
      BY <1>7, <1>9, <1>10
    <3>2. q.ok # "good" /\ q.call # "none"
      BY <1>1, <1>2, <2>3 DEF SocksInv
    <3> QED
      BY <1>2, <1>3, <2>3, <3>1, <3>2 DEF OwnSock
  <2>12. Others(k)
    <3>1. ASSUME NEW l \in Clients \ {k}, client[l].sock # "none"
          PROVE  wire'[client[l].sock] = wire[client[l].sock]
      <4>1. client[l].sock \in Conns /\ client[l].sock # c
        BY <1>1, <1>2, <1>3, <3>1 DEF NisTypeOK, Caller, SocksInv
      <4> QED
        BY <1>9, <1>10, <4>1
    <3> QED
      BY <1>1, <2>3, <3>1 DEF Others
  <2> QED
    BY <2>10, <2>11, <2>12, ClientStep
<1>11. ASSUME NEW how, how \in {"good", "late"}, (how = "good") => ~w.late,
              d # <<>>, Head(d) = EndMark, RecvEnds(k, read, FALSE, how)
       PROVE  ClientsInv'
  <2>1. ASSUME ~w.late
        PROVE  /\ Right(r, g) /\ Tail(d) = <<>>
               /\ t.pc \in {"none", "recv"} /\ (t.pc = "recv" => w.up = <<>>)
    <3>1. PICK s \in Seq(Msgs) : s = g \o d
      BY ConcatProperties
    <3>2. ~NoEnd(s)
      <4>1. 1 \in DOMAIN d /\ d[1] = EndMark
        <5>1. Len(d) \in Nat \ {0} /\ DOMAIN d = 1 .. Len(d)
          BY <1>11, EmptySeq, LenProperties
        <5> QED
          BY <1>11, <5>1
      <4> QED
        BY <3>1, <4>1, NoEndCat DEF NoEnd
    <3>3. Flow(r, t, w, s)
      BY <1>7, <2>1, <3>1
    <3>4. PICK f \in Seq(Msgs) : s = Append(f, EndMark) /\ NoEnd(f) /\ Right(r, f)
      BY <3>2, <3>3 DEF Flow, Whole
    <3>5. f = g /\ Tail(d) = <<>>
      BY <1>11, <3>1, <3>4, EndRead
    <3>6. ~Sending(r, t, s)
      <4>1. s # <<>>
        BY <3>2 DEF NoEnd
      <4>2. ASSUME r.call = "status", t.pc = "lines", t.sent <= 4, NEW n \in r.since .. ups.linev,
                   Starts(s, t.sent + 1, StatusAt(n))
            PROVE  FALSE
        <5>1. n \in 1 .. Len(Readings)
          <6>1. r.since \in Nat /\ 1 <= r.since
            BY <1>7, <4>2 DEF Caller, Asked
          <6> QED
            BY <1>1, <6>1, Lengths
        <5>2. NoEnd(StatusAt(n)) /\ DOMAIN StatusAt(n) = 1 .. 5
          BY <5>1, Status, LenProperties
        <5>3. PICK y \in Nat : y = t.sent
          BY DEF Handler
        <5>4. PICK z \in Nat : z = y + 1
          OBVIOUS
        <5>5. y <= 4
          BY <4>2, <5>3
        <5>6. \A j \in 1 .. z : j \in 1 .. 5
          BY <5>4, <5>5
        <5>7. DOMAIN s = 1 .. z /\ \A j \in 1 .. z : s[j] = StatusAt(n)[j]
          BY <4>2, <5>3, <5>4, LenProperties DEF Starts
        <5> QED
          BY <3>2, <5>2, <5>6, <5>7 DEF NoEnd
      <4> QED
        BY <3>2, <4>1, <4>2 DEF Sending
    <3>7. t.pc \in {"none", "recv"}
      BY <3>3, <3>6 DEF Flow
    <3>8. s # <<>>
      BY <3>2 DEF NoEnd
    <3> QED
      BY <3>3, <3>4, <3>5, <3>7, <3>8 DEF Flow
  <2>2. how = "good" => Right(client[k], client[k].got)
    BY <1>2, <1>6, <1>11, <2>1
  <2>3. \A b \in Conns : b # client[k].sock => read[b] = wire[b]
    BY <1>2, <1>3, <1>9, <1>11
  <2>4. read[client[k].sock].client
    BY <1>2, <1>3, <1>7, <1>9, <1>11
  <2>5. ~read[client[k].sock].late =>
              /\ read[client[k].sock].down = <<>>
              /\ read[client[k].sock].server =>
                    thread[client[k].sock].pc = "recv" /\ read[client[k].sock].up = <<>>
    <3>1. w.server => t.pc # "none"
      BY <1>4, <1>5 DEF ServerInv, ThreadInv
    <3> QED
      BY <1>2, <1>3, <1>5, <1>9, <1>11, <2>1, <3>1
  <2>6. read \in [Conns -> Connection]
    BY <1>9, <1>11
  <2> QED
    BY <1>1, <1>11, <2>2, <2>3, <2>4, <2>5, <2>6, RecvEndsKeeps
<1>12. ASSUME NEW how, how # "good", NEW negative \in BOOLEAN, ~negative => ~w.server,
              d = <<>>, RecvEnds(k, wire, negative, how)
       PROVE  ClientsInv'
  <2>1. PICK v \in [Conns -> Connection] : v = wire
    BY <1>1 DEF NisTypeOK
  <2>2. /\ v[client[k].sock].client
        /\ ~negative /\ ~v[client[k].sock].late =>
              /\ v[client[k].sock].down = <<>>
              /\ v[client[k].sock].server =>
                    thread[client[k].sock].pc = "recv" /\ v[client[k].sock].up = <<>>
    BY <1>2, <1>3, <1>4, <1>6, <1>7, <1>12, <2>1
  <2>3. RecvEnds(k, v, negative, how) /\ \A b \in Conns : b # client[k].sock => v[b] = wire[b]
    BY <1>12, <2>1
  <2> QED
    BY <1>1, <1>12, <2>2, <2>3, RecvEndsKeeps
<1>13. CASE d # <<>> /\ Head(d) = EndMark /\ RecvEnds(k, read, FALSE, IF w.late THEN "late" ELSE "good")
  <2>1. PICK how : how = IF w.late THEN "late" ELSE "good"
    OBVIOUS
  <2>2. how \in {"good", "late"} /\ (how = "good" => ~w.late) /\ RecvEnds(k, read, FALSE, how)
    BY <1>13, <2>1
  <2> QED
    BY <1>11, <1>13, <2>2
<1>14. CASE d = <<>> /\ ~w.server /\ RecvEnds(k, wire, FALSE, IF w.late THEN "late" ELSE "cut")
  <2>1. PICK how : how = IF w.late THEN "late" ELSE "cut"
    OBVIOUS
  <2>2. how # "good" /\ RecvEnds(k, wire, FALSE, how)
    BY <1>14, <2>1
  <2> QED
    BY <1>12, <1>14, <2>2
<1>15. CASE d = <<>> /\ RecvEnds(k, wire, TRUE, "late")
  BY <1>12, <1>15
<1> QED
  <2>1. client[k].sock = c /\ wire[c].down = d /\ wire[c].server = w.server /\ wire[c].late = w.late
    BY <1>2, <1>3, <1>4, <1>6
  <2> QED
    BY <1>8, <1>10, <1>13, <1>14, <1>15, <2>1 DEF net_recv

(* A question is asked on the connection that is open, if one is.          *)
LEMMA AskKeeps ==
    ASSUME ServerInv, NisTypeOK', ClientsInv, NEW k \in Clients, NEW call \in {"status", "events"}, Ask(k, call)
    PROVE  ClientsInv'
<1>1. /\ NisTypeOK /\ SocksInv /\ FlowInv(k) /\ client[k].pc = "idle"
      /\ UNCHANGED <<ups, eventfile, trims, largebuf, thread>>
  BY DEF ServerInv, ClientsInv, Ask, daemonVars
<1>2. PICK r : r = Fresh(k, call)
  OBVIOUS
<1>3. r.call = call /\ r.ok = "none" /\ r.pc = "open" /\ r.sock = client[k].sock /\ r.call # "none"
  BY <1>2 DEF Fresh, Idle
<1>4. PICK c : c = client[k].sock
  OBVIOUS
<1>5. c \in Conns \cup {"none"}
  BY <1>1, <1>4 DEF NisTypeOK, Caller
<1>6. CASE c = "none" /\ client' = [client EXCEPT ![k] = r] /\ UNCHANGED wire
  BY <1>1, <1>3, <1>4, <1>6, RestKeeps
<1>7. CASE c # "none" /\ Sent(k, r, c, wire)
  <2>1. c \in Conns /\ c # "none"
    BY <1>5, <1>7
  <2>2. PICK q : q = [r EXCEPT !.pc = "recv", !.sock = c, !.got = <<>>, !.trims = trims,
                               !.since = IF r.call = "status" THEN ups.linev ELSE Len(eventfile)]
    OBVIOUS
  <2>3. /\ client' = [client EXCEPT ![k] = q] /\ client'[k] = q
        /\ \A l \in Clients \ {k} : client'[l] = client[l]
    BY <1>1, <1>7, <2>2 DEF Sent, NisTypeOK
  <2>4. /\ q.pc = "recv" /\ q.sock = c /\ q.got = <<>> /\ q.trims = trims /\ q.ok # "good" /\ q.call = call
        /\ q.since = (IF q.call = "status" THEN ups.linev ELSE Len(eventfile)) /\ q.call # "none"
    <3>1. DOMAIN r = {"pc", "call", "sock", "tries", "got", "ok", "since", "trims"}
      BY <1>2 DEF Fresh, Idle
    <3> QED
      BY <1>3, <2>2, <3>1
  <2>5. PICK w \in Connection : w = wire[c]
    BY <1>1, <2>1 DEF NisTypeOK
  <2>6. /\ wire'[c].down = w.down /\ wire'[c].late = w.late /\ wire'[c].client = w.client
        /\ wire'[c].up = IF w.server THEN Append(w.up, call) ELSE w.up
        /\ \A b \in Conns : b # c => wire'[b] = wire[b]
    <3>1. CASE w.server
      <4>1. wire' = [wire EXCEPT ![c].up = Append(@, call)]
        BY <1>3, <1>7, <2>5, <3>1 DEF Sent
      <4> QED
        BY <1>1, <2>1, <2>5, <3>1, <4>1 DEF NisTypeOK, Connection
    <3>2. CASE ~w.server
      <4>1. wire' = wire
        BY <1>7, <2>5, <3>2 DEF Sent
      <4> QED
        BY <2>5, <3>2, <4>1
    <3> QED
      BY <3>1, <3>2
  <2>7. w.client
    BY <1>1, <1>4, <2>1, <2>5 DEF SocksInv
  <2>8. ~w.late => w.down = <<>> /\ (w.server => thread[c].pc = "recv" /\ w.up = <<>>)
    BY <1>1, <1>4, <2>1, <2>5 DEF FlowInv
  <2>9. w.server <=> thread[c].pc # "none"
    BY <2>1, <2>5 DEF ServerInv, ThreadInv
  <2>10. ~wire'[c].late => /\ wire'[c].down = <<>>
                           /\ \/ thread'[c].pc = "none"
                              \/ thread'[c].pc = "recv" /\ wire'[c].up = <<q.call>>
    <3>1. Append(<<>>, call) = <<call>>
      OBVIOUS
    <3> QED
      BY <1>1, <2>4, <2>6, <2>8, <2>9, <3>1
  <2>11. (FlowInv(k) /\ AskedInv(k) /\ DoneInv(k))'
    BY <1>1, <2>1, <2>3, <2>4, <2>10, SentKeeps
  <2>12. OwnSock(k)
    <3>1. /\ client'[k].sock = c /\ client'[k].pc = "recv" /\ client'[k].call # "none"
          /\ client'[k].ok # "good" /\ client[k].sock = c /\ wire'[c].client
      BY <1>4, <2>3, <2>4, <2>6, <2>7
    <3> QED
      BY <2>1, <3>1 DEF OwnSock
  <2>13. Others(k)
    <3>1. ASSUME NEW l \in Clients \ {k}, client[l].sock # "none"
          PROVE  wire'[client[l].sock] = wire[client[l].sock]
      <4>1. client[l].sock \in Conns /\ client[l].sock # c
        BY <1>1, <1>4, <2>1, <3>1 DEF NisTypeOK, Caller, SocksInv
      <4> QED
        BY <2>6, <4>1
    <3> QED
      BY <1>1, <2>3, <3>1 DEF Others
  <2> QED
    BY <2>11, <2>12, <2>13, ClientStep
<1>8. CASE /\ client' = [client EXCEPT ![k] =
                 IF r.tries > 1 THEN [r EXCEPT !.tries = @ - 1, !.sock = "none"]
                 ELSE [r EXCEPT !.pc = "idle", !.ok = "failed", !.sock = "none"]]
           /\ wire' = Shut(k, wire)
  <2>1. PICK q : q = IF r.tries > 1 THEN [r EXCEPT !.tries = @ - 1, !.sock = "none"]
                     ELSE [r EXCEPT !.pc = "idle", !.ok = "failed", !.sock = "none"]
    OBVIOUS
  <2>2. q.sock = "none" /\ q.pc # "recv" /\ q.ok # "good" /\ q.call # "none"
    <3>1. DOMAIN r = {"pc", "call", "sock", "tries", "got", "ok", "since", "trims"}
      BY <1>2 DEF Fresh, Idle
    <3> QED
      BY <1>3, <2>1, <3>1
  <2>3. PICK w \in [Conns -> Connection] : w = wire
    BY <1>1 DEF NisTypeOK
  <2>4. wire' = Shut(k, w)
    BY <1>8, <2>3
  <2>5. \A b \in Conns : b # client[k].sock => wire'[b] = wire[b]
    BY <1>1, <2>3, <2>4, ShutIs
  <2>6. client' = [client EXCEPT ![k] = q]
    BY <1>8, <2>1
  <2> QED
    BY <1>1, <2>2, <2>5, <2>6, RestKeeps
<1> QED
  BY <1>2, <1>4, <1>6, <1>7, <1>8 DEF Ask

(* A connection is opened, and the question sent; or nobody answers.       *)
LEMMA NetOpenKeeps ==
    ASSUME ServerInv, NisTypeOK', ClientsInv, NEW k \in Clients, net_open(k)
    PROVE  ClientsInv'
<1>1. /\ NisTypeOK /\ SocksInv /\ client[k].pc = "open" /\ client[k].sock = "none"
      /\ client[k].ok # "good" /\ client[k].call # "none"
      /\ UNCHANGED <<ups, eventfile, trims, largebuf>>
  BY DEF ServerInv, ClientsInv, SocksInv, net_open, daemonVars
<1>2. CASE Return(k, wire, "failed", FALSE) /\ UNCHANGED thread
  <2>1. PICK w \in [Conns -> Connection] : w = wire
    BY <1>1 DEF NisTypeOK
  <2>2. Return(k, w, "failed", FALSE) /\ \A b \in Conns : w[b] = wire[b]
    BY <1>2, <2>1
  <2> QED
    BY <1>1, <1>2, <2>2, ReturnKeeps
<1>3. ASSUME NEW c \in Conns, NEW allowed \in BOOLEAN, ~wire[c].client, ~wire[c].server,
             Sent(k, client[k], c, [wire EXCEPT ![c] = [Unused EXCEPT !.client = TRUE, !.server = allowed]]),
             do_server(c, allowed)
      PROVE  ClientsInv'
  <2>1. PICK r \in Caller : r = client[k]
    BY <1>1 DEF NisTypeOK
  <2>2. PICK q : q = [r EXCEPT !.pc = "recv", !.sock = c, !.got = <<>>, !.trims = trims,
                               !.since = IF r.call = "status" THEN ups.linev ELSE Len(eventfile)]
    OBVIOUS
  <2>3. /\ client' = [client EXCEPT ![k] = q] /\ client'[k] = q
        /\ \A l \in Clients \ {k} : client'[l] = client[l]
    BY <1>1, <1>3, <2>1, <2>2 DEF Sent, NisTypeOK
  <2>4. /\ q.pc = "recv" /\ q.sock = c /\ q.got = <<>> /\ q.trims = trims /\ q.ok # "good"
        /\ q.call = r.call /\ q.call # "none"
        /\ q.since = (IF q.call = "status" THEN ups.linev ELSE Len(eventfile))
    BY <1>1, <2>1, <2>2 DEF Caller
  <2>5. PICK w : w = [wire EXCEPT ![c] = [Unused EXCEPT !.client = TRUE, !.server = allowed]]
    OBVIOUS
  <2>6. /\ w[c].down = <<>> /\ ~w[c].late /\ w[c].client /\ w[c].up = <<>> /\ w[c].server = allowed
        /\ \A b \in Conns : b # c => w[b] = wire[b]
        /\ w \in [Conns -> Connection]
    <3>1. PICK u : u = [Unused EXCEPT !.client = TRUE, !.server = allowed]
      OBVIOUS
    <3>2. /\ u.down = <<>> /\ u.late = FALSE /\ u.client = TRUE /\ u.up = <<>> /\ u.server = allowed
          /\ u \in Connection
      <4>1. <<>> \in Seq(Msgs) /\ <<>> \in Seq({"status", "events"})
        BY EmptySeq
      <4> QED
        BY <3>1, <4>1 DEF Unused, Connection
    <3> QED
      BY <1>1, <2>5, <3>1, <3>2 DEF NisTypeOK
  <2>7. wire' = IF w[c].server THEN [w EXCEPT ![c].up = Append(@, r.call)] ELSE w
    BY <1>3, <2>1, <2>5 DEF Sent
  <2>8. /\ wire'[c].down = <<>> /\ wire'[c].client
        /\ allowed => wire'[c].up = <<r.call>>
        /\ \A b \in Conns : b # c => wire'[b] = wire[b]
    <3>1. CASE allowed
      <4>1. wire' = [w EXCEPT ![c].up = Append(@, r.call)]
        BY <2>6, <2>7, <3>1
      <4>2. wire'[c] = [w[c] EXCEPT !.up = Append(@, r.call)] /\ \A b \in Conns : b # c => wire'[b] = w[b]
        BY <2>6, <4>1
      <4>3. Append(<<>>, r.call) = <<r.call>>
        OBVIOUS
      <4> QED
        BY <2>6, <4>2, <4>3 DEF Connection
    <3>2. CASE ~allowed
      BY <2>6, <2>7, <3>2
    <3> QED
      BY <3>1, <3>2
  <2>9. /\ thread'[c].pc = IF allowed THEN "recv" ELSE "none"
        /\ \A b \in Conns : b # c => thread'[b] = thread[b]
    BY <1>1, <1>3 DEF do_server, NoThread, NisTypeOK
  <2>10. (FlowInv(k) /\ AskedInv(k) /\ DoneInv(k))'
    <3>1. /\ wire'[c].down = <<>>
          /\ \/ thread'[c].pc = "none"
             \/ thread'[c].pc = "recv" /\ wire'[c].up = <<q.call>>
      BY <2>4, <2>8, <2>9
    <3> QED
      BY <1>1, <2>3, <2>4, <3>1, SentKeeps
  <2>11. OwnSock(k)
    <3>1. /\ client'[k].sock = c /\ client'[k].pc = "recv" /\ client'[k].call # "none"
          /\ client'[k].ok # "good" /\ ~wire[c].client /\ wire'[c].client /\ c # "none"
      BY <1>3, <2>3, <2>4, <2>8, Sizes
    <3> QED
      BY <3>1 DEF OwnSock
  <2>12. Others(k)
    <3>1. ASSUME NEW l \in Clients \ {k}, client[l].sock # "none"
          PROVE  /\ wire'[client[l].sock] = wire[client[l].sock]
                 /\ thread'[client[l].sock] = thread[client[l].sock]
      <4>1. client[l].sock \in Conns /\ client[l].sock # c
        <5>1. PICK o \in Conns : o = client[l].sock
          <6>1. PICK other \in Caller : other = client[l]
            BY <1>1, <3>1 DEF NisTypeOK
          <6>2. other.sock \in Conns
            BY <3>1, <6>1 DEF Caller
          <6> QED
            BY <6>1, <6>2
        <5>2. wire[o].client
          BY <1>1, <3>1, <5>1 DEF SocksInv
        <5> QED
          BY <1>3, <5>1, <5>2
      <4> QED
        BY <2>8, <2>9, <4>1
    <3> QED
      BY <1>1, <2>3, <3>1 DEF Others
  <2> QED
    BY <2>10, <2>11, <2>12, ClientStep
<1> QED
  BY <1>2, <1>3 DEF net_open

LEMMA CloseTrayKeeps ==
    ASSUME ServerInv, NisTypeOK', ClientsInv, NEW k \in Clients, CloseTray(k)
    PROVE  ClientsInv'
<1>1. /\ NisTypeOK /\ UNCHANGED <<ups, eventfile, trims, largebuf, thread>>
  BY DEF ServerInv, CloseTray, daemonVars
<1>2. PICK w \in [Conns -> Connection] : w = wire
  BY <1>1 DEF NisTypeOK
<1>3. wire' = Shut(k, w) /\ client' = [client EXCEPT ![k] = Idle]
  BY <1>2 DEF CloseTray
<1>4. \A b \in Conns : b # client[k].sock => wire'[b] = wire[b]
  BY <1>1, <1>2, <1>3, ShutIs
<1>5. Idle.pc = "idle" /\ Idle.ok = "none" /\ Idle.sock = "none"
  BY DEF Idle
<1> QED
  BY <1>1, <1>3, <1>4, <1>5, RestKeeps

---------------------------------------------------------------------------
(* The device thread, and the end of the daemon.                           *)
LEMMA DeviceKeeps ==
    ASSUME ServerInv, NisTypeOK', ClientsInv, DeviceStep
    PROVE  ClientsInv'
<1>1. NisTypeOK /\ UNCHANGED <<thread, wire, client, largebuf>>
  BY DEF ServerInv, DeviceStep, write_lock, StoreStatus, StoreLinev, log_event, TrimRead, TrimTruncate, TrimWrite
<1>2. Onward
  <2>1. CASE UNCHANGED <<ups, eventfile, trims>>
    BY <1>1, <2>1, Still
  <2>2. CASE StoreStatus \/ StoreLinev
    <3>1. ups.linev <= ups'.linev /\ UNCHANGED <<eventfile, trims>>
      <4>1. ups.linev \in Nat
        BY <1>1, Lengths
      <4>2. CASE StoreStatus
        BY <1>1, <4>1, <4>2 DEF StoreStatus, NisTypeOK
      <4>3. CASE StoreLinev
        BY <1>1, <4>1, <4>3 DEF StoreLinev, NisTypeOK
      <4> QED
        BY <2>2, <4>2, <4>3
    <3> QED
      BY <1>1, <3>1, Lengths DEF Onward
  <2>3. CASE log_event
    <3>1. eventfile \in Seq(Nat) /\ eventfile' = Append(eventfile, Newest + logged) /\ Newest + logged \in Nat
      BY <1>1, <2>3, Sizes DEF log_event, NisTypeOK, Newest
    <3>2. Len(eventfile) <= Len(eventfile') /\ \A j \in 1 .. Len(eventfile) : eventfile'[j] = eventfile[j]
      BY <3>1
    <3> QED
      BY <1>1, <2>3, <3>2, Lengths DEF Onward, log_event
  <2>4. CASE TrimTruncate
    <3>1. trims \in Nat /\ trims' = trims + 1 /\ ups' = ups
      BY <1>1, <2>4 DEF TrimTruncate, NisTypeOK
    <3> QED
      BY <1>1, <3>1, Lengths DEF Onward
  <2>5. CASE TrimWrite
    <3>1. /\ eventfile \in Seq(Nat) /\ dev.buf \in Seq(Nat) /\ eventfile' = eventfile \o dev.buf
          /\ trims' = trims /\ ups' = ups
      BY <1>1, <2>5 DEF TrimWrite, NisTypeOK
    <3>2. /\ Len(eventfile) \in Nat /\ Len(dev.buf) \in Nat
          /\ Len(eventfile') = Len(eventfile) + Len(dev.buf)
          /\ \A j \in 1 .. Len(eventfile) + Len(dev.buf) :
                eventfile'[j] = IF j <= Len(eventfile) THEN eventfile[j] ELSE dev.buf[j - Len(eventfile)]
      BY <3>1, ConcatProperties, LenProperties
    <3>3. Len(eventfile) <= Len(eventfile') /\ \A j \in 1 .. Len(eventfile) : eventfile'[j] = eventfile[j]
      BY <3>2
    <3> QED
      BY <1>1, <3>1, <3>3, Lengths DEF Onward
  <2> QED
    BY <2>1, <2>2, <2>3, <2>4, <2>5 DEF DeviceStep, write_lock, TrimRead
<1>3. ASSUME NEW k \in Clients PROVE FlowInv(k)' /\ AskedInv(k)' /\ DoneInv(k)'
  BY <1>1, <1>2, FlowFrame DEF ClientsInv
<1>4. SocksInv'
  BY <1>1 DEF ClientsInv, SocksInv
<1> QED
  BY <1>3, <1>4 DEF ClientsInv

LEMMA StopKeeps ==
    ASSUME ServerInv, NisTypeOK', ClientsInv, StopServing
    PROVE  ClientsInv'
<1>1. NisTypeOK /\ Onward /\ client' = client
  BY Still DEF ServerInv, StopServing
<1>2. ASSUME NEW c \in Conns
      PROVE  /\ thread'[c].pc = "none" /\ wire'[c].up = <<>> /\ ~wire'[c].server
             /\ wire'[c].down = wire[c].down /\ wire'[c].late = wire[c].late
             /\ wire'[c].client = wire[c].client
  <2>1. PICK w \in Connection : w = wire[c]
    BY <1>1 DEF NisTypeOK
  <2>2. wire'[c] = [w EXCEPT !.server = FALSE, !.up = <<>>] /\ thread'[c] = NoThread
    BY <2>1 DEF StopServing
  <2> QED
    BY <2>1, <2>2 DEF NoThread, Connection
<1>3. \A k \in Clients : client[k].sock \in Conns \cup {"none"} /\ client[k] \in Caller
  BY <1>1 DEF NisTypeOK, Caller
<1>4. SocksInv'
  BY <1>1, <1>2, <1>3 DEF ClientsInv, SocksInv
<1>5. ASSUME NEW k \in Clients PROVE FlowInv(k)' /\ AskedInv(k)' /\ DoneInv(k)'
  <2>1. FlowInv(k) /\ AskedInv(k) /\ DoneInv(k) /\ SocksInv
    BY DEF ClientsInv
  <2>2. AskedInv(k)' /\ DoneInv(k)'
    BY <1>1, <2>1, ClientStays
  <2>3. PICK r \in Caller : r = client[k]
    BY <1>3
  <2>4. CASE r.sock = "none"
    <3>1. r.pc # "recv"
      BY <2>1, <2>3, <2>4 DEF SocksInv
    <3> QED
      BY <1>1, <2>2, <2>3, <2>4, <3>1 DEF FlowInv
  <2>5. CASE r.sock # "none"
    <3>1. PICK c \in Conns : c = r.sock
      BY <2>5 DEF Caller
    <3>2. ASSUME r.pc = "recv", ~wire'[c].late PROVE Flow(r, thread[c], wire[c], r.got \o wire[c].down)'
      <4>1. PICK s : s = r.got \o wire[c].down
        OBVIOUS
      <4>2. Whole(r, s)
        BY <1>2, <2>1, <2>3, <3>1, <3>2, <4>1 DEF FlowInv, Flow
      <4>3. Whole(r, s)'
        BY <1>1, <2>1, <2>3, <3>2, <4>2, WholeStays DEF AskedInv, Asked
      <4>4. s = r.got \o wire'[c].down /\ thread'[c].pc = "none"
        BY <1>2, <4>1
      <4> QED
        BY <4>3, <4>4 DEF Flow
    <3>3. ASSUME r.pc = "idle", ~wire'[c].late PROVE wire'[c].down = <<>> /\ ~wire'[c].server
      BY <1>2, <2>1, <2>3, <2>5, <3>1, <3>3 DEF FlowInv
    <3>4. client'[k] = r
      BY <1>1, <2>3
    <3>5. FlowInv(k)'
      BY <3>1, <3>2, <3>3, <3>4 DEF FlowInv
    <3> QED
      BY <2>2, <3>5
  <2> QED
    BY <2>4, <2>5
<1> QED
  BY <1>4, <1>5 DEF ClientsInv

---------------------------------------------------------------------------
(* The types, the locks and the threads.                                   *)
LEMMA ClientsServer ==
    ASSUME ServerInv, UNCHANGED <<daemonVars, thread, serving>>,
           wire' \in [Conns -> Connection], client' \in [Clients -> Caller],
           \A c \in Conns : wire'[c].server = wire[c].server
    PROVE  ServerInv'
<1>1. NisTypeOK' /\ LocksInv' /\ DeviceInv'
  BY DEF ServerInv, NisTypeOK, LocksInv, DeviceInv, TrimNeeded, daemonVars
<1>2. \A c \in Conns : ThreadInv(c)'
  BY DEF ServerInv, ThreadInv, daemonVars
<1> QED
  BY <1>1, <1>2 DEF ServerInv

LEMMA ShutType ==
    ASSUME NEW k \in Clients, client[k].sock \in Conns \cup {"none"}, NEW w \in [Conns -> Connection]
    PROVE  /\ Shut(k, w) \in [Conns -> Connection]
           /\ \A c \in Conns : Shut(k, w)[c].server = w[c].server
<1>1. <<>> \in Seq(Msgs)
  BY EmptySeq
<1>2. CASE client[k].sock = "none"
  BY <1>2 DEF Shut
<1>3. CASE client[k].sock # "none"
  <2>1. PICK b \in Conns : b = client[k].sock
    BY <1>3
  <2>2. PICK u : u = [w[b] EXCEPT !.client = FALSE, !.down = <<>>]
    OBVIOUS
  <2>3. u \in Connection /\ u.server = w[b].server
    BY <1>1, <2>2 DEF Connection
  <2>4. Shut(k, w) = [w EXCEPT ![b] = u]
    BY <1>3, <2>1, <2>2 DEF Shut, Connection
  <2> QED
    BY <2>3, <2>4
<1> QED
  BY <1>2, <1>3

LEMMA ReturnServer ==
    ASSUME ServerInv, NEW k \in Clients, UNCHANGED <<daemonVars, thread, serving>>,
           NEW w \in [Conns -> Connection], NEW ok \in {"good", "failed", "cut", "late"}, NEW shut \in BOOLEAN,
           Return(k, w, ok, shut), \A c \in Conns : w[c].server = wire[c].server
    PROVE  ServerInv'
<1>1. PICK r \in Caller : r = client[k] /\ client \in [Clients -> Caller]
  BY DEF ServerInv, NisTypeOK
<1>2. PICK q : q = [r EXCEPT !.pc = "idle", !.ok = ok, !.got = IF ok \in {"good", "cut"} THEN @ ELSE <<>>,
                             !.sock = IF shut THEN "none" ELSE @]
  OBVIOUS
<1>3. client' = [client EXCEPT ![k] = q]
  BY <1>1, <1>2 DEF Return
<1>4. q \in Caller
  <2>1. <<>> \in Seq(Msgs)
    BY EmptySeq
  <2>2. (IF ok \in {"good", "cut"} THEN r.got ELSE <<>>) \in Seq(Msgs) /\ (IF shut THEN "none" ELSE r.sock) \in Conns \cup {"none"}
    BY <2>1 DEF Caller
  <2> QED
    BY <1>2, <2>2 DEF Caller
<1>5. client' \in [Clients -> Caller]
  BY <1>1, <1>3, <1>4
<1>6. wire' \in [Conns -> Connection] /\ \A c \in Conns : wire'[c].server = wire[c].server
  <2>1. r.sock \in Conns \cup {"none"}
    BY DEF Caller
  <2>2. /\ Shut(k, w) \in [Conns -> Connection]
        /\ \A c \in Conns : Shut(k, w)[c].server = w[c].server
    BY <1>1, <2>1, ShutType
  <2>3. wire' = IF shut THEN Shut(k, w) ELSE w
    BY DEF Return
  <2> QED
    BY <2>2, <2>3
<1> QED
  BY <1>5, <1>6, ClientsServer

LEMMA AgainServer ==
    ASSUME ServerInv, NEW k \in Clients, UNCHANGED <<daemonVars, thread, serving>>,
           NEW w \in [Conns -> Connection], Again(k, w), \A c \in Conns : w[c].server = wire[c].server
    PROVE  ServerInv'
<1>1. PICK r \in Caller : r = client[k] /\ client \in [Clients -> Caller]
  BY DEF ServerInv, NisTypeOK
<1>2. CASE r.tries > 1
  <2>1. PICK q : q = [r EXCEPT !.pc = "open", !.tries = @ - 1, !.sock = "none"]
    OBVIOUS
  <2>2. client' = [client EXCEPT ![k] = q] /\ wire' = Shut(k, w)
    BY <1>1, <1>2, <2>1 DEF Again
  <2>3. q \in Caller
    <3>1. r.tries - 1 \in Nat /\ <<>> \in Seq(Msgs)
      BY <1>2, EmptySeq DEF Caller
    <3> QED
      BY <2>1, <3>1 DEF Caller
  <2>4. r.sock \in Conns \cup {"none"}
    BY DEF Caller
  <2>5. wire' \in [Conns -> Connection] /\ \A c \in Conns : wire'[c].server = wire[c].server
    BY <1>1, <2>2, <2>4, ShutType
  <2>6. client' \in [Clients -> Caller]
    BY <1>1, <2>2, <2>3
  <2> QED
    BY <2>5, <2>6, ClientsServer
<1>3. CASE ~(r.tries > 1)
  <2>1. Return(k, w, "failed", TRUE)
    BY <1>1, <1>3 DEF Again
  <2> QED
    BY <2>1, ReturnServer
<1> QED
  BY <1>2, <1>3

LEMMA RecvEndsServer ==
    ASSUME ServerInv, NEW k \in Clients, UNCHANGED <<daemonVars, thread, serving>>,
           NEW w \in [Conns -> Connection], NEW negative \in BOOLEAN, NEW how \in {"good", "cut", "late"},
           RecvEnds(k, w, negative, how), \A c \in Conns : w[c].server = wire[c].server
    PROVE  ServerInv'
<1>1. CASE Update(k, w, negative, how)
  BY <1>1, ReturnServer, AgainServer DEF Update
<1>2. CASE GetEvents(k, w, negative, how)
  <2>1. PICK b : b = client[k].sock
    OBVIOUS
  <2>2. PICK v : v = [w EXCEPT ![b].late = @ \/ negative]
    OBVIOUS
  <2>3. v \in [Conns -> Connection] /\ \A c \in Conns : v[c].server = w[c].server
    <3>1. ASSUME b \in Conns PROVE v \in [Conns -> Connection] /\ v[b].server = w[b].server
      <4>1. PICK x : x = [w[b] EXCEPT !.late = @ \/ negative]
        OBVIOUS
      <4>2. x \in Connection /\ x.server = w[b].server
        BY <3>1, <4>1 DEF Connection
      <4>3. v = [w EXCEPT ![b] = x]
        BY <2>2, <4>1
      <4> QED
        BY <3>1, <4>2, <4>3
    <3>2. \A c \in Conns : c # b => v[c] = w[c]
      BY <2>2
    <3>3. b \notin Conns => v = w
      BY <2>2
    <3> QED
      BY <3>1, <3>2, <3>3
  <2>4. Return(k, v, how, FALSE)
    BY <1>2, <2>1, <2>2 DEF GetEvents
  <2> QED
    BY <2>3, <2>4, ReturnServer
<1>3. CASE fetch_data(k, w, negative, how) \/ fetch_events(k, w, negative, how)
  <2>1. PICK ok : ok = IF negative THEN "failed" ELSE how
    OBVIOUS
  <2>2. Return(k, w, ok, TRUE)
    BY <1>3, <2>1 DEF fetch_data, fetch_events
  <2> QED
    BY <2>1, <2>2, ReturnServer
<1> QED
  BY <1>1, <1>2, <1>3 DEF RecvEnds

LEMMA RecvServer ==
    ASSUME ServerInv, NEW k \in Clients, client[k].sock \in Conns, net_recv(k)
    PROVE  ServerInv'
<1>1. UNCHANGED <<daemonVars, thread, serving>>
  BY DEF net_recv
<1>2. PICK c \in Conns : c = client[k].sock
  OBVIOUS
<1>3. PICK w \in Connection : w = wire[c]
  BY DEF ServerInv, NisTypeOK
<1>4. PICK r \in Caller : r = client[k] /\ client \in [Clients -> Caller]
  BY DEF ServerInv, NisTypeOK
<1>5. PICK read : read = [wire EXCEPT ![c].down = Tail(@)]
  OBVIOUS
<1>6. PICK v \in [Conns -> Connection] : v = wire
  BY DEF ServerInv, NisTypeOK
<1>7. ASSUME w.down # <<>>
      PROVE  /\ read \in [Conns -> Connection] /\ \A b \in Conns : read[b].server = wire[b].server
             /\ Head(w.down) \in Msgs
  <2>1. w.down \in Seq(Msgs)
    BY DEF Connection
  <2>2. Tail(w.down) \in Seq(Msgs) /\ Head(w.down) \in Msgs
    BY <1>7, <2>1, HeadTailProperties
  <2>3. PICK u : u = [w EXCEPT !.down = Tail(@)]
    OBVIOUS
  <2>4. u \in Connection /\ u.server = w.server
    BY <2>2, <2>3 DEF Connection
  <2>5. read = [v EXCEPT ![c] = u]
    BY <1>3, <1>5, <1>6, <2>3
  <2> QED
    BY <1>3, <1>6, <2>2, <2>4, <2>5
<1>8. CASE /\ w.down # <<>> /\ client' = [client EXCEPT ![k].got = Append(@, Head(w.down))]
           /\ wire' = read
  <2>1. PICK q : q = [r EXCEPT !.got = Append(@, Head(w.down))]
    OBVIOUS
  <2>2. q \in Caller
    <3>1. r.got \in Seq(Msgs)
      BY DEF Caller
    <3>2. Append(r.got, Head(w.down)) \in Seq(Msgs)
      BY <1>7, <1>8, <3>1
    <3> QED
      BY <2>1, <3>2 DEF Caller
  <2>3. client' \in [Clients -> Caller]
    BY <1>4, <1>8, <2>1, <2>2
  <2> QED
    BY <1>1, <1>7, <1>8, <2>3, ClientsServer
<1>9. CASE w.down # <<>> /\ RecvEnds(k, read, FALSE, IF w.late THEN "late" ELSE "good")
  <2>1. PICK how : how = IF w.late THEN "late" ELSE "good"
    OBVIOUS
  <2>2. how \in {"good", "cut", "late"} /\ RecvEnds(k, read, FALSE, how)
    BY <1>9, <2>1
  <2> QED
    BY <1>1, <1>7, <1>9, <2>2, RecvEndsServer
<1>10. CASE RecvEnds(k, wire, FALSE, IF w.late THEN "late" ELSE "cut")
  <2>1. PICK how : how = IF w.late THEN "late" ELSE "cut"
    OBVIOUS
  <2>2. how \in {"good", "cut", "late"} /\ RecvEnds(k, v, FALSE, how)
    BY <1>6, <1>10, <2>1
  <2> QED
    BY <1>1, <1>6, <2>2, RecvEndsServer
<1>11. CASE RecvEnds(k, wire, TRUE, "late")
  <2>1. RecvEnds(k, v, TRUE, "late")
    BY <1>6, <1>11
  <2> QED
    BY <1>1, <1>6, <2>1, RecvEndsServer
<1> QED
  BY <1>2, <1>3, <1>5, <1>8, <1>9, <1>10, <1>11 DEF net_recv

LEMMA SentType ==
    ASSUME NisTypeOK, NEW k \in Clients, NEW r \in Caller, r.call \in {"status", "events"}, NEW c \in Conns,
           NEW w \in [Conns -> Connection], Sent(k, r, c, w)
    PROVE  /\ client' \in [Clients -> Caller] /\ wire' \in [Conns -> Connection]
           /\ \A b \in Conns : wire'[b].server = w[b].server
<1>1. PICK q : q = [r EXCEPT !.pc = "recv", !.sock = c, !.got = <<>>, !.trims = trims,
                             !.since = IF r.call = "status" THEN ups.linev ELSE Len(eventfile)]
  OBVIOUS
<1>2. client' = [client EXCEPT ![k] = q] /\ wire' = IF w[c].server THEN [w EXCEPT ![c].up = Append(@, r.call)] ELSE w
  BY <1>1 DEF Sent
<1>3. q \in Caller
  <2>1. (IF r.call = "status" THEN ups.linev ELSE Len(eventfile)) \in Nat /\ trims \in Nat /\ <<>> \in Seq(Msgs)
    BY Lengths, EmptySeq
  <2> QED
    BY <1>1, <2>1 DEF Caller
<1>4. client' \in [Clients -> Caller]
  BY <1>2, <1>3 DEF NisTypeOK
<1>5. CASE w[c].server
  <2>1. PICK u : u = [w[c] EXCEPT !.up = Append(@, r.call)]
    OBVIOUS
  <2>2. u \in Connection /\ u.server = w[c].server
    <3>1. w[c].up \in Seq({"status", "events"})
      BY DEF Connection
    <3>2. Append(w[c].up, r.call) \in Seq({"status", "events"})
      BY <3>1
    <3> QED
      BY <2>1, <3>2 DEF Connection
  <2>3. wire' = [w EXCEPT ![c] = u]
    BY <1>2, <1>5, <2>1
  <2> QED
    BY <1>4, <2>2, <2>3
<1>6. CASE ~w[c].server
  BY <1>2, <1>4, <1>6
<1> QED
  BY <1>5, <1>6

LEMMA FreshType ==
    ASSUME NEW k \in Clients, client[k] \in Caller, NEW call \in {"status", "events"}
    PROVE  Fresh(k, call) \in Caller /\ Fresh(k, call).call = call
<1>1. <<>> \in Seq(Msgs) /\ (IF Tray(k) /\ call = "status" THEN 2 ELSE 1) \in Nat
  BY EmptySeq
<1>2. client[k].sock \in Conns \cup {"none"}
  BY DEF Caller
<1> QED
  BY <1>1, <1>2 DEF Fresh, Idle, Caller

LEMMA AskServer ==
    ASSUME ServerInv, NEW k \in Clients, NEW call \in {"status", "events"}, Ask(k, call)
    PROVE  ServerInv'
<1>1. UNCHANGED <<daemonVars, thread, serving>> /\ NisTypeOK
  BY DEF Ask, ServerInv
<1>2. PICK r \in Caller : r = Fresh(k, call) /\ r.call = call
  <2>1. client[k] \in Caller
    BY <1>1 DEF NisTypeOK
  <2> QED
    BY <2>1, FreshType
<1>3. PICK c \in Conns \cup {"none"} : c = client[k].sock
  BY <1>1 DEF NisTypeOK, Caller
<1>4. PICK w \in [Conns -> Connection] : w = wire
  BY <1>1 DEF NisTypeOK
<1>5. CASE client' = [client EXCEPT ![k] = r] /\ UNCHANGED wire
  <2>1. client' \in [Clients -> Caller]
    BY <1>1, <1>2, <1>5 DEF NisTypeOK
  <2> QED
    BY <1>1, <1>4, <1>5, <2>1, ClientsServer
<1>6. CASE c # "none" /\ Sent(k, r, c, w)
  <2>1. c \in Conns
    BY <1>3, <1>6
  <2> QED
    BY <1>1, <1>2, <1>4, <1>6, <2>1, SentType, ClientsServer
<1>7. CASE /\ client' = [client EXCEPT ![k] =
                 IF r.tries > 1 THEN [r EXCEPT !.tries = @ - 1, !.sock = "none"]
                 ELSE [r EXCEPT !.pc = "idle", !.ok = "failed", !.sock = "none"]]
           /\ wire' = Shut(k, w)
  <2>1. PICK q : q = IF r.tries > 1 THEN [r EXCEPT !.tries = @ - 1, !.sock = "none"]
                     ELSE [r EXCEPT !.pc = "idle", !.ok = "failed", !.sock = "none"]
    OBVIOUS
  <2>2. q \in Caller
    <3>1. CASE r.tries > 1
      <4>1. r.tries - 1 \in Nat
        BY <3>1 DEF Caller
      <4> QED
        BY <2>1, <3>1, <4>1 DEF Caller
    <3>2. CASE ~(r.tries > 1)
      BY <2>1, <3>2 DEF Caller
    <3> QED
      BY <3>1, <3>2
  <2>3. client' \in [Clients -> Caller]
    BY <1>1, <1>7, <2>1, <2>2 DEF NisTypeOK
  <2> QED
    BY <1>1, <1>3, <1>4, <1>7, <2>3, ShutType, ClientsServer
<1> QED
  BY <1>2, <1>3, <1>4, <1>5, <1>6, <1>7 DEF Ask

LEMMA CloseTrayServer ==
    ASSUME ServerInv, NEW k \in Clients, CloseTray(k)
    PROVE  ServerInv'
<1>1. UNCHANGED <<daemonVars, thread, serving>> /\ NisTypeOK
  BY DEF CloseTray, ServerInv
<1>2. Idle \in Caller
  <2>1. <<>> \in Seq(Msgs)
    BY EmptySeq
  <2> QED
    BY <2>1 DEF Idle, Caller
<1>3. client' \in [Clients -> Caller]
  BY <1>1, <1>2 DEF CloseTray, NisTypeOK
<1>4. PICK w \in [Conns -> Connection] : w = wire
  BY <1>1 DEF NisTypeOK
<1>5. client[k].sock \in Conns \cup {"none"} /\ wire' = Shut(k, w)
  BY <1>1, <1>4 DEF CloseTray, NisTypeOK, Caller
<1> QED
  BY <1>1, <1>3, <1>4, <1>5, ShutType, ClientsServer

LEMMA NetOpenServer ==
    ASSUME ServerInv, NEW k \in Clients, client[k].call # "none", net_open(k)
    PROVE  ServerInv'
<1>1. UNCHANGED <<daemonVars, asks, serving>> /\ NisTypeOK
  BY DEF net_open, ServerInv
<1>2. PICK v \in [Conns -> Connection] : v = wire
  BY <1>1 DEF NisTypeOK
<1>3. CASE Return(k, wire, "failed", FALSE) /\ UNCHANGED thread
  <2>1. Return(k, v, "failed", FALSE)
    BY <1>2, <1>3
  <2> QED
    BY <1>1, <1>2, <1>3, <2>1, ReturnServer
<1>4. ASSUME NEW c \in Conns, NEW allowed \in BOOLEAN, serving, ~wire[c].client, ~wire[c].server,
             Sent(k, client[k], c, [wire EXCEPT ![c] = [Unused EXCEPT !.client = TRUE, !.server = allowed]]),
             do_server(c, allowed)
      PROVE  ServerInv'
  <2>1. PICK r \in Caller : r = client[k]
    BY <1>1 DEF NisTypeOK
  <2>2. PICK u : u = [Unused EXCEPT !.client = TRUE, !.server = allowed]
    OBVIOUS
  <2>3. u \in Connection /\ u.server = allowed
    <3>1. <<>> \in Seq(Msgs) /\ <<>> \in Seq({"status", "events"})
      BY EmptySeq
    <3> QED
      BY <2>2, <3>1 DEF Unused, Connection
  <2>4. PICK w \in [Conns -> Connection] : w = [v EXCEPT ![c] = u]
    BY <2>3
  <2>5. w[c].server = allowed /\ \A b \in Conns : b # c => w[b] = wire[b]
    BY <1>2, <2>3, <2>4
  <2>6. Sent(k, r, c, w) /\ r.call \in {"status", "events"}
    BY <1>2, <1>4, <2>1, <2>2, <2>4 DEF Caller
  <2>7. /\ client' \in [Clients -> Caller] /\ wire' \in [Conns -> Connection]
        /\ \A b \in Conns : wire'[b].server = w[b].server
    BY <1>1, <2>6, SentType
  <2>8. thread[c].pc = "none"
    BY <1>4 DEF ServerInv, ThreadInv
  <2>9. PICK t \in Handler : t = IF allowed THEN [NoThread EXCEPT !.pc = "recv"] ELSE NoThread
    BY DEF NoThread, Handler, Places
  <2>10. t.pc = (IF allowed THEN "recv" ELSE "none") /\ thread' = [thread EXCEPT ![c] = t]
    BY <1>4, <2>9 DEF do_server, NoThread
  <2>11. /\ thread'[c] = t /\ \A b \in Conns : b # c => thread'[b] = thread[b]
         /\ thread' \in [Conns -> Handler]
    BY <1>1, <2>10 DEF NisTypeOK
  <2>12. NisTypeOK'
    BY <1>1, <2>7, <2>11 DEF NisTypeOK, daemonVars
  <2>13. LocksInv'
    <3>1. ASSUME NEW b \in Conns
          PROVE  /\ thread'[b].pc \in Buffering <=> thread[b].pc \in Buffering
                 /\ thread'[b].pc \in {"words", "flags"} <=> thread[b].pc \in {"words", "flags"}
      <4>1. CASE b = c
        BY <2>8, <2>10, <2>11, <4>1 DEF Buffering
      <4>2. CASE b # c
        BY <2>11, <4>2
      <4> QED
        BY <4>1, <4>2
    <3> QED
      BY <1>1, <3>1 DEF ServerInv, LocksInv, daemonVars
  <2>14. ASSUME NEW b \in Conns PROVE ThreadInv(b)'
    <3>1. CASE b = c
      BY <2>5, <2>7, <2>10, <2>11, <3>1 DEF ThreadInv
    <3>2. CASE b # c
      <4>1. wire'[b].server = wire[b].server /\ thread'[b] = thread[b]
        BY <2>5, <2>7, <2>11, <3>2
      <4> QED
        BY <1>1, <4>1 DEF ServerInv, ThreadInv, daemonVars
    <3> QED
      BY <3>1, <3>2
  <2> QED
    BY <1>1, <1>4, <2>12, <2>13, <2>14 DEF ServerInv, DeviceInv, TrimNeeded, daemonVars
<1> QED
  BY <1>3, <1>4 DEF net_open

LEMMA StopServer == ASSUME ServerInv, StopServing PROVE ServerInv'
<1>1. NisTypeOK
  BY DEF ServerInv
<1>2. NoThread \in Handler /\ NoThread.pc = "none"
  BY DEF NoThread, Handler, Places
<1>3. ASSUME NEW c \in Conns
      PROVE  thread'[c] = NoThread /\ wire'[c] \in Connection /\ ~wire'[c].server
  <2>1. PICK w \in Connection : w = wire[c]
    BY <1>1 DEF NisTypeOK
  <2>2. wire'[c] = [w EXCEPT !.server = FALSE, !.up = <<>>] /\ thread'[c] = NoThread
    BY <2>1 DEF StopServing
  <2>3. <<>> \in Seq({"status", "events"})
    BY EmptySeq
  <2> QED
    BY <2>2, <2>3 DEF Connection
<1>4. NisTypeOK'
  <2>1. thread' \in [Conns -> Handler] /\ wire' \in [Conns -> Connection]
    <3>1. thread' = [c \in Conns |-> thread'[c]] /\ wire' = [c \in Conns |-> wire'[c]]
      BY DEF StopServing
    <3> QED
      BY <1>2, <1>3, <3>1
  <2>2. <<>> \in Seq(Msgs) /\ <<>> \in Seq(Nat)
    BY EmptySeq
  <2> QED
    BY <1>1, <2>1, <2>2 DEF NisTypeOK, StopServing
<1>5. LocksInv'
  <2>1. \A c \in Conns : c # "free"
    BY Sizes
  <2>2. upslock' = "free" /\ mutex' = "free" /\ dev'.pc = "idle"
    BY DEF StopServing
  <2> QED
    BY <1>2, <1>3, <2>1, <2>2 DEF LocksInv, Buffering
<1>6. DeviceInv'
  BY DEF DeviceInv, StopServing
<1>7. \A c \in Conns : ThreadInv(c)'
  BY <1>2, <1>3 DEF ThreadInv
<1> QED
  BY <1>3, <1>4, <1>5, <1>6, <1>7 DEF ServerInv

(* The device thread.                                                      *)
LEMMA TailType ==
    ASSUME NisTypeOK, TrimNeeded
    PROVE  Tail80 \in Seq(Nat)
<1> DEFINE l == Len(eventfile)
           e == (EventMax * 80) \div 100
<1>1. eventfile \in Seq(Nat) /\ l \in Nat /\ EventMax \in Nat /\ l > EventMax
  BY Lengths, Sizes DEF NisTypeOK, TrimNeeded
<1>2. e \in Nat /\ e <= EventMax
  BY <1>1
<1> HIDE DEF e, l
<1>3. l - e + 1 \in Int /\ \A i \in l - e + 1 .. l : i \in 1 .. l
  BY <1>1, <1>2
<1>4. \A i \in l - e + 1 .. l : eventfile[i] \in Nat
  BY <1>1, <1>3, ElementOfSeq DEF l
<1>5. SubSeq(eventfile, l - e + 1, l) \in Seq(Nat)
  BY <1>1, <1>3, <1>4, SubSeqProperties
<1> QED
  BY <1>5 DEF Tail80, l, e

LEMMA DeviceServer == ASSUME ServerInv, DeviceStep PROVE ServerInv'
<1>1. NisTypeOK /\ LocksInv /\ DeviceInv /\ serving
  BY DEF ServerInv, DeviceStep, write_lock, StoreStatus, StoreLinev, log_event, TrimRead, TrimTruncate, TrimWrite
<1>2. UNCHANGED <<mutex, largebuf, busy, thread, wire, client, serving>>
  BY DEF DeviceStep, write_lock, StoreStatus, StoreLinev, log_event, TrimRead, TrimTruncate, TrimWrite
<1>3. \A c \in Conns : c # "free" /\ c # "device"
  BY Sizes
<1>4. PICK d : d = dev /\ d \in [pc : {"idle", "status", "linev", "read", "truncate", "write"}, buf : Seq(Nat)]
  BY <1>1 DEF NisTypeOK
<1>5. PICK u : u = ups /\ u \in [status : {Readings[n] : n \in 1..Len(Readings)}, linev : 1..Len(Readings)]
  BY <1>1 DEF NisTypeOK
<1>6. u.linev \in Nat /\ Len(Readings) \in Nat /\ 1 <= u.linev
  BY <1>5, Sizes
<1>7. ASSUME UNCHANGED ups \/ upslock = "device" PROVE \A c \in Conns : ThreadInv(c)'
  <2>1. SUFFICES ASSUME NEW c \in Conns PROVE ThreadInv(c)'
    OBVIOUS
  <2>2. ThreadInv(c)
    BY DEF ServerInv
  <2>3. CASE UNCHANGED ups
    BY <1>2, <2>2, <2>3 DEF ThreadInv
  <2>4. CASE upslock = "device"
    <3>1. thread[c].pc # "flags"
      BY <1>1, <1>3, <2>4 DEF LocksInv
    <3> QED
      BY <1>2, <2>2, <3>1 DEF ThreadInv
  <2> QED
    BY <1>7, <2>3, <2>4
<1>8. ASSUME NisTypeOK', LocksInv', DeviceInv', UNCHANGED ups \/ upslock = "device"
      PROVE  ServerInv'
  BY <1>2, <1>7, <1>8 DEF ServerInv
<1>9. ASSUME NEW pc \in {"status", "read"}, write_lock(pc), pc = "status" => ups.linev < Len(Readings),
             pc = "read" => TrimNeeded
      PROVE  ServerInv'
  <2>1. /\ UNCHANGED <<ups, eventfile, logged, trims>> /\ upslock = "free" /\ upslock' = "device"
        /\ d.pc = "idle" /\ dev' = [d EXCEPT !.pc = pc]
    BY <1>4, <1>9 DEF write_lock, MayLock
  <2>2. dev'.pc = pc /\ dev' \in [pc : {"idle", "status", "linev", "read", "truncate", "write"}, buf : Seq(Nat)]
    BY <1>4, <2>1
  <2>3. NisTypeOK'
    BY <1>1, <1>2, <2>1, <2>2 DEF NisTypeOK
  <2>4. LocksInv'
    BY <1>1, <1>2, <1>3, <2>1, <2>2 DEF LocksInv
  <2>5. DeviceInv'
    <3>1. ups.status = Readings[ups.linev]
      BY <1>1, <1>4, <2>1 DEF DeviceInv
    <3> QED
      BY <1>9, <2>1, <2>2, <3>1 DEF DeviceInv, TrimNeeded
  <2> QED
    BY <1>8, <2>1, <2>3, <2>4, <2>5
<1>10. CASE StoreStatus
  <2>1. /\ UNCHANGED <<upslock, eventfile, logged, trims>> /\ d.pc = "status" /\ u.linev < Len(Readings)
        /\ ups' = [u EXCEPT !.status = Readings[u.linev + 1]] /\ dev' = [d EXCEPT !.pc = "linev"]
    BY <1>4, <1>5, <1>10 DEF StoreStatus
  <2>2. u.linev + 1 \in 1 .. Len(Readings)
    BY <1>6, <2>1
  <2>3. /\ ups' \in [status : {Readings[n] : n \in 1..Len(Readings)}, linev : 1..Len(Readings)]
        /\ ups'.status = Readings[u.linev + 1] /\ ups'.linev = u.linev
    BY <1>5, <2>1, <2>2
  <2>4. dev'.pc = "linev" /\ dev' \in [pc : {"idle", "status", "linev", "read", "truncate", "write"}, buf : Seq(Nat)]
    BY <1>4, <2>1
  <2>5. NisTypeOK'
    BY <1>1, <1>2, <2>1, <2>3, <2>4 DEF NisTypeOK
  <2>6. upslock = "device"
    BY <1>1, <1>4, <2>1 DEF LocksInv
  <2>7. LocksInv'
    BY <1>1, <1>2, <2>1, <2>4, <2>6 DEF LocksInv
  <2>8. DeviceInv'
    BY <2>1, <2>3, <2>4 DEF DeviceInv
  <2> QED
    BY <1>8, <2>5, <2>6, <2>7, <2>8
<1>11. CASE StoreLinev
  <2>1. /\ UNCHANGED <<eventfile, logged, trims>> /\ d.pc = "linev" /\ upslock' = "free"
        /\ ups' = [u EXCEPT !.linev = @ + 1] /\ dev' = [d EXCEPT !.pc = "idle"]
    BY <1>4, <1>5, <1>11 DEF StoreLinev
  <2>2. u.linev < Len(Readings) /\ u.status = Readings[u.linev + 1]
    BY <1>1, <1>4, <1>5, <2>1 DEF DeviceInv
  <2>3. u.linev + 1 \in 1 .. Len(Readings)
    BY <1>6, <2>2
  <2>4. /\ ups' \in [status : {Readings[n] : n \in 1..Len(Readings)}, linev : 1..Len(Readings)]
        /\ ups'.status = Readings[u.linev + 1] /\ ups'.linev = u.linev + 1
    BY <1>5, <2>1, <2>2, <2>3
  <2>5. dev'.pc = "idle" /\ dev' \in [pc : {"idle", "status", "linev", "read", "truncate", "write"}, buf : Seq(Nat)]
    BY <1>4, <2>1
  <2>6. NisTypeOK'
    BY <1>1, <1>2, <2>1, <2>4, <2>5 DEF NisTypeOK
  <2>7. upslock = "device"
    BY <1>1, <1>4, <2>1 DEF LocksInv
  <2>8. LocksInv'
    BY <1>1, <1>2, <1>3, <2>1, <2>5, <2>7 DEF LocksInv
  <2>9. DeviceInv'
    BY <2>4, <2>5 DEF DeviceInv
  <2> QED
    BY <1>8, <2>6, <2>7, <2>8, <2>9
<1>12. CASE log_event
  <2>1. /\ UNCHANGED <<ups, upslock, trims, dev>> /\ logged' = logged + 1
        /\ eventfile' = Append(eventfile, Newest + logged)
    BY <1>12 DEF log_event
  <2>2. /\ eventfile \in Seq(Nat) /\ Newest + logged \in Nat /\ logged + 1 \in Nat
    BY <1>1, Sizes DEF NisTypeOK, Newest
  <2>3. eventfile' \in Seq(Nat) /\ Len(eventfile') = Len(eventfile) + 1 /\ Len(eventfile) \in Nat
    BY <2>1, <2>2
  <2>4. NisTypeOK'
    BY <1>1, <1>2, <2>1, <2>2, <2>3 DEF NisTypeOK
  <2>5. LocksInv'
    BY <1>1, <1>2, <2>1 DEF LocksInv
  <2>6. TrimNeeded => TrimNeeded'
    <3> DEFINE l == Len(eventfile)
               m == Len(eventfile')
    <3>1. l \in Nat /\ m = l + 1 /\ EventMax \in Nat
      BY <2>3, Sizes
    <3> HIDE DEF l, m
    <3>2. l > EventMax => m > EventMax
      BY <3>1
    <3> QED
      BY <3>2 DEF l, m, TrimNeeded
  <2>7. DeviceInv'
    BY <1>1, <1>2, <2>1, <2>6 DEF DeviceInv
  <2> QED
    BY <1>8, <2>1, <2>4, <2>5, <2>7
<1>13. CASE TrimRead
  <2>1. /\ UNCHANGED <<ups, upslock, eventfile, logged, trims>> /\ d.pc = "read"
        /\ dev' = [pc |-> "truncate", buf |-> Tail80]
    BY <1>4, <1>13 DEF TrimRead
  <2>2. Tail80 \in Seq(Nat)
    BY <1>1, <1>4, <2>1, TailType DEF DeviceInv
  <2>3. NisTypeOK'
    BY <1>1, <1>2, <2>1, <2>2 DEF NisTypeOK
  <2>4. LocksInv'
    BY <1>1, <1>2, <1>4, <2>1 DEF LocksInv
  <2>5. DeviceInv'
    BY <1>1, <1>2, <1>4, <2>1 DEF DeviceInv
  <2> QED
    BY <1>8, <2>1, <2>3, <2>4, <2>5
<1>14. CASE TrimTruncate
  <2>1. /\ UNCHANGED <<ups, upslock, logged>> /\ d.pc = "truncate" /\ eventfile' = <<>> /\ trims' = trims + 1
        /\ dev' = [d EXCEPT !.pc = "write"]
    BY <1>4, <1>14 DEF TrimTruncate
  <2>2. dev'.pc = "write" /\ dev' \in [pc : {"idle", "status", "linev", "read", "truncate", "write"}, buf : Seq(Nat)]
    BY <1>4, <2>1
  <2>3. <<>> \in Seq(Nat) /\ trims + 1 \in Nat
    BY <1>1, EmptySeq DEF NisTypeOK
  <2>4. NisTypeOK'
    BY <1>1, <1>2, <2>1, <2>2, <2>3 DEF NisTypeOK
  <2>5. LocksInv'
    BY <1>1, <1>2, <1>4, <2>1, <2>2 DEF LocksInv
  <2>6. DeviceInv'
    BY <1>1, <1>2, <1>4, <2>1, <2>2 DEF DeviceInv
  <2> QED
    BY <1>8, <2>1, <2>4, <2>5, <2>6
<1>15. CASE TrimWrite
  <2>1. /\ UNCHANGED <<ups, logged, trims>> /\ d.pc = "write" /\ upslock' = "free"
        /\ eventfile' = eventfile \o d.buf /\ dev' = [pc |-> "idle", buf |-> <<>>]
    BY <1>4, <1>15 DEF TrimWrite
  <2>2. eventfile' \in Seq(Nat)
    <3>1. eventfile \in Seq(Nat) /\ d.buf \in Seq(Nat)
      BY <1>1, <1>4 DEF NisTypeOK
    <3> QED
      BY <2>1, <3>1, ConcatProperties
  <2>3. <<>> \in Seq(Nat)
    BY EmptySeq
  <2>4. NisTypeOK'
    BY <1>1, <1>2, <2>1, <2>2, <2>3 DEF NisTypeOK
  <2>5. upslock = "device"
    BY <1>1, <1>4, <2>1 DEF LocksInv
  <2>6. LocksInv'
    BY <1>1, <1>2, <1>3, <2>1, <2>5 DEF LocksInv
  <2>7. DeviceInv'
    BY <1>1, <1>2, <1>4, <2>1 DEF DeviceInv
  <2> QED
    BY <1>8, <2>1, <2>4, <2>6, <2>7
<1> QED
  BY <1>9, <1>10, <1>11, <1>12, <1>13, <1>14, <1>15 DEF DeviceStep

(* A step of the thread of c: what it does to the locks.                   *)
LEMMA ThreadServer ==
    ASSUME ServerInv, serving, UNCHANGED <<ups, eventfile, logged, trims, dev, busy, client, serving>>,
           NEW c \in Conns, NEW u \in Handler, thread' = [thread EXCEPT ![c] = u],
           NEW v \in Connection, wire' = [wire EXCEPT ![c] = v], largebuf' \in Seq(Msgs),
           \/ mutex' = mutex /\ (u.pc \in Buffering <=> thread[c].pc \in Buffering)
           \/ mutex = "free" /\ mutex' = c /\ u.pc \in Buffering
           \/ mutex' = "free" /\ thread[c].pc \in Buffering /\ u.pc \notin Buffering,
           \/ upslock' = upslock /\ (u.pc \in {"words", "flags"} <=> thread[c].pc \in {"words", "flags"})
           \/ upslock = "free" /\ upslock' = c /\ u.pc \in {"words", "flags"}
           \/ upslock' = "free" /\ thread[c].pc \in {"words", "flags"} /\ u.pc \notin {"words", "flags"},
           largebuf' = largebuf \/ mutex' = c,
           ThreadInv(c)'
    PROVE  ServerInv'
<1>1. NisTypeOK /\ LocksInv /\ DeviceInv /\ \A b \in Conns : ThreadInv(b)
  BY DEF ServerInv
<1>2. \A b \in Conns : b # "free" /\ b # "device"
  BY Sizes
<1>3. /\ thread' \in [Conns -> Handler] /\ wire' \in [Conns -> Connection]
      /\ thread'[c] = u /\ wire'[c] = v
      /\ \A b \in Conns : b # c => thread'[b] = thread[b] /\ wire'[b] = wire[b]
  BY <1>1 DEF NisTypeOK
<1>4. NisTypeOK'
  <2>1. mutex' \in Conns \cup {"free"} /\ upslock' \in Conns \cup {"free", "device"}
    BY <1>1 DEF NisTypeOK
  <2> QED
    BY <1>1, <1>3, <2>1 DEF NisTypeOK
<1>5. \A b \in Conns : thread'[b].pc \in Buffering <=> mutex' = b
  <2>1. \A b \in Conns : thread[b].pc \in Buffering <=> mutex = b
    BY <1>1 DEF LocksInv
  <2>2. u.pc \in Buffering <=> mutex' = c
    BY <1>2, <2>1
  <2>3. ASSUME NEW b \in Conns, b # c PROVE mutex' = b <=> mutex = b
    BY <1>2, <2>1, <2>3
  <2> QED
    BY <1>3, <2>1, <2>2, <2>3
<1>6. /\ \A b \in Conns : thread'[b].pc \in {"words", "flags"} <=> upslock' = b
      /\ upslock' = "device" <=> upslock = "device"
  <2>1. \A b \in Conns : thread[b].pc \in {"words", "flags"} <=> upslock = b
    BY <1>1 DEF LocksInv
  <2>2. u.pc \in {"words", "flags"} <=> upslock' = c
    BY <1>2, <2>1
  <2>3. ASSUME NEW b \in Conns, b # c PROVE upslock' = b <=> upslock = b
    BY <1>2, <2>1, <2>3
  <2>4. upslock' = "device" <=> upslock = "device"
    BY <1>2, <2>1
  <2> QED
    BY <1>3, <2>1, <2>2, <2>3, <2>4
<1>7. LocksInv'
  BY <1>1, <1>5, <1>6 DEF LocksInv
<1>8. DeviceInv'
  BY <1>1 DEF DeviceInv, TrimNeeded
<1>9. ASSUME NEW b \in Conns PROVE ThreadInv(b)'
  <2>1. CASE b = c
    BY <2>1
  <2>2. CASE b # c
    <3>1. thread'[b] = thread[b] /\ wire'[b] = wire[b] /\ ThreadInv(b)
      BY <1>1, <1>3, <2>2
    <3>2. largebuf' = largebuf \/ thread[b].pc \notin Buffering
      BY <1>5, <2>2, <3>1
    <3> QED
      BY <3>1, <3>2 DEF ThreadInv, Buffering
  <2> QED
    BY <2>1, <2>2
<1> QED
  BY <1>3, <1>4, <1>7, <1>8, <1>9 DEF ServerInv

(* The connection of a thread that sends.                                  *)
LEMMA SendType ==
    ASSUME NisTypeOK, NEW c \in Conns, NEW m \in Msgs, net_send(c, m)
    PROVE  \E v \in Connection : wire' = [wire EXCEPT ![c] = v] /\ v.server = wire[c].server
<1>1. PICK w \in Connection : w = wire[c]
  BY DEF NisTypeOK
<1>2. PICK v : v = [w EXCEPT !.down = Append(@, m)]
  OBVIOUS
<1>3. v \in Connection /\ v.server = w.server
  <2>1. w.down \in Seq(Msgs)
    BY DEF Connection
  <2>2. Append(w.down, m) \in Seq(Msgs)
    BY <2>1
  <2> QED
    BY <1>2, <2>2 DEF Connection
<1>4. wire' = [wire EXCEPT ![c] = v]
  BY <1>1, <1>2 DEF net_send
<1> QED
  BY <1>1, <1>3, <1>4

LEMMA CloseType ==
    ASSUME NisTypeOK, NEW c \in Conns, Closed(c)
    PROVE  \E v \in Connection : wire' = [wire EXCEPT ![c] = v] /\ ~v.server
<1>1. PICK w \in Connection : w = wire[c]
  BY DEF NisTypeOK
<1>2. PICK v : v = [w EXCEPT !.server = FALSE, !.up = <<>>]
  OBVIOUS
<1>3. v \in Connection /\ ~v.server
  <2>1. <<>> \in Seq({"status", "events"})
    BY EmptySeq
  <2> QED
    BY <1>2, <2>1 DEF Connection
<1>4. wire' = [wire EXCEPT ![c] = v]
  <2>1. wire' = [wire EXCEPT ![c].server = FALSE, ![c].up = <<>>]
    BY DEF Closed
  <2>2. wire \in [Conns -> Connection]
    BY DEF NisTypeOK
  <2> QED
    BY <1>1, <1>2, <2>1, <2>2
<1> QED
  BY <1>3, <1>4

LEMMA CloseServer ==
    ASSUME ServerInv, serving, UNCHANGED <<ups, upslock, largebuf, eventfile, logged, trims, dev, busy, client, serving>>,
           NEW c \in Conns, Closed(c), thread[c].pc \notin {"words", "flags"},
           \/ mutex' = mutex /\ thread[c].pc \notin Buffering
           \/ mutex' = "free" /\ thread[c].pc \in Buffering
    PROVE  ServerInv'
<1>1. NisTypeOK
  BY DEF ServerInv
<1>2. PICK v \in Connection : wire' = [wire EXCEPT ![c] = v] /\ ~v.server
  BY <1>1, CloseType
<1>3. PICK u \in Handler : u = NoThread /\ u.pc = "none"
  <2>1. NoThread \in Handler /\ NoThread.pc = "none"
    BY DEF NoThread, Handler, Places
  <2> QED
    BY <2>1
<1>4. thread' = [thread EXCEPT ![c] = u]
  BY <1>3 DEF Closed
<1>5. thread'[c] = u /\ wire'[c] = v
  BY <1>1, <1>2, <1>4 DEF NisTypeOK
<1>6. ThreadInv(c)'
  BY <1>2, <1>3, <1>5 DEF ThreadInv
<1>7. largebuf' \in Seq(Msgs) /\ u.pc \notin Buffering /\ u.pc \notin {"words", "flags"}
  BY <1>1, <1>3 DEF NisTypeOK, Buffering
<1> QED
  BY <1>2, <1>4, <1>6, <1>7, ThreadServer

(* The same for a step that goes on to another place and leaves the locks. *)
LEMMA GoOnServer ==
    ASSUME ServerInv, serving, UNCHANGED <<ups, upslock, mutex, largebuf, eventfile, logged, trims, dev, busy, client, serving>>,
           NEW c \in Conns, NEW u \in Handler, thread' = [thread EXCEPT ![c] = u], u.pc # "none",
           thread[c].pc # "none",
           NEW v \in Connection, wire' = [wire EXCEPT ![c] = v], v.server = wire[c].server,
           u.pc \notin {"rlock", "words", "flags"}, thread[c].pc \notin {"words", "flags"},
           u.pc \in Buffering <=> thread[c].pc \in Buffering,
           u.pc = "fgets" => u.le \in Rings /\ u.i < NLE,
           u.pc = "last" => /\ u.sent <= u.nrec /\ u.nrec <= NLE
                            /\ u.nrec > 0 => u.le \in Rings /\ u.i < NLE
    PROVE  ServerInv'
<1>1. NisTypeOK /\ ThreadInv(c)
  BY DEF ServerInv
<1>2. thread'[c] = u /\ wire'[c] = v
  BY <1>1 DEF NisTypeOK
<1>3. ThreadInv(c)'
  BY <1>1, <1>2 DEF ThreadInv
<1>4. largebuf' \in Seq(Msgs)
  BY <1>1 DEF NisTypeOK
<1> QED
  BY <1>3, <1>4, ThreadServer

LEMMA Moved ==
    ASSUME NEW t \in Handler, NEW pc \in Places, NEW u, u = [t EXCEPT !.pc = pc]
    PROVE  u \in Handler /\ u.pc = pc /\ u.sent = t.sent /\ u.nrec = t.nrec /\ u.le = t.le /\ u.i = t.i
  BY DEF Handler

LEMMA RequestServer ==
    ASSUME ServerInv, NEW c \in Conns, handle_client_request(c)
    PROVE  ServerInv'
<1>1. /\ NisTypeOK /\ serving /\ thread[c].pc = "recv"
      /\ UNCHANGED <<ups, upslock, mutex, largebuf, eventfile, logged, trims, dev, busy, client, serving>>
  BY DEF ServerInv, handle_client_request, daemonVars, At
<1>2. CASE Closed(c)
  <2>1. thread[c].pc \notin Buffering /\ thread[c].pc \notin {"words", "flags"}
    BY <1>1 DEF Buffering
  <2> QED
    BY <1>1, <1>2, <2>1, CloseServer
<1>3. CASE /\ wire[c].up # <<>>
           /\ wire' = [wire EXCEPT ![c].up = Tail(@)]
           /\ Step(c, IF Head(wire[c].up) = "status" THEN "open" ELSE "events")
  <2>1. PICK t \in Handler : t = thread[c]
    BY <1>1 DEF NisTypeOK
  <2>2. PICK pc \in {"open", "events"} : pc = IF Head(wire[c].up) = "status" THEN "open" ELSE "events"
    OBVIOUS
  <2>3. PICK u : u = [t EXCEPT !.pc = pc]
    OBVIOUS
  <2>4. u \in Handler /\ u.pc = pc
    <3>1. pc \in Places
      BY DEF Places
    <3> QED
      BY <2>3, <3>1, Moved
  <2>5. thread' = [thread EXCEPT ![c] = u]
    BY <1>3, <2>1, <2>2, <2>3 DEF Step
  <2>6. PICK w \in Connection : w = wire[c]
    BY <1>1 DEF NisTypeOK
  <2>7. PICK v : v = [w EXCEPT !.up = Tail(@)]
    OBVIOUS
  <2>8. v \in Connection /\ v.server = w.server
    <3>1. w.up \in Seq({"status", "events"}) /\ w.up # <<>>
      BY <1>3, <2>6 DEF Connection
    <3>2. Tail(w.up) \in Seq({"status", "events"})
      BY <3>1, HeadTailProperties
    <3> QED
      BY <2>7, <3>2 DEF Connection
  <2>9. wire' = [wire EXCEPT ![c] = v]
    BY <1>3, <2>6, <2>7
  <2>10. /\ u.pc \notin {"none", "rlock", "words", "flags", "fgets", "last"} /\ u.pc \notin Buffering
         /\ thread[c].pc \notin {"none", "words", "flags"} /\ thread[c].pc \notin Buffering
    BY <1>1, <2>4 DEF Buffering
  <2> QED
    BY <1>1, <2>4, <2>5, <2>6, <2>8, <2>9, <2>10, GoOnServer
<1> QED
  BY <1>2, <1>3 DEF handle_client_request

(* The connection stays as it is.                                          *)
LEMMA SameWire ==
    ASSUME NisTypeOK, wire' = wire, NEW c \in Conns
    PROVE  \E v \in Connection : v = wire[c] /\ wire' = [wire EXCEPT ![c] = v]
  BY DEF NisTypeOK

LEMMA OpenServer ==
    ASSUME ServerInv, NEW c \in Conns, status_open(c)
    PROVE  ServerInv'
<1>1. /\ NisTypeOK /\ serving /\ thread[c].pc = "open" /\ mutex = "free" /\ mutex' = c
      /\ UNCHANGED <<ups, upslock, eventfile, logged, trims, dev, busy, wire, client, serving>>
      /\ largebuf' = <<>> /\ <<>> \in Seq(Msgs)
  BY EmptySeq DEF ServerInv, status_open, At, TakesMutex
<1>2. PICK v \in Connection : v = wire[c] /\ wire' = [wire EXCEPT ![c] = v]
  BY <1>1, SameWire
<1>3. PICK t \in Handler : t = thread[c]
  BY <1>1 DEF NisTypeOK
<1>4. PICK u : u = [t EXCEPT !.pc = "rlock"]
  OBVIOUS
<1>5. u \in Handler /\ u.pc = "rlock" /\ thread' = [thread EXCEPT ![c] = u]
  <2>1. "rlock" \in Places
    BY DEF Places
  <2> QED
    BY <1>3, <1>4, <2>1, Moved DEF status_open, Step
<1>6. thread'[c] = u /\ wire'[c] = v
  BY <1>1, <1>2, <1>5 DEF NisTypeOK
<1>7. ThreadInv(c)'
  BY <1>1, <1>2, <1>5, <1>6 DEF ServerInv, ThreadInv
<1>8. u.pc \in Buffering /\ u.pc \notin {"words", "flags"} /\ thread[c].pc \notin {"words", "flags"}
  BY <1>1, <1>5 DEF Buffering
<1> QED
  BY <1>1, <1>2, <1>5, <1>7, <1>8, ThreadServer

LEMMA LockServer ==
    ASSUME ServerInv, NEW c \in Conns, read_lock(c)
    PROVE  ServerInv'
<1>1. /\ NisTypeOK /\ serving /\ thread[c].pc = "rlock" /\ upslock = "free" /\ upslock' = c
      /\ UNCHANGED <<ups, mutex, largebuf, eventfile, logged, trims, dev, busy, wire, client, serving>>
      /\ largebuf \in Seq(Msgs)
  BY DEF ServerInv, read_lock, At, MayLock, NisTypeOK
<1>2. PICK v \in Connection : v = wire[c] /\ wire' = [wire EXCEPT ![c] = v]
  BY <1>1, SameWire
<1>3. PICK t \in Handler : t = thread[c]
  BY <1>1 DEF NisTypeOK
<1>4. PICK u : u = [t EXCEPT !.pc = "words"]
  OBVIOUS
<1>5. u \in Handler /\ u.pc = "words" /\ thread' = [thread EXCEPT ![c] = u]
  <2>1. "words" \in Places
    BY DEF Places
  <2> QED
    BY <1>3, <1>4, <2>1, Moved DEF read_lock, Step
<1>6. thread'[c] = u /\ wire'[c] = v
  BY <1>1, <1>2, <1>5 DEF NisTypeOK
<1>7. ThreadInv(c)'
  BY <1>1, <1>2, <1>5, <1>6 DEF ServerInv, ThreadInv
<1>8. u.pc \in Buffering /\ thread[c].pc \in Buffering /\ u.pc \in {"words", "flags"}
  BY <1>1, <1>5 DEF Buffering
<1> QED
  BY <1>1, <1>2, <1>5, <1>7, <1>8, ThreadServer

LEMMA OutputServer ==
    ASSUME ServerInv, NEW c \in Conns, output_status(c)
    PROVE  ServerInv'
<1>1. /\ NisTypeOK /\ LocksInv /\ serving /\ thread[c].pc \in {"words", "flags"}
      /\ UNCHANGED <<ups, mutex, eventfile, logged, trims, dev, busy, wire, client, serving>>
      /\ largebuf \in Seq(Msgs)
  BY DEF ServerInv, output_status, At, NisTypeOK
<1>2. PICK v \in Connection : v = wire[c] /\ wire' = [wire EXCEPT ![c] = v]
  BY <1>1, SameWire
<1>3. PICK t \in Handler : t = thread[c]
  BY <1>1 DEF NisTypeOK
<1>4. mutex' = c
  BY <1>1 DEF LocksInv, Buffering
<1>5. PICK n \in 1 .. Len(Readings) : ups.status = Readings[n]
  BY <1>1 DEF NisTypeOK
<1>6. ups.linev \in Nat
  BY <1>1, Lengths
<1>7. ThreadInv(c)
  BY DEF ServerInv
<1>8. CASE /\ thread[c].pc = "words" /\ status_write(<<StatusLine, ReadingsLine>>) /\ Step(c, "flags")
           /\ upslock' = upslock
  <2>1. PICK u : u = [t EXCEPT !.pc = "flags"]
    OBVIOUS
  <2>2. u \in Handler /\ u.pc = "flags" /\ thread' = [thread EXCEPT ![c] = u]
    <3>1. "flags" \in Places
      BY DEF Places
    <3> QED
      BY <1>3, <1>8, <2>1, <3>1, Moved DEF Step
  <2>3. PICK x \in Msgs : x = StatusLine
    BY <1>5, Kinds DEF StatusLine
  <2>4. PICK y \in Msgs : y = ReadingsLine
    BY <1>6, Kinds DEF ReadingsLine
  <2>5. largebuf' = <<x, y>> /\ <<x, y>> \in Seq(Msgs)
    <3>1. largebuf = <<>> /\ <<x, y>> \in Seq(Msgs)
      BY <1>7, <1>8 DEF ThreadInv
    <3>2. largebuf' = largebuf \o <<x, y>>
      BY <1>8, <2>3, <2>4 DEF status_write
    <3> QED
      BY <3>1, <3>2, ConcatEmptySeq
  <2>6. thread'[c] = u /\ wire'[c] = v
    BY <1>1, <1>2, <2>2 DEF NisTypeOK
  <2>7. <<x, y>> = LinesOf(ups.status, ups.linev)
    BY <2>3, <2>4 DEF LinesOf, StatusLine, ReadingsLine
  <2>8. ThreadInv(c)'
    BY <1>1, <1>2, <1>7, <1>8, <2>2, <2>5, <2>6, <2>7 DEF ThreadInv
  <2>9. u.pc \in Buffering /\ thread[c].pc \in Buffering /\ u.pc \in {"words", "flags"}
    BY <1>8, <2>2 DEF Buffering
  <2> QED
    BY <1>1, <1>2, <1>4, <1>8, <2>2, <2>5, <2>8, <2>9, ThreadServer
<1>9. CASE /\ thread[c].pc = "flags" /\ status_write(<<FlagsLine, EndLine>>) /\ Step(c, "head")
           /\ upslock' = "free"
  <2>1. PICK u : u = [t EXCEPT !.pc = "head"]
    OBVIOUS
  <2>2. u \in Handler /\ u.pc = "head" /\ thread' = [thread EXCEPT ![c] = u]
    <3>1. "head" \in Places
      BY DEF Places
    <3> QED
      BY <1>3, <1>9, <2>1, <3>1, Moved DEF Step
  <2>3. PICK x \in Msgs : x = FlagsLine
    BY <1>5, Kinds DEF FlagsLine
  <2>4. largebuf' \in Seq(Msgs)
    <3>1. EndLine \in Msgs
      BY Kinds
    <3>2. <<x, EndLine>> \in Seq(Msgs)
      BY <3>1
    <3>3. largebuf' = largebuf \o <<x, EndLine>>
      BY <1>9, <2>3 DEF status_write
    <3> QED
      BY <1>1, <3>2, <3>3, ConcatProperties
  <2>5. thread'[c] = u /\ wire'[c] = v
    BY <1>1, <1>2, <2>2 DEF NisTypeOK
  <2>6. ThreadInv(c)'
    BY <1>1, <1>2, <1>7, <1>9, <2>2, <2>5 DEF ThreadInv
  <2>7. u.pc \in Buffering /\ thread[c].pc \in Buffering /\ u.pc \notin {"words", "flags"}
    BY <1>9, <2>2 DEF Buffering
  <2> QED
    BY <1>1, <1>2, <1>4, <1>9, <2>2, <2>4, <2>6, <2>7, ThreadServer
<1> QED
  BY <1>8, <1>9 DEF output_status, At

(* A thread that sends and goes on, the locks staying as they are.         *)
LEMMA SendServer ==
    ASSUME ServerInv, serving, UNCHANGED <<ups, upslock, mutex, largebuf, eventfile, logged, trims, dev, busy, client, serving>>,
           NEW c \in Conns, NEW m \in Msgs, net_send(c, m),
           NEW u \in Handler, thread' = [thread EXCEPT ![c] = u], u.pc # "none",
           thread[c].pc # "none",
           u.pc \notin {"rlock", "words", "flags"}, thread[c].pc \notin {"words", "flags"},
           u.pc \in Buffering <=> thread[c].pc \in Buffering,
           u.pc # "fgets",
           u.pc = "last" => /\ u.sent <= u.nrec /\ u.nrec <= NLE
                            /\ u.nrec > 0 => u.le \in Rings /\ u.i < NLE
    PROVE  ServerInv'
<1>1. NisTypeOK
  BY DEF ServerInv
<1>2. PICK v \in Connection : wire' = [wire EXCEPT ![c] = v] /\ v.server = wire[c].server
  BY <1>1, SendType
<1>3. u.pc = "fgets" => u.le \in Rings /\ u.i < NLE
  OBVIOUS
<1> QED
  BY <1>2, <1>3, GoOnServer

LEMMA CloseStatusServer ==
    ASSUME ServerInv, NEW c \in Conns, status_close(c)
    PROVE  ServerInv'
<1>1. /\ NisTypeOK /\ serving /\ thread[c].pc \in {"head", "lines"} /\ largebuf \in Seq(Msgs)
      /\ UNCHANGED <<ups, upslock, largebuf, eventfile, logged, trims, dev, busy, client, serving>>
  BY DEF ServerInv, status_close, At, NisTypeOK
<1>2. PICK t \in Handler : t = thread[c]
  BY <1>1 DEF NisTypeOK
<1>3. /\ thread[c].pc # "none" /\ thread[c].pc \notin {"words", "flags"}
      /\ thread[c].pc \in Buffering
  BY <1>1 DEF Buffering
<1>4. Len(largebuf) \in Nat
  BY <1>1, LenProperties
<1>5. CASE /\ net_send(c, <<"APC", Len(largebuf)>>)
           /\ thread' = [thread EXCEPT ![c].pc = "lines", ![c].sent = 0]
           /\ UNCHANGED mutex
  <2>1. PICK u : u = [t EXCEPT !.pc = "lines", !.sent = 0]
    OBVIOUS
  <2>2. u \in Handler /\ u.pc = "lines"
    BY <2>1 DEF Handler, Places
  <2>3. thread' = [thread EXCEPT ![c] = u]
    BY <1>2, <1>5, <2>1
  <2>4. PICK m \in Msgs : m = <<"APC", Len(largebuf)>>
    BY <1>4, Kinds
  <2>5. /\ net_send(c, m) /\ u.pc \notin {"none", "rlock", "words", "flags", "fgets", "last"}
        /\ u.pc \in Buffering
    BY <1>5, <2>2, <2>4 DEF Buffering
  <2> QED
    BY <1>1, <1>3, <1>5, <2>2, <2>3, <2>5, SendServer
<1>6. CASE /\ thread[c].pc = "lines" /\ thread[c].sent < Len(largebuf)
           /\ net_send(c, largebuf[thread[c].sent + 1])
           /\ thread' = [thread EXCEPT ![c].sent = @ + 1]
           /\ UNCHANGED mutex
  <2>1. PICK u : u = [t EXCEPT !.sent = @ + 1]
    OBVIOUS
  <2>2. u \in Handler /\ u.pc = "lines"
    BY <1>2, <1>6, <2>1 DEF Handler
  <2>3. thread' = [thread EXCEPT ![c] = u]
    BY <1>2, <1>6, <2>1
  <2>4. PICK m \in Msgs : m = largebuf[t.sent + 1]
    <3>1. t.sent \in Nat /\ t.sent < Len(largebuf)
      BY <1>2, <1>6 DEF Handler
    <3>2. t.sent + 1 \in 1 .. Len(largebuf)
      BY <1>4, <3>1
    <3> QED
      BY <1>1, <3>2, ElementOfSeq
  <2>5. /\ net_send(c, m) /\ u.pc \notin {"none", "rlock", "words", "flags", "fgets", "last"}
        /\ u.pc \in Buffering
    BY <1>2, <1>6, <2>2, <2>4 DEF Buffering
  <2> QED
    BY <1>1, <1>3, <1>6, <2>2, <2>3, <2>5, SendServer
<1>7. CASE net_send(c, EndMark) /\ Step(c, "recv") /\ mutex' = "free"
  <2>1. PICK u : u = [t EXCEPT !.pc = "recv"]
    OBVIOUS
  <2>2. u \in Handler /\ u.pc = "recv" /\ thread' = [thread EXCEPT ![c] = u]
    <3>1. "recv" \in Places
      BY DEF Places
    <3> QED
      BY <1>2, <1>7, <2>1, <3>1, Moved DEF Step
  <2>3. PICK v \in Connection : wire' = [wire EXCEPT ![c] = v] /\ v.server = wire[c].server
    <3>1. EndMark \in Msgs
      BY Kinds
    <3> QED
      BY <1>1, <1>7, <3>1, SendType
  <2>4. thread'[c] = u /\ wire'[c] = v
    BY <1>1, <2>2, <2>3 DEF NisTypeOK
  <2>5. ThreadInv(c)'
    <3>1. ThreadInv(c)
      BY DEF ServerInv
    <3> QED
      BY <1>3, <2>2, <2>3, <2>4, <3>1 DEF ThreadInv
  <2>6. u.pc \notin Buffering /\ u.pc \notin {"words", "flags"} /\ largebuf' \in Seq(Msgs)
    BY <1>1, <2>2 DEF Buffering
  <2> QED
    BY <1>1, <1>3, <1>7, <2>2, <2>3, <2>5, <2>6, ThreadServer
<1>8. CASE Closed(c) /\ mutex' = "free"
  BY <1>1, <1>3, <1>8, CloseServer
<1> QED
  BY <1>5, <1>6, <1>7, <1>8 DEF status_close, At

LEMMA OpenEventsServer ==
    ASSUME ServerInv, NEW c \in Conns, OpenEvents(c)
    PROVE  ServerInv'
<1>1. /\ NisTypeOK /\ serving /\ thread[c].pc = "events"
      /\ UNCHANGED <<ups, upslock, mutex, largebuf, eventfile, logged, trims, dev, busy, wire, client, serving>>
  BY DEF ServerInv, OpenEvents, At, daemonVars
<1>2. PICK v \in Connection : v = wire[c] /\ wire' = [wire EXCEPT ![c] = v]
  BY <1>1, SameWire
<1>3. thread[c].pc # "none" /\ thread[c].pc \notin {"words", "flags"} /\ thread[c].pc \notin Buffering
  BY <1>1 DEF Buffering
<1>4. CASE thread' = [thread EXCEPT ![c] = [NoThread EXCEPT !.pc = "fgets", !.le = [j \in 1..NLE |-> 0]]]
  <2>1. PICK f \in Rings : f = [j \in 1..NLE |-> 0]
    BY DEF Rings
  <2>2. PICK u : u = [NoThread EXCEPT !.pc = "fgets", !.le = f]
    OBVIOUS
  <2>3. u \in Handler /\ u.pc = "fgets" /\ u.le = f /\ u.i = 0
    BY <2>2 DEF NoThread, Handler, Places
  <2>4. thread' = [thread EXCEPT ![c] = u] /\ u.i < NLE
    BY <1>4, <2>1, <2>2, <2>3, Sizes
  <2>5. u.pc \notin {"none", "rlock", "words", "flags", "last"} /\ u.pc \notin Buffering
    BY <2>3 DEF Buffering
  <2> QED
    BY <1>1, <1>2, <1>3, <2>3, <2>4, <2>5, GoOnServer
<1>5. CASE Step(c, "notavail")
  <2>1. PICK t \in Handler : t = thread[c]
    BY <1>1 DEF NisTypeOK
  <2>2. PICK u : u = [t EXCEPT !.pc = "notavail"]
    OBVIOUS
  <2>3. u \in Handler /\ u.pc = "notavail" /\ thread' = [thread EXCEPT ![c] = u]
    <3>1. "notavail" \in Places
      BY DEF Places
    <3> QED
      BY <1>5, <2>1, <2>2, <3>1, Moved DEF Step
  <2>4. u.pc \notin {"none", "rlock", "words", "flags", "fgets", "last"} /\ u.pc \notin Buffering
    BY <2>3 DEF Buffering
  <2> QED
    BY <1>1, <1>2, <1>3, <2>3, <2>4, GoOnServer
<1> QED
  BY <1>4, <1>5 DEF OpenEvents

LEMMA FetchServer ==
    ASSUME ServerInv, NEW c \in Conns, FetchEvent(c)
    PROVE  ServerInv'
<1>1. /\ NisTypeOK /\ serving /\ thread[c].pc = "fgets" /\ eventfile \in Seq(Nat)
      /\ UNCHANGED <<ups, upslock, mutex, largebuf, eventfile, logged, trims, dev, busy, wire, client, serving>>
  BY DEF ServerInv, FetchEvent, At, daemonVars, NisTypeOK
<1>2. PICK v \in Connection : v = wire[c] /\ wire' = [wire EXCEPT ![c] = v]
  BY <1>1, SameWire
<1>3. thread[c].pc # "none" /\ thread[c].pc \notin {"words", "flags"} /\ thread[c].pc \notin Buffering
  BY <1>1 DEF Buffering
<1>4. PICK t \in Handler : t = thread[c]
  BY <1>1 DEF NisTypeOK
<1>5. t.le \in Rings /\ t.i \in 0 .. NLE - 1 /\ t.nrec \in Nat /\ NLE \in Nat \ {0}
  <2>1. t.le \in Rings /\ t.i < NLE /\ t.i \in Nat /\ t.nrec \in Nat
    BY <1>1, <1>4 DEF ServerInv, ThreadInv, Handler
  <2> QED
    BY <2>1, Sizes
<1>6. CASE t.nrec < Len(eventfile)
  <2>1. PICK u : u = [t EXCEPT !.le[t.i + 1] = eventfile[t.nrec + 1], !.nrec = @ + 1, !.i = (@ + 1) % NLE]
    OBVIOUS
  <2>2. thread' = [thread EXCEPT ![c] = u]
    BY <1>4, <1>6, <2>1 DEF FetchEvent
  <2>3. PICK x \in Nat : x = eventfile[t.nrec + 1]
    <3>1. t.nrec + 1 \in 1 .. Len(eventfile)
      BY <1>1, <1>5, <1>6, LenProperties
    <3> QED
      BY <1>1, <3>1, ElementOfSeq
  <2>4. PICK i \in 0 .. NLE - 1 : i = (t.i + 1) % NLE
    BY <1>5, Ring
  <2>5. PICK f \in Rings : f = [t.le EXCEPT ![t.i + 1] = x]
    BY <1>5 DEF Rings
  <2>6. u = [t EXCEPT !.le = f, !.nrec = t.nrec + 1, !.i = i]
    BY <2>1, <2>3, <2>4, <2>5
  <2>7. u \in Handler /\ u.pc = "fgets" /\ u.le \in Rings /\ u.i < NLE
    <3>1. i \in Nat /\ i < NLE /\ t.nrec + 1 \in Nat
      BY <1>5
    <3> QED
      BY <1>1, <1>4, <2>6, <3>1 DEF Handler
  <2>8. u.pc \notin {"none", "rlock", "words", "flags", "last"} /\ u.pc \notin Buffering
    BY <2>7 DEF Buffering
  <2> QED
    BY <1>1, <1>2, <1>3, <2>2, <2>7, <2>8, GoOnServer
<1>7. CASE ~(t.nrec < Len(eventfile))
  <2>1. PICK n \in Nat : n = (IF t.nrec > NLE THEN NLE ELSE t.nrec) /\ n <= NLE
    BY <1>5
  <2>2. PICK i \in 0 .. NLE - 1 : i = IF t.nrec > NLE THEN FirstOfRing(t.i) ELSE 0
    BY <1>5, Ring DEF FirstOfRing
  <2>3. PICK u : u = [t EXCEPT !.pc = "last", !.sent = 0, !.nrec = n, !.i = i]
    OBVIOUS
  <2>4. thread' = [thread EXCEPT ![c] = u]
    BY <1>4, <1>7, <2>1, <2>2, <2>3 DEF FetchEvent, Handler
  <2>5. i \in Nat /\ i < NLE
    BY <1>5
  <2>6. u \in Handler /\ u.pc = "last" /\ u.sent = 0 /\ u.nrec = n /\ u.le \in Rings /\ u.i = i
    BY <1>5, <2>3, <2>5 DEF Handler, Places
  <2>7. u.pc \notin {"none", "rlock", "words", "flags", "fgets"} /\ u.pc \notin Buffering
    BY <2>6 DEF Buffering
  <2>8. u.sent <= u.nrec /\ u.nrec <= NLE /\ u.i < NLE
    BY <2>1, <2>5, <2>6
  <2> QED
    BY <1>1, <1>2, <1>3, <2>4, <2>6, <2>7, <2>8, GoOnServer
<1> QED
  BY <1>6, <1>7

LEMMA SendEventsServer ==
    ASSUME ServerInv, NEW c \in Conns, SendEvents(c)
    PROVE  ServerInv'
<1>1. /\ NisTypeOK /\ serving /\ thread[c].pc \in {"last", "notavail"}
      /\ UNCHANGED <<ups, upslock, mutex, largebuf, eventfile, logged, trims, dev, busy, client, serving>>
  BY DEF ServerInv, SendEvents, At, daemonVars
<1>2. PICK t \in Handler : t = thread[c]
  BY <1>1 DEF NisTypeOK
<1>3. thread[c].pc # "none" /\ thread[c].pc \notin {"words", "flags"} /\ thread[c].pc \notin Buffering
  BY <1>1 DEF Buffering
<1>4. /\ t.sent \in Nat /\ t.nrec \in Nat /\ NLE \in Nat \ {0}
      /\ t.pc = "last" => t.nrec <= NLE
      /\ t.pc = "last" /\ t.nrec > 0 => t.le \in Rings /\ t.i \in 0 .. NLE - 1
  <2>1. t.pc = "last" => t.nrec <= NLE /\ (t.nrec > 0 => t.le \in Rings /\ t.i < NLE)
    BY <1>1, <1>2 DEF ServerInv, ThreadInv
  <2>2. t.sent \in Nat /\ t.nrec \in Nat /\ t.i \in Nat
    BY DEF Handler
  <2> QED
    BY <2>1, <2>2, Sizes
<1>5. CASE /\ thread[c].pc = "last" /\ thread[c].sent < thread[c].nrec
           /\ net_send(c, <<"event", thread[c].le[thread[c].i + 1]>>)
           /\ thread' = [thread EXCEPT ![c].sent = @ + 1, ![c].i = (@ + 1) % NLE]
  <2>1. t.pc = "last" /\ t.sent < t.nrec /\ t.nrec <= NLE /\ t.le \in Rings /\ t.i \in 0 .. NLE - 1
    BY <1>2, <1>4, <1>5
  <2>2. PICK i \in 0 .. NLE - 1 : i = (t.i + 1) % NLE
    BY <2>1, Ring
  <2>3. PICK u : u = [t EXCEPT !.sent = @ + 1, !.i = i]
    OBVIOUS
  <2>4. thread' = [thread EXCEPT ![c] = u]
    BY <1>2, <1>5, <2>2, <2>3
  <2>5. i \in Nat /\ i < NLE /\ t.sent + 1 \in Nat /\ t.sent + 1 <= t.nrec
    BY <1>4, <2>1
  <2>6. u \in Handler /\ u.pc = "last" /\ u.sent = t.sent + 1 /\ u.nrec = t.nrec /\ u.le = t.le /\ u.i = i
    BY <2>1, <2>3, <2>5 DEF Handler
  <2>7. PICK m \in Msgs : m = <<"event", t.le[t.i + 1]>>
    <3>1. t.i + 1 \in 1 .. NLE
      BY <1>4, <2>1
    <3>2. t.le[t.i + 1] \in Nat
      BY <2>1, <3>1 DEF Rings
    <3> QED
      BY <3>2, Kinds
  <2>8. net_send(c, m)
    BY <1>2, <1>5, <2>7
  <2>9. /\ u.pc \notin {"none", "rlock", "words", "flags", "fgets"} /\ u.pc \notin Buffering
        /\ u.sent <= u.nrec /\ u.nrec <= NLE /\ u.le \in Rings /\ u.i < NLE
    BY <2>1, <2>5, <2>6 DEF Buffering
  <2> QED
    BY <1>1, <1>3, <2>4, <2>6, <2>8, <2>9, SendServer
<1>6. CASE /\ net_send(c, EndMark)
           /\ thread' = [thread EXCEPT ![c] = [NoThread EXCEPT !.pc = "recv"]]
  <2>1. PICK u : u = [NoThread EXCEPT !.pc = "recv"]
    OBVIOUS
  <2>2. u \in Handler /\ u.pc = "recv" /\ thread' = [thread EXCEPT ![c] = u]
    BY <1>6, <2>1 DEF NoThread, Handler, Places
  <2>3. /\ u.pc \notin {"none", "rlock", "words", "flags", "fgets", "last"} /\ u.pc \notin Buffering
        /\ EndMark \in Msgs
    BY <2>2, Kinds DEF Buffering
  <2> QED
    BY <1>1, <1>3, <1>6, <2>2, <2>3, SendServer
<1>7. CASE /\ net_send(c, <<"Not available">>)
           /\ thread' = [thread EXCEPT ![c].pc = "last", ![c].sent = 0, ![c].nrec = 0]
  <2>1. PICK u : u = [t EXCEPT !.pc = "last", !.sent = 0, !.nrec = 0]
    OBVIOUS
  <2>2. u \in Handler /\ u.pc = "last" /\ u.sent = 0 /\ u.nrec = 0
    BY <2>1 DEF Handler, Places
  <2>3. thread' = [thread EXCEPT ![c] = u]
    BY <1>2, <1>7, <2>1
  <2>4. /\ u.pc \notin {"none", "rlock", "words", "flags", "fgets"} /\ u.pc \notin Buffering
        /\ u.sent <= u.nrec /\ u.nrec <= NLE /\ ~(u.nrec > 0)
    BY <1>4, <2>2 DEF Buffering
  <2>5. PICK m \in Msgs : m = <<"Not available">>
    BY Kinds
  <2>6. net_send(c, m)
    BY <1>7, <2>5
  <2> QED
    BY <1>1, <1>3, <2>2, <2>3, <2>4, <2>6, SendServer
<1>8. CASE Closed(c)
  BY <1>1, <1>3, <1>8, CloseServer
<1> QED
  BY <1>5, <1>6, <1>7, <1>8 DEF SendEvents, At

---------------------------------------------------------------------------
LEMMA NisInitHolds == NisInit => NisInv
<1> SUFFICES ASSUME NisInit PROVE NisInv
  OBVIOUS
<1>1. <<>> \in Seq(Nat) /\ <<>> \in Seq(Msgs) /\ <<>> \in Seq({"status", "events"})
  BY EmptySeq
<1>2. eventfile \in Seq(Nat)
  <2>1. PICK n \in Nat : n = IF busy = "trim" THEN EventMax + 1 ELSE OldEvents
    BY Sizes
  <2>2. eventfile = [i \in 1 .. n |-> i]
    BY <2>1 DEF NisInit
  <2>3. eventfile \in [1 .. n -> Nat]
    BY <2>2
  <2> QED
    BY <2>3, SeqDef
<1>3. PICK u : u = [status |-> Readings[1], linev |-> 1]
  OBVIOUS
<1>4. ups = u /\ u.status = Readings[1] /\ u.linev = 1 /\ 1 \in 1 .. Len(Readings)
  BY <1>3, Sizes DEF NisInit
<1>5. ups \in [status : {Readings[n] : n \in 1..Len(Readings)}, linev : 1..Len(Readings)]
  BY <1>3, <1>4
<1>6. NoThread \in Handler /\ NoThread.pc = "none"
  BY DEF NoThread, Handler, Places
<1>7. Unused \in Connection /\ ~Unused.server
  BY <1>1 DEF Unused, Connection
<1>8. Idle \in Caller /\ Idle.pc = "idle" /\ Idle.ok = "none" /\ Idle.sock = "none"
  BY <1>1 DEF Idle, Caller
<1>9. /\ thread = [c \in Conns |-> NoThread] /\ wire = [c \in Conns |-> Unused]
      /\ client = [k \in Clients |-> Idle]
  BY DEF NisInit
<1>10. /\ \A c \in Conns : thread[c].pc = "none" /\ ~wire[c].server
       /\ \A k \in Clients : client[k].pc = "idle" /\ client[k].ok = "none" /\ client[k].sock = "none"
  BY <1>6, <1>7, <1>8, <1>9
<1>11. /\ upslock = "free" /\ mutex = "free" /\ largebuf = <<>> /\ logged = 0 /\ trims = 0
       /\ dev = [pc |-> "idle", buf |-> <<>>] /\ serving = TRUE
  BY DEF NisInit
<1>12. /\ thread \in [Conns -> Handler] /\ wire \in [Conns -> Connection]
       /\ client \in [Clients -> Caller]
  BY <1>6, <1>7, <1>8, <1>9
<1>13. dev \in [pc : {"idle", "status", "linev", "read", "truncate", "write"}, buf : Seq(Nat)] /\ dev.pc = "idle"
  BY <1>1, <1>11
<1>14. NisTypeOK
  BY <1>1, <1>2, <1>5, <1>11, <1>12, <1>13 DEF NisTypeOK
<1>15. LocksInv
  <2>1. \A c \in Conns : c # "free"
    BY Sizes
  <2> QED
    BY <1>10, <1>11, <1>13, <2>1 DEF LocksInv, Buffering
<1>16. DeviceInv
  BY <1>4, <1>13 DEF DeviceInv
<1>17. \A c \in Conns : ThreadInv(c)
  BY <1>10 DEF ThreadInv
<1>18. SocksInv
  BY <1>10 DEF SocksInv
<1>19. \A k \in Clients : FlowInv(k) /\ AskedInv(k) /\ DoneInv(k)
  BY <1>10 DEF FlowInv, AskedInv, DoneInv
<1> QED
  BY <1>11, <1>14, <1>15, <1>16, <1>17, <1>18, <1>19 DEF NisInv, ServerInv

LEMMA NisStep == NisInv /\ [NisNext]_nisVars => NisInv'
<1> SUFFICES ASSUME NisInv, [NisNext]_nisVars PROVE NisInv'
  OBVIOUS
<1>1. ServerInv /\ ClientsInv /\ SocksInv /\ NisTypeOK
  BY DEF NisInv, ClientsInv, ServerInv
<1>2. ASSUME ServerInv', ClientsInv' PROVE NisInv'
  BY <1>2 DEF NisInv, ClientsInv
<1>3. ASSUME ServerInv' PROVE NisTypeOK'
  BY <1>3 DEF ServerInv
<1>4. CASE UNCHANGED nisVars
  <2>1. /\ UNCHANGED <<ups, upslock, mutex, largebuf, eventfile, logged, trims, dev, busy>>
        /\ UNCHANGED <<thread, wire, client, serving>>
    BY <1>4 DEF nisVars
  <2>2. ServerInv'
    BY <1>1, <2>1 DEF ServerInv, NisTypeOK, LocksInv, DeviceInv, ThreadInv, TrimNeeded
  <2>3. Onward
    BY <1>1, <2>1, Still
  <2>4. \A k \in Clients : FlowInv(k)' /\ AskedInv(k)' /\ DoneInv(k)'
    BY <1>1, <1>3, <2>1, <2>2, <2>3, FlowFrame DEF ClientsInv
  <2>5. SocksInv'
    BY <1>1, <2>1 DEF SocksInv
  <2> QED
    BY <1>2, <2>2, <2>4, <2>5 DEF ClientsInv
<1>5. CASE DeviceStep
  <2>1. ServerInv'
    BY <1>1, <1>5, DeviceServer
  <2> QED
    BY <1>1, <1>2, <1>3, <1>5, <2>1, DeviceKeeps
<1>6. CASE StopServing
  <2>1. ServerInv'
    BY <1>1, <1>6, StopServer
  <2> QED
    BY <1>1, <1>2, <1>3, <1>6, <2>1, StopKeeps
<1>7. ASSUME NEW c \in Conns, handle_client_request(c) PROVE NisInv'
  <2>1. ServerInv'
    BY <1>1, <1>7, RequestServer
  <2> QED
    BY <1>1, <1>2, <1>3, <1>7, <2>1, RequestKeeps
<1>8. ASSUME NEW c \in Conns, status_open(c) PROVE NisInv'
  <2>1. ServerInv'
    BY <1>1, <1>8, OpenServer
  <2> QED
    BY <1>1, <1>2, <1>3, <1>8, <2>1, OpenKeeps
<1>9. ASSUME NEW c \in Conns, read_lock(c) PROVE NisInv'
  <2>1. ServerInv'
    BY <1>1, <1>9, LockServer
  <2> QED
    BY <1>1, <1>2, <1>3, <1>9, <2>1, LockKeeps
<1>10. ASSUME NEW c \in Conns, output_status(c) PROVE NisInv'
  <2>1. ServerInv'
    BY <1>1, <1>10, OutputServer
  <2> QED
    BY <1>1, <1>2, <1>3, <1>10, <2>1, OutputKeeps
<1>11. ASSUME NEW c \in Conns, status_close(c) PROVE NisInv'
  <2>1. ServerInv'
    BY <1>1, <1>11, CloseStatusServer
  <2> QED
    BY <1>1, <1>2, <1>3, <1>11, <2>1, CloseStatusKeeps
<1>12. ASSUME NEW c \in Conns, OpenEvents(c) PROVE NisInv'
  <2>1. ServerInv'
    BY <1>1, <1>12, OpenEventsServer
  <2> QED
    BY <1>1, <1>2, <1>3, <1>12, <2>1, OpenEventsKeeps
<1>13. ASSUME NEW c \in Conns, FetchEvent(c) PROVE NisInv'
  <2>1. ServerInv'
    BY <1>1, <1>13, FetchServer
  <2> QED
    BY <1>1, <1>2, <1>3, <1>13, <2>1, FetchKeeps
<1>14. ASSUME NEW c \in Conns, SendEvents(c) PROVE NisInv'
  <2>1. ServerInv'
    BY <1>1, <1>14, SendEventsServer
  <2> QED
    BY <1>1, <1>2, <1>3, <1>14, <2>1, SendEventsKeeps
<1>15. ASSUME NEW k \in Clients, NEW call \in {"status", "events"}, Ask(k, call) PROVE NisInv'
  <2>1. ServerInv'
    BY <1>1, <1>15, AskServer
  <2> QED
    BY <1>1, <1>2, <1>3, <1>15, <2>1, AskKeeps
<1>16. ASSUME NEW k \in Clients, net_open(k) PROVE NisInv'
  <2>1. client[k].call # "none"
    BY <1>1, <1>16 DEF SocksInv, net_open
  <2>2. ServerInv'
    BY <1>1, <1>16, <2>1, NetOpenServer
  <2> QED
    BY <1>1, <1>2, <1>3, <1>16, <2>2, NetOpenKeeps
<1>17. ASSUME NEW k \in Clients, net_recv(k) PROVE NisInv'
  <2>1. client[k].sock \in Conns
    BY <1>1, <1>17 DEF SocksInv, net_recv, NisTypeOK, Caller
  <2>2. ServerInv'
    BY <1>1, <1>17, <2>1, RecvServer
  <2> QED
    BY <1>1, <1>2, <1>3, <1>17, <2>2, RecvKeeps
<1>18. ASSUME NEW k \in Clients, CloseTray(k) PROVE NisInv'
  <2>1. ServerInv'
    BY <1>1, <1>18, CloseTrayServer
  <2> QED
    BY <1>1, <1>2, <1>3, <1>18, <2>1, CloseTrayKeeps
<1> QED
  BY <1>4, <1>5, <1>6, <1>7, <1>8, <1>9, <1>10, <1>11, <1>12, <1>13, <1>14, <1>15, <1>16, <1>17, <1>18 DEF NisNext

LEMMA NisInvGives == NisInv => AnswersAreTrue
<1> SUFFICES ASSUME NisInv, NEW k \in Clients, client[k].ok = "good"
             PROVE  IF client[k].call = "status" THEN IsStatus(k) ELSE IsEvents(k)
  BY DEF AnswersAreTrue
<1>1. /\ NisTypeOK /\ Right(client[k], client[k].got)
  BY DEF NisInv, ServerInv, DoneInv
<1>2. PICK r \in Caller : r = client[k]
  BY <1>1 DEF NisTypeOK
<1>3. CASE r.call = "status"
  <2>1. PICK n \in r.since .. ups.linev : r.got = StatusAt(n)
    BY <1>1, <1>2, <1>3 DEF Right, RightStatus
  <2>2. n \in r.since .. Len(Readings)
    BY <1>1, Lengths DEF Caller
  <2> QED
    BY <1>2, <1>3, <2>1, <2>2 DEF IsStatus, StatusAt
<1>4. CASE r.call # "status"
  <2>1. RightEvents(r.got, r.since, r.trims)
    BY <1>1, <1>2, <1>4 DEF Right
  <2> QED
    BY <1>2, <1>4, <2>1 DEF IsEvents, RightEvents, EventsAt, Kept, Base
<1> QED
  BY <1>2, <1>3, <1>4

(* Whatever the number of connections, of clients, of the statuses the UPS *)
(* reports and of the lines in an answer, and however the threads of the   *)
(* daemon and the clients interleave, what a client takes for a complete   *)
(* answer is one: one reading not older than its question, written under   *)
(* the mutex of apcnis.c and the lock of UPSINFO, or the last lines of the *)
(* event file in their order, out of the ring of output_events().          *)
THEOREM AnswersAlwaysTrue == NisSpec => []AnswersAreTrue
<1>1. NisInit => NisInv
  BY NisInitHolds
<1>2. NisInv /\ [NisNext]_nisVars => NisInv'
  BY NisStep
<1>3. NisInv => AnswersAreTrue
  BY NisInvGives
<1> QED
  BY <1>1, <1>2, <1>3, PTL DEF NisSpec
=============================================================================
