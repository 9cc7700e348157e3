------------------------- MODULE OutboxOrder_proofs -------------------------
(* The order of the sends of Outbox.  One page is open at a time, and many may follow each
   other.  What was typed in one page before a given send has been dealt with when that one
   goes out: it was posted, refused or withdrawn, or it was never stored and its page is gone. *)
EXTENDS Outbox_proofs

Ahead(mk, m, n) ==
  /\ mk[m].tab = mk[n].tab /\ mk[m].ch = mk[n].ch
  /\ mk[m].at < mk[n].at \/ (mk[m].at = mk[n].at /\ m < n)

\* Nothing is owed to m any more: it is done (dn), or lost with an earlier page than t.
Excused(t, mk, kp, dn, m) == m \in dn \/ (m \notin kp /\ mk[m].tab # t)

\* The memory of the open page t.  What is not excused is in it, or a load is going to bring
\* it, the oldest first; rf are the sends that were refused.
InMemory(t, p, mk, kp, rf) ==
  \A m \in Msg : p.recs[m] # None =>
     /\ m \in DOMAIN mk /\ (m \in kp \/ mk[m].tab = t)
     /\ p.recs[m].owner = t /\ (p.recs[m].status = "failed" => m \in rf)

Expected(t, p, mk, kp, dn) ==
  \A m \in DOMAIN mk : \/ Excused(t, mk, kp, dn, m) \/ p.recs[m] # None
                       \/ mk[m].tab # t /\ (p.load = "read" \/ p.rows[m] # None)

BeforeIt(t, p, mk, kp, dn) ==
  \A m, n \in DOMAIN mk : p.recs[n] # None /\ Ahead(mk, m, n) => Excused(t, mk, kp, dn, m) \/ p.recs[m] # None

Mem(t, p, mk, kp, dn, rf) ==
  /\ InMemory(t, p, mk, kp, rf) /\ Expected(t, p, mk, kp, dn) /\ BeforeIt(t, p, mk, kp, dn)
  /\ \A m \in Msg : p.rows[m].status = "failed" => m \in rf
  /\ \A m \in DOMAIN mk : mk[m].tab = t => mk[m].at <= p.lastCreatedAt
  /\ \A m \in DOMAIN mk : mk[m].tab # t /\ mk[m].ch \in p.droppedChannels => m \in dn

\* What it has queued for the storage.
Que(t, p, mk, kp, dn, rf) ==
  \A m \in Msg :
     /\ p.writing[m] # <<>> => m \in DOMAIN mk /\ (m \in kp \/ mk[m].tab = t)
     /\ \A i \in DOMAIN p.writing[m] : /\ p.writing[m][i].row = None => m \in dn
                                       /\ p.writing[m][i].row.status = "failed" => m \in rf

\* What it has out.
Fly(t, p, mk, kp, dn) ==
  \A ch \in Channel : \A m \in DOMAIN mk :
     p.flight[ch].id # NoMsg /\ Ahead(mk, m, p.flight[ch].id) => Excused(t, mk, kp, dn, m)

InLine(t, p, mk, kp, dn, rf) == Mem(t, p, mk, kp, dn, rf) /\ Que(t, p, mk, kp, dn, rf) /\ Fly(t, p, mk, kp, dn)

SameMem(p, q) ==
  /\ q.recs = p.recs /\ q.rows = p.rows /\ q.load = p.load /\ q.lastCreatedAt = p.lastCreatedAt
  /\ q.droppedChannels = p.droppedChannels

LEMMA SameMemOK ==
  ASSUME NEW t, NEW p, NEW mk, NEW kp, NEW dn, NEW rf, Mem(t, p, mk, kp, dn, rf), NEW q, SameMem(p, q)
  PROVE  Mem(t, q, mk, kp, dn, rf)
BY DEF Mem, InMemory, Expected, BeforeIt, SameMem

LEMMA PageFields ==
  ASSUME NEW p \in PageType
  PROVE  DOMAIN p = Fields /\ DOMAIN p.recs = Msg /\ DOMAIN p.flight = Channel /\ DOMAIN p.writing = Msg
BY DEF PageType, Fields

\* What is shared grows; only the page itself stores what was not stored.
LEMMA InLineStays ==
  ASSUME NEW t, NEW p, NEW mk, NEW kp, NEW dn, NEW rf, InLine(t, p, mk, kp, dn, rf),
         NEW kp2, NEW dn2, NEW rf2, kp \subseteq kp2, dn \subseteq dn2, rf \subseteq rf2,
         \A m \in kp2 \ kp : mk[m].tab = t
  PROVE  InLine(t, p, mk, kp2, dn2, rf2)
<1>1. \A m \in DOMAIN mk : Excused(t, mk, kp, dn, m) => Excused(t, mk, kp2, dn2, m)
  BY DEF Excused
<1>2. InMemory(t, p, mk, kp2, rf2)
  BY DEF InLine, Mem, InMemory
<1>3. Expected(t, p, mk, kp2, dn2) /\ BeforeIt(t, p, mk, kp2, dn2)
  BY <1>1 DEF InLine, Mem, Expected, BeforeIt
<1>4. Que(t, p, mk, kp2, dn2, rf2)
  BY DEF InLine, Que
<1>5. Fly(t, p, mk, kp2, dn2)
  BY <1>1 DEF InLine, Fly
<1> QED
  BY <1>2, <1>3, <1>4, <1>5 DEF InLine, Mem

LEMMA ChainLine ==
  ASSUME NEW t, NEW p \in PageType, NEW mk, NEW kp, NEW dn, NEW rf, InLine(t, p, mk, kp, dn, rf),
         NEW m \in Msg, m \in DOMAIN mk, m \in kp \/ mk[m].tab = t, NEW op \in Op,
         op.row = None => m \in dn, op.row.status = "failed" => m \in rf,
         NEW q, q = Chain(p, m, op.row, op.pump)
  PROVE  InLine(t, q, mk, kp, dn, rf) /\ q \in PageType /\ q.life = p.life
<1>1. /\ q \in PageType /\ q.writing[m] = Append(p.writing[m], op) /\ (\A n \in Msg \ {m} : q.writing[n] = p.writing[n])
      /\ q.flight = p.flight /\ q.recs = p.recs /\ SameLoad(p, q)
  BY ChainFacts
<1>2. q.lastCreatedAt = p.lastCreatedAt
  BY PageFields DEF Chain, Fields
<1>3. p.writing[m] \in Seq(Op)
  BY DEF PageType
<1>4. \A i \in DOMAIN q.writing[m] : q.writing[m][i] = op \/ (i \in DOMAIN p.writing[m] /\ q.writing[m][i] = p.writing[m][i])
  BY <1>1, <1>3
<1>5. Que(t, q, mk, kp, dn, rf)
  <2>1. ASSUME NEW n \in Msg, n # m
        PROVE  /\ q.writing[n] # <<>> => n \in DOMAIN mk /\ (n \in kp \/ mk[n].tab = t)
               /\ \A i \in DOMAIN q.writing[n] : /\ q.writing[n][i].row = None => n \in dn
                                                 /\ q.writing[n][i].row.status = "failed" => n \in rf
    BY <1>1, <2>1 DEF InLine, Que
  <2>2. \A i \in DOMAIN q.writing[m] : /\ q.writing[m][i].row = None => m \in dn
                                       /\ q.writing[m][i].row.status = "failed" => m \in rf
    BY <1>4 DEF InLine, Que
  <2> QED
    BY <2>1, <2>2 DEF Que
<1>6. Mem(t, q, mk, kp, dn, rf)
  BY <1>1, <1>2, SameMemOK DEF InLine, SameMem, SameLoad
<1> QED
  BY <1>1, <1>5, <1>6 DEF InLine, Fly, SameLoad

\* Only what is done is forgotten.
LEMMA ForgetLine ==
  ASSUME NEW t, NEW p \in PageType, NEW mk, NEW kp, NEW dn, NEW rf, InLine(t, p, mk, kp, dn, rf),
         NEW m \in Msg, m \in dn, NEW q, q = Forget(p, m)
  PROVE  InLine(t, q, mk, kp, dn, rf) /\ q \in PageType /\ q.life = p.life /\ q.recs[m] = None
<1>1. /\ q \in PageType /\ q.recs[m] = None /\ \A n \in Msg \ {m} : q.recs[n] = p.recs[n]
      /\ q.writing = p.writing /\ q.flight = p.flight /\ SameLoad(p, q)
  BY ForgetFacts
<1>2. q.lastCreatedAt = p.lastCreatedAt
  BY PageFields DEF Forget, Fields
<1>3. \A n \in DOMAIN mk : n = m => Excused(t, mk, kp, dn, n)
  BY DEF Excused
<1>4. Mem(t, q, mk, kp, dn, rf)
  <2>1. InMemory(t, q, mk, kp, rf)
    BY <1>1 DEF InLine, Mem, InMemory
  <2>2. \A n \in DOMAIN mk : p.recs[n] # None => n = m \/ q.recs[n] # None
    <3>1. q.recs = [p.recs EXCEPT ![m] = None]
      BY PageFields DEF Forget, Fields
    <3> QED
      BY <3>1, PageFields
  <2>3. \A n \in DOMAIN mk : q.recs[n] # None => p.recs[n] # None
    <3>1. q.recs = [p.recs EXCEPT ![m] = None]
      BY PageFields DEF Forget, Fields
    <3> QED
      BY <3>1, PageFields
  <2>4. Expected(t, q, mk, kp, dn)
    BY <1>1, <1>3, <2>2 DEF InLine, Mem, Expected, SameLoad
  <2>5. BeforeIt(t, q, mk, kp, dn)
    BY <1>3, <2>2, <2>3 DEF InLine, Mem, BeforeIt
  <2> QED
    BY <1>1, <1>2, <2>1, <2>4, <2>5 DEF InLine, Mem, SameLoad
<1> QED
  BY <1>1, <1>4 DEF InLine, Que, Fly, SameLoad

LEMMA DropLine ==
  ASSUME NEW t, NEW p \in PageType, NEW mk, NEW kp, NEW dn, NEW rf, InLine(t, p, mk, kp, dn, rf),
         NEW m \in Msg, m \in dn, m \in DOMAIN mk, m \in kp \/ mk[m].tab = t, NEW q, q = Drop(p, m)
  PROVE  InLine(t, q, mk, kp, dn, rf) /\ q \in PageType /\ q.life = p.life
<1>1. PICK f : f = Forget(p, m)
  OBVIOUS
<1>2. InLine(t, f, mk, kp, dn, rf) /\ f \in PageType /\ f.life = p.life
  BY <1>1, ForgetLine
<1>3. PICK op : op = [row |-> None, pump |-> FALSE]
  OBVIOUS
<1>4. op \in Op /\ op.row = None /\ op.row.status # "failed"
  BY <1>3 DEF Op, Row, None
<1>5. q = Chain(f, m, op.row, op.pump)
  <2>1. op.row = None /\ op.pump = FALSE
    BY <1>3
  <2> QED
    BY <1>1, <2>1 DEF Drop, Unstore
<1>6. (op.row = None => m \in dn) /\ (op.row.status = "failed" => m \in rf)
  BY <1>4
<1>7. InLine(t, q, mk, kp, dn, rf) /\ q \in PageType /\ q.life = f.life
  BY <1>2, <1>4, <1>5, <1>6, ChainLine
<1> QED
  BY <1>2, <1>7

LEMMA OldestFirst ==
  ASSUME Store, NEW S \in SUBSET DOMAIN made, S # {}
  PROVE  \A n \in S \ {Oldest(S)} : Older(Oldest(S), n)
<1> DEFINE ats == {made[m].at : m \in S}
<1>1. S \subseteq Nat /\ \A m \in S : made[m].at \in Nat
  BY Constants DEF Store
<1>2. PICK at \in ats : \A a \in ats : at <= a
  <2>1. ats \in SUBSET Nat /\ ats # {}
    BY <1>1
  <2> QED
    BY <2>1, Least
<1> DEFINE first == {m \in S : made[m].at = at}
<1>3. PICK x \in first : \A m \in first : x <= m
  <2>1. first \in SUBSET Nat /\ first # {}
    BY <1>1
  <2> QED
    BY <2>1, Least
<1>4. \A n \in S \ {x} : Older(x, n)
  <2> SUFFICES ASSUME NEW n \in S, n # x PROVE Older(x, n)
    OBVIOUS
  <2>1. made[x].at = at /\ at \in Nat /\ made[n].at \in Nat /\ at <= made[n].at /\ x \in Nat /\ n \in Nat
    BY <1>1, <1>2, <1>3
  <2>2. made[n].at = at => x <= n
    BY <1>3
  <2> QED
    BY <2>1, <2>2 DEF Older
<1>5. x \in S
  BY <1>3
<1> QED
  BY <1>4, <1>5 DEF Oldest

\* Nothing of S is ahead of its oldest.
LEMMA NoneAhead ==
  ASSUME Store, NEW S \in SUBSET DOMAIN made, NEW n \in S
  PROVE  ~ Ahead(made, n, Oldest(S))
<1>1. Oldest(S) \in S /\ \A k \in S \ {Oldest(S)} : Older(Oldest(S), k)
  BY OldestOf, OldestFirst
<1>2. \A k \in S : k \in Nat /\ made[k].at \in Nat
  BY Constants DEF Store
<1> QED
  BY <1>1, <1>2 DEF Ahead, Older

\* pump changes no row of what is queued.
SameRows(p, q) ==
  \A m \in Msg : /\ q.writing[m] = <<>> <=> p.writing[m] = <<>>
                 /\ DOMAIN q.writing[m] = DOMAIN p.writing[m]
                 /\ \A i \in DOMAIN p.writing[m] : q.writing[m][i].row = p.writing[m][i].row

LEMMA PumpLine ==
  ASSUME Store, NEW t, NEW p \in PageType, NEW kp, NEW dn, NEW rf, InLine(t, p, made, kp, dn, rf), rf \subseteq dn,
         NEW ch \in Channel, NEW q, q = Pump(t, p, ch)
  PROVE  InLine(t, q, made, kp, dn, rf) /\ q \in PageType /\ q.life = p.life /\ SameMem(p, q) /\ SameRows(p, q)
<1> DEFINE line == Line(t, p, ch)
           m == Oldest(line)
<1>1. /\ DOMAIN p = Fields /\ DOMAIN p.flight = Channel /\ DOMAIN p.writing = Msg
      /\ \A n \in Msg : p.writing[n] \in Seq(Op)
  BY PageFields DEF PageType
<1>2. line \in SUBSET DOMAIN made /\ \A n \in line : n \in Msg
  BY DEF Line, Known, InLine, Mem, InMemory
<1>3. line # {} => m \in line
  <2> HIDE DEF line
  <2> QED
    BY <1>2, OldestOf
<1>4. \/ q = p
      \/ line # {} /\ p.writing[m] # <<>> /\ q = [p EXCEPT !.writing[m][Len(p.writing[m])].pump = TRUE]
      \/ q = [p EXCEPT !.timer = @ \cup {ch}]
      \/ line # {} /\ q = [p EXCEPT !.flight[ch] = [id |-> m, answer |-> "none"]]
  BY DEF Pump
<1>5. CASE q = p
  BY <1>5 DEF SameMem, SameRows
<1>6. CASE line # {} /\ p.writing[m] # <<>> /\ q = [p EXCEPT !.writing[m][Len(p.writing[m])].pump = TRUE]
  <2> HIDE DEF m, line
  <2>1. m \in Msg
    BY <1>2, <1>3, <1>6
  <2>2. PICK w : w = [p.writing[m] EXCEPT ![Len(p.writing[m])].pump = TRUE]
    OBVIOUS
  <2>3. PICK v : v = [p.writing EXCEPT ![m] = w]
    OBVIOUS
  <2>4. q = [p EXCEPT !.writing = v]
    BY <1>6, <2>2, <2>3
  <2>5. Nudged(p.writing[m], w)
    BY <1>1, <1>6, <2>1, <2>2, LastNudged
  <2>6. v \in [Msg -> Seq(Op)] /\ v[m] = w /\ (\A n \in Msg \ {m} : v[n] = p.writing[n])
    BY <1>1, <2>1, <2>3, <2>5 DEF Nudged, PageType
  <2>7. q \in PageType /\ q.recs = p.recs /\ q.flight = p.flight /\ SameLoad(p, q) /\ q.writing = v
    BY <2>4, <2>6, SetWriting
  <2>8. q.lastCreatedAt = p.lastCreatedAt
    BY <1>1, <2>4 DEF Fields
  <2>9. SameRows(p, q)
    BY <2>5, <2>6, <2>7 DEF SameRows, Nudged
  <2>10. SameMem(p, q)
    BY <2>7, <2>8 DEF SameMem, SameLoad
  <2>11. Que(t, q, made, kp, dn, rf)
    BY <2>9 DEF InLine, Que, SameRows
  <2>12. Fly(t, q, made, kp, dn) /\ Mem(t, q, made, kp, dn, rf)
    BY <2>7, <2>10, SameMemOK DEF InLine, Fly
  <2> QED
    BY <2>7, <2>9, <2>10, <2>11, <2>12 DEF InLine, SameLoad
<1>7. CASE q = [p EXCEPT !.timer = @ \cup {ch}]
  <2>1. q \in PageType /\ q.recs = p.recs /\ q.flight = p.flight /\ q.writing = p.writing /\ SameLoad(p, q)
    BY <1>7, SetTimer
  <2>2. q.lastCreatedAt = p.lastCreatedAt
    BY <1>1, <1>7 DEF Fields
  <2>3. SameMem(p, q)
    BY <2>1, <2>2 DEF SameMem, SameLoad
  <2>4. Mem(t, q, made, kp, dn, rf)
    BY <2>3, SameMemOK DEF InLine
  <2> QED
    BY <2>1, <2>3, <2>4 DEF InLine, Que, Fly, SameRows, SameLoad
<1>8. CASE line # {} /\ q = [p EXCEPT !.flight[ch] = [id |-> m, answer |-> "none"]]
  <2>1. m \in line
    BY <1>3, <1>8
  <2>2. ASSUME NEW k \in DOMAIN made, Ahead(made, k, m) PROVE Excused(t, made, kp, dn, k)
    <3>1. CASE p.recs[k] # None
      <4>1. k \in Msg /\ made[m].ch = ch /\ made[k].ch = made[m].ch /\ k \notin line
        BY <1>2, <2>1, <2>2, NoneAhead DEF Line, Known, Ahead, Store
      <4>2. p.recs[k].status = "failed"
        BY <3>1, <4>1 DEF InLine, Mem, InMemory, Line, Known
      <4> QED
        BY <3>1, <4>1, <4>2 DEF InLine, Mem, InMemory, Excused
    <3>2. CASE p.recs[k] = None
      BY <1>2, <2>1, <2>2, <3>2 DEF InLine, Mem, BeforeIt, Line, Known
    <3> QED
      BY <3>1, <3>2
  <2> HIDE DEF m, line
  <2>3. PICK f : f = [p.flight EXCEPT ![ch] = [id |-> m, answer |-> "none"]]
    OBVIOUS
  <2>4. q = [p EXCEPT !.flight = f]
    BY <1>8, <2>3
  <2>5. /\ f \in [Channel -> [id : Msg \cup {NoMsg}, answer : {"none", "ok", "final"}]]
        /\ f[ch].id = m /\ \A c \in Channel \ {ch} : f[c] = p.flight[c]
    BY <1>1, <1>2, <2>1, <2>3 DEF PageType
  <2>6. q \in PageType /\ q.recs = p.recs /\ q.flight = f /\ q.writing = p.writing /\ SameLoad(p, q)
    BY <2>4, <2>5, SetFlight
  <2>7. q.lastCreatedAt = p.lastCreatedAt
    BY <1>1, <2>4 DEF Fields
  <2>8. SameMem(p, q) /\ SameRows(p, q)
    BY <2>6, <2>7 DEF SameMem, SameLoad, SameRows
  <2>9. Mem(t, q, made, kp, dn, rf)
    BY <2>8, SameMemOK DEF InLine
  <2>10. Fly(t, q, made, kp, dn)
    BY <2>2, <2>5, <2>6 DEF InLine, Fly
  <2> QED
    BY <2>6, <2>8, <2>9, <2>10 DEF InLine, Que, SameLoad
<1> QED
  BY <1>4, <1>5, <1>6, <1>7, <1>8

LEMMA PumpAllLine ==
  ASSUME Store, NEW t, NEW p \in PageType, NEW kp, NEW dn, NEW rf, InLine(t, p, made, kp, dn, rf), rf \subseteq dn,
         NEW chs \in SUBSET Channel, NEW q, q = PumpAll(t, p, chs)
  PROVE  InLine(t, q, made, kp, dn, rf) /\ q \in PageType /\ q.life = p.life
<1>1. \A m \in DOMAIN made : m \in Msg /\ made[m].ch \in Channel
  BY DEF Store
<1>2. \A ch \in chs \cap Channel : /\ InLine(t, Pump(t, p, ch), made, kp, dn, rf) /\ Pump(t, p, ch) \in PageType
                                   /\ SameRows(p, Pump(t, p, ch))
  BY PumpLine
<1> DEFINE F == [ch \in Channel |-> IF ch \in chs THEN Pump(t, p, ch).flight[ch] ELSE p.flight[ch]]
           T == p.timer \cup {ch \in chs : ch \in Pump(t, p, ch).timer}
           W == [m \in Msg |-> IF m \in DOMAIN made /\ made[m].ch \in chs
                               THEN Pump(t, p, made[m].ch).writing[m] ELSE p.writing[m]]
<1>3. q = [p EXCEPT !.flight = F, !.timer = T, !.writing = W]
  BY DEF PumpAll
<1>4. F \in [Channel -> [id : Msg \cup {NoMsg}, answer : {"none", "ok", "final"}]]
  <2>1. \A ch \in chs \cap Channel : Pump(t, p, ch).flight[ch] \in [id : Msg \cup {NoMsg}, answer : {"none", "ok", "final"}]
    BY <1>2 DEF PageType
  <2>2. \A ch \in Channel : p.flight[ch] \in [id : Msg \cup {NoMsg}, answer : {"none", "ok", "final"}]
    BY DEF PageType
  <2> QED
    BY <2>1, <2>2
<1>5. \A ch \in Channel : F[ch] = p.flight[ch] \/ (ch \in chs /\ F[ch] = Pump(t, p, ch).flight[ch])
  OBVIOUS
<1>6. \A m \in Msg : \/ W[m] = p.writing[m]
                     \/ m \in DOMAIN made /\ made[m].ch \in chs \cap Channel /\ W[m] = Pump(t, p, made[m].ch).writing[m]
  BY <1>1
<1>7. W \in [Msg -> Seq(Op)]
  <2>1. \A m \in Msg : W[m] \in Seq(Op)
    BY <1>2, <1>6 DEF PageType
  <2> QED
    BY <2>1
<1>8. T \in SUBSET Channel
  BY DEF PageType
<1> HIDE DEF F, T, W
<1>9. /\ DOMAIN q = Fields /\ q.recs = p.recs /\ q.rows = p.rows /\ q.load = p.load /\ q.lastCreatedAt = p.lastCreatedAt
      /\ q.droppedChannels = p.droppedChannels /\ q.life = p.life /\ q.flight = F /\ q.writing = W
  BY <1>3, PageFields DEF Fields
<1>10. SameRows(p, q)
  BY <1>2, <1>6, <1>9 DEF SameRows
<1>11. Que(t, q, made, kp, dn, rf)
  BY <1>10 DEF InLine, Que, SameRows
<1>12. Fly(t, q, made, kp, dn)
  BY <1>2, <1>5, <1>9 DEF InLine, Fly
<1>13. Mem(t, q, made, kp, dn, rf)
  BY <1>9, SameMemOK DEF InLine, SameMem
<1>14. q \in PageType
  BY <1>3, <1>4, <1>7, <1>8 DEF PageType
<1> QED
  BY <1>9, <1>14, <1>11, <1>12, <1>13 DEF InLine

\* Posted, refused or withdrawn; and lost with its page before it was ever stored.
DoneSends == Sends \cup refused \cup withdrawn
LostSend(m) == m \notin kept /\ page[made[m].tab].life = "gone"

Bare(p) ==
  /\ \A m \in Msg : p.recs[m] = None /\ p.writing[m] = <<>> /\ p.rows[m] = None
  /\ \A ch \in Channel : p.flight[ch].id = NoMsg

OneOpen == \A t, u \in Tab : IsOpen(t) /\ IsOpen(u) => t = u
OthersBare == \A t \in Tab : ~ IsOpen(t) => Bare(page[t])
Typed == \A m \in DOMAIN made : page[made[m].tab].life # "new"
OnDisk ==
  /\ \A m \in kept : disk[m] # None \/ m \in DoneSends
  /\ \A m \in Msg : disk[m].status = "failed" => m \in refused
InLines == \A t \in Tab : IsOpen(t) => InLine(t, page[t], made, kept, DoneSends, refused)
Behind ==
  \A m, n \in DOMAIN made : Ahead(made, m, n) /\ n \in late \cup Sends => m \in DoneSends \/ LostSend(m)
Placed == \A ch \in Channel : \A i \in DOMAIN log[ch] : log[ch][i] \in DOMAIN made /\ made[log[ch][i]].ch = ch
InOrder ==
  \A ch \in Channel : \A i, j \in DOMAIN log[ch] :
    Ahead(made, log[ch][i], log[ch][j]) /\ log[ch][i] \notin refused \cup withdrawn => i < j

OrderInv == OneOpen /\ OthersBare /\ Typed /\ OnDisk /\ InLines /\ Behind /\ Placed /\ InOrder

LEMMA LineFacts ==
  ASSUME OutboxInv, OrderInv, NEW t \in Tab, IsOpen(t)
  PROVE  /\ InLine(t, page[t], made, kept, DoneSends, refused) /\ page[t] \in PageType /\ Store
         /\ PageOK(page[t], made, kept, Sends, withdrawn, access) /\ page[t].life = "open"
BY DEF OutboxInv, OrderInv, InLines, PageOK, Sound, IsOpen

\* While t is open, what another page typed was typed by one that is gone.
LEMMA OthersGone ==
  ASSUME OutboxInv, OrderInv, NEW t \in Tab, IsOpen(t), NEW m \in DOMAIN made, made[m].tab # t
  PROVE  page[made[m].tab].life = "gone"
<1>1. made[m].tab \in Tab
  BY DEF OutboxInv, Store
<1>2. page[made[m].tab].life \in {"new", "open", "gone"}
  BY <1>1 DEF OutboxInv, PageOK, Sound, PageType
<1>3. page[made[m].tab].life # "open"
  BY <1>1 DEF OrderInv, OneOpen, IsOpen
<1>4. page[made[m].tab].life # "new"
  BY DEF OrderInv, Typed
<1> QED
  BY <1>2, <1>3, <1>4

LEMMA SameSends ==
  ASSUME log' = log
  PROVE  Sends' = Sends
BY DEF Sends, Posted, Server!Posted

\* The open page goes on; nothing is stored, typed or posted.
LEMMA OrderTurn ==
  ASSUME OutboxInv, OrderInv, NEW t \in Tab, IsOpen(t), NEW q, page' = [page EXCEPT ![t] = q], q.life = "open",
         UNCHANGED <<disk, made, log, kept>>, withdrawn \subseteq withdrawn', refused \subseteq refused',
         \A n \in late' : n \in late \/ \E ch \in Channel : n = page[t].flight[ch].id /\ n # NoMsg,
         InLine(t, q, made, kept, DoneSends', refused')
  PROVE  OrderInv'
<1>1. page'[t] = q /\ \A u \in Tab : u # t => page'[u] = page[u]
  BY DEF OutboxInv
<1>2. \A u \in Tab : page'[u].life = page[u].life
  BY <1>1 DEF IsOpen
<1>3. Sends' = Sends /\ DoneSends \subseteq DoneSends'
  BY SameSends DEF DoneSends
<1>4. \A m \in DOMAIN made : made[m].tab \in Tab
  BY DEF OutboxInv, Store
<1>5. \A m \in DOMAIN made : LostSend(m) => LostSend(m)'
  BY <1>2, <1>4 DEF LostSend
<1>6. OneOpen' /\ Typed'
  BY <1>2, <1>4 DEF OrderInv, OneOpen, IsOpen, Typed
<1>7. OthersBare' /\ InLines'
  <2>1. \A u \in Tab : IsOpen(u)' <=> u = t
    BY <1>2 DEF OrderInv, OneOpen, IsOpen
  <2>2. OthersBare'
    BY <1>1, <2>1 DEF OrderInv, OthersBare, IsOpen, OneOpen
  <2>3. InLines'
    BY <1>1, <2>1 DEF InLines
  <2> QED
    BY <2>2, <2>3
<1>8. OnDisk'
  BY <1>3 DEF OrderInv, OnDisk
<1>9. Behind'
  <2> SUFFICES ASSUME NEW m \in DOMAIN made, NEW n \in DOMAIN made, Ahead(made, m, n), n \in late' \cup Sends
               PROVE  m \in DoneSends \/ LostSend(m)
    BY <1>3, <1>5 DEF Behind
  <2>1. CASE n \in late \cup Sends
    BY <2>1 DEF OrderInv, Behind
  <2>2. CASE n \in late' /\ n \notin late
    <3>1. PICK ch \in Channel : n = page[t].flight[ch].id /\ n # NoMsg
      BY <2>2
    <3>2. Excused(t, made, kept, DoneSends, m)
      BY <3>1, LineFacts DEF InLine, Fly
    <3> QED
      BY <3>2, OthersGone DEF Excused, LostSend
  <2> QED
    BY <2>1, <2>2
<1>10. Placed' /\ InOrder'
  BY DEF OrderInv, Placed, InOrder
<1> QED
  BY <1>6, <1>7, <1>8, <1>9, <1>10 DEF OrderInv

\* Only the page changes.
PageOnly == UNCHANGED <<disk, made, log, kept, late, withdrawn, refused>>

LEMMA OrderBecome ==
  ASSUME OutboxInv, OrderInv, NEW t \in Tab, IsOpen(t), NEW p, Become(t, p), p.life = "open", PageOnly,
         InLine(t, p, made, kept, DoneSends, refused)
  PROVE  OrderInv'
<1>1. DoneSends' = DoneSends /\ refused' = refused
  BY SameSends DEF DoneSends, PageOnly
<1> QED
  BY <1>1, OrderTurn DEF Become, PageOnly

LEMMA OrderPumped ==
  ASSUME OutboxInv, OrderInv, NEW t \in Tab, IsOpen(t), NEW p \in PageType, NEW ch \in Channel, BecomePumped(t, p, ch),
         p.life = "open", UNCHANGED <<disk, made, log, kept>>, withdrawn \subseteq withdrawn', refused \subseteq refused',
         \A n \in late' : n \in late \/ \E c \in Channel : n = page[t].flight[c].id /\ n # NoMsg,
         InLine(t, p, made, kept, DoneSends', refused')
  PROVE  OrderInv'
<1>1. PICK q : q = Pump(t, p, ch) /\ page' = [page EXCEPT ![t] = q]
  BY DEF BecomePumped, Become
<1>2. PICK dn, rf : dn = DoneSends' /\ rf = refused'
  OBVIOUS
<1>3. rf \subseteq dn /\ Store
  BY <1>2 DEF DoneSends, OutboxInv
<1>4. InLine(t, q, made, kept, dn, rf) /\ q.life = p.life
  BY <1>1, <1>2, <1>3, PumpLine
<1> QED
  BY <1>1, <1>2, <1>4, OrderTurn

LEMMA OpenOrder ==
  ASSUME OutboxInv, OrderInv, NEW t \in Tab, Open(t), MaxOpen <= 1
  PROVE  OrderInv'
<1> DEFINE S == {u \in Tab : IsOpen(u)}
<1>1. S = {}
  <2>1. ASSUME NEW u \in S PROVE FALSE
    <3>1. S = {u}
      BY DEF OrderInv, OneOpen
    <3>2. Cardinality(S) = 1
      BY <3>1, FS_Singleton
    <3> QED
      BY <3>2, OutboxAssumption DEF Open
  <2> QED
    BY <2>1
<1>2. PICK q : q = [Blank EXCEPT !.life = "open", !.load = "read", !.issued = <<NoMsg>>]
  OBVIOUS
<1>3. page' = [page EXCEPT ![t] = q] /\ page[t].life = "new"
  BY <1>2 DEF Open, Become
<1>4. UNCHANGED <<disk, made, log, kept, late, withdrawn, refused>>
  BY DEF Open
<1>5. DoneSends' = DoneSends /\ Sends' = Sends
  BY <1>4, SameSends DEF DoneSends
<1>6. page'[t] = q /\ \A u \in Tab : u # t => page'[u] = page[u]
  BY <1>3 DEF OutboxInv
<1>7. /\ q.life = "open" /\ q.load = "read" /\ q.recs = [m \in Msg |-> None] /\ q.writing = [m \in Msg |-> <<>>]
      /\ q.rows = [m \in Msg |-> None] /\ q.droppedChannels = {}
      /\ q.flight = [ch \in Channel |-> [id |-> NoMsg, answer |-> "none"]]
  BY <1>2 DEF Blank
<1>8. \A u \in Tab : IsOpen(u)' <=> u = t
  BY <1>1, <1>6, <1>7 DEF IsOpen
<1>9. \A m \in DOMAIN made : made[m].tab \in Tab \ {t}
  BY <1>3 DEF OutboxInv, Store, OrderInv, Typed
<1>10. InLine(t, q, made, kept, DoneSends, refused)
  <2>1. \A m \in Msg : q.recs[m] = None /\ q.writing[m] = <<>> /\ q.rows[m] = None /\ q.rows[m].status # "failed"
    BY <1>7 DEF None
  <2>2. Mem(t, q, made, kept, DoneSends, refused)
    BY <1>7, <1>9, <2>1 DEF Mem, InMemory, Expected, BeforeIt, OutboxInv, Store
  <2>3. \A ch \in Channel : q.flight[ch].id = NoMsg
    BY <1>7
  <2> QED
    BY <2>1, <2>2, <2>3 DEF InLine, Que, Fly
<1>11. OneOpen' /\ InLines' /\ OthersBare'
  <2>1. OneOpen'
    BY <1>8 DEF OneOpen
  <2>2. InLines'
    BY <1>4, <1>5, <1>6, <1>8, <1>10 DEF InLines
  <2>3. OthersBare'
    BY <1>1, <1>6, <1>8 DEF OrderInv, OthersBare
  <2> QED
    BY <2>1, <2>2, <2>3
<1>12. Typed' /\ OnDisk'
  BY <1>4, <1>5, <1>6, <1>9 DEF OrderInv, Typed, OnDisk
<1>13. Behind' /\ Placed' /\ InOrder'
  <2>1. \A m \in DOMAIN made : LostSend(m) => LostSend(m)'
    BY <1>4, <1>6, <1>9 DEF LostSend
  <2> QED
    BY <1>4, <1>5, <2>1 DEF OrderInv, Behind, Placed, InOrder
<1> QED
  BY <1>11, <1>12, <1>13 DEF OrderInv

\* What was not stored is lost; a request that is out may still arrive, and is in its place.
LEMMA CloseOrder ==
  ASSUME OutboxInv, OrderInv, NEW t \in Tab, Close(t)
  PROVE  OrderInv'
<1>1. PICK q : q = [Blank EXCEPT !.life = "gone"]
  OBVIOUS
<1>2. page' = [page EXCEPT ![t] = q] /\ IsOpen(t)
  BY <1>1 DEF Close, Become
<1>3. /\ UNCHANGED <<disk, made, log, kept, withdrawn, refused>>
      /\ \A n \in late' : n \in late \/ \E ch \in Channel : n = page[t].flight[ch].id /\ n # NoMsg
  BY DEF Close
<1>4. DoneSends' = DoneSends /\ Sends' = Sends
  BY <1>3, SameSends DEF DoneSends
<1>5. page'[t] = q /\ \A u \in Tab : u # t => page'[u] = page[u]
  BY <1>2 DEF OutboxInv
<1>6. /\ q.life = "gone" /\ q.recs = [m \in Msg |-> None] /\ q.writing = [m \in Msg |-> <<>>]
      /\ q.rows = [m \in Msg |-> None]
      /\ q.flight = [ch \in Channel |-> [id |-> NoMsg, answer |-> "none"]]
  BY <1>1 DEF Blank
<1>7. \A u \in Tab : ~ IsOpen(u)'
  BY <1>2, <1>5, <1>6 DEF IsOpen, OrderInv, OneOpen
<1>8. \A m \in DOMAIN made : made[m].tab \in Tab
  BY DEF OutboxInv, Store
<1>9. Bare(q)
  BY <1>6 DEF Bare
<1>10. OneOpen' /\ InLines' /\ OthersBare'
  <2>1. OneOpen' /\ InLines'
    BY <1>7 DEF OneOpen, InLines
  <2>2. OthersBare'
    BY <1>2, <1>5, <1>9 DEF OrderInv, OthersBare, OneOpen
  <2> QED
    BY <2>1, <2>2
<1>11. Typed' /\ OnDisk'
  BY <1>3, <1>4, <1>5, <1>6, <1>8 DEF OrderInv, Typed, OnDisk
<1>12. \A m \in DOMAIN made : LostSend(m) => LostSend(m)'
  BY <1>3, <1>5, <1>6, <1>8 DEF LostSend
<1>13. Behind'
  <2> SUFFICES ASSUME NEW m \in DOMAIN made, NEW n \in DOMAIN made, Ahead(made, m, n), n \in late' \cup Sends
               PROVE  m \in DoneSends \/ LostSend(m)
    BY <1>3, <1>4, <1>12 DEF Behind
  <2>1. CASE n \in late \cup Sends
    BY <2>1 DEF OrderInv, Behind
  <2>2. CASE n \in late' /\ n \notin late
    <3>1. PICK ch \in Channel : n = page[t].flight[ch].id /\ n # NoMsg
      BY <1>3, <2>2
    <3>2. Excused(t, made, kept, DoneSends, m)
      BY <1>2, <3>1, LineFacts DEF InLine, Fly
    <3> QED
      BY <1>2, <3>2, OthersGone DEF Excused, LostSend
  <2> QED
    BY <2>1, <2>2
<1>14. Placed' /\ InOrder'
  BY <1>3 DEF OrderInv, Placed, InOrder
<1> QED
  BY <1>10, <1>11, <1>13, <1>14 DEF OrderInv

\* Records that were there take another status.
LEMMA RecsLine ==
  ASSUME NEW t, NEW p \in PageType, NEW mk, NEW kp, NEW dn, NEW rf, InLine(t, p, mk, kp, dn, rf),
         NEW q, DOMAIN mk \subseteq Msg,
         \A m \in Msg : q.recs[m] # None <=> p.recs[m] # None,
         \A m \in Msg : q.recs[m] # None => q.recs[m].owner = t /\ (q.recs[m].status = "failed" => m \in rf),
         q.rows = p.rows, q.load = p.load \/ q.load = "read", q.lastCreatedAt = p.lastCreatedAt,
         q.droppedChannels = p.droppedChannels, q.flight = p.flight, q.writing = p.writing
  PROVE  InLine(t, q, mk, kp, dn, rf)
<1>1. InMemory(t, q, mk, kp, rf)
  BY DEF InLine, Mem, InMemory
<1>2. Expected(t, q, mk, kp, dn)
  BY DEF InLine, Mem, Expected
<1>3. BeforeIt(t, q, mk, kp, dn)
  BY DEF InLine, Mem, BeforeIt
<1> QED
  BY <1>1, <1>2, <1>3 DEF InLine, Mem, Que, Fly

LEMMA KickOrder ==
  ASSUME OutboxInv, OrderInv, NEW t \in Tab, Kick(t)
  PROVE  OrderInv'
<1> DEFINE p == page[t]
<1>1. /\ InLine(t, p, made, kept, DoneSends, refused) /\ p \in PageType /\ DOMAIN p = Fields
      /\ DOMAIN made \subseteq Msg /\ p.life = "open" /\ IsOpen(t)
  BY LineFacts, PageFields DEF Kick, Store
<1>2. PICK recs : recs = [m \in Msg |-> IF p.recs[m].status = "retrying" /\ ~ InFlight(p, m)
                                        THEN [p.recs[m] EXCEPT !.status = "pending"] ELSE p.recs[m]]
  OBVIOUS
<1>3. PICK r : r = [p EXCEPT !.recs = recs, !.timer = {}, !.kicked = TRUE]
  OBVIOUS
<1>4. PICK q : q = StartLoad(r)
  OBVIOUS
<1>5. Become(t, q) /\ PageOnly
  BY <1>2, <1>3, <1>4 DEF Kick, PageOnly
<1>6. \A m \in Msg : /\ recs[m] # None <=> p.recs[m] # None
                     /\ recs[m] # None => recs[m].owner = t /\ (recs[m].status = "failed" => m \in refused)
  <2> SUFFICES ASSUME NEW m \in Msg, p.recs[m].status = "retrying", recs[m] = [p.recs[m] EXCEPT !.status = "pending"]
               PROVE  recs[m] # None /\ p.recs[m] # None /\ recs[m].owner = t /\ recs[m].status # "failed"
    BY <1>1, <1>2 DEF InLine, Mem, InMemory
  <2>1. p.recs[m] # None
    BY DEF None
  <2>2. p.recs[m] \in Rec /\ p.recs[m].owner = t
    BY <1>1, <2>1 DEF PageType, Row, InLine, Mem, InMemory
  <2>3. recs[m] \in Rec /\ recs[m].owner = t /\ recs[m].status = "pending"
    BY <2>2 DEF Rec
  <2> QED
    BY <2>1, <2>3, RecRow
<1> HIDE DEF p
<1>7. /\ DOMAIN r = Fields /\ r.recs = recs /\ r.flight = p.flight /\ r.droppedChannels = p.droppedChannels
      /\ r.rows = p.rows /\ r.load = p.load /\ r.lastCreatedAt = p.lastCreatedAt /\ r.writing = p.writing /\ r.life = p.life
  BY <1>1, <1>3 DEF Fields
<1>8. /\ q.recs = recs /\ q.flight = p.flight /\ q.droppedChannels = p.droppedChannels
      /\ q.rows = p.rows /\ (q.load = p.load \/ q.load = "read") /\ q.lastCreatedAt = p.lastCreatedAt
      /\ q.writing = p.writing /\ q.life = p.life
  BY <1>4, <1>7 DEF StartLoad, Fields
<1>9. InLine(t, q, made, kept, DoneSends, refused)
  BY <1>1, <1>6, <1>8, RecsLine
<1> QED
  BY <1>1, <1>5, <1>8, <1>9, OrderBecome

LEMMA AlikeLine ==
  ASSUME NEW t, NEW p, NEW mk, NEW kp, NEW dn, NEW rf, InLine(t, p, mk, kp, dn, rf), NEW q, SameMem(p, q),
         q.writing = p.writing, \A ch \in Channel : q.flight[ch].id = p.flight[ch].id \/ q.flight[ch].id = NoMsg
  PROVE  InLine(t, q, mk, kp, dn, rf)
<1>1. Mem(t, q, mk, kp, dn, rf)
  BY SameMemOK DEF InLine
<1>2. Fly(t, q, mk, kp, dn)
  BY DEF InLine, Fly
<1> QED
  BY <1>1, <1>2 DEF InLine, Que

\* What the shared history owes to a record in memory.
LEMMA KnownLine ==
  ASSUME NEW t, NEW p, NEW mk, NEW kp, NEW dn, NEW rf, InLine(t, p, mk, kp, dn, rf), NEW m \in Msg, p.recs[m] # None
  PROVE  m \in DOMAIN mk /\ (m \in kp \/ mk[m].tab = t) /\ p.recs[m].owner = t
BY DEF InLine, Mem, InMemory

\* One record of the line is written anew, and to the storage.
LEMMA RecLine ==
  ASSUME NEW t \in Tab, NEW p \in PageType, NEW mk, NEW kp, NEW dn, NEW rf, InLine(t, p, mk, kp, dn, rf), DOMAIN mk \subseteq Msg,
         NEW m \in Msg, p.recs[m] # None, NEW rec \in Rec, rec.owner = t, rec.status = "failed" => m \in rf,
         NEW v \in [Msg -> Row], v[m] = rec, \A n \in Msg \ {m} : v[n] = p.recs[n], NEW w, w = [p EXCEPT !.recs = v]
  PROVE  InLine(t, w, mk, kp, dn, rf) /\ w \in PageType /\ w.life = p.life /\ w.recs[m] = rec
<1>1. DOMAIN p = Fields /\ p.recs \in [Msg -> Row] /\ rec \in Row /\ rec # None
  BY RecRow, PageFields DEF PageType
<1>5. w \in PageType /\ w.recs = v /\ SameLoad(p, w) /\ w.flight = p.flight /\ w.writing = p.writing
  <2>1. v[m] # None
    BY <1>1
  <2>2. Recorded(p, w, m) /\ w.recs = v /\ SameLoad(p, w) /\ w.flight = p.flight /\ w.writing = p.writing
    BY <2>1, SetRec
  <2> QED
    BY <2>2 DEF Recorded
<1>6. w.lastCreatedAt = p.lastCreatedAt
  BY <1>1 DEF Fields
<1>7. \A n \in Msg : w.recs[n] # None <=> p.recs[n] # None
  BY <1>1, <1>5
<1>8. \A n \in Msg : w.recs[n] # None => w.recs[n].owner = t /\ (w.recs[n].status = "failed" => n \in rf)
  BY <1>5 DEF InLine, Mem, InMemory
<1>9. InLine(t, w, mk, kp, dn, rf)
  BY <1>5, <1>6, <1>7, <1>8, RecsLine DEF SameLoad
<1> QED
  BY <1>5, <1>9 DEF SameLoad

LEMMA WriteLine ==
  ASSUME NEW t, NEW w \in PageType, NEW mk, NEW kp, NEW dn, NEW rf, InLine(t, w, mk, kp, dn, rf),
         NEW m \in Msg, w.recs[m] # None, NEW b \in BOOLEAN, NEW q, q = Chain(w, m, w.recs[m], b)
  PROVE  InLine(t, q, mk, kp, dn, rf) /\ q \in PageType /\ q.life = w.life
<1>1. PICK op : op = [row |-> w.recs[m], pump |-> b]
  OBVIOUS
<1>2. op \in Op /\ op.row = w.recs[m] /\ op.pump = b
  BY <1>1 DEF Op, PageType
<1>3. q = Chain(w, m, op.row, op.pump)
  BY <1>2
<1>4. /\ op.row = None => m \in dn
      /\ op.row.status = "failed" => m \in rf
  BY <1>2 DEF InLine, Mem, InMemory
<1>5. m \in DOMAIN mk /\ (m \in kp \/ mk[m].tab = t)
  BY KnownLine
<1> QED
  BY <1>2, <1>3, <1>4, <1>5, ChainLine

LEMMA RetryOrder ==
  ASSUME OutboxInv, OrderInv, NEW t \in Tab, NEW m \in Msg, Retry(t, m)
  PROVE  OrderInv'
<1> DEFINE p == page[t]
<1>1. /\ InLine(t, p, made, kept, DoneSends, refused) /\ p \in PageType
      /\ DOMAIN made \subseteq Msg /\ p.life = "open" /\ IsOpen(t)
  BY LineFacts DEF Retry, Store
<1>2. PICK rec : rec = [status |-> "pending", owner |-> t]
  OBVIOUS
<1>3. PICK v : v = [p.recs EXCEPT ![m] = rec]
  OBVIOUS
<1>4. PICK w : w = [p EXCEPT !.recs = v]
  OBVIOUS
<1>5. PICK b \in BOOLEAN : b = TRUE
  OBVIOUS
<1>6. PICK q : q = Chain(w, m, w.recs[m], b)
  OBVIOUS
<1>7. Become(t, q) /\ PageOnly
  BY <1>2, <1>3, <1>4, <1>5, <1>6 DEF Retry, PageOnly, PersistThenPump
<1>8. rec \in Rec /\ rec.owner = t /\ (rec.status = "failed" => m \in refused)
  BY <1>2 DEF Rec
<1>9. p.recs[m] # None
  <2>1. p.recs[m].status = "failed"
    BY DEF Retry
  <2> QED
    BY <2>1 DEF None
<1> HIDE DEF p
<1>10. v \in [Msg -> Row] /\ v[m] = rec /\ \A n \in Msg \ {m} : v[n] = p.recs[n]
  BY <1>1, <1>3, <1>8, RecRow DEF PageType
<1>11. InLine(t, w, made, kept, DoneSends, refused) /\ w \in PageType /\ w.life = p.life /\ w.recs[m] = rec
  BY <1>1, <1>10, <1>4, <1>8, <1>9, RecLine
<1>12. w.recs[m] # None
  BY <1>8, <1>11, RecRow
<1>13. InLine(t, q, made, kept, DoneSends, refused) /\ q.life = w.life
  BY <1>6, <1>11, <1>12, WriteLine
<1> QED
  BY <1>1, <1>7, <1>11, <1>13, OrderBecome DEF p

\* Delete, or the message is here: it is done.
LEMMA EndOrder ==
  ASSUME OutboxInv, OrderInv, NEW t \in Tab, IsOpen(t), NEW m \in Msg, page[t].recs[m] # None,
         UNCHANGED <<disk, made, log, kept, late, refused>>, withdrawn \subseteq withdrawn', m \in DoneSends',
         NEW s, IF InFlight(page[t], m) THEN Become(t, s) ELSE BecomePumped(t, Drop(page[t], m), made[m].ch),
         SameMem(page[t], s), s.writing = page[t].writing, s.flight = page[t].flight, s.life = page[t].life
  PROVE  OrderInv'
<1>1. /\ InLine(t, page[t], made, kept, DoneSends, refused) /\ page[t] \in PageType
      /\ DOMAIN made \subseteq Msg /\ page[t].life = "open"
  BY LineFacts DEF Store
<1>2. PICK dn, rf : dn = DoneSends' /\ rf = refused'
  OBVIOUS
<1>3. DoneSends \subseteq dn /\ rf = refused
  BY <1>2, SameSends DEF DoneSends
<1>4. InLine(t, page[t], made, kept, dn, rf)
  BY <1>1, <1>3, InLineStays
<1>5. m \in DOMAIN made /\ (m \in kept \/ made[m].tab = t) /\ m \in dn
  BY <1>1, <1>2, KnownLine
<1>6. CASE InFlight(page[t], m)
  <2>1. page' = [page EXCEPT ![t] = s]
    BY <1>6 DEF Become
  <2>2. InLine(t, s, made, kept, dn, rf)
    BY <1>4, AlikeLine
  <2> QED
    BY <1>1, <1>2, <2>1, <2>2, OrderTurn
<1>7. CASE ~ InFlight(page[t], m)
  <2>1. PICK d : d = Drop(page[t], m)
    OBVIOUS
  <2>2. BecomePumped(t, d, made[m].ch)
    BY <1>7, <2>1
  <2>3. InLine(t, d, made, kept, dn, rf) /\ d \in PageType /\ d.life = page[t].life
    BY <1>1, <1>4, <1>5, <2>1, DropLine
  <2>4. made[m].ch \in Channel
    BY <1>5 DEF OutboxInv, Store
  <2> QED
    BY <1>1, <1>2, <2>2, <2>3, <2>4, OrderPumped
<1> QED
  BY <1>6, <1>7

LEMMA DiscardOrder ==
  ASSUME OutboxInv, OrderInv, NEW t \in Tab, NEW m \in Msg, Discard(t, m)
  PROVE  OrderInv'
<1>1. IsOpen(t) /\ page[t] \in PageType /\ DOMAIN page[t] = Fields
  BY Facts, PageFields DEF Discard
<1>2. PICK s : s = [page[t] EXCEPT !.discardAfterFlight = @ \cup {m}]
  OBVIOUS
<1>3. SameMem(page[t], s) /\ s.writing = page[t].writing /\ s.flight = page[t].flight /\ s.life = page[t].life
  BY <1>1, <1>2 DEF SameMem, Fields
<1>4. /\ UNCHANGED <<disk, made, log, kept, late, refused>> /\ withdrawn' = withdrawn \cup {m} /\ page[t].recs[m] # None
      /\ IF InFlight(page[t], m) THEN Become(t, s) ELSE BecomePumped(t, Drop(page[t], m), made[m].ch)
  BY <1>2 DEF Discard
<1>5. withdrawn \subseteq withdrawn' /\ m \in DoneSends'
  BY <1>4 DEF DoneSends
<1> QED
  BY <1>1, <1>3, <1>4, <1>5, EndOrder

LEMMA SettleOrder ==
  ASSUME OutboxInv, OrderInv, NEW t \in Tab, NEW m \in Msg, Settle(t, m)
  PROVE  OrderInv'
<1>1. IsOpen(t) /\ page[t] \in PageType /\ DOMAIN page[t] = Fields
  BY Facts, PageFields DEF Settle
<1>2. PICK s : s = [page[t] EXCEPT !.settledInFlight = @ \cup {m}]
  OBVIOUS
<1>3. SameMem(page[t], s) /\ s.writing = page[t].writing /\ s.flight = page[t].flight /\ s.life = page[t].life
  BY <1>1, <1>2 DEF SameMem, Fields
<1>4. /\ UNCHANGED <<disk, made, log, kept, late, refused, withdrawn>> /\ page[t].recs[m] # None
      /\ IF InFlight(page[t], m) THEN Become(t, s) ELSE BecomePumped(t, Drop(page[t], m), made[m].ch)
  BY <1>2 DEF Settle
<1>5. withdrawn \subseteq withdrawn' /\ m \in DoneSends'
  <2>1. m \in Sends
    BY DEF Settle, Sends
  <2> QED
    BY <1>4, <2>1, SameSends DEF DoneSends
<1> QED
  BY <1>1, <1>3, <1>4, <1>5, EndOrder

\* The backoff is over.
LEMMA WakeOrder ==
  ASSUME OutboxInv, OrderInv, NEW t \in Tab, NEW ch \in Channel, Wake(t, ch)
  PROVE  OrderInv'
<1> DEFINE p == page[t]
           line == Line(t, p, ch)
           due == {m \in line : m = Oldest(line) /\ p.recs[m].status = "retrying"}
<1>1. /\ InLine(t, p, made, kept, DoneSends, refused) /\ p \in PageType /\ DOMAIN p = Fields
      /\ DOMAIN made \subseteq Msg /\ p.life = "open" /\ IsOpen(t)
  BY LineFacts, PageFields DEF Wake, Store
<1>2. PICK recs : recs = [m \in Msg |-> IF m \in due THEN [p.recs[m] EXCEPT !.status = "pending"] ELSE p.recs[m]]
  OBVIOUS
<1>3. PICK r : r = [p EXCEPT !.timer = @ \ {ch}, !.recs = recs]
  OBVIOUS
<1>4. BecomePumped(t, r, ch) /\ UNCHANGED <<disk, made, log, kept, late, withdrawn, refused>>
  BY <1>2, <1>3 DEF Wake
<1>5. \A m \in Msg : /\ recs[m] \in Row /\ (recs[m] # None <=> p.recs[m] # None)
                     /\ recs[m] # None => recs[m].owner = t /\ (recs[m].status = "failed" => m \in refused)
  <2> SUFFICES ASSUME NEW m \in Msg
               PROVE  /\ recs[m] \in Row /\ (recs[m] # None <=> p.recs[m] # None)
                      /\ recs[m] # None => recs[m].owner = t /\ (recs[m].status = "failed" => m \in refused)
    OBVIOUS
  <2>1. CASE m \notin due
    BY <1>1, <1>2, <2>1 DEF InLine, Mem, InMemory, PageType
  <2>2. CASE m \in due
    <3>1. p.recs[m] \in Rec /\ p.recs[m] # None /\ p.recs[m].owner = t
      BY <1>1, <2>2 DEF Line, Known, PageType, Row
    <3>2. recs[m] = [p.recs[m] EXCEPT !.status = "pending"]
      BY <1>2, <2>2
    <3>3. recs[m] \in Rec /\ recs[m].owner = t /\ recs[m].status = "pending"
      BY <3>1, <3>2 DEF Rec
    <3> QED
      BY <3>1, <3>3, RecRow
  <2> QED
    BY <2>1, <2>2
<1> HIDE DEF due, line, p
<1>6. /\ r.recs = recs /\ r.flight = p.flight /\ r.droppedChannels = p.droppedChannels
      /\ r.rows = p.rows /\ r.load = p.load /\ r.lastCreatedAt = p.lastCreatedAt /\ r.writing = p.writing /\ r.life = p.life
  BY <1>1, <1>3 DEF Fields
<1>7. InLine(t, r, made, kept, DoneSends, refused)
  BY <1>1, <1>5, <1>6, RecsLine
<1>8. r \in PageType
  <2>1. recs \in [Msg -> Row]
    BY <1>2, <1>5
  <2>2. p.timer \ {ch} \in SUBSET Channel
    BY <1>1 DEF PageType
  <2> QED
    BY <1>1, <1>3, <2>1, <2>2 DEF PageType
<1>9. DoneSends' = DoneSends /\ refused' = refused
  BY <1>4, SameSends DEF DoneSends
<1> QED
  BY <1>1, <1>4, <1>6, <1>7, <1>8, <1>9, OrderPumped

\* The turn of a page, with whatever it does to the rest.
LEMMA PagesTurn ==
  ASSUME OutboxInv, OrderInv, NEW t \in Tab, IsOpen(t), NEW q, page' = [page EXCEPT ![t] = q], q.life = "open",
         \A m \in DOMAIN made' : made'[m].tab = t \/ (m \in DOMAIN made /\ made'[m].tab = made[m].tab),
         InLine(t, q, made', kept', DoneSends', refused')
  PROVE  OneOpen' /\ OthersBare' /\ Typed' /\ InLines' /\ \A u \in Tab : page'[u].life = page[u].life
<1>1. page'[t] = q /\ \A u \in Tab : u # t => page'[u] = page[u]
  BY DEF OutboxInv
<1>2. \A u \in Tab : page'[u].life = page[u].life
  BY <1>1 DEF IsOpen
<1>3. \A m \in DOMAIN made : made[m].tab \in Tab
  BY DEF OutboxInv, Store
<1>4. OneOpen'
  BY <1>2 DEF OrderInv, OneOpen, IsOpen
<1>5. Typed'
  <2> SUFFICES ASSUME NEW m \in DOMAIN made' PROVE page'[made'[m].tab].life # "new"
    BY DEF Typed
  <2>1. CASE made'[m].tab = t
    BY <1>1, <2>1
  <2>2. CASE m \in DOMAIN made /\ made'[m].tab = made[m].tab
    BY <1>2, <1>3, <2>2 DEF OrderInv, Typed
  <2> QED
    BY <2>1, <2>2
<1>6. \A u \in Tab : IsOpen(u)' <=> u = t
  BY <1>2 DEF OrderInv, OneOpen, IsOpen
<1>7. OthersBare'
  BY <1>1, <1>6 DEF OrderInv, OthersBare, IsOpen, OneOpen
<1>8. InLines'
  BY <1>1, <1>6 DEF InLines
<1> QED
  BY <1>2, <1>4, <1>5, <1>7, <1>8

\* A send that is stored, and that has everything before it behind it, is posted in its place.
LEMMA CommitOrder ==
  ASSUME OutboxInv, OrderInv, NEW m \in DOMAIN made, m \in kept, NEW ch \in Channel, made[m].ch = ch, Commit(m, ch),
         \A n \in DOMAIN made : Ahead(made, n, m) => n \in DoneSends \/ LostSend(n),
         UNCHANGED <<made, kept, refused, withdrawn>>, late' \subseteq late,
         \A u \in Tab : page'[u].life = page[u].life
  PROVE  Sends' = Sends \cup {m} /\ Behind' /\ Placed' /\ InOrder'
<1>1. /\ Store /\ m \in Msg /\ \A c \in Channel : log[c] \in Seq(Msg)
      /\ \A n \in DOMAIN made : n \in Nat /\ made[n].at \in Nat /\ made[n].tab \in Tab
  BY Constants DEF OutboxInv, Store
<1>2. Sends' = Sends \cup {m}
  BY <1>1, CommitFacts
<1>3. DoneSends' = DoneSends \cup {m} /\ \A n \in DOMAIN made : LostSend(n) => LostSend(n)'
  BY <1>1, <1>2 DEF DoneSends, LostSend
<1>4. Behind'
  BY <1>2, <1>3 DEF OrderInv, Behind
<1>5. CASE Posted(m)
  BY <1>2, <1>4, <1>5 DEF Commit, OrderInv, Placed, InOrder
<1>6. CASE ~ Posted(m)
  <2>1. log' = [log EXCEPT ![ch] = Append(@, m)]
    BY <1>6 DEF Commit, Server!Post
  <2>2. log'[ch] = Append(log[ch], m) /\ (\A c \in Channel \ {ch} : log'[c] = log[c])
    BY <1>1, <2>1 DEF Store
  <2>3. /\ DOMAIN log'[ch] = 1 .. Len(log[ch]) + 1 /\ DOMAIN log[ch] = 1 .. Len(log[ch]) /\ Len(log[ch]) \in Nat
        /\ log'[ch][Len(log[ch]) + 1] = m /\ \A i \in 1 .. Len(log[ch]) : log'[ch][i] = log[ch][i]
    BY <1>1, <2>2
  <2>4. \A i \in DOMAIN log'[ch] : \/ i \in DOMAIN log[ch] /\ log'[ch][i] = log[ch][i] /\ i < Len(log[ch]) + 1
                                   \/ i = Len(log[ch]) + 1 /\ log'[ch][i] = m
    BY <2>3
  <2>5. Placed'
    BY <2>2, <2>4 DEF OrderInv, Placed
  <2>6. ASSUME NEW j \in DOMAIN log[ch], Ahead(made, m, log[ch][j]), m \notin refused \cup withdrawn
        PROVE  FALSE
    <3>1. log[ch][j] \in Sends /\ log[ch][j] \in DOMAIN made
      <4>1. log[ch][j] \in Msg
        BY <1>1, <2>3
      <4> QED
        BY <4>1 DEF OrderInv, Placed, Sends, Posted, Server!Posted, Server!Range
    <3>2. m \in DoneSends \/ LostSend(m)
      BY <2>6, <3>1 DEF OrderInv, Behind
    <3> QED
      BY <1>6, <2>6, <3>2 DEF DoneSends, LostSend, Sends
  <2>7. ~ Ahead(made, m, m)
    BY <1>1 DEF Ahead
  <2>8. ASSUME NEW i \in DOMAIN log'[ch], NEW j \in DOMAIN log'[ch],
               Ahead(made, log'[ch][i], log'[ch][j]), log'[ch][i] \notin refused \cup withdrawn
        PROVE  i < j
    <3>1. CASE i \in DOMAIN log[ch] /\ j \in DOMAIN log[ch]
      BY <2>3, <2>8, <3>1 DEF OrderInv, InOrder
    <3>2. CASE i \in DOMAIN log[ch] /\ j = Len(log[ch]) + 1
      BY <2>3, <3>2
    <3>3. CASE i = Len(log[ch]) + 1
      BY <2>3, <2>4, <2>6, <2>7, <2>8, <3>3
    <3> QED
      BY <2>4, <3>1, <3>2, <3>3
  <2>9. InOrder'
    <3>1. \A c \in Channel \ {ch} : \A i, j \in DOMAIN log'[c] :
            Ahead(made, log'[c][i], log'[c][j]) /\ log'[c][i] \notin refused \cup withdrawn => i < j
      BY <2>2 DEF OrderInv, InOrder
    <3> QED
      BY <2>8, <3>1 DEF InOrder
  <2> QED
    BY <1>2, <1>4, <2>5, <2>9
<1> QED
  BY <1>5, <1>6

LEMMA AcceptOrder ==
  ASSUME OutboxInv, OrderInv, NEW t \in Tab, NEW ch \in Channel, Accept(t, ch)
  PROVE  OrderInv'
<1> DEFINE p == page[t]
           m == p.flight[ch].id
<1>1. /\ InLine(t, p, made, kept, DoneSends, refused) /\ p \in PageType /\ DOMAIN p = Fields
      /\ PageOK(p, made, kept, Sends, withdrawn, access) /\ p.life = "open" /\ IsOpen(t)
  BY LineFacts, PageFields DEF Accept, Out
<1>2. m \in DOMAIN made /\ m \in kept /\ made[m].ch = ch /\ m # NoMsg
  BY <1>1 DEF Accept, Out, PageOK, Sound, Backed, Mine
<1>3. \A n \in DOMAIN made : Ahead(made, n, m) => n \in DoneSends \/ LostSend(n)
  <2> SUFFICES ASSUME NEW n \in DOMAIN made, Ahead(made, n, m) PROVE n \in DoneSends \/ LostSend(n)
    OBVIOUS
  <2>1. Excused(t, made, kept, DoneSends, n)
    BY <1>1, <1>2 DEF InLine, Fly
  <2> QED
    BY <1>1, <2>1, OthersGone DEF Excused, LostSend
<1>4. PICK a \in {"ok", "final"} : a = "ok"
  OBVIOUS
<1>5. PICK q : q = [p EXCEPT !.flight[ch].answer = a]
  OBVIOUS
<1>6. /\ Commit(m, ch) /\ Become(t, q) /\ UNCHANGED <<disk, made, late, kept, withdrawn, refused>>
  BY <1>4, <1>5 DEF Accept
<1>7. page' = [page EXCEPT ![t] = q]
  BY <1>6 DEF Become
<1> HIDE DEF p, m
<1>8. /\ q.writing = p.writing /\ SameLoad(p, q) /\ q.recs = p.recs
      /\ \A c \in Channel : q.flight[c].id = p.flight[c].id
  BY <1>1, <1>5, SetAnswer
<1>9. q.lastCreatedAt = p.lastCreatedAt
  BY <1>1, <1>5 DEF Fields
<1>10. q.life = "open" /\ InLine(t, q, made, kept, DoneSends, refused)
  <2>1. SameMem(p, q)
    BY <1>8, <1>9 DEF SameMem, SameLoad
  <2> QED
    BY <1>1, <1>8, <2>1, AlikeLine DEF SameLoad
<1>11. \A u \in Tab : page'[u].life = page[u].life
  BY <1>1, <1>7, <1>10 DEF OutboxInv, p
<1>12. Sends' = Sends \cup {m} /\ Behind' /\ Placed' /\ InOrder'
  BY <1>2, <1>3, <1>6, <1>11, CommitOrder
<1>13. DoneSends \subseteq DoneSends'
  BY <1>6, <1>12 DEF DoneSends
<1>14. InLine(t, q, made', kept', DoneSends', refused')
  <2>1. InLine(t, q, made, kept, DoneSends', refused)
    BY <1>10, <1>13, InLineStays
  <2> QED
    BY <1>6, <2>1
<1>15. OneOpen' /\ OthersBare' /\ Typed' /\ InLines'
  BY <1>1, <1>6, <1>7, <1>10, <1>14, PagesTurn
<1>16. OnDisk'
  BY <1>6, <1>13 DEF OrderInv, OnDisk
<1> QED
  BY <1>12, <1>15, <1>16 DEF OrderInv

LEMMA RefuseOrder ==
  ASSUME OutboxInv, OrderInv, NEW t \in Tab, NEW ch \in Channel, Refuse(t, ch)
  PROVE  OrderInv'
<1> DEFINE p == page[t]
<1>1. /\ InLine(t, p, made, kept, DoneSends, refused) /\ p \in PageType /\ DOMAIN p = Fields
      /\ p.life = "open" /\ IsOpen(t)
  BY LineFacts, PageFields DEF Refuse, Out
<1>2. PICK a \in {"ok", "final"} : a = "final"
  OBVIOUS
<1>3. PICK q : q = [p EXCEPT !.flight[ch].answer = a]
  OBVIOUS
<1>4. Become(t, q) /\ PageOnly
  BY <1>2, <1>3 DEF Refuse, PageOnly
<1> HIDE DEF p
<1>5. /\ q.writing = p.writing /\ SameLoad(p, q) /\ q.recs = p.recs
      /\ \A c \in Channel : q.flight[c].id = p.flight[c].id
  BY <1>1, <1>3, SetAnswer
<1>6. q.lastCreatedAt = p.lastCreatedAt
  BY <1>1, <1>3 DEF Fields
<1>7. q.life = "open" /\ InLine(t, q, made, kept, DoneSends, refused)
  <2>1. SameMem(p, q)
    BY <1>5, <1>6 DEF SameMem, SameLoad
  <2> QED
    BY <1>1, <1>5, <2>1, AlikeLine DEF SameLoad
<1> QED
  BY <1>1, <1>4, <1>7, OrderBecome

LEMMA LateArrivalOrder ==
  ASSUME OutboxInv, OrderInv, NEW m \in Msg, LateArrival(m)
  PROVE  OrderInv'
<1>1. /\ Store /\ m \in kept /\ m \in DOMAIN made /\ made[m].ch \in Channel /\ m \in late
  BY DEF OutboxInv, Store, LateArrival
<1>2. UNCHANGED <<page, disk, made, kept, withdrawn, refused>> /\ late' \subseteq late
  BY DEF LateArrival
<1>3. \A n \in DOMAIN made : Ahead(made, n, m) => n \in DoneSends \/ LostSend(n)
  BY <1>1 DEF OrderInv, Behind
<1>4. Sends \subseteq Sends' /\ Behind' /\ Placed' /\ InOrder'
  <2>1. CASE HasAccess(made[m].ch)
    <3>1. Commit(m, made[m].ch)
      BY <2>1 DEF LateArrival
    <3>2. PICK ch \in Channel : ch = made[m].ch
      BY <1>1
    <3>3. Commit(m, ch)
      BY <3>1, <3>2
    <3> QED
      BY <1>1, <1>2, <1>3, <3>2, <3>3, CommitOrder
  <2>2. CASE ~ HasAccess(made[m].ch)
    <3>1. log' = log
      BY <2>2 DEF LateArrival
    <3>2. Sends' = Sends /\ DoneSends' = DoneSends
      BY <1>2, <3>1, SameSends DEF DoneSends
    <3>3. \A n \in DOMAIN made : LostSend(n) => LostSend(n)'
      BY <1>2 DEF LostSend
    <3> QED
      BY <1>2, <3>1, <3>2, <3>3 DEF OrderInv, Behind, Placed, InOrder
  <2> QED
    BY <2>1, <2>2
<1>5. DoneSends \subseteq DoneSends'
  BY <1>2, <1>4 DEF DoneSends
<1>6. InLines'
  <2> SUFFICES ASSUME NEW t \in Tab, IsOpen(t) PROVE InLine(t, page[t], made, kept, DoneSends', refused)
    BY <1>2 DEF InLines, IsOpen
  <2>1. InLine(t, page[t], made, kept, DoneSends, refused)
    BY DEF OrderInv, InLines
  <2> QED
    BY <1>5, <2>1, InLineStays
<1>7. OneOpen' /\ OthersBare' /\ Typed'
  BY <1>2 DEF OrderInv, OneOpen, OthersBare, Typed, IsOpen, Bare
<1>8. OnDisk'
  BY <1>2, <1>5 DEF OrderInv, OnDisk
<1> QED
  BY <1>4, <1>6, <1>7, <1>8 DEF OrderInv

\* The request on ch is over.
LEMMA LandedLine ==
  ASSUME NEW t, NEW p \in PageType, NEW mk, NEW kp, NEW dn, NEW rf, InLine(t, p, mk, kp, dn, rf),
         NEW ch \in Channel, NEW q, q = Landed(p, ch)
  PROVE  InLine(t, q, mk, kp, dn, rf) /\ q \in PageType /\ q.life = p.life /\ q.recs = p.recs /\ SameMarks(p, q)
<1>1. Lands(p, q, ch)
  BY LandedLands
<1>2. q.lastCreatedAt = p.lastCreatedAt
  BY PageFields DEF Landed, Fields
<1>3. SameMem(p, q) /\ q.writing = p.writing /\ \A c \in Channel : q.flight[c].id = p.flight[c].id \/ q.flight[c].id = NoMsg
  BY <1>1, <1>2 DEF Lands, SameMem, SameLoad
<1>4. InLine(t, q, mk, kp, dn, rf)
  BY <1>3, AlikeLine
<1> QED
  BY <1>1, <1>4 DEF Lands, SameLoad

LEMMA AnswerOkOrder ==
  ASSUME OutboxInv, OrderInv, NEW t \in Tab, NEW ch \in Channel, AnswerOk(t, ch)
  PROVE  OrderInv'
<1> DEFINE p == page[t]
           m == p.flight[ch].id
<1>1. /\ InLine(t, p, made, kept, DoneSends, refused) /\ p \in PageType /\ DOMAIN p = Fields
      /\ PageOK(p, made, kept, Sends, withdrawn, access) /\ p.life = "open" /\ IsOpen(t)
  BY LineFacts, PageFields DEF AnswerOk, Out
<1>2. m \in DOMAIN made /\ m \in kept /\ m \in Msg /\ m \in DoneSends
  <2>1. m \in DOMAIN made /\ m \in kept /\ m \in Sends
    BY <1>1 DEF AnswerOk, Out, PageOK, Sound, Backed, Mine, Removed
  <2> QED
    BY <2>1 DEF DoneSends, Sends
<1>3. PICK s : s = IF m \in p.accessDropped THEN p ELSE [p EXCEPT !.accepted = @ \cup {m}]
  OBVIOUS
<1>4. PICK r : r = Landed(s, ch)
  OBVIOUS
<1>5. PICK d : d = Drop(r, m)
  OBVIOUS
<1>6. BecomePumped(t, d, ch) /\ UNCHANGED <<disk, made, log, late, kept, withdrawn, refused>>
  BY <1>3, <1>4, <1>5 DEF AnswerOk
<1> HIDE DEF p, m
<1>7. SameMem(p, s) /\ s.writing = p.writing /\ s.flight = p.flight /\ s.life = p.life
  BY <1>1, <1>3 DEF SameMem, Fields
<1>8. s \in PageType
  <2>1. p.accepted \cup {m} \in SUBSET Msg
    BY <1>1, <1>2 DEF PageType
  <2> QED
    BY <1>1, <1>3, <2>1 DEF PageType
<1>9. InLine(t, s, made, kept, DoneSends, refused)
  BY <1>1, <1>7, AlikeLine
<1>10. InLine(t, r, made, kept, DoneSends, refused) /\ r \in PageType /\ r.life = s.life
  BY <1>4, <1>8, <1>9, LandedLine
<1>11. InLine(t, d, made, kept, DoneSends, refused) /\ d \in PageType /\ d.life = r.life
  BY <1>2, <1>5, <1>10, DropLine
<1>12. DoneSends' = DoneSends /\ refused' = refused
  BY <1>6, SameSends DEF DoneSends
<1> QED
  BY <1>1, <1>6, <1>7, <1>10, <1>11, <1>12, OrderPumped

LEMMA AfterErrorOrder ==
  ASSUME OutboxInv, OrderInv, NEW t \in Tab, NEW ch \in Channel, Out(t, ch),
         NEW st \in {"retrying", "failed"}, AfterError(t, ch, st),
         UNCHANGED <<disk, made, log, kept, withdrawn>>, refused \subseteq refused',
         st = "failed" => page[t].flight[ch].id \in refused',
         \A n \in late' : n \in late \/ n = page[t].flight[ch].id
  PROVE  OrderInv'
<1> DEFINE p == page[t]
           m == p.flight[ch].id
<1>1. /\ InLine(t, p, made, kept, DoneSends, refused) /\ p \in PageType
      /\ PageOK(p, made, kept, Sends, withdrawn, access) /\ p.life = "open" /\ IsOpen(t) /\ Store
      /\ DOMAIN made \subseteq Msg
  BY LineFacts DEF Out, Store
<1>2. m \in DOMAIN made /\ m \in kept /\ m \in Msg /\ m # NoMsg
  BY <1>1 DEF Out, PageOK, Sound, Backed, Mine
<1>3. PICK dn, rf : dn = DoneSends' /\ rf = refused'
  OBVIOUS
<1>4. DoneSends \subseteq dn /\ refused \subseteq rf /\ withdrawn \subseteq dn /\ Sends \subseteq dn /\ (st = "failed" => m \in rf)
  BY <1>3, SameSends DEF DoneSends
<1>5. PICK r : r = Landed(p, ch)
  OBVIOUS
<1>6. PICK rec : rec = [r.recs[m] EXCEPT !.status = st]
  OBVIOUS
<1>7. PICK v : v = [r.recs EXCEPT ![m] = rec]
  OBVIOUS
<1>8. PICK w : w = [r EXCEPT !.recs = v]
  OBVIOUS
<1>9. PICK b \in BOOLEAN : b = FALSE
  OBVIOUS
<1>10. PICK d : d = IF r.recs[m] = None THEN r
                    ELSE IF m \in r.discardAfterFlight \cup r.settledInFlight THEN Drop(r, m)
                    ELSE Chain(w, m, w.recs[m], b)
  OBVIOUS
<1>11. BecomePumped(t, d, ch)
  BY <1>5, <1>6, <1>7, <1>8, <1>9, <1>10 DEF AfterError, Persist
<1>12. \A n \in late' : n \in late \/ \E c \in Channel : n = p.flight[c].id /\ n # NoMsg
  BY <1>2
<1>13. p.discardAfterFlight \cup p.settledInFlight \subseteq dn
  BY <1>1, <1>4 DEF PageOK, Sound, Removed
<1>14. InLine(t, p, made, kept, dn, rf)
  BY <1>1, <1>4, InLineStays
<1> HIDE DEF p, m
<1>15. InLine(t, r, made, kept, dn, rf) /\ r \in PageType /\ r.life = p.life /\ r.recs = p.recs /\ SameMarks(p, r)
  BY <1>1, <1>5, <1>14, LandedLine
<1>16. InLine(t, d, made, kept, dn, rf) /\ d \in PageType /\ d.life = p.life
  <2>1. CASE r.recs[m] = None
    BY <1>10, <1>15, <2>1
  <2>2. CASE r.recs[m] # None /\ m \in r.discardAfterFlight \cup r.settledInFlight
    <3>1. d = Drop(r, m)
      BY <1>10, <2>2
    <3>2. m \in dn
      BY <1>13, <1>15, <2>2 DEF SameMarks
    <3> QED
      BY <1>2, <1>15, <3>1, <3>2, DropLine
  <2>3. CASE r.recs[m] # None /\ m \notin r.discardAfterFlight \cup r.settledInFlight
    <3>1. d = Chain(w, m, w.recs[m], b)
      BY <1>10, <2>3
    <3>2. r.recs[m] \in Rec /\ r.recs[m].owner = t
      BY <1>2, <1>15, <2>3 DEF PageType, Row, InLine, Mem, InMemory
    <3>3. rec \in Rec /\ rec.owner = t /\ (rec.status = "failed" => m \in rf)
      BY <1>4, <1>6, <3>2 DEF Rec
    <3>4. v \in [Msg -> Row] /\ v[m] = rec /\ \A n \in Msg \ {m} : v[n] = r.recs[n]
      BY <1>2, <1>7, <1>15, <3>3, RecRow DEF PageType
    <3>5. InLine(t, w, made, kept, dn, rf) /\ w \in PageType /\ w.life = r.life /\ w.recs[m] = rec
      BY <1>1, <1>2, <1>8, <1>15, <2>3, <3>3, <3>4, RecLine
    <3>6. w.recs[m] # None
      BY <3>3, <3>5, RecRow
    <3>7. InLine(t, d, made, kept, dn, rf) /\ d \in PageType /\ d.life = w.life
      BY <1>2, <3>1, <3>5, <3>6, WriteLine
    <3> QED
      BY <1>15, <3>5, <3>7
  <2> QED
    BY <2>1, <2>2, <2>3
<1>17. d.life = "open" /\ InLine(t, d, made, kept, DoneSends', refused')
  BY <1>1, <1>3, <1>16
<1> QED
  BY <1>1, <1>11, <1>12, <1>16, <1>17, OrderPumped DEF p

LEMMA AnswerRefusedOrder ==
  ASSUME OutboxInv, OrderInv, NEW t \in Tab, NEW ch \in Channel, AnswerRefused(t, ch)
  PROVE  OrderInv'
<1>1. PICK st \in {"retrying", "failed"} : st = "failed"
  OBVIOUS
<1>2. /\ Out(t, ch) /\ AfterError(t, ch, st) /\ UNCHANGED <<disk, made, log, late, kept, withdrawn>>
      /\ refused' = refused \cup {page[t].flight[ch].id}
  BY <1>1 DEF AnswerRefused
<1> QED
  BY <1>2, AfterErrorOrder

LEMMA AnswerLostOrder ==
  ASSUME OutboxInv, OrderInv, NEW t \in Tab, NEW ch \in Channel, AnswerLost(t, ch)
  PROVE  OrderInv'
<1>1. PICK st \in {"retrying", "failed"} : st = "retrying"
  OBVIOUS
<1>2. /\ Out(t, ch) /\ AfterError(t, ch, st) /\ UNCHANGED <<disk, made, log, kept, withdrawn, refused>>
      /\ \A n \in late' : n \in late \/ n = page[t].flight[ch].id
  BY <1>1 DEF AnswerLost
<1>3. st # "failed" /\ refused \subseteq refused'
  BY <1>1, <1>2
<1> QED
  BY <1>2, <1>3, AfterErrorOrder

\* The last row of a load is done.
LEMMA LoadedLine ==
  ASSUME Store, NEW t, NEW p \in PageType, NEW kp, NEW dn, NEW rf, InLine(t, p, made, kp, dn, rf), rf \subseteq dn,
         p.load = "rows", \A m \in Msg : p.rows[m] = None, NEW q, q = Loaded(t, p)
  PROVE  InLine(t, q, made, kp, dn, rf) /\ q.life = p.life
<1>0. DOMAIN made \subseteq Msg
  BY DEF Store
<1>1. PICK s : s = PumpAll(t, p, p.touched)
  OBVIOUS
<1>2. InLine(t, s, made, kp, dn, rf) /\ s \in PageType /\ s.life = p.life /\ s.rows = p.rows /\ s.load = p.load
  <2>1. p.touched \in SUBSET Channel
    BY DEF PageType
  <2>2. s.rows = p.rows /\ s.load = p.load
    BY <1>1, PageFields DEF PumpAll, Fields
  <2> QED
    BY <1>1, <2>1, <2>2, PumpAllLine
<1>3. PICK d : d = [s EXCEPT !.load = "idle", !.touched = {}]
  OBVIOUS
<1>4. d \in PageType /\ d.life = p.life /\ DOMAIN d = Fields
  BY <1>2, <1>3, PageFields DEF PageType
<1>5. InLine(t, d, made, kp, dn, rf)
  <2>1. /\ d.recs = s.recs /\ d.rows = s.rows /\ d.lastCreatedAt = s.lastCreatedAt
        /\ d.droppedChannels = s.droppedChannels /\ d.writing = s.writing /\ d.flight = s.flight
    BY <1>2, <1>3, PageFields DEF Fields
  <2>2. Expected(t, d, made, kp, dn)
    <3>1. \A m \in DOMAIN made : s.rows[m] = None /\ s.load # "read"
      BY <1>0, <1>2
    <3> QED
      BY <1>2, <2>1, <3>1 DEF InLine, Mem, Expected
  <2>3. Mem(t, d, made, kp, dn, rf)
    BY <1>2, <2>1, <2>2 DEF InLine, Mem, InMemory, BeforeIt
  <2> QED
    BY <1>2, <2>1, <2>3 DEF InLine, Que, Fly
<1>6. PICK chs : chs = Lines(d)
  OBVIOUS
<1>7. chs \in SUBSET Channel
  <2>1. \A m \in Known(d) : made[m].ch \in Channel
    BY <1>5 DEF Known, InLine, Mem, InMemory, Store
  <2> QED
    BY <1>6, <2>1 DEF Lines
<1>8. PICK e : e = PumpAll(t, d, chs)
  OBVIOUS
<1>9. InLine(t, e, made, kp, dn, rf) /\ e \in PageType /\ e.life = d.life
  BY <1>4, <1>5, <1>7, <1>8, PumpAllLine
<1>10. PICK T : T = {m \in Known(p) : p.recs[m].owner # t}
  OBVIOUS
<1>11. q = d \/ q = [d EXCEPT !.kicked = FALSE, !.todo = @ \cup T] \/ q = [e EXCEPT !.kicked = FALSE]
  BY <1>1, <1>3, <1>6, <1>8, <1>10 DEF Loaded
<1>12. ASSUME NEW f \in PageType, InLine(t, f, made, kp, dn, rf), f.life = p.life,
              q = [f EXCEPT !.kicked = FALSE, !.todo = @ \cup T] \/ q = [f EXCEPT !.kicked = FALSE]
       PROVE  InLine(t, q, made, kp, dn, rf) /\ q.life = p.life
  <2>1. DOMAIN f = Fields
    BY PageFields
  <2>2. SameMem(f, q) /\ q.writing = f.writing /\ q.flight = f.flight /\ q.life = f.life
    BY <1>12, <2>1 DEF SameMem, Fields
  <2> QED
    BY <1>12, <2>2, AlikeLine
<1> QED
  BY <1>4, <1>5, <1>9, <1>11, <1>12

LEMMA FinishOrder ==
  ASSUME OutboxInv, OrderInv, NEW t \in Tab, IsOpen(t), NEW p \in PageType, FinishLoad(t, p), PageOnly,
         InLine(t, p, made, kept, DoneSends, refused), p.load = "rows", p.life = "open"
  PROVE  OrderInv'
<1>1. PICK q : q = (IF Rest(p) = {} THEN Loaded(t, p) ELSE p) /\ Become(t, q)
  BY DEF FinishLoad
<1>2. InLine(t, q, made, kept, DoneSends, refused) /\ q.life = "open"
  <2>1. CASE Rest(p) = {}
    <3>1. q = Loaded(t, p)
      BY <1>1, <2>1
    <3>2. \A m \in Msg : p.rows[m] = None
      BY <2>1 DEF Rest
    <3>3. PICK dn, rf : dn = DoneSends /\ rf = refused
      OBVIOUS
    <3>4. Store /\ rf \subseteq dn /\ InLine(t, p, made, kept, dn, rf)
      BY <3>3 DEF DoneSends, OutboxInv
    <3>5. InLine(t, q, made, kept, dn, rf) /\ q.life = p.life
      BY <3>1, <3>2, <3>4, LoadedLine
    <3> QED
      BY <3>3, <3>5
  <2>2. CASE Rest(p) # {}
    BY <1>1, <2>2
  <2> QED
    BY <2>1, <2>2
<1> QED
  BY <1>1, <1>2, OrderBecome

LEMMA LoadReadOrder ==
  ASSUME OutboxInv, OrderInv, NEW t \in Tab, LoadRead(t)
  PROVE  OrderInv'
<1> DEFINE p == page[t]
<1>1. /\ InLine(t, p, made, kept, DoneSends, refused) /\ p \in PageType /\ DOMAIN p = Fields
      /\ DOMAIN made \subseteq Msg /\ p.life = "open" /\ IsOpen(t) /\ p.issued # <<>>
  BY LineFacts, PageFields DEF LoadRead, Store
<1>2. PICK r : r = [p EXCEPT !.load = "rows", !.rows = disk, !.issued = Tail(@)]
  OBVIOUS
<1>3. FinishLoad(t, r) /\ PageOnly
  BY <1>2 DEF LoadRead, PageOnly
<1> HIDE DEF p
<1>4. /\ r.recs = p.recs /\ r.rows = disk /\ r.load = "rows" /\ r.lastCreatedAt = p.lastCreatedAt
      /\ r.droppedChannels = p.droppedChannels /\ r.writing = p.writing /\ r.flight = p.flight /\ r.life = p.life
  BY <1>1, <1>2 DEF Fields
<1>5. r \in PageType
  <2>1. Tail(p.issued) \in Seq(Msg \cup {NoMsg}) /\ disk \in [Msg -> Row]
    BY <1>1 DEF PageType, OutboxInv, Store
  <2> QED
    BY <1>1, <1>2, <2>1 DEF PageType
<1>6. Expected(t, r, made, kept, DoneSends)
  <2> SUFFICES ASSUME NEW m \in DOMAIN made, ~ Excused(t, made, kept, DoneSends, m), p.recs[m] = None
               PROVE  made[m].tab # t /\ disk[m] # None
    BY <1>4 DEF Expected
  <2>1. made[m].tab # t
    BY <1>1 DEF InLine, Mem, Expected
  <2>2. m \in kept /\ m \notin DoneSends
    BY <2>1 DEF Excused
  <2> QED
    BY <2>1, <2>2 DEF OrderInv, OnDisk
<1>7. InLine(t, r, made, kept, DoneSends, refused)
  <2>1. \A m \in Msg : r.rows[m].status = "failed" => m \in refused
    BY <1>4 DEF OrderInv, OnDisk
  <2>2. Mem(t, r, made, kept, DoneSends, refused)
    BY <1>1, <1>4, <1>6, <2>1 DEF InLine, Mem, InMemory, BeforeIt
  <2> QED
    BY <1>1, <1>4, <2>2 DEF InLine, Que, Fly
<1> QED
  BY <1>1, <1>3, <1>4, <1>5, <1>7, FinishOrder

\* The oldest row that is left comes into memory; what is ahead of it is there, or is excused.
LEMMA TakeRowLine ==
  ASSUME Store, NEW t \in Tab, NEW p \in PageType, NEW kp, NEW dn, NEW rf, InLine(t, p, made, kp, dn, rf),
         p.load = "rows", NEW m \in Msg, p.rows[m] # None, m \in kp, m \in DOMAIN made,
         \A k \in DOMAIN made : p.rows[k] # None => ~ Ahead(made, k, m),
         \A u \in Tab : IsOpen(u) => u = t,
         NEW q, q = TakeRow(t, p, m)
  PROVE  InLine(t, q, made, kp, dn, rf) /\ q \in PageType /\ q.life = p.life /\ q.load = "rows"
<1> DEFINE owner  == p.rows[m].owner
           orphan == owner # t /\ ~ TabAlive(owner)
           own    == IF orphan THEN t ELSE owner
<1>1. DOMAIN made \subseteq Msg /\ made[m].ch \in Channel /\ made[m].at \in Nat /\ DOMAIN p = Fields
  BY PageFields DEF Store
<1>2. p.rows[m] \in Rec /\ owner \in Tab
  <2>1. p.rows[m] \in Rec
    BY DEF PageType, Row
  <2> QED
    BY <2>1 DEF Rec
<1>3. own = t
  BY <1>2 DEF TabAlive
<1>4. PICK rec : rec = [status |-> IF p.rows[m].status = "failed" THEN "failed" ELSE "pending", owner |-> own]
  OBVIOUS
<1>5. rec \in Rec /\ rec.owner = t /\ (rec.status = "failed" => m \in rf)
  BY <1>3, <1>4 DEF Rec, InLine, Mem
<1>6. PICK w : w = [p.rows EXCEPT ![m] = None]
  OBVIOUS
<1>7. w \in [Msg -> Row] /\ w[m] = None /\ \A n \in Msg \ {m} : w[n] = p.rows[n]
  <2>1. None \in Row
    BY DEF Row
  <2> QED
    BY <1>6, <2>1 DEF PageType
<1>8. PICK d : d = [p EXCEPT !.rows = w]
  OBVIOUS
<1>9. PICK v : v = [d.recs EXCEPT ![m] = rec]
  OBVIOUS
<1>10. PICK tc : tc = p.touched \cup {made[m].ch}
  OBVIOUS
<1>11. PICK at : at = Later(p.lastCreatedAt, made[m].at)
  OBVIOUS
<1>12. PICK r : r = [d EXCEPT !.recs = v, !.touched = tc, !.lastCreatedAt = at]
  OBVIOUS
<1>13. /\ DOMAIN d = Fields /\ d \in PageType /\ d.recs = p.recs /\ d.rows = w /\ d.load = "rows" /\ d.lastCreatedAt = p.lastCreatedAt
       /\ d.droppedChannels = p.droppedChannels /\ d.writing = p.writing /\ d.flight = p.flight /\ d.life = p.life
       /\ d.touched = p.touched
  <2>1. d \in PageType
    BY <1>7, <1>8 DEF PageType
  <2> QED
    BY <1>1, <1>8, <2>1 DEF Fields
<1>14. PICK b \in BOOLEAN : b = FALSE
  OBVIOUS
<1>15. PICK op : op = [row |-> None, pump |-> b]
  OBVIOUS
<1>16. op \in Op /\ op.row = None /\ op.pump = b /\ op.row.status # "failed"
  BY <1>15 DEF Op, Row, None
<1>17. q = IF p.recs[m] # None THEN d
           ELSE IF made[m].ch \in p.droppedChannels THEN Chain(d, m, op.row, op.pump)
           ELSE IF orphan THEN Chain(r, m, r.recs[m], b) ELSE r
  <2>1. r = [d EXCEPT !.recs[m] = rec, !.touched = @ \cup {made[m].ch}, !.lastCreatedAt = Later(@, made[m].at)]
    BY <1>9, <1>10, <1>11, <1>12, <1>13
  <2>2. d = [p EXCEPT !.rows[m] = None]
    BY <1>6, <1>8
  <2>3. q = IF p.recs[m] # None THEN d
            ELSE IF made[m].ch \in p.droppedChannels THEN Unstore(d, m)
            ELSE IF orphan THEN Persist(r, m) ELSE r
    BY <1>4, <2>1, <2>2 DEF TakeRow
  <2>4. Unstore(d, m) = Chain(d, m, op.row, op.pump) /\ Persist(r, m) = Chain(r, m, r.recs[m], b)
    BY <1>14, <1>16 DEF Unstore, Persist
  <2> QED
    BY <2>3, <2>4
<1> HIDE DEF owner, orphan, own
<1>18. ASSUME p.recs[m] # None \/ m \in dn
       PROVE  InLine(t, d, made, kp, dn, rf)
  <2>1. \A n \in DOMAIN made : n # m => d.rows[n] = p.rows[n]
    BY <1>1, <1>7, <1>13
  <2>2. Expected(t, d, made, kp, dn)
    BY <1>13, <1>18, <2>1 DEF InLine, Mem, Expected, Excused
  <2>3. \A n \in Msg : d.rows[n].status = "failed" => n \in rf
    <3>1. None.status # "failed"
      BY DEF None
    <3> QED
      BY <1>7, <1>13, <3>1 DEF InLine, Mem
  <2>4. Mem(t, d, made, kp, dn, rf)
    BY <1>13, <2>2, <2>3 DEF InLine, Mem, InMemory, BeforeIt
  <2> QED
    BY <1>13, <2>4 DEF InLine, Que, Fly
<1>19. CASE p.recs[m] # None
  BY <1>13, <1>17, <1>18, <1>19
<1>20. CASE p.recs[m] = None /\ made[m].ch \in p.droppedChannels
  <2>1. m \in dn
    BY <1>20 DEF InLine, Mem, Expected, Excused
  <2>2. q = Chain(d, m, op.row, op.pump)
    BY <1>17, <1>20
  <2>3. InLine(t, d, made, kp, dn, rf)
    BY <1>18, <2>1
  <2>4. (op.row = None => m \in dn) /\ (op.row.status = "failed" => m \in rf)
    BY <1>16, <2>1
  <2>5. InLine(t, q, made, kp, dn, rf) /\ q \in PageType /\ q.life = d.life
    BY <1>13, <1>16, <2>2, <2>3, <2>4, ChainLine
  <2>6. q.load = d.load
    BY <1>13, <2>2 DEF Chain, Fields
  <2> QED
    BY <1>13, <2>5, <2>6
<1>21. CASE p.recs[m] = None /\ made[m].ch \notin p.droppedChannels
  <2>1. v \in [Msg -> Row] /\ v[m] = rec /\ (\A n \in Msg \ {m} : v[n] = p.recs[n]) /\ rec # None
    BY <1>5, <1>9, <1>13, RecRow DEF PageType
  <2>2. at \in Nat /\ at >= p.lastCreatedAt /\ at >= made[m].at /\ p.lastCreatedAt \in Nat
    BY <1>1, <1>11 DEF Later, PageType
  <2>3. tc \in SUBSET Channel
    BY <1>1, <1>10 DEF PageType
  <2>4. /\ r.recs = v /\ r.rows = w /\ r.load = "rows" /\ r.lastCreatedAt = at
        /\ r.droppedChannels = p.droppedChannels /\ r.writing = p.writing /\ r.flight = p.flight /\ r.life = p.life
    BY <1>12, <1>13 DEF Fields
  <2>5. r \in PageType
    BY <1>12, <1>13, <2>1, <2>2, <2>3 DEF PageType
  <2>6. InMemory(t, r, made, kp, rf)
    <3> SUFFICES ASSUME NEW n \in Msg, v[n] # None
                 PROVE  /\ n \in DOMAIN made /\ (n \in kp \/ made[n].tab = t)
                        /\ v[n].owner = t /\ (v[n].status = "failed" => n \in rf)
      BY <2>4 DEF InMemory
    <3>1. CASE n = m
      BY <1>5, <2>1, <3>1
    <3>2. CASE n # m
      BY <2>1, <3>2 DEF InLine, Mem, InMemory
    <3> QED
      BY <3>1, <3>2
  <2>7. \A n \in DOMAIN made : n # m => r.rows[n] = p.rows[n] /\ r.recs[n] = p.recs[n]
    BY <1>1, <1>7, <2>1, <2>4
  <2>8. r.recs[m] # None
    BY <2>1, <2>4
  <2>9. Expected(t, r, made, kp, dn)
    BY <2>4, <2>7, <2>8 DEF InLine, Mem, Expected
  <2>10. BeforeIt(t, r, made, kp, dn)
    <3> SUFFICES ASSUME NEW k \in DOMAIN made, NEW n \in DOMAIN made, r.recs[n] # None, Ahead(made, k, n), k # m
                 PROVE  Excused(t, made, kp, dn, k) \/ p.recs[k] # None
      BY <2>7, <2>8 DEF BeforeIt
    <3>1. CASE n = m
      <4>1. p.rows[k] = None
        BY <3>1
      <4> QED
        BY <4>1 DEF InLine, Mem, Expected
    <3>2. CASE n # m
      BY <2>7, <3>2 DEF InLine, Mem, BeforeIt
    <3> QED
      BY <3>1, <3>2
  <2>11. \A n \in Msg : r.rows[n].status = "failed" => n \in rf
    <3>1. None.status # "failed"
      BY DEF None
    <3> QED
      BY <1>7, <2>4, <3>1 DEF InLine, Mem
  <2>12. \A n \in DOMAIN made : made[n].tab = t => made[n].at <= r.lastCreatedAt
    <3>1. \A n \in DOMAIN made : made[n].at \in Nat /\ (made[n].tab = t => made[n].at <= p.lastCreatedAt)
      BY DEF Store, InLine, Mem
    <3> QED
      BY <2>2, <2>4, <3>1
  <2>13. Mem(t, r, made, kp, dn, rf)
    BY <2>4, <2>6, <2>9, <2>10, <2>11, <2>12 DEF InLine, Mem
  <2>14. InLine(t, r, made, kp, dn, rf)
    BY <2>4, <2>13 DEF InLine, Que, Fly
  <2>15. CASE orphan
    <3>1. q = Chain(r, m, r.recs[m], b)
      BY <1>17, <1>21, <2>15
    <3>2. InLine(t, q, made, kp, dn, rf) /\ q \in PageType /\ q.life = r.life
      BY <2>5, <2>8, <2>14, <3>1, WriteLine
    <3>3. q.load = r.load
      BY <2>5, <3>1, PageFields DEF Chain, Fields
    <3> QED
      BY <2>4, <3>2, <3>3
  <2>16. CASE ~ orphan
    BY <1>17, <1>21, <2>4, <2>5, <2>14, <2>16
  <2> QED
    BY <2>15, <2>16
<1> QED
  BY <1>19, <1>20, <1>21

LEMMA LoadRowOrder ==
  ASSUME OutboxInv, OrderInv, NEW t \in Tab, LoadRow(t)
  PROVE  OrderInv'
<1> DEFINE p == page[t]
           m == Oldest(Rest(p))
<1>1. /\ InLine(t, p, made, kept, DoneSends, refused) /\ p \in PageType /\ Store
      /\ PageOK(p, made, kept, Sends, withdrawn, access)
      /\ DOMAIN made \subseteq Msg /\ p.life = "open" /\ IsOpen(t) /\ p.load = "rows" /\ Loading(p)
  BY LineFacts, Facts DEF LoadRow, Store
<1>2. Rest(p) \in SUBSET DOMAIN made /\ Rest(p) # {} /\ Rest(p) \subseteq kept
  BY <1>1 DEF Rest, Loading, PageOK, Sound, Backed, Store
<1>3. m \in Rest(p) /\ \A k \in Rest(p) : ~ Ahead(made, k, m)
  BY <1>1, <1>2, OldestOf, NoneAhead
<1>4. m \in Msg /\ p.rows[m] # None /\ m \in kept /\ m \in DOMAIN made
  BY <1>2, <1>3 DEF Rest
<1>5. \A k \in DOMAIN made : p.rows[k] # None => ~ Ahead(made, k, m)
  BY <1>1, <1>3 DEF Rest
<1>6. \A u \in Tab : IsOpen(u) => u = t
  BY <1>1 DEF OrderInv, OneOpen
<1>7. PICK q : q = TakeRow(t, p, m)
  OBVIOUS
<1>8. FinishLoad(t, q) /\ PageOnly
  BY <1>7 DEF LoadRow, PageOnly
<1> HIDE DEF p, m
<1>9. InLine(t, q, made, kept, DoneSends, refused) /\ q \in PageType /\ q.life = p.life /\ q.load = "rows"
  BY <1>1, <1>4, <1>5, <1>6, <1>7, TakeRowLine
<1> QED
  BY <1>1, <1>8, <1>9, FinishOrder

\* Only one page is open: what it knows is its own, and there is nothing to adopt.
LEMMA AdoptRowOrder ==
  ASSUME OutboxInv, OrderInv, NEW t \in Tab, AdoptRow(t)
  PROVE  OrderInv'
<1> DEFINE p == page[t]
           m == Oldest(p.todo)
<1>1. /\ InLine(t, p, made, kept, DoneSends, refused) /\ p \in PageType /\ Store /\ DOMAIN p = Fields
      /\ PageOK(p, made, kept, Sends, withdrawn, access)
      /\ DOMAIN made \subseteq Msg /\ p.life = "open" /\ IsOpen(t) /\ p.todo # {}
  BY LineFacts, PageFields DEF AdoptRow, Store
<1>2. m \in Msg
  <2>1. p.todo \in SUBSET DOMAIN made
    BY <1>1 DEF PageOK, Sound, Backed
  <2>2. m \in p.todo
    BY <1>1, <2>1, OldestOf
  <2> QED
    BY <1>1, <2>1, <2>2
<1>3. PICK td : td = p.todo \ {m}
  OBVIOUS
<1>4. PICK d : d = [p EXCEPT !.todo = td]
  OBVIOUS
<1>5. d.recs = p.recs /\ SameMem(p, d) /\ d.writing = p.writing /\ d.flight = p.flight /\ d.life = p.life
  BY <1>1, <1>4 DEF SameMem, Fields
<1>6. d.recs[m] = None \/ d.recs[m].owner = t
  BY <1>1, <1>2, <1>5, KnownLine
<1>7. Become(t, IF d.todo = {} THEN PumpAll(t, d, Lines(d)) ELSE d) /\ PageOnly
  BY <1>3, <1>4, <1>6 DEF AdoptRow, PageOnly
<1> HIDE DEF m
<1>8. d \in PageType
  <2>1. td \in SUBSET Msg
    BY <1>1, <1>3 DEF PageType
  <2> QED
    BY <1>1, <1>4, <2>1 DEF PageType
<1> HIDE DEF p
<1>9. PICK dn, rf : dn = DoneSends /\ rf = refused
  OBVIOUS
<1>10. InLine(t, d, made, kept, dn, rf) /\ rf \subseteq dn
  <2>1. InLine(t, p, made, kept, dn, rf)
    BY <1>1, <1>9
  <2>2. InLine(t, d, made, kept, dn, rf)
    BY <1>5, <2>1, AlikeLine
  <2> QED
    BY <1>9, <2>2 DEF DoneSends
<1>11. PICK chs : chs = Lines(d)
  OBVIOUS
<1>12. chs \in SUBSET Channel
  <2>1. \A n \in Known(d) : made[n].ch \in Channel
    BY <1>1, <1>10 DEF Known, InLine, Mem, InMemory, Store
  <2> QED
    BY <1>11, <2>1 DEF Lines
<1>13. PICK e : e = PumpAll(t, d, chs)
  OBVIOUS
<1>14. InLine(t, e, made, kept, dn, rf) /\ e.life = d.life
  BY <1>1, <1>8, <1>10, <1>12, <1>13, PumpAllLine
<1>15. PICK q : q = IF d.todo = {} THEN e ELSE d
  OBVIOUS
<1>16. Become(t, q)
  BY <1>7, <1>11, <1>13, <1>15
<1>17. InLine(t, q, made, kept, DoneSends, refused) /\ q.life = "open"
  BY <1>1, <1>5, <1>9, <1>10, <1>14, <1>15
<1> QED
  BY <1>1, <1>7, <1>16, <1>17, OrderBecome

\* The first issued write lands.  What the page stores for the first time is its own.
LEMMA DiskWriteOrder ==
  ASSUME OutboxInv, OrderInv, NEW t \in Tab, DiskWrite(t)
  PROVE  OrderInv'
<1> DEFINE p == page[t]
           m == Head(p.issued)
           op == Head(p.writing[m])
           rest == Tail(p.writing[m])
<1>1. /\ InLine(t, p, made, kept, DoneSends, refused) /\ p \in PageType /\ Store /\ DOMAIN p = Fields
      /\ PageOK(p, made, kept, Sends, withdrawn, access)
      /\ DOMAIN made \subseteq Msg /\ p.life = "open" /\ IsOpen(t) /\ p.issued # <<>> /\ m # NoMsg
  BY LineFacts, PageFields DEF DiskWrite, Store
<1>2. m \in Msg /\ p.writing[m] # <<>> /\ m \in DOMAIN made /\ p.writing[m] \in Seq(Op) /\ p.issued \in Seq(Msg \cup {NoMsg})
  <2>1. p.issued \in Seq(Msg \cup {NoMsg}) /\ 1 \in DOMAIN p.issued /\ p.issued[1] = m /\ m \in Msg \cup {NoMsg}
    <3>1. p.issued \in Seq(Msg \cup {NoMsg}) /\ p.issued # <<>>
      BY <1>1 DEF PageType
    <3> HIDE DEF p
    <3> QED
      BY <3>1
  <2>2. m \in Msg /\ p.writing[m] # <<>>
    BY <1>1, <2>1 DEF PageOK, Sound, Issued
  <2> QED
    BY <1>1, <2>1, <2>2 DEF PageOK, Sound, Backed, PageType
<1>3. PICK v : v = [p.writing EXCEPT ![m] = rest]
  OBVIOUS
<1>4. PICK is : is = IF rest = <<>> THEN Tail(p.issued) ELSE Append(Tail(p.issued), m)
  OBVIOUS
<1>5. PICK r : r = [p EXCEPT !.writing = v, !.issued = is]
  OBVIOUS
<1>6. /\ disk' = [disk EXCEPT ![m] = op.row] /\ kept' = IF op.row = None THEN kept ELSE kept \cup {m}
      /\ UNCHANGED <<made, log, late, withdrawn, refused>>
  BY DEF DiskWrite
<1>7. IF op.pump THEN BecomePumped(t, r, made[m].ch) ELSE Become(t, r)
  BY <1>3, <1>4, <1>5 DEF DiskWrite
<1>8. (m \in kept \/ made[m].tab = t) /\ (op.row = None => m \in DoneSends) /\ (op.row.status = "failed" => m \in refused)
  <2>1. 1 \in DOMAIN p.writing[m] /\ p.writing[m][1] = op
    <3>1. PICK s \in Seq(Op) : s = p.writing[m]
      BY <1>2
    <3>2. 1 \in DOMAIN s /\ s[1] = Head(s)
      BY <1>2, <3>1
    <3> QED
      BY <3>1, <3>2
  <2> QED
    BY <1>1, <1>2, <2>1 DEF InLine, Que
<1>9. rest \in Seq(Op) /\ \A i \in DOMAIN rest : i + 1 \in DOMAIN p.writing[m] /\ rest[i] = p.writing[m][i + 1]
  <2>1. PICK s \in Seq(Op) : s = p.writing[m] /\ s # <<>>
    BY <1>2
  <2>2. Tail(s) \in Seq(Op) /\ \A i \in DOMAIN Tail(s) : i + 1 \in DOMAIN s /\ Tail(s)[i] = s[i + 1]
    BY <2>1
  <2> QED
    BY <2>1, <2>2
<1> HIDE DEF p, m, op, rest
<1>10. PICK kp, dn, rf : kp = kept' /\ dn = DoneSends /\ rf = refused
  OBVIOUS
<1>11. /\ kept \subseteq kp /\ (op.row # None => m \in kp) /\ \A n \in kp \ kept : n = m /\ op.row # None /\ made[n].tab = t
       /\ DoneSends' = dn /\ refused' = rf /\ rf \subseteq dn
  BY <1>6, <1>8, <1>10, SameSends DEF DoneSends
<1>12. InLine(t, p, made, kp, dn, rf)
  BY <1>1, <1>10, <1>11, InLineStays
<1>13. v \in [Msg -> Seq(Op)] /\ v[m] = rest /\ (\A n \in Msg \ {m} : v[n] = p.writing[n])
  BY <1>1, <1>2, <1>3, <1>9 DEF PageType
<1>14. SameMem(p, r) /\ r.writing = v /\ r.flight = p.flight /\ r.life = p.life
  BY <1>1, <1>5 DEF SameMem, Fields
<1>15. InLine(t, r, made, kp, dn, rf)
  <2>1. Mem(t, r, made, kp, dn, rf)
    BY <1>12, <1>14, SameMemOK DEF InLine
  <2>2. ASSUME NEW n \in Msg
        PROVE  /\ v[n] # <<>> => n \in DOMAIN made /\ (n \in kp \/ made[n].tab = t)
               /\ \A i \in DOMAIN v[n] : /\ v[n][i].row = None => n \in dn
                                         /\ v[n][i].row.status = "failed" => n \in rf
    <3>1. CASE n = m
      BY <1>2, <1>8, <1>9, <1>11, <1>12, <1>13, <3>1 DEF InLine, Que
    <3>2. CASE n # m
      BY <1>12, <1>13, <3>2 DEF InLine, Que
    <3> QED
      BY <3>1, <3>2
  <2>3. Que(t, r, made, kp, dn, rf)
    BY <1>14, <2>2 DEF Que
  <2> QED
    BY <1>12, <1>14, <2>1, <2>3 DEF InLine, Fly
<1>16. r \in PageType
  <2>1. is \in Seq(Msg \cup {NoMsg})
    <3>1. Tail(p.issued) \in Seq(Msg \cup {NoMsg})
      BY <1>1, <1>2
    <3> QED
      BY <1>2, <1>4, <3>1
  <2> QED
    BY <1>1, <1>5, <1>13, <2>1 DEF PageType
<1>17. \E q : page' = [page EXCEPT ![t] = q] /\ InLine(t, q, made, kp, dn, rf) /\ q.life = "open"
  <2>1. CASE op.pump
    <3>1. PICK ch : ch = made[m].ch
      OBVIOUS
    <3>2. ch \in Channel
      BY <1>1, <1>2, <3>1 DEF Store
    <3>3. PICK q : q = Pump(t, r, ch) /\ page' = [page EXCEPT ![t] = q]
      BY <1>7, <2>1, <3>1 DEF BecomePumped, Become
    <3>4. InLine(t, q, made, kp, dn, rf) /\ q.life = r.life
      BY <1>1, <1>11, <1>15, <1>16, <3>2, <3>3, PumpLine
    <3> QED
      BY <1>1, <1>14, <3>3, <3>4
  <2>2. CASE ~ op.pump
    <3>1. page' = [page EXCEPT ![t] = r]
      BY <1>7, <2>2 DEF Become
    <3> QED
      BY <1>1, <1>14, <1>15, <3>1
  <2> QED
    BY <2>1, <2>2
<1>18. PICK q : page' = [page EXCEPT ![t] = q] /\ InLine(t, q, made', kept', DoneSends', refused') /\ q.life = "open"
  BY <1>6, <1>10, <1>11, <1>17
<1>19. OneOpen' /\ OthersBare' /\ Typed' /\ InLines' /\ \A u \in Tab : page'[u].life = page[u].life
  BY <1>1, <1>6, <1>18, PagesTurn
<1>20. OnDisk'
  <2>1. \A n \in Msg : disk'[n] = IF n = m THEN op.row ELSE disk[n]
    BY <1>1, <1>2, <1>6 DEF Store
  <2>2. \A n \in kept' : disk'[n] # None \/ n \in DoneSends'
    <3>1. \A n \in kept' : n \in Msg /\ (n = m \/ n \in kept)
      BY <1>1, <1>2, <1>6 DEF Store
    <3> QED
      BY <1>8, <1>10, <1>11, <2>1, <3>1 DEF OrderInv, OnDisk
  <2>3. \A n \in Msg : disk'[n].status = "failed" => n \in refused'
    BY <1>6, <1>8, <2>1 DEF OrderInv, OnDisk
  <2> QED
    BY <2>2, <2>3 DEF OnDisk
<1>21. Behind' /\ Placed' /\ InOrder'
  <2>1. ASSUME NEW n \in DOMAIN made, LostSend(n) PROVE LostSend(n)'
    <3>1. made[n].tab \in Tab /\ made[n].tab # t
      BY <1>1, <2>1 DEF Store, LostSend, p
    <3>2. n \notin kept'
      BY <1>10, <1>11, <2>1, <3>1 DEF LostSend
    <3> QED
      BY <1>6, <1>19, <2>1, <3>1, <3>2 DEF LostSend
  <2>2. Sends' = Sends
    BY <1>6, SameSends
  <2> QED
    BY <1>6, <1>10, <1>11, <2>1, <2>2 DEF OrderInv, Behind, Placed, InOrder
<1> QED
  BY <1>19, <1>20, <1>21 DEF OrderInv

\* A new send is later than everything its page has typed or read (createdAt in enqueue).
LEMMA EnqueueOrder ==
  ASSUME OutboxInv, OrderInv, NEW t \in Tab, NEW m \in Msg, NEW ch \in Channel, NEW now \in Clock, Enqueue(t, m, ch, now)
  PROVE  OrderInv'
<1> DEFINE p == page[t]
<1>1. /\ InLine(t, p, made, kept, DoneSends, refused) /\ p \in PageType /\ DOMAIN p = Fields /\ Store
      /\ PageOK(p, made, kept, Sends, withdrawn, access)
      /\ DOMAIN made \subseteq Msg /\ p.life = "open" /\ IsOpen(t) /\ m \notin DOMAIN made
  BY LineFacts, PageFields DEF Enqueue, Store
<1>2. PICK at : at = Stamp(p, now)
  OBVIOUS
<1>3. PICK rec : rec = [status |-> "pending", owner |-> t]
  OBVIOUS
<1>4. PICK v : v = [p.recs EXCEPT ![m] = rec]
  OBVIOUS
<1>5. PICK w : w = [p EXCEPT !.lastCreatedAt = at, !.recs = v]
  OBVIOUS
<1>6. PICK b \in BOOLEAN : b = TRUE
  OBVIOUS
<1>7. PICK q : q = Chain(w, m, w.recs[m], b)
  OBVIOUS
<1>8. /\ made' = [n \in DOMAIN made \cup {m} |-> IF n = m THEN [tab |-> t, ch |-> ch, at |-> at] ELSE made[n]]
      /\ page' = [page EXCEPT ![t] = q]
      /\ withdrawn \subseteq withdrawn'
      /\ UNCHANGED <<disk, log, late, kept, refused>>
  BY <1>2, <1>3, <1>4, <1>5, <1>6, <1>7 DEF Enqueue, PersistThenPump, Become
<1> HIDE DEF p
<1>9. at \in Nat /\ p.lastCreatedAt \in Nat /\ p.lastCreatedAt < at
  BY <1>1, <1>2, Constants DEF Stamp, Later, PageType
<1>10. PICK mk, dn, rf : mk = made' /\ dn = DoneSends' /\ rf = refused'
  OBVIOUS
<1>11. /\ DOMAIN mk = DOMAIN made \cup {m} /\ DOMAIN mk \subseteq Msg
       /\ mk[m].tab = t /\ mk[m].ch = ch /\ mk[m].at = at /\ \A n \in DOMAIN made : n # m /\ mk[n] = made[n]
  BY <1>1, <1>8, <1>10
<1>12. DoneSends \subseteq dn /\ rf = refused /\ Sends' = Sends
  BY <1>8, <1>10, SameSends DEF DoneSends
<1>13. InLine(t, p, made, kept, dn, rf)
  BY <1>1, <1>12, InLineStays
<1>14. \A n \in DOMAIN made : made[n].at \in Nat /\ (made[n].tab = t => made[n].at <= p.lastCreatedAt)
  BY <1>1, <1>13 DEF InLine, Mem, Store
\* Nothing typed here is behind the new one.
<1>15. \A n \in DOMAIN made : ~ Ahead(mk, m, n)
  BY <1>9, <1>11, <1>14 DEF Ahead
<1>16. \A k, n \in DOMAIN made : (Ahead(mk, k, n) <=> Ahead(made, k, n)) /\ (Excused(t, mk, kept, dn, k) <=> Excused(t, made, kept, dn, k))
  BY <1>11 DEF Ahead, Excused
<1>17. rec \in Rec /\ rec.owner = t /\ rec.status # "failed"
  BY <1>3 DEF Rec
<1>18. v \in [Msg -> Row] /\ v[m] = rec /\ (\A n \in Msg \ {m} : v[n] = p.recs[n]) /\ rec # None
  BY <1>1, <1>4, <1>17, RecRow DEF PageType
<1>19. /\ w.recs = v /\ w.lastCreatedAt = at /\ w.rows = p.rows /\ w.load = p.load /\ w.life = p.life
       /\ w.droppedChannels = p.droppedChannels /\ w.writing = p.writing /\ w.flight = p.flight
  BY <1>1, <1>5 DEF Fields
<1>20. w \in PageType
  BY <1>1, <1>5, <1>9, <1>18 DEF PageType
<1>21. InMemory(t, w, mk, kept, rf)
  <2> SUFFICES ASSUME NEW n \in Msg, v[n] # None
               PROVE  /\ n \in DOMAIN mk /\ (n \in kept \/ mk[n].tab = t)
                      /\ v[n].owner = t /\ (v[n].status = "failed" => n \in rf)
    BY <1>19 DEF InMemory
  <2>1. CASE n = m
    BY <1>11, <1>17, <1>18, <2>1
  <2>2. CASE n # m
    BY <1>11, <1>13, <1>18, <2>2 DEF InLine, Mem, InMemory
  <2> QED
    BY <2>1, <2>2
<1>22. \A n \in DOMAIN made : w.recs[n] = p.recs[n]
  BY <1>1, <1>11, <1>18, <1>19
<1>23. w.recs[m] # None
  BY <1>18, <1>19
<1>24. Expected(t, w, mk, kept, dn)
  <2> SUFFICES ASSUME NEW n \in DOMAIN made
               PROVE  \/ Excused(t, mk, kept, dn, n) \/ w.recs[n] # None
                      \/ mk[n].tab # t /\ (w.load = "read" \/ w.rows[n] # None)
    BY <1>11, <1>23 DEF Expected
  <2> QED
    BY <1>11, <1>13, <1>16, <1>19, <1>22 DEF InLine, Mem, Expected
<1>25. BeforeIt(t, w, mk, kept, dn)
  <2> SUFFICES ASSUME NEW k \in DOMAIN made, NEW n \in DOMAIN mk, w.recs[n] # None, Ahead(mk, k, n)
               PROVE  Excused(t, mk, kept, dn, k) \/ w.recs[k] # None
    BY <1>11, <1>23 DEF BeforeIt
  <2>1. CASE n = m
    <3>1. made[k].tab = t
      BY <1>11, <2>1 DEF Ahead
    <3> QED
      BY <1>13, <1>16, <1>22, <3>1 DEF InLine, Mem, Expected
  <2>2. CASE n \in DOMAIN made
    BY <1>13, <1>16, <1>22, <2>2 DEF InLine, Mem, BeforeIt
  <2> QED
    BY <1>11, <2>1, <2>2
<1>26. Mem(t, w, mk, kept, dn, rf)
  <2>1. \A n \in DOMAIN mk : mk[n].tab = t => mk[n].at <= w.lastCreatedAt
    <3>1. \A n \in DOMAIN made : made[n].tab = t => made[n].at <= at
      BY <1>9, <1>14
    <3> QED
      BY <1>9, <1>11, <1>19, <3>1
  <2>2. \A n \in DOMAIN mk : mk[n].tab # t /\ mk[n].ch \in w.droppedChannels => n \in dn
    BY <1>11, <1>13, <1>19 DEF InLine, Mem
  <2>3. \A n \in Msg : w.rows[n].status = "failed" => n \in rf
    BY <1>13, <1>19 DEF InLine, Mem
  <2> QED
    BY <1>21, <1>24, <1>25, <2>1, <2>2, <2>3 DEF Mem
<1>27. Fly(t, w, mk, kept, dn)
  <2> SUFFICES ASSUME NEW c \in Channel, NEW k \in DOMAIN mk, p.flight[c].id # NoMsg, Ahead(mk, k, p.flight[c].id)
               PROVE  Excused(t, mk, kept, dn, k)
    BY <1>19 DEF Fly
  <2>1. p.flight[c].id \in DOMAIN made
    BY <1>1 DEF PageOK, Sound, Backed, Mine
  <2>2. k \in DOMAIN made
    BY <1>11, <1>15, <2>1
  <2> QED
    BY <1>13, <1>16, <2>1, <2>2 DEF InLine, Fly
<1>28. InLine(t, w, mk, kept, dn, rf)
  <2>1. Que(t, w, mk, kept, dn, rf)
    BY <1>11, <1>13, <1>19 DEF InLine, Que
  <2> QED
    BY <1>26, <1>27, <2>1 DEF InLine
<1>29. InLine(t, q, mk, kept, dn, rf) /\ q.life = w.life
  BY <1>7, <1>20, <1>23, <1>28, WriteLine
<1>30. InLine(t, q, made', kept', DoneSends', refused') /\ q.life = "open"
  BY <1>1, <1>8, <1>10, <1>19, <1>29
<1>31. \A n \in DOMAIN made' : made'[n].tab = t \/ (n \in DOMAIN made /\ made'[n].tab = made[n].tab)
  BY <1>10, <1>11
<1>32. OneOpen' /\ OthersBare' /\ Typed' /\ InLines' /\ \A u \in Tab : page'[u].life = page[u].life
  BY <1>1, <1>8, <1>30, <1>31, PagesTurn
<1>33. OnDisk'
  BY <1>8, <1>10, <1>12 DEF OrderInv, OnDisk
<1>34. Behind'
  <2> SUFFICES ASSUME NEW k \in DOMAIN mk, NEW n \in DOMAIN mk, Ahead(mk, k, n), n \in late \cup Sends
               PROVE  k \in dn \/ LostSend(k)'
    BY <1>8, <1>10, <1>12 DEF Behind
  <2>1. n \in DOMAIN made
    BY <1>1 DEF OutboxInv, Kept, Store
  <2>2. k \in DOMAIN made
    BY <1>11, <1>15, <2>1
  <2>3. k \in DoneSends \/ LostSend(k)
    BY <1>16, <2>1, <2>2 DEF OrderInv, Behind
  <2>4. LostSend(k) => LostSend(k)'
    <3>1. made[k].tab \in Tab
      BY <1>1, <2>2 DEF Store
    <3> QED
      BY <1>8, <1>10, <1>11, <1>32, <2>2, <3>1 DEF LostSend
  <2> QED
    BY <1>12, <2>3, <2>4
<1>35. Placed' /\ InOrder'
  <2>1. \A c \in Channel : \A i \in DOMAIN log[c] : log[c][i] \in DOMAIN made /\ made[log[c][i]].ch = c
    BY DEF OrderInv, Placed
  <2>2. \A c \in Channel : \A i \in DOMAIN log[c] : log[c][i] \in DOMAIN mk /\ mk[log[c][i]].ch = c
    BY <1>11, <2>1
  <2>3. Placed'
    BY <1>8, <1>10, <2>2 DEF Placed
  <2>4. \A c \in Channel : \A i, j \in DOMAIN log[c] :
          Ahead(mk, log[c][i], log[c][j]) /\ log[c][i] \notin refused \cup withdrawn' => i < j
    BY <1>8, <1>16, <2>1 DEF OrderInv, InOrder
  <2>5. InOrder'
    BY <1>8, <1>10, <2>4 DEF InOrder
  <2> QED
    BY <2>3, <2>5
<1> QED
  BY <1>32, <1>33, <1>34, <1>35 DEF OrderInv

\* What is lost with a channel is withdrawn.
LEMMA DropChannelOrder ==
  ASSUME OutboxInv, OrderInv, NEW t \in Tab, NEW ch \in Channel, DropChannel(t, ch)
  PROVE  OrderInv'
<1> DEFINE p == page[t]
           gone == {m \in Known(p) : made[m].ch = ch}
<1>1. /\ InLine(t, p, made, kept, DoneSends, refused) /\ p \in PageType /\ DOMAIN p = Fields /\ Store /\ Kept
      /\ DOMAIN made \subseteq Msg /\ p.life = "open" /\ IsOpen(t)
  BY LineFacts, PageFields, Facts DEF DropChannel, Store
<1>2. PICK order :
        Become(t, [p EXCEPT
          !.droppedChannels    = @ \cup {ch},
          !.accessDropped      = @ \cup {m \in gone : InFlight(p, m)},
          !.recs               = [m \in Msg |-> IF m \in gone THEN None ELSE @[m]],
          !.discardAfterFlight = @ \ gone,
          !.settledInFlight    = @ \ gone,
          !.writing            = [m \in Msg |-> IF m \in gone THEN Unstore(p, m).writing[m] ELSE @[m]],
          !.issued             = @ \o order])
  BY DEF DropChannel
<1>3. PICK q : q = [p EXCEPT
          !.droppedChannels    = @ \cup {ch},
          !.accessDropped      = @ \cup {m \in gone : InFlight(p, m)},
          !.recs               = [m \in Msg |-> IF m \in gone THEN None ELSE @[m]],
          !.discardAfterFlight = @ \ gone,
          !.settledInFlight    = @ \ gone,
          !.writing            = [m \in Msg |-> IF m \in gone THEN Unstore(p, m).writing[m] ELSE @[m]],
          !.issued             = @ \o order]
  OBVIOUS
<1>4. Become(t, q) /\ PageOnly /\ access[ch] = "revoked"
  BY <1>2, <1>3, Facts DEF DropChannel, PageOnly, HasAccess
<1>5. \A m \in Msg : m \in gone <=> (p.recs[m] # None /\ made[m].ch = ch)
  BY DEF Known
<1>6. \A m \in DOMAIN made : made[m].ch = ch => m \in DoneSends
  BY <1>1, <1>4 DEF Kept, DoneSends
<1>7. \A m \in gone : m \in Msg /\ m \in DOMAIN made /\ m \in DoneSends
  BY <1>1, <1>5, <1>6 DEF InLine, Mem, InMemory, Known
<1> HIDE DEF gone, p
<1>8. /\ q.flight = p.flight /\ q.droppedChannels = p.droppedChannels \cup {ch}
      /\ q.recs = [m \in Msg |-> IF m \in gone THEN None ELSE p.recs[m]]
      /\ q.writing = [m \in Msg |-> IF m \in gone THEN Unstore(p, m).writing[m] ELSE p.writing[m]]
      /\ q.rows = p.rows /\ q.load = p.load /\ q.lastCreatedAt = p.lastCreatedAt /\ q.life = p.life
  BY <1>1, <1>3 DEF Fields
<1>9. \A m \in Msg : q.recs[m] = IF m \in gone THEN None ELSE p.recs[m]
  BY <1>8
<1>10. InMemory(t, q, made, kept, refused)
  BY <1>1, <1>9 DEF InLine, Mem, InMemory
<1>11. Expected(t, q, made, kept, DoneSends) /\ BeforeIt(t, q, made, kept, DoneSends)
  <2>1. \A m \in DOMAIN made : m \in gone => Excused(t, made, kept, DoneSends, m)
    BY <1>7 DEF Excused
  <2>2. \A m \in DOMAIN made : m \notin gone => q.recs[m] = p.recs[m]
    BY <1>1, <1>9
  <2>3. Expected(t, q, made, kept, DoneSends)
    BY <1>1, <1>8, <2>1, <2>2 DEF InLine, Mem, Expected
  <2>4. \A m \in DOMAIN made : q.recs[m] # None => p.recs[m] # None
    BY <1>1, <1>9
  <2>5. BeforeIt(t, q, made, kept, DoneSends)
    BY <1>1, <2>1, <2>2, <2>4 DEF InLine, Mem, BeforeIt
  <2> QED
    BY <2>3, <2>5
<1>12. Mem(t, q, made, kept, DoneSends, refused)
  <2>1. \A m \in DOMAIN made : made[m].tab # t /\ made[m].ch \in q.droppedChannels => m \in DoneSends
    BY <1>1, <1>6, <1>8 DEF InLine, Mem
  <2> QED
    BY <1>1, <1>8, <1>10, <1>11, <2>1 DEF InLine, Mem
<1>13. Que(t, q, made, kept, DoneSends, refused)
  <2> SUFFICES ASSUME NEW m \in Msg
               PROVE  /\ q.writing[m] # <<>> => m \in DOMAIN made /\ (m \in kept \/ made[m].tab = t)
                      /\ \A i \in DOMAIN q.writing[m] : /\ q.writing[m][i].row = None => m \in DoneSends
                                                        /\ q.writing[m][i].row.status = "failed" => m \in refused
    BY DEF Que
  <2>1. CASE m \notin gone
    <3>1. q.writing[m] = p.writing[m]
      BY <1>8, <2>1
    <3> QED
      BY <1>1, <3>1 DEF InLine, Que
  <2>2. CASE m \in gone
    <3>1. m \in DOMAIN made /\ (m \in kept \/ made[m].tab = t) /\ m \in DoneSends
      BY <1>1, <1>5, <1>7, <2>2, KnownLine
    <3>2. PICK b \in BOOLEAN : b = FALSE
      OBVIOUS
    <3>3. PICK op : op = [row |-> None, pump |-> b]
      OBVIOUS
    <3>4. op \in Op /\ op.row = None /\ op.pump = FALSE /\ op.row.status # "failed"
      BY <3>2, <3>3 DEF Op, Row, None
    <3>5. PICK u : u = Chain(p, m, op.row, op.pump)
      OBVIOUS
    <3>6. q.writing[m] = u.writing[m]
      BY <1>8, <2>2, <3>4, <3>5 DEF Unstore
    <3>7. (op.row = None => m \in DoneSends) /\ (op.row.status = "failed" => m \in refused)
      BY <3>1, <3>4
    <3>8. InLine(t, u, made, kept, DoneSends, refused)
      BY <1>1, <3>1, <3>4, <3>5, <3>7, ChainLine
    <3> QED
      BY <3>1, <3>6, <3>8 DEF InLine, Que
  <2> QED
    BY <2>1, <2>2
<1>14. InLine(t, q, made, kept, DoneSends, refused)
  BY <1>1, <1>8, <1>12, <1>13 DEF InLine, Fly
<1> QED
  BY <1>1, <1>4, <1>8, <1>14, OrderBecome

\* No page and nothing that is posted changes.
LEMMA QuietOrder ==
  ASSUME OrderInv, UNCHANGED <<page, disk, made, log, kept, late, refused>>, withdrawn \subseteq withdrawn'
  PROVE  OrderInv'
<1>1. Sends' = Sends /\ DoneSends \subseteq DoneSends'
  BY SameSends DEF DoneSends
<1>2. InLines'
  <2> SUFFICES ASSUME NEW t \in Tab, IsOpen(t) PROVE InLine(t, page[t], made, kept, DoneSends', refused)
    BY DEF InLines, IsOpen
  <2>1. InLine(t, page[t], made, kept, DoneSends, refused)
    BY DEF OrderInv, InLines
  <2> QED
    BY <1>1, <2>1, InLineStays
<1>3. OneOpen' /\ OthersBare' /\ Typed'
  BY DEF OrderInv, OneOpen, OthersBare, Typed, IsOpen, Bare
<1>4. OnDisk'
  BY <1>1 DEF OrderInv, OnDisk
<1>5. Behind' /\ Placed' /\ InOrder'
  <2>1. \A m \in DOMAIN made : LostSend(m) => LostSend(m)'
    BY DEF LostSend
  <2> QED
    BY <1>1, <2>1 DEF OrderInv, Behind, Placed, InOrder
<1> QED
  BY <1>2, <1>3, <1>4, <1>5 DEF OrderInv

LEMMA OrderStep ==
  ASSUME MaxOpen <= 1, OutboxInv, OrderInv, [Next]_vars
  PROVE  OrderInv'
<1>1. ASSUME NEW t \in Tab,
             Open(t) \/ Close(t) \/ Kick(t) \/ DiskWrite(t) \/ LoadRead(t) \/ LoadRow(t) \/ AdoptRow(t)
      PROVE  OrderInv'
  BY <1>1, OpenOrder, CloseOrder, KickOrder, DiskWriteOrder, LoadReadOrder, LoadRowOrder, AdoptRowOrder
<1>2. ASSUME NEW t \in Tab, NEW m \in Msg,
             \/ \E ch \in Channel, now \in Clock : Enqueue(t, m, ch, now)
             \/ Retry(t, m) \/ Discard(t, m) \/ Settle(t, m)
      PROVE  OrderInv'
  BY <1>2, EnqueueOrder, RetryOrder, DiscardOrder, SettleOrder
<1>3. ASSUME NEW t \in Tab, NEW ch \in Channel,
             \/ Accept(t, ch) \/ Refuse(t, ch) \/ AnswerOk(t, ch) \/ AnswerRefused(t, ch) \/ AnswerLost(t, ch)
             \/ Wake(t, ch) \/ DropChannel(t, ch)
      PROVE  OrderInv'
  BY <1>3, AcceptOrder, RefuseOrder, AnswerOkOrder, AnswerRefusedOrder, AnswerLostOrder, WakeOrder, DropChannelOrder
<1>4. ASSUME NEW m \in Msg, LateArrival(m) PROVE OrderInv'
  BY <1>4, LateArrivalOrder
<1>5. ASSUME NEW ch \in Channel, Revoke(ch) \/ Regrant(ch) PROVE OrderInv'
  <2>1. UNCHANGED <<page, disk, made, log, kept, late, refused>> /\ withdrawn \subseteq withdrawn'
    BY <1>5 DEF Revoke, Regrant
  <2> QED
    BY <2>1, QuietOrder
<1>6. CASE UNCHANGED vars
  <2>1. UNCHANGED <<page, disk, made, log, kept, late, refused>> /\ withdrawn \subseteq withdrawn'
    BY <1>6 DEF vars
  <2> QED
    BY <2>1, QuietOrder
<1> QED
  BY <1>1, <1>2, <1>3, <1>4, <1>5, <1>6 DEF Next

LEMMA OrderInit == Init => OrderInv
<1> SUFFICES ASSUME Init PROVE OrderInv
  OBVIOUS
<1>1. /\ page = [t \in Tab |-> Blank] /\ made = [m \in {} |-> [tab |-> NoTab]] /\ DOMAIN made = {}
      /\ disk = [m \in Msg |-> None] /\ late = {} /\ kept = {} /\ log = [ch \in Channel |-> <<>>]
  BY DEF Init, Server!Init
<1>2. PICK b : b = Blank
  OBVIOUS
<1>3. b.life = "new" /\ Bare(b)
  BY <1>2 DEF Blank, Bare
<1>4. \A t \in Tab : page[t] = b
  BY <1>1, <1>2
<1>5. \A t \in Tab : ~ IsOpen(t)
  BY <1>3, <1>4 DEF IsOpen
<1>6. OneOpen /\ InLines
  BY <1>5 DEF OneOpen, InLines
<1>7. OthersBare
  BY <1>3, <1>4 DEF OthersBare
<1>8. OnDisk
  BY <1>1 DEF OnDisk, None
<1>9. Typed /\ Behind
  BY <1>1 DEF Typed, Behind
<1>10. \A ch \in Channel : DOMAIN log[ch] = {}
  BY <1>1
<1>11. Placed /\ InOrder
  BY <1>10 DEF Placed, InOrder
<1> QED
  BY <1>6, <1>7, <1>8, <1>9, <1>11 DEF OrderInv

\* What was lost before it was stored is nowhere.
LEMMA LostNowhere ==
  ASSUME OutboxInv, OrderInv, NEW m \in DOMAIN made, LostSend(m)
  PROVE  m \notin kept /\ Nowhere(m)
<1>1. m \in Msg /\ Store /\ Kept /\ NoMsg \notin Msg
  BY Constants DEF OutboxInv, Store
<1>2. m \notin kept /\ disk[m] = None /\ m \notin late
  BY <1>1 DEF LostSend, Kept, Store
<1>3. ASSUME NEW t \in Tab
      PROVE  /\ page[t].recs[m] = None /\ page[t].writing[m] = <<>>
             /\ page[t].rows[m] = None /\ ~ InFlight(page[t], m)
  <2>1. CASE ~ IsOpen(t)
    <3>1. Bare(page[t])
      BY <2>1 DEF OrderInv, OthersBare
    <3> QED
      BY <1>1, <3>1 DEF Bare, InFlight
  <2>2. CASE IsOpen(t)
    <3>1. InLine(t, page[t], made, kept, DoneSends, refused) /\ PageOK(page[t], made, kept, Sends, withdrawn, access)
      BY <2>2, LineFacts
    <3>2. made[m].tab # t
      BY <2>2 DEF LostSend, IsOpen
    <3>3. page[t].recs[m] = None /\ page[t].writing[m] = <<>>
      BY <1>1, <1>2, <3>1, <3>2 DEF InLine, Mem, InMemory, Que
    <3>4. page[t].rows[m] = None /\ ~ InFlight(page[t], m)
      BY <1>1, <1>2, <3>1 DEF PageOK, Sound, Backed, Mine, InFlight
    <3> QED
      BY <3>3, <3>4
  <2> QED
    BY <2>1, <2>2
<1> QED
  BY <1>2, <1>3 DEF Nowhere

\* While one page is open at a time, however many follow each other, the messages that were
\* typed into one channel in one page are posted in the order in which they were typed (byAge
\* and createdAt, outbox.ts), whatever is lost, retried, adopted, reloaded or late.
THEOREM SentInOrder ==
  ASSUME MaxOpen <= 1
  PROVE  Spec => []SendOrder
<1>1. OrderInv /\ OutboxInv /\ [Next]_vars => OrderInv'
  BY OrderStep
<1>2. OrderInv /\ OutboxInv => SendOrder
  <2> SUFFICES ASSUME OrderInv, OutboxInv, NEW m \in DOMAIN made, NEW n \in DOMAIN made,
                      made[m].tab = made[n].tab, made[m].ch = made[n].ch, Older(m, n),
                      Posted(n), m \notin refused \cup withdrawn
               PROVE  \/ m \notin kept /\ Nowhere(m)
                      \/ \E i, j \in DOMAIN log[made[m].ch] :
                           i < j /\ log[made[m].ch][i] = m /\ log[made[m].ch][j] = n
    BY DEF SendOrder
  <2>1. Ahead(made, m, n) /\ m \in Msg /\ n \in Msg /\ made[m].ch \in Channel
    BY DEF Ahead, Older, OutboxInv, Store
  <2>2. m \in Sends \/ LostSend(m)
    BY <2>1 DEF OrderInv, Behind, Sends, DoneSends
  <2>3. CASE LostSend(m)
    BY <2>3, LostNowhere
  <2>4. CASE m \in Sends
    <3>1. \A k \in {m, n} : \E c \in Channel : \E i \in DOMAIN log[c] : log[c][i] = k
      BY <2>4 DEF Sends, Posted, Server!Posted, Server!Range
    <3>2. \E i, j \in DOMAIN log[made[m].ch] : log[made[m].ch][i] = m /\ log[made[m].ch][j] = n
      BY <3>1 DEF OrderInv, Placed
    <3> QED
      BY <2>1, <3>2 DEF OrderInv, InOrder
  <2> QED
    BY <2>2, <2>3, <2>4
<1> QED
  BY <1>1, <1>2, OrderInit, OutboxInvariance, PTL DEF Spec
=============================================================================
