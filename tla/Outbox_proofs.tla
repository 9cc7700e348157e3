--------------------------- MODULE Outbox_proofs ---------------------------
(* Proofs about Outbox: for any number of tabs, messages and channels, any clock and any
   faults.  Memory, storage and queued writes each hold copies of a record, and each copy may
   be ahead of the others; the invariant says of one page what its copies owe to what was
   stored, posted, withdrawn and revoked so far.  These four only ever grow, so a step of one
   page never takes anything from another. *)
EXTENDS Outbox, FiniteSetTheorems, SequenceTheorems, TLAPS

LEMMA Constants == Msg \subseteq Nat /\ Clock \subseteq Nat /\ NoMsg \notin Msg /\ NoTab \notin Tab
BY OutboxAssumption

PageType ==
  [life : {"new", "open", "gone"}, recs : [Msg -> Row],
   writing : [Msg -> Seq(Op)], issued : Seq(Msg \cup {NoMsg}),
   flight : [Channel -> [id : Msg \cup {NoMsg}, answer : {"none", "ok", "final"}]],
   timer : SUBSET Channel,
   discardAfterFlight : SUBSET Msg, settledInFlight : SUBSET Msg, accessDropped : SUBSET Msg,
   droppedChannels : SUBSET Channel, accepted : SUBSET Msg, lastCreatedAt : Nat,
   load : {"idle", "read", "rows"}, rows : [Msg -> Row], touched : SUBSET Channel,
   kicked : BOOLEAN, todo : SUBSET Msg]

Sends == {m \in Msg : Posted(m)}

(* What the pages share: the sends typed (mk), stored once (kp), posted (po) and withdrawn
   (wd), and the access to each channel (ac). *)
Given(mk, po, wd, ac, m) ==
  m \in po \cup wd \/ (m \in DOMAIN mk /\ ac[mk[m].ch] = "regranted")

\* A send of ch that was stored.
Mine(mk, kp, ch, m) == m \in kp /\ m \in DOMAIN mk /\ mk[m].ch = ch

\* What is in memory or queued was typed; what goes to the network, or was read, was stored.
Backed(p, mk, kp) ==
  /\ \A m \in Msg : p.recs[m] # None \/ p.writing[m] # <<>> => m \in DOMAIN mk
  /\ \A m \in Msg : p.rows[m] # None => m \in kp
  /\ \A ch \in Channel : p.flight[ch].id = NoMsg \/ Mine(mk, kp, ch, p.flight[ch].id)
  /\ p.todo \subseteq DOMAIN mk

\* What is in memory was stored, or its first write is the next one.
Stored(p, kp, m) == p.recs[m] # None => m \in kp \/ (p.writing[m] # <<>> /\ Head(p.writing[m]).row # None)

\* A record is issued once, and only while something of it is queued.
Issued(p) ==
  /\ \A i \in DOMAIN p.issued : p.issued[i] # NoMsg => p.writing[p.issued[i]] # <<>>
  /\ \A i, j \in DOMAIN p.issued : p.issued[i] = p.issued[j] /\ i # j => p.issued[i] = NoMsg

\* A removal is queued only of what was posted, withdrawn, or of a channel that was lost.
Removed(p, mk, po, wd, ac) ==
  /\ \A m \in Msg : \A i \in DOMAIN p.writing[m] :
       p.writing[m][i].row = None => Given(mk, po, wd, ac, m)
  /\ \A ch \in Channel : p.flight[ch].answer = "ok" => p.flight[ch].id \in po
  /\ p.settledInFlight \subseteq po /\ p.discardAfterFlight \subseteq wd
  /\ \A ch \in p.droppedChannels : ac[ch] # "granted"

Sound(p, mk, kp, po, wd, ac) ==
  p \in PageType /\ Backed(p, mk, kp) /\ Issued(p) /\ Removed(p, mk, po, wd, ac)

PageOK(p, mk, kp, po, wd, ac) == Sound(p, mk, kp, po, wd, ac) /\ \A m \in Msg : Stored(p, kp, m)

\* A load goes on while there are rows.
Loading(p) == p.load = "rows" => \E m \in Msg : p.rows[m] # None

\* What is left to be sent on ch is going to be looked at again: by whoever is under way
\* there, or by a load or an adoption.
Going(p, mk, ch) ==
  \/ p.flight[ch].id # NoMsg
  \/ ch \in p.timer
  \/ \E m \in DOMAIN mk : mk[m].ch = ch /\ \E i \in DOMAIN p.writing[m] : p.writing[m][i].pump

Attended(p, mk, ch) ==
  \/ Going(p, mk, ch)
  \/ p.load # "idle" /\ (p.kicked \/ ch \in p.touched)
  \/ p.todo # {}

Queue(t, p, mk, ch) ==
  {m \in Msg : p.recs[m] # None /\ mk[m].ch = ch /\ p.recs[m].status # "failed" /\ p.recs[m].owner = t}

\* Every line of t but those of X is attended.
AwakeBut(t, p, mk, X) == \A ch \in Channel \ X : Queue(t, p, mk, ch) # {} => Attended(p, mk, ch)
Awake(t, p, mk) == AwakeBut(t, p, mk, {})

Store ==
  /\ disk \in [Msg -> Row]
  /\ DOMAIN made \subseteq Msg /\ IsFiniteSet(DOMAIN made) /\ made = [m \in DOMAIN made |-> made[m]]
  /\ \A m \in DOMAIN made : made[m] \in [tab : Tab, ch : Channel, at : Nat]
  /\ log \in [Channel -> Seq(Msg)]
  /\ access \in [Channel -> {"granted", "revoked", "regranted"}]
  /\ late \subseteq kept /\ kept \subseteq DOMAIN made /\ withdrawn \subseteq Msg

Kept ==
  /\ Sends \subseteq kept
  /\ \A m \in Msg : disk[m] # None => m \in kept
  /\ \A m \in kept : disk[m] # None \/ Given(made, Sends, withdrawn, access, m)
  /\ \A m \in DOMAIN made : access[made[m].ch] = "revoked" => m \in withdrawn

OutboxInv ==
  /\ DOMAIN page = Tab /\ page = [t \in Tab |-> page[t]] /\ Store /\ Kept
  /\ \A t \in Tab : PageOK(page[t], made, kept, Sends, withdrawn, access) /\ Loading(page[t])
  /\ \A t \in Tab : page[t].life = "open" => Awake(t, page[t], made)

-----------------------------------------------------------------------------
(* What is shared only grows.                                              *)

Grows(mk, kp, po, wd, ac, mk2, kp2, po2, wd2, ac2) ==
  /\ DOMAIN mk \subseteq DOMAIN mk2 /\ \A m \in DOMAIN mk : mk2[m] = mk[m]
  /\ kp \subseteq kp2 /\ po \subseteq po2 /\ wd \subseteq wd2
  /\ \A ch \in Channel : /\ ac[ch] = "regranted" => ac2[ch] = "regranted"
                         /\ ac[ch] # "granted" => ac2[ch] # "granted"

LEMMA PageStays ==
  ASSUME NEW p, NEW mk, NEW kp, NEW po, NEW wd, NEW ac, NEW mk2, NEW kp2, NEW po2, NEW wd2, NEW ac2,
         PageOK(p, mk, kp, po, wd, ac), Grows(mk, kp, po, wd, ac, mk2, kp2, po2, wd2, ac2),
         \A m \in DOMAIN mk : mk[m].ch \in Channel
  PROVE  PageOK(p, mk2, kp2, po2, wd2, ac2)
<1>1. \A m \in Msg : Given(mk, po, wd, ac, m) => Given(mk2, po2, wd2, ac2, m)
  BY DEF Grows, Given
<1>2. Backed(p, mk2, kp2)
  BY DEF PageOK, Sound, Backed, Mine, Grows
<1>3. Removed(p, mk2, po2, wd2, ac2)
  BY <1>1 DEF PageOK, Sound, Removed, Grows, PageType
<1>4. \A m \in Msg : Stored(p, kp2, m)
  BY DEF PageOK, Stored, Grows
<1> QED
  BY <1>2, <1>3, <1>4 DEF PageOK, Sound

LEMMA AwakeStays ==
  ASSUME NEW t, NEW p, NEW mk, NEW mk2, Awake(t, p, mk), DOMAIN mk \subseteq DOMAIN mk2,
         \A m \in DOMAIN mk : mk2[m] = mk[m], \A m \in Msg : p.recs[m] # None => m \in DOMAIN mk
  PROVE  Awake(t, p, mk2)
<1> SUFFICES ASSUME NEW ch \in Channel, Queue(t, p, mk2, ch) # {} PROVE Attended(p, mk2, ch)
  BY DEF Awake, AwakeBut
<1>1. Queue(t, p, mk, ch) # {}
  BY DEF Queue
<1>2. Attended(p, mk, ch)
  BY <1>1 DEF Awake, AwakeBut
<1> QED
  BY <1>2 DEF Attended, Going

\* One page's turn.
LEMMA Turn ==
  ASSUME OutboxInv, NEW t \in Tab, NEW q, page' = [page EXCEPT ![t] = q], Store', Kept',
         Grows(made, kept, Sends, withdrawn, access, made', kept', Sends', withdrawn', access'),
         PageOK(q, made', kept', Sends', withdrawn', access'), Loading(q),
         q.life = "open" => Awake(t, q, made')
  PROVE  OutboxInv'
<1>1. page'[t] = q /\ \A u \in Tab \ {t} : page'[u] = page[u]
  BY DEF OutboxInv
<1>2. \A m \in DOMAIN made : made[m].ch \in Channel
  BY DEF OutboxInv, Store
<1>3. ASSUME NEW u \in Tab \ {t}
      PROVE  /\ PageOK(page[u], made', kept', Sends', withdrawn', access') /\ Loading(page[u])
             /\ page[u].life = "open" => Awake(u, page[u], made')
  <2>1. PageOK(page[u], made, kept, Sends, withdrawn, access) /\ Loading(page[u]) /\ (page[u].life = "open" => Awake(u, page[u], made))
    BY DEF OutboxInv
  <2>2. \A m \in Msg : page[u].recs[m] # None => m \in DOMAIN made
    BY <2>1 DEF PageOK, Sound, Backed
  <2>3. DOMAIN made \subseteq DOMAIN made' /\ \A m \in DOMAIN made : made'[m] = made[m]
    BY DEF Grows
  <2> QED
    BY <1>2, <2>1, <2>2, <2>3, PageStays, AwakeStays
<1>4. \A u \in Tab : /\ PageOK(page'[u], made', kept', Sends', withdrawn', access') /\ Loading(page'[u])
                     /\ page'[u].life = "open" => Awake(u, page'[u], made')
  BY <1>1, <1>3
<1>5. DOMAIN page' = Tab /\ page' = [u \in Tab |-> page'[u]]
  BY DEF OutboxInv
<1> QED
  BY <1>4, <1>5 DEF OutboxInv

LEMMA Shared ==
  ASSUME OutboxInv
  PROVE  Grows(made, kept, Sends, withdrawn, access, made, kept, Sends, withdrawn, access)
BY DEF Grows

-----------------------------------------------------------------------------
(* The head of a line.                                                     *)

LEMMA Least ==
  ASSUME NEW S \in SUBSET Nat, S # {}
  PROVE  \E x \in S : \A y \in S : x <= y
<1>1. PICK n \in S : TRUE
  OBVIOUS
<1> DEFINE W == {y \in S : y <= n}
<1>2. IsFiniteSet(W)
  <2>1. IsFiniteSet(0 .. n)
    <3>1. 0 \in Int /\ n \in Int
      OBVIOUS
    <3> HIDE DEF W
    <3> QED
      BY <3>1, FS_Interval
  <2>2. W \subseteq 0 .. n
    <3>1. \A y \in S : y \in Nat /\ (y <= n => y \in 0 .. n)
      OBVIOUS
    <3> QED
      BY <3>1
  <2> HIDE DEF W
  <2> QED
    BY <2>1, <2>2, FS_Subset
<1> DEFINE below(x) == {y \in W : y < x}
           C == {below(x) : x \in W}
<1>3. C \subseteq FiniteSubsetsOf(W) /\ C # {}
  <2>1. ASSUME NEW x \in W PROVE below(x) \in SUBSET W /\ IsFiniteSet(below(x))
    <3>1. below(x) \in SUBSET W
      OBVIOUS
    <3> HIDE DEF below, W
    <3> QED
      BY <1>2, <3>1, FS_Subset
  <2>2. below(n) \in C
    OBVIOUS
  <2> HIDE DEF below, W
  <2>3. C \subseteq FiniteSubsetsOf(W)
    BY <2>1 DEF FiniteSubsetsOf
  <2> QED
    BY <2>2, <2>3
<1> HIDE DEF W
<1>4. PICK T \in C : \A U \in C : ~ (<<U, T>> \in StrictSubsetOrdering(W))
  BY <1>2, <1>3, FS_StrictSubsetOrderingWellFounded, WFMin
<1>5. PICK x \in W : T = below(x)
  BY <1>4
<1>6. \A y \in W : y \in Nat
  BY DEF W
<1>7. ASSUME NEW y \in W, y < x PROVE FALSE
  <2>1. below(y) \subseteq below(x) /\ y \in below(x) /\ y \notin below(y)
    <3>1. \A z \in W : z < y => z < x
      BY <1>6, <1>7
    <3>2. ~ (y < y)
      BY <1>6
    <3> QED
      BY <1>7, <3>1, <3>2
  <2>2. below(y) \in C /\ below(x) \in C
    OBVIOUS
  <2> HIDE DEF below
  <2>3. <<below(y), below(x)>> \in StrictSubsetOrdering(W)
    BY <1>3, <2>1, <2>2 DEF StrictSubsetOrdering, FiniteSubsetsOf
  <2> QED
    BY <1>4, <1>5, <2>2, <2>3
<1>8. ASSUME NEW y \in S PROVE x <= y
  <2>1. y \in Nat /\ x \in Nat /\ n \in Nat /\ x <= n
    BY DEF W
  <2>2. y \in W => ~ (y < x)
    BY <1>7
  <2>3. y \notin W => y > n
    BY <2>1 DEF W
  <2> QED
    BY <2>1, <2>2, <2>3
<1> QED
  BY <1>8 DEF W

\* By createdAt, and by the client id where that ties.
LEMMA OldestOf ==
  ASSUME Store, NEW S \in SUBSET DOMAIN made, S # {}
  PROVE  Oldest(S) \in S
<1> DEFINE ats == {made[m].at : m \in S}
<1>1. S \subseteq Nat /\ \A m \in S : made[m].at \in Nat
  BY Constants DEF Store
<1>2. PICK at \in ats : \A a \in ats : at <= a
  <2>1. ats \in SUBSET Nat /\ ats # {}
    BY <1>1
  <2> QED
    BY <2>1, Least
<1> DEFINE first == {m \in S : made[m].at = at}
<1>3. PICK x \in first : \A m \in first : x <= m
  <2>1. first \in SUBSET Nat /\ first # {}
    BY <1>1
  <2> QED
    BY <2>1, Least
<1>4. \A n \in S \ {x} : Older(x, n)
  <2> SUFFICES ASSUME NEW n \in S, n # x PROVE Older(x, n)
    OBVIOUS
  <2>1. made[x].at = at /\ at \in Nat /\ made[n].at \in Nat /\ at <= made[n].at /\ x \in Nat /\ n \in Nat
    BY <1>1, <1>2, <1>3
  <2>2. made[n].at = at => x <= n
    BY <1>3
  <2> QED
    BY <2>1, <2>2 DEF Older
<1> QED
  BY <1>3, <1>4 DEF Oldest

-----------------------------------------------------------------------------
(* What the helpers do to a page.                                          *)

\* Neither a request nor a load is touched.
SameLoad(p, q) ==
  /\ q.life = p.life /\ q.droppedChannels = p.droppedChannels
  /\ q.load = p.load /\ q.rows = p.rows /\ q.touched = p.touched /\ q.kicked = p.kicked /\ q.todo = p.todo

SameMarks(p, q) ==
  q.settledInFlight \subseteq p.settledInFlight /\ q.discardAfterFlight \subseteq p.discardAfterFlight

LEMMA ForgetFacts ==
  ASSUME NEW p \in PageType, NEW m \in Msg, NEW q, q = Forget(p, m)
  PROVE  /\ q \in PageType /\ q.recs[m] = None /\ \A n \in Msg \ {m} : q.recs[n] = p.recs[n]
         /\ q.writing = p.writing /\ q.issued = p.issued /\ q.flight = p.flight /\ q.timer = p.timer
         /\ SameLoad(p, q) /\ SameMarks(p, q)
<1>1. None \in Row
  BY DEF Row
<1> QED
  BY <1>1 DEF Forget, PageType, SameLoad, SameMarks

LEMMA ChainFacts ==
  ASSUME NEW p \in PageType, NEW m \in Msg, NEW op \in Op, NEW q, q = Chain(p, m, op.row, op.pump)
  PROVE  /\ q \in PageType /\ q.recs = p.recs
         /\ q.writing[m] = Append(p.writing[m], op) /\ (\A n \in Msg \ {m} : q.writing[n] = p.writing[n])
         /\ (p.writing[m] = <<>> => q.issued = Append(p.issued, m))
         /\ (p.writing[m] # <<>> => q.issued = p.issued)
         /\ q.flight = p.flight /\ q.timer = p.timer
         /\ SameLoad(p, q) /\ SameMarks(p, q)
<1>1. op = [row |-> op.row, pump |-> op.pump]
  BY DEF Op
<1>2. p.writing \in [Msg -> Seq(Op)] /\ p.issued \in Seq(Msg \cup {NoMsg})
  BY DEF PageType
<1>3. Append(p.writing[m], op) \in Seq(Op)
  BY <1>2
<1>4. (IF p.writing[m] = <<>> THEN Append(p.issued, m) ELSE p.issued) \in Seq(Msg \cup {NoMsg})
  BY <1>2
<1> QED
  BY <1>1, <1>3, <1>4 DEF Chain, PageType, SameLoad, SameMarks

\* A queued write comes last.
LEMMA QueuedLast ==
  ASSUME NEW s \in Seq(Op), NEW op \in Op
  PROVE  /\ Append(s, op) # <<>> /\ Head(Append(s, op)) = IF s = <<>> THEN op ELSE Head(s)
         /\ DOMAIN s \subseteq DOMAIN Append(s, op) /\ \A i \in DOMAIN s : Append(s, op)[i] = s[i]
         /\ \A i \in DOMAIN Append(s, op) : i \notin DOMAIN s => Append(s, op)[i] = op
<1>1. /\ Append(s, op) \in Seq(Op) /\ Len(Append(s, op)) = Len(s) + 1 /\ Append(s, op)[Len(s) + 1] = op
      /\ \A i \in 1 .. Len(s) : Append(s, op)[i] = s[i]
      /\ DOMAIN s = 1 .. Len(s) /\ DOMAIN Append(s, op) = 1 .. Len(s) + 1 /\ Len(s) \in Nat
  OBVIOUS
<1>2. s = <<>> => Len(s) = 0
  OBVIOUS
<1>3. s # <<>> => Len(s) > 0 /\ Head(s) = s[1]
  OBVIOUS
<1>4. Head(Append(s, op)) = Append(s, op)[1] /\ Append(s, op) # <<>>
  BY <1>1
<1> QED
  BY <1>1, <1>2, <1>3, <1>4

\* A write, or a removal that has its reason, may be queued.
LEMMA ChainSound ==
  ASSUME NEW p, NEW mk, NEW kp, NEW po, NEW wd, NEW ac, Sound(p, mk, kp, po, wd, ac),
         NEW m \in Msg, m \in DOMAIN mk, NEW op \in Op,
         op.row = None => p.recs[m] = None /\ Given(mk, po, wd, ac, m),
         op.row # None => p.writing[m] = <<>> \/ Stored(p, kp, m),
         \A n \in Msg \ {m} : Stored(p, kp, n),
         NEW q, q = Chain(p, m, op.row, op.pump)
  PROVE  PageOK(q, mk, kp, po, wd, ac)
<1>0. p \in PageType
  BY DEF Sound
<1>1. /\ q \in PageType /\ q.recs = p.recs
      /\ q.writing[m] = Append(p.writing[m], op) /\ (\A n \in Msg \ {m} : q.writing[n] = p.writing[n])
      /\ (p.writing[m] = <<>> => q.issued = Append(p.issued, m))
      /\ (p.writing[m] # <<>> => q.issued = p.issued)
      /\ q.flight = p.flight /\ SameLoad(p, q) /\ SameMarks(p, q)
  BY <1>0, ChainFacts
<1>3. p.writing \in [Msg -> Seq(Op)] /\ p.issued \in Seq(Msg \cup {NoMsg}) /\ NoMsg \notin Msg
  BY Constants DEF Sound, PageType
<1>4. /\ q.writing[m] # <<>> /\ Head(q.writing[m]) = IF p.writing[m] = <<>> THEN op ELSE Head(p.writing[m])
      /\ \A i \in DOMAIN q.writing[m] : q.writing[m][i] = op \/ (i \in DOMAIN p.writing[m] /\ q.writing[m][i] = p.writing[m][i])
      /\ (\A n \in Msg \ {m} : q.writing[n] = p.writing[n])
  BY <1>1, <1>3, QueuedLast
<1>5. Backed(q, mk, kp)
  BY <1>1, <1>4 DEF Sound, Backed, SameLoad
<1>6. \A n \in Msg : Stored(q, kp, n)
  <2>1. \A n \in Msg \ {m} : Stored(q, kp, n)
    BY <1>1, <1>4 DEF Stored
  <2>2. Stored(q, kp, m)
    BY <1>1, <1>4 DEF Stored
  <2> QED
    BY <2>1, <2>2
<1>7. Issued(q)
  <2>1. CASE p.writing[m] = <<>>
    <3>1. q.issued = Append(p.issued, m) /\ \A i \in DOMAIN p.issued : p.issued[i] # m
      BY <1>1, <1>3, <2>1 DEF Sound, Issued
    <3>2. \A i \in DOMAIN q.issued : q.issued[i] = m \/ (i \in DOMAIN p.issued /\ q.issued[i] = p.issued[i])
      BY <1>3, <3>1
    <3>3. \A i \in DOMAIN q.issued : q.issued[i] = m => i = Len(p.issued) + 1
      <4>1. \A i \in DOMAIN q.issued : i \in DOMAIN p.issued \/ i = Len(p.issued) + 1
        BY <1>3, <3>1
      <4>2. \A i \in DOMAIN p.issued : q.issued[i] = p.issued[i]
        BY <1>3, <3>1
      <4> QED
        BY <3>1, <4>1, <4>2
    <3>4. \A i \in DOMAIN p.issued : p.issued[i] \in Msg \cup {NoMsg}
      BY <1>3
    <3>5. Issued(p)
      BY DEF Sound
    <3>6. \A i \in DOMAIN q.issued : q.issued[i] # NoMsg => q.writing[q.issued[i]] # <<>>
      BY <1>4, <3>2, <3>4, <3>5 DEF Issued
    <3>7. ASSUME NEW i \in DOMAIN q.issued, NEW j \in DOMAIN q.issued, q.issued[i] = q.issued[j], i # j
          PROVE  q.issued[i] = NoMsg
      BY <3>2, <3>3, <3>5, <3>7 DEF Issued
    <3> QED
      BY <3>6, <3>7 DEF Issued
  <2>2. CASE p.writing[m] # <<>>
    <3>1. \A i \in DOMAIN p.issued : p.issued[i] \in Msg \cup {NoMsg}
      BY <1>3
    <3> QED
      BY <1>1, <1>4, <2>2, <3>1 DEF Sound, Issued
  <2> QED
    BY <2>1, <2>2
<1>8. Removed(q, mk, po, wd, ac)
  <2>1. \A n \in Msg : \A i \in DOMAIN q.writing[n] : q.writing[n][i].row = None => Given(mk, po, wd, ac, n)
    BY <1>4 DEF Sound, Removed
  <2> QED
    BY <1>1, <2>1 DEF Sound, Removed, SameLoad, SameMarks
<1> QED
  BY <1>1, <1>5, <1>6, <1>7, <1>8 DEF PageOK, Sound

-----------------------------------------------------------------------------
(* Who attends to a line goes on doing so.                                 *)

\* On the channels outside X.
Keeps(p, q, mk, X) ==
  /\ \A ch \in Channel \ X : /\ p.flight[ch].id # NoMsg => q.flight[ch].id # NoMsg
                             /\ ch \in p.timer => ch \in q.timer
  /\ \A m \in Msg : \/ m \in DOMAIN mk /\ mk[m].ch \in X
                    \/ (\E i \in DOMAIN p.writing[m] : p.writing[m][i].pump)
                       => \E i \in DOMAIN q.writing[m] : q.writing[m][i].pump
  /\ p.load # "idle" => q.load # "idle"
  /\ p.kicked => q.kicked
  /\ p.touched \subseteq q.touched
  /\ p.todo # {} => q.todo # {}

LEMMA KeepsAwake ==
  ASSUME NEW t, NEW p, NEW q, NEW mk, NEW X, DOMAIN mk \subseteq Msg, AwakeBut(t, p, mk, X), Keeps(p, q, mk, X),
         \A m \in Msg : q.recs[m] = None \/ q.recs[m] = p.recs[m] \/ mk[m].ch \in X
  PROVE  AwakeBut(t, q, mk, X)
<1> SUFFICES ASSUME NEW ch \in Channel \ X, Queue(t, q, mk, ch) # {} PROVE Attended(q, mk, ch)
  BY DEF AwakeBut
<1>1. Queue(t, p, mk, ch) # {}
  BY DEF Queue
<1>2. Attended(p, mk, ch)
  BY <1>1 DEF AwakeBut
<1> QED
  BY <1>2 DEF Attended, Going, Keeps

LEMMA ChainKeeps ==
  ASSUME NEW p \in PageType, NEW m \in Msg, NEW op \in Op, NEW mk, NEW q, q = Chain(p, m, op.row, op.pump)
  PROVE  Keeps(p, q, mk, {}) /\ (op.pump => \E i \in DOMAIN q.writing[m] : q.writing[m][i].pump)
<1>1. /\ q.writing[m] = Append(p.writing[m], op) /\ (\A n \in Msg \ {m} : q.writing[n] = p.writing[n])
      /\ q.flight = p.flight /\ q.timer = p.timer /\ SameLoad(p, q)
  BY ChainFacts
<1>2. p.writing[m] \in Seq(Op)
  BY DEF PageType
<1>3. /\ \A i \in DOMAIN p.writing[m] : i \in DOMAIN q.writing[m] /\ q.writing[m][i] = p.writing[m][i]
      /\ Len(q.writing[m]) \in DOMAIN q.writing[m] /\ q.writing[m][Len(q.writing[m])] = op
  BY <1>1, <1>2
<1>4. \A n \in Msg : (\E i \in DOMAIN p.writing[n] : p.writing[n][i].pump)
                    => \E i \in DOMAIN q.writing[n] : q.writing[n][i].pump
  <2>1. ASSUME NEW i \in DOMAIN p.writing[m], p.writing[m][i].pump
        PROVE  \E j \in DOMAIN q.writing[m] : q.writing[m][j].pump
    BY <1>3, <2>1
  <2> QED
    BY <1>1, <2>1
<1>5. op.pump => \E i \in DOMAIN q.writing[m] : q.writing[m][i].pump
  BY <1>3
<1> QED
  BY <1>1, <1>4, <1>5 DEF Keeps, SameLoad

LEMMA DropOK ==
  ASSUME NEW p, NEW mk, NEW kp, NEW po, NEW wd, NEW ac, PageOK(p, mk, kp, po, wd, ac),
         NEW m \in Msg, m \in DOMAIN mk, Given(mk, po, wd, ac, m), NEW q, q = Drop(p, m)
  PROVE  /\ PageOK(q, mk, kp, po, wd, ac) /\ Keeps(p, q, mk, {}) /\ SameLoad(p, q)
         /\ \A n \in Msg : q.recs[n] = None \/ q.recs[n] = p.recs[n]
<1> DEFINE r == Forget(p, m)
           op == [row |-> None, pump |-> FALSE]
<1>1. p \in PageType
  BY DEF PageOK, Sound
<1>2. op \in Op /\ op.row = None /\ op.pump = FALSE
  BY DEF Op, Row
<1>3. q = Chain(r, m, op.row, op.pump)
  BY <1>2 DEF Drop, Unstore
<1>4. /\ r \in PageType /\ r.recs[m] = None /\ \A n \in Msg \ {m} : r.recs[n] = p.recs[n]
      /\ r.writing = p.writing /\ r.issued = p.issued /\ r.flight = p.flight /\ r.timer = p.timer
      /\ SameLoad(p, r) /\ SameMarks(p, r)
  BY <1>1, ForgetFacts
<1> HIDE DEF r, op
<1>5. Sound(r, mk, kp, po, wd, ac)
  <2>1. Backed(r, mk, kp)
    BY <1>4 DEF PageOK, Sound, Backed, SameLoad
  <2>2. Issued(r)
    BY <1>4 DEF PageOK, Sound, Issued
  <2>3. Removed(r, mk, po, wd, ac)
    BY <1>4 DEF PageOK, Sound, Removed, SameLoad, SameMarks
  <2> QED
    BY <1>4, <2>1, <2>2, <2>3 DEF Sound
<1>6. \A n \in Msg \ {m} : Stored(r, kp, n)
  BY <1>4 DEF PageOK, Stored
<1>7. PageOK(q, mk, kp, po, wd, ac)
  BY <1>2, <1>3, <1>4, <1>5, <1>6, ChainSound
<1>8. q.recs = r.recs /\ SameLoad(r, q) /\ Keeps(r, q, mk, {})
  <2>1. q.recs = r.recs /\ SameLoad(r, q)
    BY <1>2, <1>3, <1>4, ChainFacts
  <2>2. Keeps(r, q, mk, {})
    BY <1>2, <1>3, <1>4, ChainKeeps
  <2> QED
    BY <2>1, <2>2
<1>9. Keeps(p, q, mk, {})
  BY <1>4, <1>8 DEF Keeps, SameLoad
<1> QED
  BY <1>4, <1>7, <1>8, <1>9 DEF SameLoad

-----------------------------------------------------------------------------
(* pump                                                                    *)

Nudged(v, w) ==
  /\ w \in Seq(Op) /\ DOMAIN w = DOMAIN v /\ (v = <<>> <=> w = <<>>) /\ (v # <<>> => Head(w).row = Head(v).row)
  /\ \A i \in DOMAIN v : w[i].row = v[i].row /\ (v[i].pump => w[i].pump)

Departs(p, q, mk, kp, ch) ==
  \/ q.flight[ch] = p.flight[ch]
  \/ /\ p.flight[ch].id = NoMsg
     /\ Mine(mk, kp, ch, q.flight[ch].id) /\ q.flight[ch].id # NoMsg /\ q.flight[ch].answer = "none"

Pumped(p, q, mk, kp) ==
  /\ q \in PageType /\ q.recs = p.recs /\ q.issued = p.issued /\ SameLoad(p, q) /\ SameMarks(p, q)
  /\ p.timer \subseteq q.timer
  /\ \A ch \in Channel : Departs(p, q, mk, kp, ch)
  /\ \A m \in Msg : Nudged(p.writing[m], q.writing[m])

LEMMA SameNudged ==
  ASSUME NEW v \in Seq(Op)
  PROVE  Nudged(v, v)
BY DEF Nudged

LEMMA LastNudged ==
  ASSUME NEW v \in Seq(Op), v # <<>>, NEW w, w = [v EXCEPT ![Len(v)].pump = TRUE]
  PROVE  Nudged(v, w) /\ Len(v) \in DOMAIN w /\ w[Len(v)].pump
<1>1. DOMAIN v = 1 .. Len(v) /\ Len(v) \in Nat /\ Len(v) \in 1 .. Len(v) /\ (\A i \in 1 .. Len(v) : v[i] \in Op)
  OBVIOUS
<1>2. PICK op : op = [v[Len(v)] EXCEPT !.pump = TRUE]
  OBVIOUS
<1>3. op \in Op /\ op.row = v[Len(v)].row /\ op.pump
  <2>1. v[Len(v)] \in Op
    BY <1>1
  <2> QED
    BY <1>2, <2>1 DEF Op
<1>4. w = [v EXCEPT ![Len(v)] = op]
  BY <1>2
<1>5. DOMAIN w = 1 .. Len(v) /\ w[Len(v)] = op /\ (\A i \in 1 .. Len(v) : i # Len(v) => w[i] = v[i])
  BY <1>1, <1>4
<1>6. w \in [1 .. Len(v) -> Op]
  <2>1. \A i \in 1 .. Len(v) : w[i] \in Op
    BY <1>1, <1>3, <1>5
  <2>2. w = [i \in 1 .. Len(v) |-> w[i]]
    BY <1>4, <1>5
  <2> QED
    BY <2>1, <2>2
<1>7. w \in Seq(Op) /\ Len(w) = Len(v)
  BY <1>1, <1>6
<1>8. w # <<>> /\ Head(w) = w[1] /\ Head(v) = v[1] /\ 1 \in 1 .. Len(v)
  BY <1>1, <1>7
<1>9. \A i \in DOMAIN v : w[i].row = v[i].row /\ (v[i].pump => w[i].pump)
  <2>1. w[Len(v)].row = v[Len(v)].row /\ w[Len(v)].pump
    BY <1>3, <1>5
  <2> QED
    BY <1>1, <1>5, <2>1
<1>10. Nudged(v, w)
  BY <1>1, <1>5, <1>7, <1>8, <1>9 DEF Nudged
<1> QED
  BY <1>1, <1>5, <1>10, <1>3

LEMMA PumpedOK ==
  ASSUME NEW p, NEW mk, NEW kp, NEW po, NEW wd, NEW ac, PageOK(p, mk, kp, po, wd, ac), NEW q, Pumped(p, q, mk, kp)
  PROVE  PageOK(q, mk, kp, po, wd, ac) /\ Keeps(p, q, mk, {})
<1>1. Backed(q, mk, kp)
  <2>1. \A m \in Msg : q.recs[m] # None \/ q.writing[m] # <<>> => m \in DOMAIN mk
    BY DEF PageOK, Sound, Backed, Pumped, Nudged
  <2>2. \A ch \in Channel : q.flight[ch].id = NoMsg \/ Mine(mk, kp, ch, q.flight[ch].id)
    BY DEF PageOK, Sound, Backed, Pumped, Departs
  <2> QED
    BY <2>1, <2>2 DEF PageOK, Sound, Backed, Pumped, SameLoad
<1>2. Issued(q)
  <2>1. \A i \in DOMAIN p.issued : p.issued[i] # NoMsg => p.issued[i] \in Msg /\ q.writing[p.issued[i]] # <<>>
    <3>1. \A i \in DOMAIN p.issued : p.issued[i] \in Msg \cup {NoMsg}
      BY DEF PageOK, Sound, PageType
    <3> QED
      BY <3>1 DEF PageOK, Sound, Issued, Pumped, Nudged
  <2> QED
    BY <2>1 DEF PageOK, Sound, Issued, Pumped
<1>3. Removed(q, mk, po, wd, ac)
  <2>1. \A m \in Msg : \A i \in DOMAIN q.writing[m] : q.writing[m][i].row = None => Given(mk, po, wd, ac, m)
    BY DEF PageOK, Sound, Removed, Pumped, Nudged
  <2>2. \A ch \in Channel : q.flight[ch].answer = "ok" => q.flight[ch].id \in po
    BY DEF PageOK, Sound, Removed, Pumped, Departs
  <2> QED
    BY <2>1, <2>2 DEF PageOK, Sound, Removed, Pumped, SameLoad, SameMarks
<1>4. \A m \in Msg : Stored(q, kp, m)
  BY DEF PageOK, Stored, Pumped, Nudged
<1>5. Keeps(p, q, mk, {})
  BY DEF Keeps, Pumped, Departs, Nudged, SameLoad
<1> QED
  BY <1>1, <1>2, <1>3, <1>4, <1>5 DEF PageOK, Sound, Pumped

\* One field of a page at a time.
LEMMA SetWriting ==
  ASSUME NEW p \in PageType, NEW w \in [Msg -> Seq(Op)], NEW q, q = [p EXCEPT !.writing = w]
  PROVE  /\ q \in PageType /\ q.recs = p.recs /\ q.issued = p.issued /\ q.timer = p.timer /\ q.flight = p.flight
         /\ SameLoad(p, q) /\ SameMarks(p, q) /\ q.writing = w
BY DEF PageType, SameLoad, SameMarks

LEMMA SetTimer ==
  ASSUME NEW p \in PageType, NEW ch \in Channel, NEW q, q = [p EXCEPT !.timer = @ \cup {ch}]
  PROVE  /\ q \in PageType /\ q.recs = p.recs /\ q.issued = p.issued /\ q.timer = p.timer \cup {ch}
         /\ q.flight = p.flight /\ q.writing = p.writing /\ SameLoad(p, q) /\ SameMarks(p, q)
<1>1. p.timer \cup {ch} \in SUBSET Channel
  BY DEF PageType
<1> QED
  BY <1>1 DEF PageType, SameLoad, SameMarks

LEMMA SetFlight ==
  ASSUME NEW p \in PageType, NEW f \in [Channel -> [id : Msg \cup {NoMsg}, answer : {"none", "ok", "final"}]],
         NEW q, q = [p EXCEPT !.flight = f]
  PROVE  /\ q \in PageType /\ q.recs = p.recs /\ q.issued = p.issued /\ q.timer = p.timer
         /\ q.writing = p.writing /\ SameLoad(p, q) /\ SameMarks(p, q) /\ q.flight = f
BY DEF PageType, SameLoad, SameMarks

LEMMA LineIsQueue ==
  ASSUME NEW t, NEW p, NEW ch
  PROVE  Line(t, p, ch) = Queue(t, p, made, ch)
BY DEF Line, Queue, Known

LEMMA PumpOne ==
  ASSUME Store, NEW t, NEW p, NEW kp, NEW po, NEW wd, NEW ac, PageOK(p, made, kp, po, wd, ac), NEW ch \in Channel,
         NEW q, q = Pump(t, p, ch)
  PROVE  /\ Pumped(p, q, made, kp)
         /\ Queue(t, p, made, ch) # {} => Going(q, made, ch)
         /\ \A m \in Msg : q.writing[m] = p.writing[m] \/ (m \in DOMAIN made /\ made[m].ch = ch)
<1> DEFINE line == Queue(t, p, made, ch)
           m == Oldest(line)
<1>1. p \in PageType /\ Backed(p, made, kp)
  BY DEF PageOK, Sound
<1>2. line \subseteq DOMAIN made /\ \A n \in line : n \in Msg /\ made[n].ch = ch /\ p.recs[n] # None
  BY <1>1 DEF Queue, Backed
<1>3. line # {} => m \in line
  <2> HIDE DEF line
  <2> QED
    BY <1>2, OldestOf
<1>4. q = IF p.flight[ch].id # NoMsg \/ line = {} THEN p
          ELSE IF p.writing[m] # <<>> THEN [p EXCEPT !.writing[m][Len(p.writing[m])].pump = TRUE]
          ELSE IF p.recs[m].status = "retrying" THEN [p EXCEPT !.timer = @ \cup {ch}]
          ELSE [p EXCEPT !.flight[ch] = [id |-> m, answer |-> "none"]]
  BY LineIsQueue DEF Pump
<1> HIDE DEF m, line
<1>5. \A n \in Msg : p.writing[n] \in Seq(Op) /\ Nudged(p.writing[n], p.writing[n])
  BY <1>1, SameNudged DEF PageType
<1>6. CASE p.flight[ch].id # NoMsg \/ line = {}
  <2>1. q = p
    BY <1>4, <1>6
  <2> QED
    BY <1>1, <1>5, <1>6, <2>1 DEF Pumped, Departs, SameLoad, SameMarks, Going, line
<1>7. CASE ~ (p.flight[ch].id # NoMsg \/ line = {}) /\ p.writing[m] # <<>>
  <2>1. PICK w : w = [p.writing[m] EXCEPT ![Len(p.writing[m])].pump = TRUE]
    OBVIOUS
  <2>2. q = [p EXCEPT !.writing[m] = w]
    BY <1>4, <1>7, <2>1
  <2>3. m \in Msg /\ m \in DOMAIN made /\ made[m].ch = ch
    BY <1>2, <1>3, <1>7
  <2>4. Nudged(p.writing[m], w) /\ w \in Seq(Op) /\ Len(p.writing[m]) \in DOMAIN w /\ w[Len(p.writing[m])].pump
    BY <1>5, <1>7, <2>1, <2>3, LastNudged DEF Nudged
  <2>5. /\ q \in PageType /\ q.recs = p.recs /\ q.issued = p.issued /\ q.timer = p.timer /\ q.flight = p.flight
        /\ SameLoad(p, q) /\ SameMarks(p, q)
        /\ q.writing[m] = w /\ (\A n \in Msg \ {m} : q.writing[n] = p.writing[n])
    <3>1. PICK v : v = [p.writing EXCEPT ![m] = w]
      OBVIOUS
    <3>2. v \in [Msg -> Seq(Op)] /\ v[m] = w /\ (\A n \in Msg \ {m} : v[n] = p.writing[n])
      BY <1>1, <2>3, <2>4, <3>1 DEF PageType
    <3>3. q = [p EXCEPT !.writing = v]
      BY <2>2, <3>1
    <3> QED
      BY <1>1, <3>2, <3>3, SetWriting
  <2>6. Pumped(p, q, made, kp)
    BY <1>5, <2>4, <2>5 DEF Pumped, Departs
  <2>7. Going(q, made, ch)
    BY <2>3, <2>4, <2>5 DEF Going
  <2> QED
    BY <2>3, <2>5, <2>6, <2>7
<1>8. CASE ~ (p.flight[ch].id # NoMsg \/ line = {}) /\ p.writing[m] = <<>> /\ p.recs[m].status = "retrying"
  <2>1. q = [p EXCEPT !.timer = @ \cup {ch}]
    BY <1>4, <1>8
  <2>2. /\ q \in PageType /\ q.recs = p.recs /\ q.issued = p.issued /\ q.timer = p.timer \cup {ch} /\ q.flight = p.flight
        /\ SameLoad(p, q) /\ SameMarks(p, q) /\ q.writing = p.writing
    BY <1>1, <2>1, SetTimer
  <2> QED
    BY <1>5, <2>2 DEF Pumped, Departs, Going
<1>9. CASE ~ (p.flight[ch].id # NoMsg \/ line = {}) /\ p.writing[m] = <<>> /\ p.recs[m].status # "retrying"
  <2>1. q = [p EXCEPT !.flight[ch] = [id |-> m, answer |-> "none"]]
    BY <1>4, <1>9
  <2>2. m \in Msg /\ Mine(made, kp, ch, m) /\ m # NoMsg
    <3>1. m \in Msg /\ p.recs[m] # None
      BY <1>2, <1>3, <1>9
    <3> QED
      BY <3>1, <1>2, <1>3, <1>9, Constants DEF PageOK, Stored, Mine
  <2>3. /\ q \in PageType /\ q.recs = p.recs /\ q.issued = p.issued /\ q.timer = p.timer
        /\ q.flight[ch].id = m /\ q.flight[ch].answer = "none"
        /\ (\A c \in Channel \ {ch} : q.flight[c] = p.flight[c])
        /\ SameLoad(p, q) /\ SameMarks(p, q) /\ q.writing = p.writing
    <3>1. PICK f : f = [p.flight EXCEPT ![ch] = [id |-> m, answer |-> "none"]]
      OBVIOUS
    <3>2. /\ f \in [Channel -> [id : Msg \cup {NoMsg}, answer : {"none", "ok", "final"}]]
          /\ f[ch].id = m /\ f[ch].answer = "none" /\ (\A c \in Channel \ {ch} : f[c] = p.flight[c])
      BY <1>1, <2>2, <3>1 DEF PageType
    <3>3. q = [p EXCEPT !.flight = f]
      BY <2>1, <3>1
    <3> QED
      BY <1>1, <3>2, <3>3, SetFlight
  <2> QED
    BY <1>5, <1>9, <2>2, <2>3 DEF Pumped, Departs, Going
<1> QED
  BY <1>6, <1>7, <1>8, <1>9

LEMMA PumpMany ==
  ASSUME Store, NEW t, NEW p, NEW kp, NEW po, NEW wd, NEW ac, PageOK(p, made, kp, po, wd, ac), NEW chs \in SUBSET Channel,
         NEW q, q = PumpAll(t, p, chs)
  PROVE  /\ Pumped(p, q, made, kp)
         /\ \A ch \in chs : Queue(t, p, made, ch) # {} => Going(q, made, ch)
<1>1. p \in PageType /\ \A m \in DOMAIN made : m \in Msg /\ made[m].ch \in Channel
  BY DEF PageOK, Sound, Store
<1>2. \A ch \in chs : /\ Pumped(p, Pump(t, p, ch), made, kp)
                      /\ Queue(t, p, made, ch) # {} => Going(Pump(t, p, ch), made, ch)
                      /\ \A m \in Msg : Pump(t, p, ch).writing[m] = p.writing[m] \/ (m \in DOMAIN made /\ made[m].ch = ch)
  BY PumpOne
<1>3. \A m \in Msg : p.writing[m] \in Seq(Op) /\ Nudged(p.writing[m], p.writing[m])
  BY <1>1, SameNudged DEF PageType
<1> DEFINE F == [ch \in Channel |-> IF ch \in chs THEN Pump(t, p, ch).flight[ch] ELSE p.flight[ch]]
           T == p.timer \cup {ch \in chs : ch \in Pump(t, p, ch).timer}
           W == [m \in Msg |-> IF m \in DOMAIN made /\ made[m].ch \in chs
                               THEN Pump(t, p, made[m].ch).writing[m] ELSE p.writing[m]]
<1>4. q = [p EXCEPT !.flight = F, !.timer = T, !.writing = W]
  BY DEF PumpAll
<1>5. F \in [Channel -> [id : Msg \cup {NoMsg}, answer : {"none", "ok", "final"}]]
  <2>1. \A ch \in chs : Pump(t, p, ch).flight[ch] \in [id : Msg \cup {NoMsg}, answer : {"none", "ok", "final"}]
    BY <1>2 DEF Pumped, PageType
  <2>2. \A ch \in Channel : p.flight[ch] \in [id : Msg \cup {NoMsg}, answer : {"none", "ok", "final"}]
    BY <1>1 DEF PageType
  <2> QED
    BY <2>1, <2>2
<1>6. W \in [Msg -> Seq(Op)] /\ \A m \in Msg : Nudged(p.writing[m], W[m])
  <2>1. ASSUME NEW m \in Msg PROVE Nudged(p.writing[m], W[m])
    <3>1. CASE m \in DOMAIN made /\ made[m].ch \in chs
      BY <1>2, <3>1 DEF Pumped
    <3>2. CASE ~ (m \in DOMAIN made /\ made[m].ch \in chs)
      BY <1>3, <3>2
    <3> QED
      BY <3>1, <3>2
  <2>2. \A m \in Msg : W[m] \in Seq(Op)
    BY <2>1 DEF Nudged
  <2> QED
    BY <2>1, <2>2
<1>7. \A ch \in Channel : F[ch] = p.flight[ch] \/ (ch \in chs /\ F[ch] = Pump(t, p, ch).flight[ch])
  OBVIOUS
<1>8. T \in SUBSET Channel /\ p.timer \subseteq T /\ \A ch \in chs : ch \in Pump(t, p, ch).timer => ch \in T
  BY <1>1 DEF PageType
<1>9. \A ch \in chs : \A m \in DOMAIN made : made[m].ch = ch => W[m] = Pump(t, p, ch).writing[m]
  BY <1>1
<1>10. \A ch \in chs : F[ch] = Pump(t, p, ch).flight[ch]
  OBVIOUS
<1> HIDE DEF F, T, W
<1>11. /\ q \in PageType /\ q.recs = p.recs /\ q.issued = p.issued /\ q.timer = T /\ q.flight = F /\ q.writing = W
       /\ SameLoad(p, q) /\ SameMarks(p, q)
  BY <1>1, <1>4, <1>5, <1>6, <1>8 DEF PageType, SameLoad, SameMarks
<1>12. Pumped(p, q, made, kp)
  <2>1. \A ch \in Channel : Departs(p, q, made, kp, ch)
    BY <1>2, <1>7, <1>11 DEF Pumped, Departs
  <2> QED
    BY <1>6, <1>8, <1>11, <2>1 DEF Pumped
<1>13. ASSUME NEW ch \in chs, Queue(t, p, made, ch) # {} PROVE Going(q, made, ch)
  <2>1. Going(Pump(t, p, ch), made, ch)
    BY <1>2, <1>13
  <2> QED
    BY <1>8, <1>9, <1>10, <1>11, <2>1 DEF Going
<1> QED
  BY <1>12, <1>13

\* A handler that ends with pump(ch): the line of ch may have been left alone until then.
LEMMA PumpAwakes ==
  ASSUME Store, NEW t, NEW p, NEW kp, NEW po, NEW wd, NEW ac, PageOK(p, made, kp, po, wd, ac), NEW ch \in Channel,
         AwakeBut(t, p, made, {ch}), NEW q, q = Pump(t, p, ch)
  PROVE  PageOK(q, made, kp, po, wd, ac) /\ Awake(t, q, made) /\ SameLoad(p, q)
<1>1. /\ Pumped(p, q, made, kp)
      /\ Queue(t, p, made, ch) # {} => Going(q, made, ch)
  BY PumpOne
<1>2. PageOK(q, made, kp, po, wd, ac) /\ Keeps(p, q, made, {})
  BY <1>1, PumpedOK
<1>3. q.recs = p.recs /\ SameLoad(p, q)
  BY <1>1 DEF Pumped
<1>4. AwakeBut(t, q, made, {ch})
  <2>1. Keeps(p, q, made, {ch}) /\ DOMAIN made \subseteq Msg
    BY <1>2 DEF Keeps, Store
  <2> QED
    BY <1>3, <2>1, KeepsAwake
<1>5. Queue(t, q, made, ch) # {} => Attended(q, made, ch)
  BY <1>1, <1>3 DEF Queue, Going, Attended
<1> QED
  BY <1>2, <1>3, <1>4, <1>5 DEF Awake, AwakeBut


-----------------------------------------------------------------------------
(* A turn of one page, with or without a commit.                           *)

LEMMA Facts ==
  ASSUME OutboxInv, NEW t \in Tab
  PROVE  /\ Store /\ Kept /\ PageOK(page[t], made, kept, Sends, withdrawn, access)
         /\ page[t] \in PageType /\ Loading(page[t]) /\ DOMAIN made \subseteq Msg
         /\ (IsOpen(t) => Awake(t, page[t], made))
BY DEF OutboxInv, PageOK, Sound, IsOpen, Store

\* Nothing shared changes, but that something may be withdrawn or given up on.
LEMMA PageTurn ==
  ASSUME OutboxInv, NEW t \in Tab, NEW q, page' = [page EXCEPT ![t] = q],
         UNCHANGED <<disk, made, log, access, kept>>, late' \subseteq kept,
         withdrawn \subseteq withdrawn', withdrawn' \subseteq Msg,
         PageOK(q, made, kept, Sends, withdrawn', access), Loading(q),
         q.life = "open" => Awake(t, q, made)
  PROVE  OutboxInv'
<1>1. Sends' = Sends
  BY DEF Sends, Posted, Server!Posted
<1>2. Store' /\ Kept'
  BY <1>1 DEF OutboxInv, Store, Kept, Given
<1>3. Grows(made, kept, Sends, withdrawn, access, made', kept', Sends', withdrawn', access')
  BY <1>1 DEF Grows
<1>4. PageOK(q, made', kept', Sends', withdrawn', access') /\ (q.life = "open" => Awake(t, q, made'))
  BY <1>1
<1> QED
  BY <1>2, <1>3, <1>4, Turn

LEMMA NoTurn ==
  ASSUME OutboxInv, page' = page, made' = made, Store', Kept',
         Grows(made, kept, Sends, withdrawn, access, made', kept', Sends', withdrawn', access')
  PROVE  OutboxInv'
<1>1. \A m \in DOMAIN made : made[m].ch \in Channel
  BY DEF OutboxInv, Store
<1>2. ASSUME NEW u \in Tab
      PROVE  PageOK(page[u], made', kept', Sends', withdrawn', access')
  BY <1>1, PageStays DEF OutboxInv
<1> QED
  BY <1>2 DEF OutboxInv

LEMMA CommitFacts ==
  ASSUME Store, NEW m \in Msg, NEW ch \in Channel, Commit(m, ch)
  PROVE  log' \in [Channel -> Seq(Msg)] /\ Sends' = Sends \cup {m}
<1>1. \A c \in Channel : log[c] \in Seq(Msg)
  BY DEF Store
<1>2. CASE Posted(m)
  BY <1>2 DEF Commit, Sends, Posted, Server!Posted, Store
<1>3. CASE ~ Posted(m)
  <2>1. log' = [log EXCEPT ![ch] = Append(@, m)]
    BY <1>3 DEF Commit, Server!Post
  <2>2. log' \in [Channel -> Seq(Msg)]
    BY <1>1, <2>1 DEF Store
  <2>3. /\ log'[ch] = Append(log[ch], m) /\ (\A c \in Channel \ {ch} : log'[c] = log[c])
    BY <2>1 DEF Store
  <2>4. \A n \in Msg : (\E i \in DOMAIN log'[ch] : log'[ch][i] = n) <=> (n = m \/ \E i \in DOMAIN log[ch] : log[ch][i] = n)
    <3>1. /\ DOMAIN log'[ch] = 1 .. Len(log[ch]) + 1 /\ DOMAIN log[ch] = 1 .. Len(log[ch]) /\ Len(log[ch]) \in Nat
          /\ log'[ch][Len(log[ch]) + 1] = m /\ \A i \in 1 .. Len(log[ch]) : log'[ch][i] = log[ch][i]
      BY <1>1, <2>3
    <3>2. \A i \in 1 .. Len(log[ch]) + 1 : i \in 1 .. Len(log[ch]) \/ i = Len(log[ch]) + 1
      BY <3>1
    <3>3. (1 .. Len(log[ch])) \subseteq (1 .. Len(log[ch]) + 1) /\ Len(log[ch]) + 1 \in 1 .. Len(log[ch]) + 1
      BY <3>1
    <3> QED
      BY <3>1, <3>2, <3>3
  <2> QED
    <3>1. \A n \in Msg : \A c \in Channel : n \in Server!Range(log'[c]) <=> (n \in Server!Range(log[c]) \/ (c = ch /\ n = m))
      BY <2>3, <2>4 DEF Server!Range
    <3>2. \A n \in Msg : Posted(n)' <=> Posted(n) \/ n = m
      BY <3>1 DEF Posted, Server!Posted
    <3> QED
      BY <2>2, <3>2 DEF Sends
<1> QED
  BY <1>2, <1>3

\* A record is written into memory and queued for the storage.
Recorded(p, r, m) ==
  /\ r \in PageType /\ r.recs[m] # None /\ \A n \in Msg \ {m} : r.recs[n] = p.recs[n]
  /\ r.writing = p.writing /\ r.issued = p.issued /\ r.flight = p.flight
  /\ r.droppedChannels = p.droppedChannels /\ SameMarks(p, r)
  /\ \A n \in Msg : r.rows[n] = p.rows[n] \/ r.rows[n] = None
  /\ r.todo \subseteq p.todo

LEMMA RecordedSound ==
  ASSUME NEW p, NEW mk, NEW kp, NEW po, NEW wd, NEW ac, PageOK(p, mk, kp, po, wd, ac),
         NEW m \in Msg, m \in DOMAIN mk, m \in kp \/ p.writing[m] = <<>> \/ p.recs[m] # None,
         NEW r, Recorded(p, r, m)
  PROVE  /\ Sound(r, mk, kp, po, wd, ac) /\ \A n \in Msg \ {m} : Stored(r, kp, n)
         /\ r.writing[m] = <<>> \/ Stored(r, kp, m)
<1>1. Backed(r, mk, kp)
  BY DEF PageOK, Sound, Backed, Recorded
<1>2. Issued(r)
  BY DEF PageOK, Sound, Issued, Recorded
<1>3. Removed(r, mk, po, wd, ac)
  BY DEF PageOK, Sound, Removed, Recorded, SameMarks
<1>4. \A n \in Msg \ {m} : Stored(r, kp, n)
  BY DEF PageOK, Stored, Recorded
<1>5. r.writing[m] = <<>> \/ Stored(r, kp, m)
  BY DEF PageOK, Stored, Recorded
<1> QED
  BY <1>1, <1>2, <1>3, <1>4, <1>5 DEF Sound, Recorded

LEMMA PersistOK ==
  ASSUME NEW p, NEW mk, NEW kp, NEW po, NEW wd, NEW ac, PageOK(p, mk, kp, po, wd, ac),
         NEW m \in Msg, m \in DOMAIN mk, m \in kp \/ p.writing[m] = <<>> \/ p.recs[m] # None,
         NEW r, Recorded(p, r, m), NEW op \in Op, op.row = r.recs[m], NEW q, q = Chain(r, m, op.row, op.pump)
  PROVE  /\ PageOK(q, mk, kp, po, wd, ac) /\ Keeps(r, q, mk, {}) /\ q.recs = r.recs /\ SameLoad(r, q)
         /\ op.pump => \E i \in DOMAIN q.writing[m] : q.writing[m][i].pump
<1>1. /\ Sound(r, mk, kp, po, wd, ac) /\ \A n \in Msg \ {m} : Stored(r, kp, n)
      /\ r.writing[m] = <<>> \/ Stored(r, kp, m)
  BY RecordedSound
<1>2. op.row # None /\ r \in PageType
  BY DEF Recorded
<1>3. PageOK(q, mk, kp, po, wd, ac)
  BY <1>1, <1>2, ChainSound
<1>4. Keeps(r, q, mk, {}) /\ (op.pump => \E i \in DOMAIN q.writing[m] : q.writing[m][i].pump)
  BY <1>2, ChainKeeps
<1>5. q.recs = r.recs /\ SameLoad(r, q)
  BY <1>2, ChainFacts
<1> QED
  BY <1>3, <1>4, <1>5

\* One record of a page is replaced.
LEMMA RecRow ==
  ASSUME NEW rec \in Rec
  PROVE  rec \in Row /\ rec # None
<1>1. rec.status # "none"
  BY DEF Rec
<1> QED
  BY <1>1 DEF Row, None

LEMMA SetRec ==
  ASSUME NEW p \in PageType, NEW m \in Msg, NEW v \in [Msg -> Row], v[m] # None, \A n \in Msg \ {m} : v[n] = p.recs[n],
         NEW r, r = [p EXCEPT !.recs = v]
  PROVE  /\ Recorded(p, r, m) /\ r.recs = v /\ r.timer = p.timer /\ SameLoad(p, r) /\ r.flight = p.flight
         /\ r.writing = p.writing
BY DEF Recorded, PageType, SameMarks, SameLoad

\* A handler that ends with the record dropped and pump(ch).
LEMMA DropPumped ==
  ASSUME Store, NEW t, NEW p, NEW kp, NEW po, NEW wd, NEW ac, PageOK(p, made, kp, po, wd, ac),
         NEW ch \in Channel, AwakeBut(t, p, made, {ch}),
         NEW m \in Msg, m \in DOMAIN made, Given(made, po, wd, ac, m),
         NEW q, q = Pump(t, Drop(p, m), ch)
  PROVE  PageOK(q, made, kp, po, wd, ac) /\ Awake(t, q, made) /\ SameLoad(p, q)
<1> DEFINE d == Drop(p, m)
<1>1. /\ PageOK(d, made, kp, po, wd, ac) /\ Keeps(p, d, made, {}) /\ SameLoad(p, d)
      /\ \A n \in Msg : d.recs[n] = None \/ d.recs[n] = p.recs[n]
  BY DropOK
<1>2. q = Pump(t, d, ch)
  OBVIOUS
<1> HIDE DEF d
<1>3. AwakeBut(t, d, made, {ch})
  <2>1. Keeps(p, d, made, {ch})
    BY <1>1 DEF Keeps
  <2>2. DOMAIN made \subseteq Msg
    BY DEF Store
  <2> QED
    BY <1>1, <2>1, <2>2, KeepsAwake
<1>4. PageOK(q, made, kp, po, wd, ac) /\ Awake(t, q, made) /\ SameLoad(d, q)
  BY <1>1, <1>2, <1>3, PumpAwakes
<1> QED
  BY <1>1, <1>4 DEF SameLoad

-----------------------------------------------------------------------------
(* One lemma per action: tabs, the person and the storage.                 *)

LEMMA BlankFacts ==
  /\ Blank \in PageType /\ Blank.load = "idle" /\ Blank.issued = <<>> /\ Blank.todo = {} /\ Blank.settledInFlight = {}
  /\ Blank.discardAfterFlight = {} /\ Blank.droppedChannels = {}
  /\ \A m \in Msg : Blank.recs[m] = None /\ Blank.writing[m] = <<>> /\ Blank.rows[m] = None
  /\ \A ch \in Channel : Blank.flight[ch].id = NoMsg /\ Blank.flight[ch].answer = "none"
<1>1. None \in Row
  BY DEF Row
<1> DEFINE N == [m \in Msg |-> None]
           W == [m \in Msg |-> <<>>]
           F == [ch \in Channel |-> [id |-> NoMsg, answer |-> "none"]]
<1>2. /\ N \in [Msg -> Row] /\ W \in [Msg -> Seq(Op)] /\ F \in [Channel -> [id : Msg \cup {NoMsg}, answer : {"none", "ok", "final"}]]
      /\ <<>> \in Seq(Msg \cup {NoMsg})
  BY <1>1
<1>3. /\ \A m \in Msg : N[m] = None /\ W[m] = <<>>
      /\ \A ch \in Channel : F[ch].id = NoMsg /\ F[ch].answer = "none"
  OBVIOUS
<1>4. Blank = [life |-> "new", recs |-> N, writing |-> W, issued |-> <<>>, flight |-> F, timer |-> {},
               discardAfterFlight |-> {}, settledInFlight |-> {}, accessDropped |-> {}, droppedChannels |-> {},
               accepted |-> {}, lastCreatedAt |-> 0, load |-> "idle", rows |-> N, touched |-> {},
               kicked |-> FALSE, todo |-> {}]
  BY DEF Blank
<1> HIDE DEF N, W, F
<1>5. Blank \in PageType
  BY <1>2, <1>4 DEF PageType
<1> QED
  BY <1>3, <1>4, <1>5

\* A page with nothing in it.
LEMMA EmptyOK ==
  ASSUME NEW t, NEW mk, NEW kp, NEW po, NEW wd, NEW ac, NEW q \in PageType, q.load # "rows",
         \A m \in Msg : q.recs[m] = None /\ q.writing[m] = <<>> /\ q.rows[m] = None,
         \A ch \in Channel : q.flight[ch].id = NoMsg /\ q.flight[ch].answer = "none",
         q.todo = {}, q.settledInFlight = {}, q.discardAfterFlight = {}, q.droppedChannels = {},
         \A i \in DOMAIN q.issued : q.issued[i] = NoMsg
  PROVE  PageOK(q, mk, kp, po, wd, ac) /\ Loading(q) /\ Awake(t, q, mk)
<1>1. Backed(q, mk, kp)
  BY DEF Backed
<1>2. Issued(q)
  BY DEF Issued
<1>3. Removed(q, mk, po, wd, ac)
  BY DEF Removed
<1>4. PageOK(q, mk, kp, po, wd, ac)
  BY <1>1, <1>2, <1>3 DEF PageOK, Sound, Stored
<1>5. Awake(t, q, mk)
  BY DEF Awake, AwakeBut, Queue
<1> QED
  BY <1>4, <1>5 DEF Loading

LEMMA OpenStep ==
  ASSUME OutboxInv, NEW t \in Tab, Open(t)
  PROVE  OutboxInv'
<1>1. PICK q : q = [Blank EXCEPT !.life = "open", !.load = "read", !.issued = <<NoMsg>>] /\ page' = [page EXCEPT ![t] = q]
  BY DEF Open, Become
<1>2. <<NoMsg>> \in Seq(Msg \cup {NoMsg}) /\ \A i \in DOMAIN <<NoMsg>> : <<NoMsg>>[i] = NoMsg
  OBVIOUS
<1>3. q \in PageType /\ q.load = "read" /\ q.issued = <<NoMsg>>
  BY <1>1, <1>2, BlankFacts DEF PageType
<1>4. PageOK(q, made, kept, Sends, withdrawn, access) /\ Loading(q) /\ Awake(t, q, made)
  <2>1. /\ \A m \in Msg : q.recs[m] = None /\ q.writing[m] = <<>> /\ q.rows[m] = None
        /\ \A ch \in Channel : q.flight[ch].id = NoMsg /\ q.flight[ch].answer = "none"
        /\ q.todo = {} /\ q.settledInFlight = {} /\ q.discardAfterFlight = {} /\ q.droppedChannels = {}
    BY <1>1, BlankFacts DEF PageType
  <2>2. \A i \in DOMAIN q.issued : q.issued[i] = NoMsg
    BY <1>2, <1>3
  <2>3. q.load # "rows"
    BY <1>3
  <2> QED
    BY <1>3, <2>1, <2>2, <2>3, EmptyOK
<1>5. /\ UNCHANGED <<disk, made, log, access, kept, late, withdrawn>>
      /\ late \subseteq kept /\ withdrawn \subseteq Msg
  BY DEF Open, OutboxInv, Store
<1> QED
  BY <1>1, <1>4, <1>5, PageTurn

LEMMA CloseStep ==
  ASSUME OutboxInv, NEW t \in Tab, Close(t)
  PROVE  OutboxInv'
<1>1. PICK q : q = [Blank EXCEPT !.life = "gone"] /\ page' = [page EXCEPT ![t] = q]
  BY DEF Close, Become
<1>2. q \in PageType /\ q.load = "idle" /\ q.issued = <<>>
  BY <1>1, BlankFacts DEF PageType
<1>3. PageOK(q, made, kept, Sends, withdrawn, access) /\ Loading(q) /\ Awake(t, q, made)
  <2>1. /\ \A m \in Msg : q.recs[m] = None /\ q.writing[m] = <<>> /\ q.rows[m] = None
        /\ \A ch \in Channel : q.flight[ch].id = NoMsg /\ q.flight[ch].answer = "none"
        /\ q.todo = {} /\ q.settledInFlight = {} /\ q.discardAfterFlight = {} /\ q.droppedChannels = {}
    BY <1>1, BlankFacts DEF PageType
  <2>2. \A i \in DOMAIN q.issued : q.issued[i] = NoMsg
    BY <1>2
  <2>3. q.load # "rows"
    BY <1>2
  <2> QED
    BY <1>2, <2>1, <2>2, <2>3, EmptyOK
<1>4. UNCHANGED <<disk, made, log, access, kept, withdrawn>> /\ withdrawn \subseteq Msg
  BY DEF Close, OutboxInv, Store
<1>5. late' \subseteq kept
  <2>1. late \subseteq kept
    BY DEF OutboxInv, Store
  <2>2. \A ch \in Channel : page[t].flight[ch].id = NoMsg \/ page[t].flight[ch].id \in kept
    BY DEF OutboxInv, PageOK, Sound, Backed, Mine
  <2> QED
    BY <2>1, <2>2 DEF Close
<1> QED
  BY <1>1, <1>3, <1>4, <1>5, PageTurn

\* A record written with a pump behind it keeps its line attended.
LEMMA PumpBehind ==
  ASSUME NEW t, NEW p, NEW r, NEW q, NEW mk, DOMAIN mk \subseteq Msg, NEW m \in Msg, m \in DOMAIN mk, Awake(t, p, mk),
         \A n \in Msg \ {m} : r.recs[n] = p.recs[n], r.writing = p.writing, r.flight = p.flight,
         r.timer = p.timer, SameLoad(p, r), Keeps(r, q, mk, {}), q.recs = r.recs,
         \E i \in DOMAIN q.writing[m] : q.writing[m][i].pump
  PROVE  Awake(t, q, mk)
<1>1. Keeps(p, q, mk, {mk[m].ch})
  BY DEF Keeps, SameLoad
<1>2. AwakeBut(t, p, mk, {mk[m].ch})
  BY DEF Awake, AwakeBut
<1>3. \A n \in Msg : q.recs[n] = p.recs[n] \/ mk[n].ch \in {mk[m].ch}
  OBVIOUS
<1>4. AwakeBut(t, q, mk, {mk[m].ch})
  BY <1>1, <1>2, <1>3, KeepsAwake
<1>5. Attended(q, mk, mk[m].ch)
  BY DEF Attended, Going
<1> QED
  BY <1>4, <1>5 DEF Awake, AwakeBut

LEMMA EnqueueStep ==
  ASSUME OutboxInv, NEW t \in Tab, NEW m \in Msg, NEW ch \in Channel, NEW now \in Clock, Enqueue(t, m, ch, now)
  PROVE  OutboxInv'
<1> DEFINE rec == [status |-> "pending", owner |-> t]
           at == Stamp(page[t], now)
           op == [row |-> rec, pump |-> TRUE]
<1>1. /\ Store /\ Kept /\ PageOK(page[t], made, kept, Sends, withdrawn, access) /\ page[t] \in PageType
      /\ Loading(page[t]) /\ DOMAIN made \subseteq Msg /\ Awake(t, page[t], made) /\ m \notin DOMAIN made
  BY Facts DEF Enqueue
<1>2. PICK r : r = [page[t] EXCEPT !.lastCreatedAt = at, !.recs[m] = rec]
  OBVIOUS
<1>3. rec \in Rec /\ rec \in Row /\ op \in Op /\ op.row = rec /\ op.pump
  BY DEF Rec, Row, Op
<1>4. at \in Nat
  <2>1. now \in Nat /\ page[t].lastCreatedAt + 1 \in Nat
    BY <1>1, Constants DEF PageType
  <2> QED
    BY <2>1 DEF Stamp, Later
<1>10. PICK q : page' = [page EXCEPT ![t] = q] /\ q = PersistThenPump(r, m)
  BY <1>2 DEF Enqueue, Become
<1>12. /\ made' = [n \in DOMAIN made \cup {m} |-> IF n = m THEN [tab |-> t, ch |-> ch, at |-> at] ELSE made[n]]
       /\ withdrawn' = IF HasAccess(ch) THEN withdrawn ELSE withdrawn \cup {m}
       /\ UNCHANGED <<disk, log, late, access, kept>>
  BY DEF Enqueue
<1> HIDE DEF rec, op, at
<1>5. PICK p : p = [page[t] EXCEPT !.lastCreatedAt = at]
  OBVIOUS
<1>51. PICK v : v = [p.recs EXCEPT ![m] = rec]
  OBVIOUS
<1>6. p \in PageType /\ r = [p EXCEPT !.recs = v]
  <2>1. p \in PageType
    BY <1>1, <1>4, <1>5 DEF PageType
  <2>2. r = [p EXCEPT !.recs = v]
    BY <1>2, <1>5, <1>51
  <2> QED
    BY <2>1, <2>2
<1>7. Recorded(p, r, m) /\ r.recs[m] = rec /\ r.timer = p.timer /\ SameLoad(p, r) /\ r.flight = p.flight
  <2>1. rec \in Row /\ rec # None
    BY <1>3, RecRow
  <2>2. v \in [Msg -> Row] /\ v[m] = rec /\ \A n \in Msg \ {m} : v[n] = p.recs[n]
    BY <1>6, <1>51, <2>1 DEF PageType
  <2>3. v \in [Msg -> Row] /\ v[m] # None /\ (\A n \in Msg \ {m} : v[n] = p.recs[n])
    BY <2>1, <2>2
  <2> QED
    BY <2>2, <2>3, <1>6, SetRec
<1>8. /\ p.recs = page[t].recs /\ p.writing = page[t].writing /\ p.flight = page[t].flight /\ p.timer = page[t].timer
      /\ p.issued = page[t].issued /\ p.droppedChannels = page[t].droppedChannels /\ p.rows = page[t].rows /\ p.todo = page[t].todo
      /\ SameMarks(page[t], p) /\ SameLoad(page[t], p)
  BY <1>1, <1>5 DEF PageType, SameMarks, SameLoad
<1>9. Recorded(page[t], r, m) /\ SameLoad(page[t], r)
  BY <1>7, <1>8 DEF Recorded, SameMarks, SameLoad
<1>11. q = Chain(r, m, op.row, op.pump)
  BY <1>7, <1>10 DEF PersistThenPump, op
<1>13. /\ DOMAIN made' = DOMAIN made \cup {m} /\ made'[m].ch = ch /\ made'[m] = [tab |-> t, ch |-> ch, at |-> at]
       /\ \A n \in DOMAIN made : made'[n] = made[n]
  BY <1>1, <1>12
<1>14. Sends' = Sends /\ withdrawn \subseteq withdrawn' /\ withdrawn' \subseteq Msg
  BY <1>1, <1>12 DEF Sends, Posted, Server!Posted, Store
<1>15. Grows(made, kept, Sends, withdrawn, access, made', kept', Sends', withdrawn', access')
  BY <1>12, <1>13, <1>14 DEF Grows
<1>16. Store'
  <2>1. IsFiniteSet(DOMAIN made')
    <3>1. IsFiniteSet(DOMAIN made)
      BY <1>1 DEF Store
    <3> QED
      BY <3>1, <1>13, FS_AddElement
  <2>2. \A n \in DOMAIN made' : made'[n] \in [tab : Tab, ch : Channel, at : Nat]
    BY <1>1, <1>4, <1>13 DEF Store
  <2>3. made' = [n \in DOMAIN made' |-> made'[n]]
    BY <1>12
  <2> QED
    BY <1>1, <1>12, <1>13, <1>14, <2>1, <2>2, <2>3 DEF Store
<1>17. Kept'
  <2>1. \A n \in Msg : Given(made, Sends, withdrawn, access, n) => Given(made', Sends', withdrawn', access', n)
    BY <1>12, <1>13, <1>14 DEF Given
  <2>2. kept \subseteq Msg
    BY <1>1 DEF Store
  <2>3. \A n \in DOMAIN made' : access'[made'[n].ch] = "revoked" => n \in withdrawn'
    BY <1>1, <1>12, <1>13 DEF Kept, HasAccess
  <2> QED
    BY <1>1, <1>12, <1>14, <2>1, <2>2, <2>3 DEF Kept
<1>18. \A n \in DOMAIN made : made[n].ch \in Channel
  BY <1>1 DEF Store
<1>19. PageOK(page[t], made', kept', Sends', withdrawn', access')
  BY <1>1, <1>15, <1>18, PageStays
<1>20. m \in DOMAIN made' /\ page[t].writing[m] = <<>>
  <2>1. page[t].writing[m] = <<>>
    BY <1>1 DEF PageOK, Sound, Backed
  <2> QED
    BY <1>13, <2>1
<1>21. /\ PageOK(q, made', kept', Sends', withdrawn', access') /\ Keeps(r, q, made', {}) /\ q.recs = r.recs /\ SameLoad(r, q)
       /\ \E i \in DOMAIN q.writing[m] : q.writing[m][i].pump
  <2>1. op \in Op
    BY <1>3
  <2>6. op.row = r.recs[m]
    BY <1>3, <1>7
  <2>2. Recorded(page[t], r, m)
    BY <1>9
  <2>3. PageOK(q, made', kept', Sends', withdrawn', access')
    BY <1>11, <1>19, <1>20, <2>1, <2>6, <2>2, PersistOK
  <2>0. r \in PageType
    BY <2>2 DEF Recorded
  <2>4. q.recs = r.recs /\ SameLoad(r, q)
    BY <1>11, <2>0, <2>1, ChainFacts
  <2>5. Keeps(r, q, made', {}) /\ \E i \in DOMAIN q.writing[m] : q.writing[m][i].pump
    BY <1>3, <1>11, <2>0, <2>1, ChainKeeps
  <2> QED
    BY <2>3, <2>4, <2>5
<1>22. Awake(t, page[t], made')
  <2>1. \A n \in Msg : page[t].recs[n] # None => n \in DOMAIN made
    BY <1>1 DEF PageOK, Sound, Backed
  <2> QED
    BY <1>1, <1>13, <2>1, AwakeStays
<1>23. Awake(t, q, made')
  <2>1. DOMAIN made' \subseteq Msg
    BY <1>1, <1>13
  <2>2. /\ \A n \in Msg \ {m} : r.recs[n] = page[t].recs[n]
        /\ r.writing = page[t].writing /\ r.flight = page[t].flight /\ r.timer = page[t].timer
    BY <1>7, <1>8, <1>9 DEF Recorded
  <2> QED
    BY <1>9, <1>20, <1>21, <1>22, <2>1, <2>2, PumpBehind
<1>24. Loading(q)
  BY <1>1, <1>9, <1>21 DEF Loading, SameLoad
<1> QED
  BY <1>10, <1>15, <1>16, <1>17, <1>21, <1>23, <1>24, Turn

\* The one record goes back into the line, with a pump behind it.
LEMMA RetryStep ==
  ASSUME OutboxInv, NEW t \in Tab, NEW m \in Msg, Retry(t, m)
  PROVE  OutboxInv'
<1> DEFINE rec == [status |-> "pending", owner |-> t]
           op == [row |-> rec, pump |-> TRUE]
           p == page[t]
<1>1. /\ Store /\ PageOK(p, made, kept, Sends, withdrawn, access) /\ p \in PageType
      /\ Loading(p) /\ DOMAIN made \subseteq Msg /\ Awake(t, p, made)
  BY Facts DEF Retry
<1>2. p.recs[m] # None /\ m \in DOMAIN made
  <2>1. p.recs[m].status = "failed"
    BY DEF Retry
  <2> QED
    BY <1>1, <2>1 DEF None, PageOK, Sound, Backed
<1>3. rec \in Rec /\ op \in Op /\ op.row = rec /\ op.pump
  BY DEF Rec, Row, Op
<1>4. PICK v : v = [p.recs EXCEPT ![m] = rec]
  OBVIOUS
<1>5. PICK r : r = [p EXCEPT !.recs = v]
  OBVIOUS
<1>6. PICK q : page' = [page EXCEPT ![t] = q] /\ q = PersistThenPump(r, m)
  BY <1>4, <1>5 DEF Retry, Become
<1> HIDE DEF rec, p
<1>7. Recorded(p, r, m) /\ r.recs[m] = rec /\ r.timer = p.timer /\ SameLoad(p, r) /\ r \in PageType
  <2>1. rec \in Row /\ rec # None
    BY <1>3, RecRow
  <2>2. v \in [Msg -> Row] /\ v[m] = rec /\ \A n \in Msg \ {m} : v[n] = p.recs[n]
    BY <1>1, <1>4, <2>1 DEF PageType
  <2>3. v[m] # None
    BY <2>1, <2>2
  <2>4. Recorded(p, r, m) /\ r.recs = v /\ r.timer = p.timer /\ SameLoad(p, r)
    BY <1>1, <1>5, <2>2, <2>3, SetRec
  <2> QED
    BY <2>2, <2>4 DEF Recorded
<1>8. q = Chain(r, m, op.row, op.pump)
  BY <1>6, <1>7 DEF PersistThenPump
<1> HIDE DEF op
<1>9. op.row = r.recs[m] /\ op \in Op
  BY <1>3, <1>7
<1>10. PageOK(q, made, kept, Sends, withdrawn, access)
  BY <1>1, <1>2, <1>7, <1>8, <1>9, PersistOK
<1>11. q.recs = r.recs /\ SameLoad(r, q)
  BY <1>7, <1>8, <1>9, ChainFacts
<1>12. Keeps(r, q, made, {}) /\ \E i \in DOMAIN q.writing[m] : q.writing[m][i].pump
  BY <1>3, <1>7, <1>8, <1>9, ChainKeeps
<1>13. Awake(t, q, made)
  <2>1. (\A n \in Msg \ {m} : r.recs[n] = p.recs[n]) /\ r.writing = p.writing /\ r.flight = p.flight
    BY <1>7 DEF Recorded
  <2> QED
    BY <1>1, <1>2, <1>7, <1>11, <1>12, <2>1, PumpBehind
<1>14. Loading(q)
  BY <1>1, <1>7, <1>11 DEF Loading, SameLoad
<1>15. /\ UNCHANGED <<disk, made, log, access, kept, late, withdrawn>>
       /\ late \subseteq kept /\ withdrawn \subseteq Msg
  BY <1>1 DEF Retry, Store
<1> QED
  BY <1>6, <1>10, <1>13, <1>14, <1>15, PageTurn

\* Delete, or the message is here: at once, or marked while a request is out.
LEMMA MarkedOK ==
  ASSUME NEW p, NEW mk, NEW kp, NEW po, NEW wd, NEW ac, PageOK(p, mk, kp, po, wd, ac),
         NEW q \in PageType, q.recs = p.recs, q.writing = p.writing, q.issued = p.issued, q.flight = p.flight,
         q.timer = p.timer, SameLoad(p, q),
         q.discardAfterFlight \subseteq p.discardAfterFlight \cup wd, q.settledInFlight \subseteq p.settledInFlight \cup po,
         NEW t, Awake(t, p, mk)
  PROVE  PageOK(q, mk, kp, po, wd, ac) /\ Awake(t, q, mk)
<1>2. Backed(q, mk, kp)
  BY DEF PageOK, Sound, Backed, SameLoad
<1>3. Issued(q)
  BY DEF PageOK, Sound, Issued
<1>4. Removed(q, mk, po, wd, ac)
  BY DEF PageOK, Sound, Removed, SameLoad
<1>5. \A n \in Msg : Stored(q, kp, n)
  BY DEF PageOK, Stored
<1>6. Awake(t, q, mk)
  BY DEF Awake, AwakeBut, Queue, Attended, Going, SameLoad
<1> QED
  BY <1>2, <1>3, <1>4, <1>5, <1>6 DEF PageOK, Sound

LEMMA AwakeIsBut ==
  ASSUME NEW t, NEW p, NEW mk, NEW X, Awake(t, p, mk)
  PROVE  AwakeBut(t, p, mk, X)
BY DEF Awake, AwakeBut

LEMMA DiscardStep ==
  ASSUME OutboxInv, NEW t \in Tab, NEW m \in Msg, Discard(t, m)
  PROVE  OutboxInv'
<1>1. /\ Store /\ PageOK(page[t], made, kept, Sends, withdrawn, access) /\ page[t] \in PageType
      /\ Loading(page[t]) /\ DOMAIN made \subseteq Msg /\ Awake(t, page[t], made)
  BY Facts DEF Discard
<1>2. /\ UNCHANGED <<disk, made, log, access, kept, late>> /\ withdrawn' = withdrawn \cup {m}
      /\ late' \subseteq kept /\ withdrawn \subseteq withdrawn' /\ withdrawn' \subseteq Msg
  BY <1>1 DEF Discard, Store
<1>3. m \in DOMAIN made
  BY <1>1 DEF Discard, PageOK, Sound, Backed
<1>4. PageOK(page[t], made, kept, Sends, withdrawn', access)
  <2>1. Grows(made, kept, Sends, withdrawn, access, made, kept, Sends, withdrawn', access)
    BY <1>2 DEF Grows
  <2>2. \A n \in DOMAIN made : made[n].ch \in Channel
    BY <1>1 DEF Store
  <2> QED
    BY <1>1, <2>1, <2>2, PageStays
<1>5. \E q : /\ page' = [page EXCEPT ![t] = q] /\ SameLoad(page[t], q)
             /\ PageOK(q, made, kept, Sends, withdrawn', access) /\ Awake(t, q, made)
  <2>1. CASE InFlight(page[t], m)
    <3>1. PICK q : q = [page[t] EXCEPT !.discardAfterFlight = @ \cup {m}] /\ page' = [page EXCEPT ![t] = q]
      BY <2>1 DEF Discard, Become
    <3>2. m \in withdrawn'
      BY <1>2
    <3>3. /\ q \in PageType /\ q.recs = page[t].recs /\ q.writing = page[t].writing /\ q.issued = page[t].issued
          /\ q.flight = page[t].flight /\ q.timer = page[t].timer /\ SameLoad(page[t], q)
          /\ q.discardAfterFlight \subseteq page[t].discardAfterFlight \cup withdrawn'
          /\ q.settledInFlight \subseteq page[t].settledInFlight \cup Sends
      <4>1. page[t].discardAfterFlight \cup {m} \in SUBSET Msg
        BY <1>1 DEF PageType
      <4> QED
        BY <1>1, <3>1, <3>2, <4>1 DEF PageType, SameLoad
    <3>4. PageOK(q, made, kept, Sends, withdrawn', access) /\ Awake(t, q, made)
      BY <1>1, <1>4, <3>3, MarkedOK
    <3> QED
      BY <3>1, <3>3, <3>4
  <2>2. CASE ~ InFlight(page[t], m)
    <3>1. PICK q : q = Pump(t, Drop(page[t], m), made[m].ch) /\ page' = [page EXCEPT ![t] = q]
      BY <2>2 DEF Discard, BecomePumped, Become
    <3>2. made[m].ch \in Channel /\ Given(made, Sends, withdrawn', access, m)
      BY <1>1, <1>2, <1>3 DEF Store, Given
    <3>3. AwakeBut(t, page[t], made, {made[m].ch})
      BY <1>1, AwakeIsBut
    <3>4. PageOK(q, made, kept, Sends, withdrawn', access) /\ Awake(t, q, made) /\ SameLoad(page[t], q)
      BY <1>1, <1>3, <1>4, <3>1, <3>2, <3>3, DropPumped
    <3> QED
      BY <3>1, <3>4
  <2> QED
    BY <2>1, <2>2
<1>6. PICK q : /\ page' = [page EXCEPT ![t] = q] /\ SameLoad(page[t], q)
               /\ PageOK(q, made, kept, Sends, withdrawn', access) /\ Awake(t, q, made)
  BY <1>5
<1>7. Loading(q)
  BY <1>1, <1>6 DEF Loading, SameLoad
<1> QED
  BY <1>2, <1>6, <1>7, PageTurn

LEMMA SettleStep ==
  ASSUME OutboxInv, NEW t \in Tab, NEW m \in Msg, Settle(t, m)
  PROVE  OutboxInv'
<1>1. /\ Store /\ PageOK(page[t], made, kept, Sends, withdrawn, access) /\ page[t] \in PageType
      /\ Loading(page[t]) /\ DOMAIN made \subseteq Msg /\ Awake(t, page[t], made)
  BY Facts DEF Settle
<1>2. /\ UNCHANGED <<disk, made, log, access, kept, late, withdrawn>> /\ withdrawn' = withdrawn
      /\ late' \subseteq kept /\ withdrawn \subseteq withdrawn' /\ withdrawn' \subseteq Msg
  BY <1>1 DEF Settle, Store
<1>3. m \in DOMAIN made /\ m \in Sends
  BY <1>1 DEF Settle, PageOK, Sound, Backed, Sends
<1>4. \E q : /\ page' = [page EXCEPT ![t] = q] /\ SameLoad(page[t], q)
             /\ PageOK(q, made, kept, Sends, withdrawn, access) /\ Awake(t, q, made)
  <2>1. CASE InFlight(page[t], m)
    <3>1. PICK q : q = [page[t] EXCEPT !.settledInFlight = @ \cup {m}] /\ page' = [page EXCEPT ![t] = q]
      BY <2>1 DEF Settle, Become
    <3>3. /\ q \in PageType /\ q.recs = page[t].recs /\ q.writing = page[t].writing /\ q.issued = page[t].issued
          /\ q.flight = page[t].flight /\ q.timer = page[t].timer /\ SameLoad(page[t], q)
          /\ q.discardAfterFlight \subseteq page[t].discardAfterFlight \cup withdrawn
          /\ q.settledInFlight \subseteq page[t].settledInFlight \cup Sends
      <4>1. page[t].settledInFlight \cup {m} \in SUBSET Msg
        BY <1>1 DEF PageType
      <4> QED
        BY <1>1, <3>1, <1>3, <4>1 DEF PageType, SameLoad
    <3>4. PageOK(q, made, kept, Sends, withdrawn, access) /\ Awake(t, q, made)
      BY <1>1, <3>3, MarkedOK
    <3> QED
      BY <3>1, <3>3, <3>4
  <2>2. CASE ~ InFlight(page[t], m)
    <3>1. PICK q : q = Pump(t, Drop(page[t], m), made[m].ch) /\ page' = [page EXCEPT ![t] = q]
      BY <2>2 DEF Settle, BecomePumped, Become
    <3>2. made[m].ch \in Channel /\ Given(made, Sends, withdrawn, access, m)
      BY <1>1, <1>3 DEF Store, Given
    <3>3. AwakeBut(t, page[t], made, {made[m].ch})
      BY <1>1, AwakeIsBut
    <3>4. PageOK(q, made, kept, Sends, withdrawn, access) /\ Awake(t, q, made) /\ SameLoad(page[t], q)
      BY <1>1, <1>3, <3>1, <3>2, <3>3, DropPumped
    <3> QED
      BY <3>1, <3>4
  <2> QED
    BY <2>1, <2>2
<1>5. PICK q : /\ page' = [page EXCEPT ![t] = q] /\ SameLoad(page[t], q)
               /\ PageOK(q, made, kept, Sends, withdrawn, access) /\ Awake(t, q, made)
  BY <1>4
<1>6. Loading(q)
  BY <1>1, <1>5 DEF Loading, SameLoad
<1> QED
  BY <1>2, <1>5, <1>6, PageTurn

\* What the first issued write does to its page.
Landing(p, m, q) ==
  /\ q \in PageType /\ q.recs = p.recs /\ q.flight = p.flight /\ q.timer = p.timer
  /\ SameLoad(p, q) /\ SameMarks(p, q)
  /\ q.writing[m] = Tail(p.writing[m]) /\ \A n \in Msg \ {m} : q.writing[n] = p.writing[n]
  /\ q.issued = IF Tail(p.writing[m]) = <<>> THEN Tail(p.issued) ELSE Append(Tail(p.issued), m)

LEMMA LandingOK ==
  ASSUME NEW p, NEW mk, NEW kp, NEW po, NEW wd, NEW ac, PageOK(p, mk, kp, po, wd, ac),
         p.issued # <<>>, NEW m \in Msg, m = Head(p.issued), NEW q, Landing(p, m, q),
         NEW kp2, kp \subseteq kp2, Head(p.writing[m]).row # None => m \in kp2
  PROVE  PageOK(q, mk, kp2, po, wd, ac)
<1>1. /\ p \in PageType /\ p.writing[m] \in Seq(Op) /\ p.issued \in Seq(Msg \cup {NoMsg}) /\ NoMsg \notin Msg
      /\ \A n \in Msg : p.writing[n] \in Seq(Op)
  BY Constants DEF PageOK, Sound, PageType
<1>2. p.writing[m] # <<>> /\ \A i \in DOMAIN p.issued : p.issued[i] = m => i = 1
  <2>1. 1 \in DOMAIN p.issued /\ p.issued[1] = m
    BY <1>1
  <2> QED
    BY <1>1, <2>1 DEF PageOK, Sound, Issued
<1>3. /\ Tail(p.writing[m]) \in Seq(Op)
      /\ \A i \in DOMAIN Tail(p.writing[m]) : i + 1 \in DOMAIN p.writing[m] /\ Tail(p.writing[m])[i] = p.writing[m][i + 1]
  BY <1>1, <1>2
<1>4. /\ Tail(p.issued) \in Seq(Msg \cup {NoMsg})
      /\ \A i \in DOMAIN Tail(p.issued) : i \in Nat /\ i + 1 \in DOMAIN p.issued /\ i + 1 # 1 /\ Tail(p.issued)[i] = p.issued[i + 1]
  BY <1>1
<1>5. \A i \in DOMAIN Tail(p.issued) : Tail(p.issued)[i] # m /\ Tail(p.issued)[i] \in Msg \cup {NoMsg}
  BY <1>1, <1>2, <1>4
<1>6. \A i, j \in DOMAIN Tail(p.issued) : Tail(p.issued)[i] = Tail(p.issued)[j] /\ i # j => Tail(p.issued)[i] = NoMsg
  <2> SUFFICES ASSUME NEW i \in DOMAIN Tail(p.issued), NEW j \in DOMAIN Tail(p.issued),
                      Tail(p.issued)[i] = Tail(p.issued)[j], i # j
               PROVE  Tail(p.issued)[i] = NoMsg
    OBVIOUS
  <2>1. i + 1 # j + 1
    BY <1>4
  <2> QED
    BY <1>4, <2>1 DEF PageOK, Sound, Issued
<1>7. \A i \in DOMAIN Tail(p.issued) : Tail(p.issued)[i] # NoMsg => q.writing[Tail(p.issued)[i]] # <<>>
  BY <1>4, <1>5 DEF PageOK, Sound, Issued, Landing
<1>8. Issued(q)
  <2>1. CASE Tail(p.writing[m]) = <<>>
    BY <1>6, <1>7, <2>1 DEF Issued, Landing
  <2>2. CASE Tail(p.writing[m]) # <<>>
    <3>1. q.issued = Append(Tail(p.issued), m) /\ q.writing[m] # <<>>
      BY <2>2 DEF Landing
    <3>2. /\ \A i \in DOMAIN q.issued : i \in DOMAIN Tail(p.issued) \/ i = Len(Tail(p.issued)) + 1
          /\ \A i \in DOMAIN Tail(p.issued) : q.issued[i] = Tail(p.issued)[i]
          /\ q.issued[Len(Tail(p.issued)) + 1] = m
      BY <1>4, <3>1
    <3>3. \A i \in DOMAIN q.issued : q.issued[i] # NoMsg => q.writing[q.issued[i]] # <<>>
      BY <1>7, <3>1, <3>2
    <3>4. ASSUME NEW i \in DOMAIN q.issued, NEW j \in DOMAIN q.issued, q.issued[i] = q.issued[j], i # j
          PROVE  q.issued[i] = NoMsg
      BY <1>5, <1>6, <3>2, <3>4
    <3> QED
      BY <3>3, <3>4 DEF Issued
  <2> QED
    BY <2>1, <2>2
<1>9. Backed(q, mk, kp2)
  <2>1. \A n \in Msg : q.recs[n] # None \/ q.writing[n] # <<>> => n \in DOMAIN mk
    <3>1. m \in DOMAIN mk
      BY <1>2 DEF PageOK, Sound, Backed
    <3> QED
      BY <3>1 DEF PageOK, Sound, Backed, Landing
  <2>2. \A ch \in Channel : q.flight[ch].id = NoMsg \/ Mine(mk, kp2, ch, q.flight[ch].id)
    BY DEF PageOK, Sound, Backed, Landing, Mine
  <2> QED
    BY <2>1, <2>2 DEF PageOK, Sound, Backed, Landing, SameLoad
<1>10. Removed(q, mk, po, wd, ac)
  <2>1. \A n \in Msg : \A i \in DOMAIN q.writing[n] : q.writing[n][i].row = None => Given(mk, po, wd, ac, n)
    <3>1. \A n \in Msg : \A i \in DOMAIN p.writing[n] : p.writing[n][i].row = None => Given(mk, po, wd, ac, n)
      BY DEF PageOK, Sound, Removed
    <3>2. \A i \in DOMAIN q.writing[m] : q.writing[m][i].row = None => Given(mk, po, wd, ac, m)
      <4>1. q.writing[m] = Tail(p.writing[m])
        BY DEF Landing
      <4> SUFFICES ASSUME NEW i \in DOMAIN Tail(p.writing[m]), Tail(p.writing[m])[i].row = None
                   PROVE  Given(mk, po, wd, ac, m)
        BY <4>1
      <4>2. i + 1 \in DOMAIN p.writing[m] /\ p.writing[m][i + 1].row = None
        BY <1>3
      <4> QED
        BY <3>1, <4>2
    <3> QED
      BY <3>1, <3>2 DEF Landing
  <2> QED
    BY <2>1 DEF PageOK, Sound, Removed, Landing, SameLoad, SameMarks
<1>11. \A n \in Msg : Stored(q, kp2, n)
  <2>1. Stored(q, kp2, m)
    BY DEF PageOK, Stored, Landing
  <2>2. \A n \in Msg \ {m} : Stored(q, kp2, n)
    BY DEF PageOK, Stored, Landing
  <2> QED
    BY <2>1, <2>2
<1> QED
  BY <1>8, <1>9, <1>10, <1>11 DEF PageOK, Sound, Landing

LEMMA LandingKeeps ==
  ASSUME NEW p \in PageType, NEW m \in Msg, p.writing[m] # <<>>, NEW q, Landing(p, m, q), NEW mk, m \in DOMAIN mk
  PROVE  /\ Keeps(p, q, mk, {mk[m].ch})
         /\ ~ Head(p.writing[m]).pump => Keeps(p, q, mk, {})
<1>1. p.writing[m] \in Seq(Op)
  BY DEF PageType
<1>2. \A i \in DOMAIN p.writing[m] : i # 1 => i - 1 \in DOMAIN Tail(p.writing[m]) /\ Tail(p.writing[m])[i - 1] = p.writing[m][i]
  BY <1>1
<1>3. p.writing[m][1] = Head(p.writing[m])
  BY <1>1
<1>4. ~ Head(p.writing[m]).pump => ((\E i \in DOMAIN p.writing[m] : p.writing[m][i].pump)
                                      => \E i \in DOMAIN q.writing[m] : q.writing[m][i].pump)
  <2> SUFFICES ASSUME ~ Head(p.writing[m]).pump, NEW i \in DOMAIN p.writing[m], p.writing[m][i].pump
               PROVE  \E j \in DOMAIN q.writing[m] : q.writing[m][j].pump
    OBVIOUS
  <2>1. i # 1
    BY <1>3
  <2>2. i - 1 \in DOMAIN q.writing[m] /\ q.writing[m][i - 1] = p.writing[m][i]
    BY <1>2, <2>1 DEF Landing
  <2> QED
    BY <2>2
<1> QED
  BY <1>4 DEF Keeps, Landing, SameLoad

LEMMA DiskWriteStep ==
  ASSUME OutboxInv, NEW t \in Tab, DiskWrite(t)
  PROVE  OutboxInv'
<1> DEFINE p == page[t]
           m == Head(p.issued)
           op == Head(p.writing[m])
           rest == Tail(p.writing[m])
<1>1. /\ Store /\ Kept /\ PageOK(p, made, kept, Sends, withdrawn, access) /\ p \in PageType
      /\ Loading(p) /\ DOMAIN made \subseteq Msg /\ Awake(t, p, made) /\ p.issued # <<>> /\ m # NoMsg
  BY Facts DEF DiskWrite
<1>2. m \in Msg /\ p.writing[m] # <<>> /\ m \in DOMAIN made /\ p.writing[m] \in Seq(Op) /\ p.issued \in Seq(Msg \cup {NoMsg})
  <2>1. p.issued \in Seq(Msg \cup {NoMsg}) /\ 1 \in DOMAIN p.issued /\ p.issued[1] = m /\ m \in Msg \cup {NoMsg}
    <3>1. p.issued \in Seq(Msg \cup {NoMsg}) /\ p.issued # <<>>
      BY <1>1 DEF PageType
    <3> HIDE DEF p
    <3> QED
      BY <3>1
  <2>2. m \in Msg /\ p.writing[m] # <<>>
    BY <1>1, <2>1 DEF PageOK, Sound, Issued
  <2> QED
    BY <1>1, <2>1, <2>2 DEF PageOK, Sound, Backed, PageType
<1>3. PICK v : v = [p.writing EXCEPT ![m] = rest]
  OBVIOUS
<1>4. PICK is : is = IF rest = <<>> THEN Tail(p.issued) ELSE Append(Tail(p.issued), m)
  OBVIOUS
<1>5. PICK r : r = [p EXCEPT !.writing = v, !.issued = is]
  OBVIOUS
<1>6. /\ disk' = [disk EXCEPT ![m] = op.row] /\ kept' = IF op.row = None THEN kept ELSE kept \cup {m}
      /\ UNCHANGED <<made, log, late, access, withdrawn>>
  BY DEF DiskWrite
<1>7. IF op.pump THEN BecomePumped(t, r, made[m].ch) ELSE Become(t, r)
  BY <1>3, <1>4, <1>5 DEF DiskWrite
<1> HIDE DEF p, m, op, rest
<1>8. Landing(p, m, r)
  <2>1. rest \in Seq(Op) /\ rest = Tail(p.writing[m])
    BY <1>2 DEF rest
  <2>2. v \in [Msg -> Seq(Op)] /\ v[m] = rest /\ (\A n \in Msg \ {m} : v[n] = p.writing[n])
    BY <1>1, <1>2, <1>3, <2>1 DEF PageType
  <2>3. is \in Seq(Msg \cup {NoMsg})
    BY <1>1, <1>2, <1>4
  <2> QED
    BY <1>1, <1>4, <1>5, <2>1, <2>2, <2>3 DEF Landing, PageType, SameLoad, SameMarks
<1>9. kept \subseteq kept' /\ (op.row # None => m \in kept')
  BY <1>6
<1>10. PageOK(r, made, kept', Sends, withdrawn, access)
  BY <1>1, <1>2, <1>8, <1>9, LandingOK DEF m, op
<1>11. \E q : /\ page' = [page EXCEPT ![t] = q] /\ SameLoad(p, q)
              /\ PageOK(q, made, kept', Sends, withdrawn, access) /\ Awake(t, q, made)
  <2>0. r.recs = p.recs /\ SameLoad(p, r)
    BY <1>8 DEF Landing
  <2>1. CASE op.pump
    <3>1. PICK q : q = Pump(t, r, made[m].ch) /\ page' = [page EXCEPT ![t] = q]
      BY <1>7, <2>1 DEF BecomePumped, Become
    <3>2. made[m].ch \in Channel
      BY <1>1, <1>2 DEF Store
    <3>3. AwakeBut(t, r, made, {made[m].ch})
      <4>1. Keeps(p, r, made, {made[m].ch})
        BY <1>1, <1>2, <1>8, LandingKeeps
      <4>2. AwakeBut(t, p, made, {made[m].ch})
        BY <1>1, AwakeIsBut
      <4> QED
        BY <1>1, <2>0, <4>1, <4>2, KeepsAwake
    <3>4. PageOK(q, made, kept', Sends, withdrawn, access) /\ Awake(t, q, made) /\ SameLoad(r, q)
      BY <1>1, <1>10, <3>1, <3>2, <3>3, PumpAwakes
    <3> QED
      BY <2>0, <3>1, <3>4 DEF SameLoad
  <2>2. CASE ~ op.pump
    <3>1. page' = [page EXCEPT ![t] = r]
      BY <1>7, <2>2 DEF Become
    <3>2. Keeps(p, r, made, {})
      <4>1. ~ Head(p.writing[m]).pump
        BY <2>2 DEF op
      <4> QED
        BY <1>1, <1>2, <1>8, <4>1, LandingKeeps
    <3>3. Awake(t, r, made)
      BY <1>1, <2>0, <3>2, KeepsAwake DEF Awake
    <3> QED
      BY <1>10, <2>0, <3>1, <3>3
  <2> QED
    BY <2>1, <2>2
<1>12. PICK q : /\ page' = [page EXCEPT ![t] = q] /\ SameLoad(p, q)
                /\ PageOK(q, made, kept', Sends, withdrawn, access) /\ Awake(t, q, made)
  BY <1>11
<1>13. Sends' = Sends
  BY <1>6 DEF Sends, Posted, Server!Posted
<1>14. Grows(made, kept, Sends, withdrawn, access, made', kept', Sends', withdrawn', access')
  BY <1>6, <1>9, <1>13 DEF Grows
<1>15. op \in Op /\ 1 \in DOMAIN p.writing[m] /\ p.writing[m][1] = op
  BY <1>2 DEF op
<1>16. disk' \in [Msg -> Row] /\ disk'[m] = op.row /\ \A n \in Msg \ {m} : disk'[n] = disk[n]
  BY <1>1, <1>2, <1>6, <1>15 DEF Store, Op
<1>17. Store'
  BY <1>1, <1>2, <1>6, <1>16 DEF Store
<1>18. Kept'
  <2>1. \A n \in Msg : Given(made', Sends', withdrawn', access', n) <=> Given(made, Sends, withdrawn, access, n)
    BY <1>6, <1>13 DEF Given
  <2>2. op.row = None => Given(made, Sends, withdrawn, access, m)
    BY <1>1, <1>2, <1>15 DEF PageOK, Sound, Removed
  <2>3. \A n \in Msg : disk'[n] # None => n \in kept'
    BY <1>1, <1>9, <1>16 DEF Kept
  <2>4. \A n \in kept' : n \in Msg /\ (disk'[n] # None \/ Given(made', Sends', withdrawn', access', n))
    BY <1>1, <1>2, <1>6, <1>16, <2>1, <2>2 DEF Kept, Store
  <2> QED
    BY <1>1, <1>6, <1>9, <1>13, <2>3, <2>4 DEF Kept
<1>19. Loading(q)
  BY <1>1, <1>12 DEF Loading, SameLoad
<1> QED
  BY <1>6, <1>12, <1>13, <1>14, <1>17, <1>18, <1>19, Turn

-----------------------------------------------------------------------------
(* Sending.                                                                *)

\* An answer arrives at the page: "ok" only if the send was posted.
LEMMA AnsweredOK ==
  ASSUME NEW p, NEW mk, NEW kp, NEW po, NEW wd, NEW ac, PageOK(p, mk, kp, po, wd, ac),
         NEW q \in PageType, q.recs = p.recs, q.writing = p.writing, q.issued = p.issued, q.timer = p.timer,
         SameLoad(p, q), SameMarks(p, q),
         \A ch \in Channel : /\ q.flight[ch].id = p.flight[ch].id
                             /\ q.flight[ch].answer = "ok" => p.flight[ch].answer = "ok" \/ q.flight[ch].id \in po,
         NEW t, Awake(t, p, mk)
  PROVE  PageOK(q, mk, kp, po, wd, ac) /\ Awake(t, q, mk)
<1>1. Backed(q, mk, kp)
  BY DEF PageOK, Sound, Backed, SameLoad
<1>2. Issued(q)
  BY DEF PageOK, Sound, Issued
<1>3. Removed(q, mk, po, wd, ac)
  BY DEF PageOK, Sound, Removed, SameLoad, SameMarks
<1>4. \A n \in Msg : Stored(q, kp, n)
  BY DEF PageOK, Stored
<1>5. Awake(t, q, mk)
  BY DEF Awake, AwakeBut, Queue, Attended, Going, SameLoad
<1> QED
  BY <1>1, <1>2, <1>3, <1>4, <1>5 DEF PageOK, Sound

LEMMA SetAnswer ==
  ASSUME NEW p \in PageType, NEW ch \in Channel, NEW a \in {"ok", "final"}, NEW q, q = [p EXCEPT !.flight[ch].answer = a]
  PROVE  /\ q \in PageType /\ q.recs = p.recs /\ q.writing = p.writing /\ q.issued = p.issued /\ q.timer = p.timer
         /\ SameLoad(p, q) /\ SameMarks(p, q)
         /\ q.flight[ch].id = p.flight[ch].id /\ q.flight[ch].answer = a /\ \A c \in Channel \ {ch} : q.flight[c] = p.flight[c]
<1>1. PICK g : g = [p.flight[ch] EXCEPT !.answer = a]
  OBVIOUS
<1>2. PICK f : f = [p.flight EXCEPT ![ch] = g]
  OBVIOUS
<1>3. q = [p EXCEPT !.flight = f]
  BY <1>1, <1>2
<1>4. p.flight \in [Channel -> [id : Msg \cup {NoMsg}, answer : {"none", "ok", "final"}]]
  BY DEF PageType
<1>5. g \in [id : Msg \cup {NoMsg}, answer : {"none", "ok", "final"}] /\ g.id = p.flight[ch].id /\ g.answer = a
  BY <1>1, <1>4
<1>6. /\ f \in [Channel -> [id : Msg \cup {NoMsg}, answer : {"none", "ok", "final"}]]
      /\ f[ch] = g /\ \A c \in Channel \ {ch} : f[c] = p.flight[c]
  BY <1>2, <1>4, <1>5
<1>7. /\ q \in PageType /\ q.recs = p.recs /\ q.issued = p.issued /\ q.timer = p.timer
      /\ q.writing = p.writing /\ SameLoad(p, q) /\ SameMarks(p, q) /\ q.flight = f
  <2>1. f \in [Channel -> [id : Msg \cup {NoMsg}, answer : {"none", "ok", "final"}]]
    BY <1>6
  <2> QED
    BY <1>3, <2>1 DEF PageType, SameLoad, SameMarks
<1> QED
  BY <1>5, <1>6, <1>7

LEMMA AcceptStep ==
  ASSUME OutboxInv, NEW t \in Tab, NEW ch \in Channel, Accept(t, ch)
  PROVE  OutboxInv'
<1> DEFINE p == page[t]
           m == p.flight[ch].id
<1>1. /\ Store /\ Kept /\ PageOK(p, made, kept, Sends, withdrawn, access) /\ p \in PageType
      /\ Loading(p) /\ DOMAIN made \subseteq Msg /\ Awake(t, p, made)
  BY Facts DEF Accept, Out
<1>2. m \in kept /\ m \in Msg
  BY <1>1 DEF Accept, Out, PageOK, Sound, Backed, Mine, Store
<1>3. PICK q : q = [p EXCEPT !.flight[ch].answer = "ok"] /\ page' = [page EXCEPT ![t] = q]
  BY DEF Accept, Become
<1>4. Commit(m, ch) /\ UNCHANGED <<disk, made, late, access, kept, withdrawn>>
  BY DEF Accept
<1> HIDE DEF p
<1>5. /\ q \in PageType /\ q.recs = p.recs /\ q.writing = p.writing /\ q.issued = p.issued /\ q.timer = p.timer
      /\ SameLoad(p, q) /\ SameMarks(p, q)
      /\ q.flight[ch].id = p.flight[ch].id /\ q.flight[ch].answer = "ok" /\ \A c \in Channel \ {ch} : q.flight[c] = p.flight[c]
  <2>1. "ok" \in {"ok", "final"}
    OBVIOUS
  <2> QED
    BY <1>1, <1>3, <2>1, SetAnswer
<1>6. log' \in [Channel -> Seq(Msg)] /\ Sends' = Sends \cup {m}
  BY <1>1, <1>2, <1>4, CommitFacts
<1>7. Grows(made, kept, Sends, withdrawn, access, made', kept', Sends', withdrawn', access')
  BY <1>4, <1>6 DEF Grows
<1>8. Store'
  BY <1>1, <1>4, <1>6 DEF Store
<1>9. Kept'
  <2>1. \A n \in Msg : Given(made, Sends, withdrawn, access, n) => Given(made', Sends', withdrawn', access', n)
    BY <1>4, <1>6 DEF Given
  <2>2. kept \subseteq Msg
    BY <1>1 DEF Store
  <2> QED
    BY <1>1, <1>2, <1>4, <1>6, <2>1, <2>2 DEF Kept
<1>10. PageOK(p, made', kept', Sends', withdrawn', access') /\ Awake(t, p, made')
  <2>1. \A n \in DOMAIN made : made[n].ch \in Channel
    BY <1>1 DEF Store
  <2> QED
    BY <1>1, <1>4, <1>7, <2>1, PageStays
<1>11. \A c \in Channel : /\ q.flight[c].id = p.flight[c].id
                          /\ q.flight[c].answer = "ok" => p.flight[c].answer = "ok" \/ q.flight[c].id \in Sends'
  BY <1>5, <1>6
<1>12. PageOK(q, made', kept', Sends', withdrawn', access') /\ Awake(t, q, made')
  BY <1>5, <1>10, <1>11, AnsweredOK
<1>13. Loading(q)
  BY <1>1, <1>5 DEF Loading, SameLoad
<1> QED
  BY <1>3, <1>7, <1>8, <1>9, <1>12, <1>13, Turn

LEMMA RefuseStep ==
  ASSUME OutboxInv, NEW t \in Tab, NEW ch \in Channel, Refuse(t, ch)
  PROVE  OutboxInv'
<1> DEFINE p == page[t]
<1>1. /\ Store /\ PageOK(p, made, kept, Sends, withdrawn, access) /\ p \in PageType
      /\ Loading(p) /\ Awake(t, p, made)
  BY Facts DEF Refuse, Out
<1>2. PICK q : q = [p EXCEPT !.flight[ch].answer = "final"] /\ page' = [page EXCEPT ![t] = q]
  BY DEF Refuse, Become
<1>3. /\ UNCHANGED <<disk, made, log, access, kept, late, withdrawn>>
      /\ late \subseteq kept /\ withdrawn \subseteq Msg
  BY <1>1 DEF Refuse, Store
<1> HIDE DEF p
<1>4. /\ q \in PageType /\ q.recs = p.recs /\ q.writing = p.writing /\ q.issued = p.issued /\ q.timer = p.timer
      /\ SameLoad(p, q) /\ SameMarks(p, q)
      /\ q.flight[ch].id = p.flight[ch].id /\ q.flight[ch].answer = "final" /\ \A c \in Channel \ {ch} : q.flight[c] = p.flight[c]
  <2>1. "final" \in {"ok", "final"}
    OBVIOUS
  <2> QED
    BY <1>1, <1>2, <2>1, SetAnswer
<1>5. \A c \in Channel : /\ q.flight[c].id = p.flight[c].id
                         /\ q.flight[c].answer = "ok" => p.flight[c].answer = "ok" \/ q.flight[c].id \in Sends
  BY <1>4
<1>6. PageOK(q, made, kept, Sends, withdrawn, access) /\ Awake(t, q, made)
  BY <1>1, <1>4, <1>5, AnsweredOK
<1>7. Loading(q)
  BY <1>1, <1>4 DEF Loading, SameLoad
<1> QED
  BY <1>2, <1>3, <1>6, <1>7, PageTurn

\* The tab has given up on it, or is gone: what it kept stays as it was.
LEMMA LateArrivalStep ==
  ASSUME OutboxInv, NEW m \in Msg, LateArrival(m)
  PROVE  OutboxInv'
<1>1. Store /\ Kept /\ m \in kept /\ m \in DOMAIN made /\ made[m].ch \in Channel
  BY DEF OutboxInv, Store, LateArrival
<1>2. UNCHANGED <<page, disk, made, access, kept, withdrawn>> /\ late' \subseteq late
  BY DEF LateArrival
<1>3. log' \in [Channel -> Seq(Msg)] /\ Sends \subseteq Sends' /\ Sends' \subseteq Sends \cup {m}
  <2>1. CASE HasAccess(made[m].ch)
    BY <1>1, <2>1, CommitFacts DEF LateArrival
  <2>2. CASE ~ HasAccess(made[m].ch)
    <3>1. log' = log
      BY <2>2 DEF LateArrival
    <3> QED
      BY <1>1, <3>1 DEF Store, Sends, Posted, Server!Posted
  <2> QED
    BY <2>1, <2>2
<1>4. Grows(made, kept, Sends, withdrawn, access, made', kept', Sends', withdrawn', access')
  BY <1>2, <1>3 DEF Grows
<1>5. Store'
  BY <1>1, <1>2, <1>3 DEF Store
<1>6. Kept'
  <2>1. \A n \in Msg : Given(made, Sends, withdrawn, access, n) => Given(made', Sends', withdrawn', access', n)
    BY <1>2, <1>3 DEF Given
  <2>2. kept \subseteq Msg
    BY <1>1 DEF Store
  <2> QED
    BY <1>1, <1>2, <1>3, <2>1, <2>2 DEF Kept
<1> QED
  BY <1>2, <1>4, <1>5, <1>6, NoTurn

\* attempt ends: nothing is in flight on ch.
Lands(p, q, ch) ==
  /\ q \in PageType /\ q.recs = p.recs /\ q.writing = p.writing /\ q.issued = p.issued /\ q.timer = p.timer
  /\ SameLoad(p, q) /\ SameMarks(p, q)
  /\ q.flight[ch].id = NoMsg /\ q.flight[ch].answer = "none" /\ \A c \in Channel \ {ch} : q.flight[c] = p.flight[c]

LEMMA LandedLands ==
  ASSUME NEW p \in PageType, NEW ch \in Channel, NEW q, q = Landed(p, ch)
  PROVE  Lands(p, q, ch)
<1>1. PICK f : f = [p.flight EXCEPT ![ch] = [id |-> NoMsg, answer |-> "none"]]
  OBVIOUS
<1>2. PICK a : a = p.accessDropped \ {p.flight[ch].id}
  OBVIOUS
<1>3. q = [p EXCEPT !.flight = f, !.accessDropped = a]
  BY <1>1, <1>2 DEF Landed
<1>4. /\ f \in [Channel -> [id : Msg \cup {NoMsg}, answer : {"none", "ok", "final"}]] /\ a \in SUBSET Msg
      /\ f[ch].id = NoMsg /\ f[ch].answer = "none" /\ \A c \in Channel \ {ch} : f[c] = p.flight[c]
  BY <1>1, <1>2 DEF PageType
<1> QED
  BY <1>3, <1>4 DEF Lands, PageType, SameLoad, SameMarks

LEMMA LandsOK ==
  ASSUME NEW p, NEW mk, NEW kp, NEW po, NEW wd, NEW ac, PageOK(p, mk, kp, po, wd, ac), NEW ch \in Channel,
         NEW q, Lands(p, q, ch), NEW t, Awake(t, p, mk), DOMAIN mk \subseteq Msg
  PROVE  PageOK(q, mk, kp, po, wd, ac) /\ AwakeBut(t, q, mk, {ch})
<1>1. Backed(q, mk, kp)
  BY DEF PageOK, Sound, Backed, SameLoad, Lands
<1>2. Issued(q)
  BY DEF PageOK, Sound, Issued, Lands
<1>3. Removed(q, mk, po, wd, ac)
  BY DEF PageOK, Sound, Removed, SameLoad, SameMarks, Lands
<1>4. \A n \in Msg : Stored(q, kp, n)
  BY DEF PageOK, Stored, Lands
<1>5. AwakeBut(t, q, mk, {ch})
  BY DEF Awake, AwakeBut, Queue, Attended, Going, SameLoad, Lands
<1> QED
  BY <1>1, <1>2, <1>3, <1>4, <1>5 DEF PageOK, Sound, Lands

LEMMA AnswerOkStep ==
  ASSUME OutboxInv, NEW t \in Tab, NEW ch \in Channel, AnswerOk(t, ch)
  PROVE  OutboxInv'
<1> DEFINE p == page[t]
           m == p.flight[ch].id
           s == IF m \in p.accessDropped THEN p ELSE [p EXCEPT !.accepted = @ \cup {m}]
           r == Landed(s, ch)
<1>1. /\ Store /\ PageOK(p, made, kept, Sends, withdrawn, access) /\ p \in PageType
      /\ Loading(p) /\ DOMAIN made \subseteq Msg /\ Awake(t, p, made)
  BY Facts DEF AnswerOk, Out
<1>2. m \in Msg /\ m \in DOMAIN made /\ m \in Sends
  BY <1>1 DEF AnswerOk, Out, PageOK, Sound, Backed, Mine, Removed
<1>3. PICK q : q = Pump(t, Drop(r, m), ch) /\ page' = [page EXCEPT ![t] = q]
  BY DEF AnswerOk, BecomePumped, Become
<1>4. /\ UNCHANGED <<disk, made, log, access, kept, late, withdrawn>>
      /\ late \subseteq kept /\ withdrawn \subseteq Msg
  BY <1>1 DEF AnswerOk, Store
<1> HIDE DEF p, r
<1>5. /\ s \in PageType /\ s.recs = p.recs /\ s.writing = p.writing /\ s.issued = p.issued /\ s.timer = p.timer
      /\ s.flight = p.flight /\ SameLoad(p, s) /\ SameMarks(p, s)
  <2>1. p.accepted \cup {m} \in SUBSET Msg
    BY <1>1, <1>2 DEF PageType
  <2> HIDE DEF m
  <2> QED
    BY <1>1, <2>1 DEF PageType, SameLoad, SameMarks
<1> HIDE DEF s, m
<1>6. Lands(s, r, ch)
  BY <1>5, LandedLands DEF r
<1>7. Lands(p, r, ch)
  BY <1>5, <1>6 DEF Lands, SameLoad, SameMarks
<1>8. PageOK(r, made, kept, Sends, withdrawn, access) /\ AwakeBut(t, r, made, {ch})
  BY <1>1, <1>7, LandsOK
<1>9. Given(made, Sends, withdrawn, access, m)
  BY <1>2 DEF Given
<1>10. PageOK(q, made, kept, Sends, withdrawn, access) /\ Awake(t, q, made) /\ SameLoad(r, q)
  BY <1>1, <1>2, <1>3, <1>8, <1>9, DropPumped
<1>11. Loading(q)
  BY <1>1, <1>7, <1>10 DEF Loading, Lands, SameLoad
<1> QED
  BY <1>3, <1>4, <1>10, <1>11, PageTurn

\* A handler that ends with the record of its channel written again and pump(ch).
LEMMA PersistPumped ==
  ASSUME Store, NEW t, NEW p, NEW kp, NEW po, NEW wd, NEW ac, PageOK(p, made, kp, po, wd, ac),
         NEW ch \in Channel, AwakeBut(t, p, made, {ch}),
         NEW m \in Msg, m \in DOMAIN made, made[m].ch = ch, p.recs[m] # None,
         NEW r, Recorded(p, r, m), SameLoad(p, r), r.timer = p.timer,
         NEW op \in Op, op.row = r.recs[m],
         NEW s, s = Chain(r, m, op.row, op.pump), NEW q, q = Pump(t, s, ch)
  PROVE  PageOK(q, made, kp, po, wd, ac) /\ Awake(t, q, made) /\ SameLoad(p, q)
<1>1. PageOK(s, made, kp, po, wd, ac)
  BY PersistOK
<1>2. r \in PageType /\ r.writing = p.writing /\ r.flight = p.flight /\ \A n \in Msg \ {m} : r.recs[n] = p.recs[n]
  BY DEF Recorded
<1>3. s.recs = r.recs /\ SameLoad(r, s)
  BY <1>2, ChainFacts
<1>4. Keeps(r, s, made, {})
  BY <1>2, ChainKeeps
<1>5. Keeps(p, s, made, {ch})
  BY <1>2, <1>4 DEF Keeps, SameLoad
<1>6. AwakeBut(t, s, made, {ch})
  <2>1. \A n \in Msg : s.recs[n] = p.recs[n] \/ made[n].ch \in {ch}
    BY <1>2, <1>3
  <2>2. DOMAIN made \subseteq Msg
    BY DEF Store
  <2> QED
    BY <1>5, <2>1, <2>2, KeepsAwake
<1>7. PageOK(q, made, kp, po, wd, ac) /\ Awake(t, q, made) /\ SameLoad(s, q)
  BY <1>1, <1>6, PumpAwakes
<1> QED
  BY <1>3, <1>7 DEF SameLoad

LEMMA AfterErrorTurn ==
  ASSUME OutboxInv, NEW t \in Tab, NEW ch \in Channel, IsOpen(t), page[t].flight[ch].id # NoMsg,
         NEW st \in {"retrying", "failed"}, AfterError(t, ch, st)
  PROVE  \E q : /\ page' = [page EXCEPT ![t] = q] /\ Loading(q)
                /\ PageOK(q, made, kept, Sends, withdrawn, access) /\ Awake(t, q, made)
<1> DEFINE p == page[t]
           m == p.flight[ch].id
           r == Landed(p, ch)
<1>1. /\ Store /\ PageOK(p, made, kept, Sends, withdrawn, access) /\ p \in PageType
      /\ Loading(p) /\ DOMAIN made \subseteq Msg /\ Awake(t, p, made)
  BY Facts
<1>2. m \in Msg /\ m \in DOMAIN made /\ made[m].ch = ch /\ m \in kept
  BY <1>1 DEF PageOK, Sound, Backed, Mine
<1>3. Lands(p, r, ch)
  BY <1>1, LandedLands
<1> DEFINE rec == [r.recs[m] EXCEPT !.status = st]
<1>4. PICK v : v = [r.recs EXCEPT ![m] = rec]
  OBVIOUS
<1>5. PICK w : w = [r EXCEPT !.recs = v]
  OBVIOUS
<1>6. PICK q : /\ page' = [page EXCEPT ![t] = q]
               /\ q = Pump(t, IF r.recs[m] = None THEN r
                              ELSE IF m \in r.discardAfterFlight \cup r.settledInFlight THEN Drop(r, m)
                              ELSE Persist(w, m), ch)
  BY <1>4, <1>5 DEF AfterError, BecomePumped, Become
<1> HIDE DEF p, r, m
<1>7. PageOK(r, made, kept, Sends, withdrawn, access) /\ AwakeBut(t, r, made, {ch}) /\ SameLoad(p, r) /\ r \in PageType
  BY <1>1, <1>3, LandsOK DEF Lands
<1>8. PageOK(q, made, kept, Sends, withdrawn, access) /\ Awake(t, q, made) /\ SameLoad(r, q)
  <2>1. CASE r.recs[m] = None
    <3>1. q = Pump(t, r, ch)
      BY <1>6, <2>1
    <3> QED
      BY <1>1, <1>7, <3>1, PumpAwakes
  <2>2. CASE r.recs[m] # None /\ m \in r.discardAfterFlight \cup r.settledInFlight
    <3>1. q = Pump(t, Drop(r, m), ch)
      BY <1>6, <2>2
    <3>2. Given(made, Sends, withdrawn, access, m)
      BY <1>7, <2>2 DEF PageOK, Sound, Removed, Given
    <3> QED
      BY <1>1, <1>2, <1>7, <3>1, <3>2, DropPumped
  <2>3. CASE r.recs[m] # None /\ m \notin r.discardAfterFlight \cup r.settledInFlight
    <3>1. q = Pump(t, Persist(w, m), ch)
      BY <1>6, <2>3
    <3>2. r.recs \in [Msg -> Row] /\ r.recs[m] \in Rec
      BY <1>2, <1>7, <2>3 DEF PageType, Row
    <3>3. rec \in Rec
      BY <3>2 DEF Rec
    <3> DEFINE op == [row |-> rec, pump |-> FALSE]
    <3>4. op \in Op /\ op.row = rec /\ op.pump = FALSE
      BY <3>3, RecRow DEF Op
    <3> HIDE DEF rec
    <3>5. Recorded(r, w, m) /\ w.recs[m] = rec /\ w.timer = r.timer /\ SameLoad(r, w)
      <4>1. rec \in Row /\ rec # None
        BY <3>3, RecRow
      <4>2. v \in [Msg -> Row] /\ v[m] = rec /\ \A n \in Msg \ {m} : v[n] = r.recs[n]
        BY <1>2, <1>4, <3>2, <4>1
      <4>3. v[m] # None
        BY <4>1, <4>2
      <4>4. Recorded(r, w, m) /\ w.recs = v /\ w.timer = r.timer /\ SameLoad(r, w)
        BY <1>2, <1>5, <1>7, <4>2, <4>3, SetRec
      <4> QED
        BY <4>2, <4>4
    <3>6. PICK s : s = Chain(w, m, op.row, op.pump)
      OBVIOUS
    <3>7. q = Pump(t, s, ch)
      BY <3>1, <3>5, <3>6 DEF Persist
    <3> HIDE DEF op
    <3>8. op \in Op /\ op.row = w.recs[m]
      BY <3>4, <3>5
    <3> QED
      BY <1>1, <1>2, <1>7, <2>3, <3>5, <3>6, <3>7, <3>8, PersistPumped
  <2> QED
    BY <2>1, <2>2, <2>3
<1>9. Loading(q)
  BY <1>1, <1>7, <1>8 DEF Loading, SameLoad
<1> QED
  BY <1>6, <1>8, <1>9

LEMMA AnswerRefusedStep ==
  ASSUME OutboxInv, NEW t \in Tab, NEW ch \in Channel, AnswerRefused(t, ch)
  PROVE  OutboxInv'
<1>1. PICK q : /\ page' = [page EXCEPT ![t] = q] /\ Loading(q)
               /\ PageOK(q, made, kept, Sends, withdrawn, access) /\ Awake(t, q, made)
  BY AfterErrorTurn DEF AnswerRefused, Out
<1>2. /\ UNCHANGED <<disk, made, log, access, kept, late, withdrawn>>
      /\ late \subseteq kept /\ withdrawn \subseteq Msg
  BY DEF AnswerRefused, OutboxInv, Store
<1> QED
  BY <1>1, <1>2, PageTurn

LEMMA AnswerLostStep ==
  ASSUME OutboxInv, NEW t \in Tab, NEW ch \in Channel, AnswerLost(t, ch)
  PROVE  OutboxInv'
<1>1. PICK q : /\ page' = [page EXCEPT ![t] = q] /\ Loading(q)
               /\ PageOK(q, made, kept, Sends, withdrawn, access) /\ Awake(t, q, made)
  BY AfterErrorTurn DEF AnswerLost, Out
<1>2. UNCHANGED <<disk, made, log, access, kept, withdrawn>> /\ withdrawn \subseteq Msg
  BY DEF AnswerLost, OutboxInv, Store
<1>3. late' \subseteq kept
  BY DEF AnswerLost, Out, OutboxInv, Store, PageOK, Sound, Backed, Mine
<1> QED
  BY <1>1, <1>2, <1>3, PageTurn

LEMMA WakeStep ==
  ASSUME OutboxInv, NEW t \in Tab, NEW ch \in Channel, Wake(t, ch)
  PROVE  OutboxInv'
<1> DEFINE p == page[t]
           line == Line(t, p, ch)
           due == {m \in line : m = Oldest(line) /\ p.recs[m].status = "retrying"}
           recs == [m \in Msg |-> IF m \in due THEN [p.recs[m] EXCEPT !.status = "pending"] ELSE p.recs[m]]
<1>1. /\ Store /\ PageOK(p, made, kept, Sends, withdrawn, access) /\ p \in PageType
      /\ Loading(p) /\ DOMAIN made \subseteq Msg /\ Awake(t, p, made)
  BY Facts DEF Wake
<1>2. PICK r : r = [p EXCEPT !.timer = @ \ {ch}, !.recs = recs]
  OBVIOUS
<1>3. PICK q : q = Pump(t, r, ch) /\ page' = [page EXCEPT ![t] = q]
  BY <1>2 DEF Wake, BecomePumped, Become
<1>4. /\ UNCHANGED <<disk, made, log, access, kept, late, withdrawn>>
      /\ late \subseteq kept /\ withdrawn \subseteq Msg
  BY <1>1 DEF Wake, Store
<1>5. /\ recs \in [Msg -> Row] /\ \A m \in Msg : recs[m] = None <=> p.recs[m] = None
      /\ \A m \in Msg : recs[m] = p.recs[m] \/ made[m].ch = ch
  <2>1. \A m \in due : made[m].ch = ch /\ p.recs[m].status = "retrying" /\ m \in Msg
    BY DEF Line, Known
  <2>2. \A m \in due : p.recs[m] \in Rec /\ [p.recs[m] EXCEPT !.status = "pending"] \in Rec
    <3> SUFFICES ASSUME NEW m \in due PROVE p.recs[m] \in Rec /\ [p.recs[m] EXCEPT !.status = "pending"] \in Rec
      OBVIOUS
    <3>1. p.recs[m] \in Row /\ p.recs[m].status = "retrying"
      BY <1>1, <2>1 DEF PageType
    <3>2. p.recs[m] \in Rec
      BY <3>1 DEF Row, None
    <3> QED
      BY <3>2 DEF Rec
  <2>3. p.recs \in [Msg -> Row]
    BY <1>1 DEF PageType
  <2> HIDE DEF due, p
  <2>4. \A m \in Msg : recs[m] \in Row /\ (recs[m] = None <=> p.recs[m] = None) /\ (recs[m] = p.recs[m] \/ made[m].ch = ch)
    BY <2>1, <2>2, <2>3, RecRow
  <2> QED
    BY <2>4
<1> HIDE DEF recs, p
<1>6. /\ r \in PageType /\ r.recs = recs /\ r.writing = p.writing /\ r.issued = p.issued /\ r.flight = p.flight
      /\ r.timer = p.timer \ {ch} /\ SameLoad(p, r) /\ SameMarks(p, r)
  BY <1>1, <1>2, <1>5 DEF PageType, SameLoad, SameMarks
<1>7. PageOK(r, made, kept, Sends, withdrawn, access)
  <2>1. Backed(r, made, kept)
    BY <1>1, <1>5, <1>6 DEF PageOK, Sound, Backed, SameLoad
  <2>2. Issued(r)
    BY <1>1, <1>6 DEF PageOK, Sound, Issued
  <2>3. Removed(r, made, Sends, withdrawn, access)
    BY <1>1, <1>6 DEF PageOK, Sound, Removed, SameLoad, SameMarks
  <2>4. \A m \in Msg : Stored(r, kept, m)
    BY <1>1, <1>5, <1>6 DEF PageOK, Stored
  <2> QED
    BY <1>6, <2>1, <2>2, <2>3, <2>4 DEF PageOK, Sound
<1>8. AwakeBut(t, r, made, {ch})
  <2>1. AwakeBut(t, p, made, {ch})
    BY <1>1, AwakeIsBut
  <2>2. Keeps(p, r, made, {ch})
    BY <1>6 DEF Keeps, SameLoad
  <2>3. \A m \in Msg : r.recs[m] = None \/ r.recs[m] = p.recs[m] \/ made[m].ch \in {ch}
    BY <1>5, <1>6
  <2> QED
    BY <1>1, <2>1, <2>2, <2>3, KeepsAwake
<1>9. PageOK(q, made, kept, Sends, withdrawn, access) /\ Awake(t, q, made) /\ SameLoad(r, q)
  BY <1>1, <1>3, <1>7, <1>8, PumpAwakes
<1>10. Loading(q)
  BY <1>1, <1>6, <1>9 DEF Loading, SameLoad
<1> QED
  BY <1>3, <1>4, <1>9, <1>10, PageTurn

-----------------------------------------------------------------------------
(* Reading the storage, and adopting what closed tabs left.                *)

\* A page that only loads or adopts further than p.
Loads(p, q) ==
  /\ q \in PageType /\ q.recs = p.recs /\ q.writing = p.writing /\ q.issued = p.issued /\ q.timer = p.timer
  /\ q.flight = p.flight /\ SameMarks(p, q) /\ q.droppedChannels = p.droppedChannels /\ q.life = p.life
  /\ q.rows = p.rows

LEMMA LoadsOK ==
  ASSUME NEW p, NEW mk, NEW kp, NEW po, NEW wd, NEW ac, PageOK(p, mk, kp, po, wd, ac),
         NEW q, Loads(p, q), q.todo \subseteq DOMAIN mk
  PROVE  PageOK(q, mk, kp, po, wd, ac)
<1>1. Backed(q, mk, kp)
  BY DEF PageOK, Sound, Backed, Loads
<1>2. Issued(q)
  BY DEF PageOK, Sound, Issued, Loads
<1>3. Removed(q, mk, po, wd, ac)
  BY DEF PageOK, Sound, Removed, Loads, SameMarks
<1>4. \A m \in Msg : Stored(q, kp, m)
  BY DEF PageOK, Stored, Loads
<1> QED
  BY <1>1, <1>2, <1>3, <1>4 DEF PageOK, Sound, Loads

\* The lines of every record: pumped, each of them is on its way.
LEMMA PumpLines ==
  ASSUME Store, NEW t, NEW p, NEW kp, NEW po, NEW wd, NEW ac, PageOK(p, made, kp, po, wd, ac),
         NEW q, q = PumpAll(t, p, Lines(p))
  PROVE  PageOK(q, made, kp, po, wd, ac) /\ Awake(t, q, made) /\ SameLoad(p, q) /\ q.recs = p.recs
         /\ \A ch \in Channel : Queue(t, q, made, ch) # {} => Going(q, made, ch)
<1>1. Lines(p) \in SUBSET Channel
  BY DEF Lines, Known, PageOK, Sound, Backed, Store
<1>2. Pumped(p, q, made, kp) /\ \A ch \in Lines(p) : Queue(t, p, made, ch) # {} => Going(q, made, ch)
  BY <1>1, PumpMany
<1>3. PageOK(q, made, kp, po, wd, ac)
  BY <1>2, PumpedOK
<1>4. q.recs = p.recs /\ SameLoad(p, q)
  BY <1>2 DEF Pumped
<1>5. \A ch \in Channel : Queue(t, q, made, ch) # {} => Queue(t, p, made, ch) # {} /\ ch \in Lines(p)
  BY <1>4 DEF Queue, Lines, Known
<1>6. Awake(t, q, made)
  BY <1>2, <1>5 DEF Awake, AwakeBut, Attended
<1> QED
  BY <1>2, <1>3, <1>4, <1>5, <1>6

LEMMA LoadedOK ==
  ASSUME Store, NEW t, NEW p, NEW kp, NEW po, NEW wd, NEW ac, PageOK(p, made, kp, po, wd, ac),
         Awake(t, p, made), NEW q, q = Loaded(t, p)
  PROVE  PageOK(q, made, kp, po, wd, ac) /\ Awake(t, q, made) /\ Loading(q)
<1> DEFINE s == PumpAll(t, p, p.touched)
           foreign == {m \in Known(p) : p.recs[m].owner # t}
<1>1. PICK d : d = [s EXCEPT !.load = "idle", !.touched = {}]
  OBVIOUS
<1>2. q = IF ~ p.kicked THEN d
          ELSE IF foreign # {} THEN [d EXCEPT !.kicked = FALSE, !.todo = @ \cup foreign]
          ELSE [PumpAll(t, d, Lines(d)) EXCEPT !.kicked = FALSE]
  BY <1>1 DEF Loaded
<1>3. p \in PageType /\ p.touched \in SUBSET Channel /\ p.kicked \in BOOLEAN /\ foreign \subseteq Msg /\ foreign \subseteq DOMAIN made
  BY DEF PageOK, Sound, PageType, Known, Backed
<1>4. Pumped(p, s, made, kp) /\ \A ch \in p.touched : Queue(t, p, made, ch) # {} => Going(s, made, ch)
  BY <1>3, PumpMany
<1>5. PageOK(s, made, kp, po, wd, ac) /\ Keeps(p, s, made, {})
  BY <1>4, PumpedOK
<1>6. s.recs = p.recs /\ SameLoad(p, s) /\ s \in PageType
  BY <1>4 DEF Pumped
<1> HIDE DEF s, foreign
<1>7. Loads(s, d) /\ d.load = "idle" /\ d.kicked = s.kicked /\ d.todo = s.todo /\ d.touched = {}
  BY <1>1, <1>6 DEF Loads, PageType, SameMarks
<1>8. PageOK(d, made, kp, po, wd, ac)
  <2>1. d.todo \subseteq DOMAIN made
    BY <1>5, <1>7 DEF PageOK, Sound, Backed
  <2> QED
    BY <1>5, <1>7, <2>1, LoadsOK
<1>9. CASE ~ p.kicked
  <2>1. q = d
    BY <1>2, <1>9
  <2>2. ASSUME NEW ch \in Channel, Queue(t, d, made, ch) # {} PROVE Attended(d, made, ch)
    <3>1. Queue(t, p, made, ch) # {}
      BY <1>6, <1>7, <2>2 DEF Queue, Loads
    <3>2. Attended(p, made, ch)
      BY <3>1 DEF Awake, AwakeBut
    <3>3. Going(p, made, ch) => Going(s, made, ch)
      BY <1>5 DEF Keeps, Going, Store
    <3>4. Going(s, made, ch) => Going(d, made, ch)
      BY <1>7 DEF Loads, Going
    <3> QED
      BY <1>4, <1>6, <1>7, <1>9, <3>1, <3>2, <3>3, <3>4 DEF Attended, SameLoad
  <2>3. Awake(t, d, made)
    BY <2>2 DEF Awake, AwakeBut
  <2> QED
    BY <1>7, <1>8, <2>1, <2>3 DEF Loading
<1>10. CASE p.kicked /\ foreign # {}
  <2>1. q = [d EXCEPT !.kicked = FALSE, !.todo = @ \cup foreign]
    BY <1>2, <1>10
  <2>2. d \in PageType /\ d.todo \cup foreign \in SUBSET Msg
    BY <1>3, <1>7 DEF Loads, PageType
  <2>3. Loads(d, q) /\ q.load = "idle" /\ q.todo = d.todo \cup foreign
    BY <1>7, <2>1, <2>2 DEF Loads, PageType, SameMarks
  <2>4. PageOK(q, made, kp, po, wd, ac)
    <3>1. q.todo \subseteq DOMAIN made
      BY <1>3, <1>8, <2>3 DEF PageOK, Sound, Backed
    <3> QED
      BY <1>8, <2>3, <3>1, LoadsOK
  <2>5. Awake(t, q, made)
    BY <1>10, <2>3 DEF Awake, AwakeBut, Attended
  <2> QED
    BY <2>3, <2>4, <2>5 DEF Loading
<1>11. CASE p.kicked /\ foreign = {}
  <2>1. PICK e : e = PumpAll(t, d, Lines(d))
    OBVIOUS
  <2>2. q = [e EXCEPT !.kicked = FALSE]
    BY <1>2, <1>11, <2>1
  <2>3. /\ PageOK(e, made, kp, po, wd, ac) /\ SameLoad(d, e)
        /\ \A ch \in Channel : Queue(t, e, made, ch) # {} => Going(e, made, ch)
    BY <1>8, <2>1, PumpLines
  <2>4. Loads(e, q) /\ q.load = "idle" /\ q.todo = e.todo
    <3>1. e \in PageType /\ e.load = "idle"
      BY <1>7, <2>3 DEF PageOK, Sound, SameLoad
    <3> QED
      BY <2>2, <3>1 DEF Loads, PageType, SameMarks
  <2>5. PageOK(q, made, kp, po, wd, ac)
    <3>1. q.todo \subseteq DOMAIN made
      BY <2>3, <2>4 DEF PageOK, Sound, Backed
    <3> QED
      BY <2>3, <2>4, <3>1, LoadsOK
  <2>6. Awake(t, q, made)
    BY <2>3, <2>4 DEF Awake, AwakeBut, Attended, Queue, Going, Loads
  <2> QED
    BY <2>4, <2>5, <2>6 DEF Loading
<1> QED
  BY <1>9, <1>10, <1>11

\* A step of a load, and its end.
LEMMA FinishTurn ==
  ASSUME OutboxInv, NEW t \in Tab, NEW p, FinishLoad(t, p), p.load = "rows",
         PageOK(p, made, kept, Sends, withdrawn, access), Awake(t, p, made),
         UNCHANGED <<disk, made, log, access, kept, late, withdrawn>>
  PROVE  OutboxInv'
<1>1. Store /\ late \subseteq kept /\ withdrawn \subseteq Msg
  BY DEF OutboxInv, Store
<1>2. PICK q : q = (IF Rest(p) = {} THEN Loaded(t, p) ELSE p) /\ page' = [page EXCEPT ![t] = q]
  BY DEF FinishLoad, Become
<1>3. PageOK(q, made, kept, Sends, withdrawn, access) /\ Awake(t, q, made) /\ Loading(q)
  <2>1. CASE Rest(p) = {}
    <3>1. q = Loaded(t, p)
      BY <1>2, <2>1
    <3> QED
      BY <1>1, <3>1, LoadedOK
  <2>2. CASE Rest(p) # {}
    BY <1>2, <2>2 DEF Rest, Loading
  <2> QED
    BY <2>1, <2>2
<1> QED
  BY <1>1, <1>2, <1>3, PageTurn

LEMMA LoadReadStep ==
  ASSUME OutboxInv, NEW t \in Tab, LoadRead(t)
  PROVE  OutboxInv'
<1> DEFINE p == page[t]
<1>1. /\ Store /\ Kept /\ PageOK(p, made, kept, Sends, withdrawn, access) /\ p \in PageType
      /\ Loading(p) /\ Awake(t, p, made) /\ p.issued # <<>> /\ Head(p.issued) = NoMsg
  BY Facts DEF LoadRead
<1>2. PICK is : is = Tail(p.issued)
  OBVIOUS
<1>3. PICK q : q = [p EXCEPT !.load = "rows", !.rows = disk, !.issued = is]
  OBVIOUS
<1>4. FinishLoad(t, q) /\ UNCHANGED <<disk, made, log, access, kept, late, withdrawn>>
  BY <1>2, <1>3 DEF LoadRead
<1> HIDE DEF p
<1>5. /\ is \in Seq(Msg \cup {NoMsg})
      /\ \A i \in DOMAIN is : i \in Nat /\ i + 1 \in DOMAIN p.issued /\ is[i] = p.issued[i + 1]
  <2>1. p.issued \in Seq(Msg \cup {NoMsg})
    BY <1>1 DEF PageType
  <2> QED
    BY <1>1, <1>2, <2>1
<1>6. /\ q \in PageType /\ q.recs = p.recs /\ q.writing = p.writing /\ q.issued = is /\ q.timer = p.timer
      /\ q.flight = p.flight /\ SameMarks(p, q) /\ q.droppedChannels = p.droppedChannels
      /\ q.rows = disk /\ q.load = "rows" /\ q.todo = p.todo /\ q.kicked = p.kicked /\ q.touched = p.touched
  BY <1>1, <1>3, <1>5 DEF PageType, SameMarks, Store
<1>7. PageOK(q, made, kept, Sends, withdrawn, access)
  <2>1. Backed(q, made, kept)
    BY <1>1, <1>6 DEF PageOK, Sound, Backed, Kept
  <2>2. Issued(q)
    <3>1. \A i \in DOMAIN is : is[i] # NoMsg => p.writing[is[i]] # <<>>
      BY <1>1, <1>5 DEF PageOK, Sound, Issued
    <3>2. ASSUME NEW i \in DOMAIN is, NEW j \in DOMAIN is, is[i] = is[j], i # j PROVE is[i] = NoMsg
      <4>1. i + 1 # j + 1
        BY <1>5, <3>2
      <4> QED
        BY <1>1, <1>5, <3>2, <4>1 DEF PageOK, Sound, Issued
    <3> QED
      BY <1>6, <3>1, <3>2 DEF Issued
  <2>3. Removed(q, made, Sends, withdrawn, access)
    BY <1>1, <1>6 DEF PageOK, Sound, Removed, SameMarks
  <2>4. \A m \in Msg : Stored(q, kept, m)
    BY <1>1, <1>6 DEF PageOK, Stored
  <2> QED
    BY <1>6, <2>1, <2>2, <2>3, <2>4 DEF PageOK, Sound
<1>8. Awake(t, q, made)
  <2>1. Keeps(p, q, made, {})
    BY <1>6 DEF Keeps
  <2>2. DOMAIN made \subseteq Msg
    BY <1>1 DEF Store
  <2> QED
    BY <1>1, <1>6, <2>1, <2>2, KeepsAwake DEF Awake
<1> QED
  BY <1>4, <1>6, <1>7, <1>8, FinishTurn

\* The row a load takes next is gone from its copy.
LEMMA RowGone ==
  ASSUME NEW p, NEW mk, NEW kp, NEW po, NEW wd, NEW ac, PageOK(p, mk, kp, po, wd, ac), NEW m \in Msg,
         NEW w, w = [p.rows EXCEPT ![m] = None], NEW q, q = [p EXCEPT !.rows = w]
  PROVE  /\ PageOK(q, mk, kp, po, wd, ac) /\ q \in PageType /\ q.recs = p.recs /\ q.writing = p.writing /\ q.issued = p.issued
         /\ q.timer = p.timer /\ q.flight = p.flight /\ SameMarks(p, q) /\ q.droppedChannels = p.droppedChannels
         /\ q.load = p.load /\ q.todo = p.todo /\ q.kicked = p.kicked /\ q.touched = p.touched /\ q.life = p.life
         /\ q.lastCreatedAt = p.lastCreatedAt
         /\ \A n \in Msg : q.rows[n] = p.rows[n] \/ q.rows[n] = None
<1>1. p \in PageType /\ None \in Row
  BY DEF PageOK, Sound, Row
<1>2. w \in [Msg -> Row] /\ \A n \in Msg : w[n] = p.rows[n] \/ w[n] = None
  BY <1>1 DEF PageType
<1>3. /\ q \in PageType /\ q.recs = p.recs /\ q.writing = p.writing /\ q.issued = p.issued
      /\ q.timer = p.timer /\ q.flight = p.flight /\ SameMarks(p, q) /\ q.droppedChannels = p.droppedChannels
      /\ q.load = p.load /\ q.todo = p.todo /\ q.kicked = p.kicked /\ q.touched = p.touched /\ q.life = p.life
      /\ q.lastCreatedAt = p.lastCreatedAt /\ q.rows = w
  BY <1>1, <1>2 DEF PageType, SameMarks
<1>4. Backed(q, mk, kp)
  BY <1>2, <1>3 DEF PageOK, Sound, Backed
<1>5. Issued(q)
  BY <1>3 DEF PageOK, Sound, Issued
<1>6. Removed(q, mk, po, wd, ac)
  BY <1>3 DEF PageOK, Sound, Removed, SameMarks
<1>7. \A n \in Msg : Stored(q, kp, n)
  BY <1>3 DEF PageOK, Stored
<1> QED
  BY <1>2, <1>3, <1>4, <1>5, <1>6, <1>7 DEF PageOK, Sound

LEMMA TakeRowOK ==
  ASSUME Store, Kept, NEW t \in Tab, NEW p, PageOK(p, made, kept, Sends, withdrawn, access), Awake(t, p, made),
         p.load = "rows", NEW m \in Msg, p.rows[m] # None, NEW q, q = TakeRow(t, p, m)
  PROVE  PageOK(q, made, kept, Sends, withdrawn, access) /\ Awake(t, q, made) /\ q.load = "rows"
<1> DEFINE owner  == p.rows[m].owner
           orphan == owner # t /\ ~ TabAlive(owner)
           rec    == [status |-> IF p.rows[m].status = "failed" THEN "failed" ELSE "pending",
                      owner  |-> IF orphan THEN t ELSE owner]
           T      == p.touched \cup {made[m].ch}
           at     == Later(p.lastCreatedAt, made[m].at)
<1>1. p \in PageType /\ m \in kept /\ m \in DOMAIN made /\ DOMAIN made \subseteq Msg
  BY DEF PageOK, Sound, Backed, Store
<1>2. made[m].ch \in Channel /\ made[m].at \in Nat
  BY <1>1 DEF Store
<1>3. PICK w : w = [p.rows EXCEPT ![m] = None]
  OBVIOUS
<1>4. PICK d : d = [p EXCEPT !.rows = w]
  OBVIOUS
<1>5. PICK v : v = [d.recs EXCEPT ![m] = rec]
  OBVIOUS
<1>6. PICK r : r = [d EXCEPT !.recs = v, !.touched = T, !.lastCreatedAt = at]
  OBVIOUS
<1>7. /\ PageOK(d, made, kept, Sends, withdrawn, access) /\ d \in PageType /\ d.recs = p.recs /\ d.writing = p.writing /\ d.issued = p.issued
      /\ d.timer = p.timer /\ d.flight = p.flight /\ SameMarks(p, d) /\ d.droppedChannels = p.droppedChannels
      /\ d.load = p.load /\ d.todo = p.todo /\ d.kicked = p.kicked /\ d.touched = p.touched /\ d.lastCreatedAt = p.lastCreatedAt
  BY <1>3, <1>4, RowGone
<1>8. q = IF p.recs[m] # None THEN d
          ELSE IF made[m].ch \in p.droppedChannels THEN Unstore(d, m)
          ELSE IF orphan THEN Persist(r, m) ELSE r
  <2>1. r = [d EXCEPT !.recs[m] = rec, !.touched = @ \cup {made[m].ch}, !.lastCreatedAt = Later(@, made[m].at)]
    BY <1>5, <1>6, <1>7
  <2> QED
    BY <1>3, <1>4, <2>1 DEF TakeRow
<1>9. Awake(t, d, made)
  <2>1. Keeps(p, d, made, {})
    BY <1>7 DEF Keeps
  <2> QED
    BY <1>1, <1>7, <2>1, KeepsAwake DEF Awake
<1>10. rec \in Rec
  <2>1. p.rows[m] \in Rec
    BY <1>1 DEF PageType, Row
  <2> QED
    BY <2>1 DEF Rec
<1>11. T \in SUBSET Channel /\ at \in Nat
  BY <1>1, <1>2 DEF PageType, Later
<1> HIDE DEF rec, T, at, owner, orphan
<1>12. /\ Recorded(d, r, m) /\ r \in PageType /\ r.recs[m] = rec /\ r.timer = d.timer /\ r.touched = T /\ r.load = "rows"
       /\ r.kicked = d.kicked /\ r.todo = d.todo /\ r.writing = d.writing /\ r.flight = d.flight
       /\ \A n \in Msg \ {m} : r.recs[n] = d.recs[n]
  <2>1. rec \in Row /\ rec # None
    BY <1>10, RecRow
  <2>2. v \in [Msg -> Row] /\ v[m] = rec /\ \A n \in Msg \ {m} : v[n] = d.recs[n]
    BY <1>5, <1>7, <2>1 DEF PageType
  <2>3. v[m] # None
    BY <2>1, <2>2
  <2>4. /\ Recorded(d, r, m) /\ r \in PageType /\ r.recs = v /\ r.timer = d.timer /\ r.touched = T /\ r.load = d.load
        /\ r.kicked = d.kicked /\ r.todo = d.todo /\ r.writing = d.writing /\ r.flight = d.flight
    <3>1. d \in PageType
      BY <1>7
    <3> QED
      BY <1>6, <1>11, <2>2, <2>3, <3>1 DEF Recorded, PageType, SameMarks
  <2> QED
    BY <1>7, <2>2, <2>4
<1>13. Awake(t, r, made)
  <2>1. Keeps(d, r, made, {made[m].ch})
    BY <1>7, <1>12 DEF Keeps, T
  <2>2. AwakeBut(t, d, made, {made[m].ch})
    BY <1>9, AwakeIsBut
  <2>3. \A n \in Msg : r.recs[n] = d.recs[n] \/ made[n].ch \in {made[m].ch}
    BY <1>12
  <2>4. AwakeBut(t, r, made, {made[m].ch})
    BY <1>1, <2>1, <2>2, <2>3, KeepsAwake
  <2>5. Attended(r, made, made[m].ch)
    BY <1>12 DEF Attended, T
  <2> QED
    BY <2>4, <2>5 DEF Awake, AwakeBut
<1>14. CASE p.recs[m] # None
  BY <1>7, <1>8, <1>9, <1>14
<1>15. CASE p.recs[m] = None /\ made[m].ch \in p.droppedChannels
  <2> DEFINE op == [row |-> None, pump |-> FALSE]
  <2>1. op \in Op /\ op.row = None
    BY DEF Op, Row
  <2>2. q = Chain(d, m, op.row, op.pump)
    BY <1>8, <1>15 DEF Unstore
  <2>3. Given(made, Sends, withdrawn, access, m)
    <3>1. access[made[m].ch] # "granted"
      BY <1>2, <1>15 DEF PageOK, Sound, Removed
    <3>2. access[made[m].ch] \in {"granted", "revoked", "regranted"}
      BY <1>2 DEF Store
    <3> QED
      BY <1>1, <3>1, <3>2 DEF Given, Kept
  <2> HIDE DEF op
  <2>4. d.recs[m] = None
    BY <1>7, <1>15
  <2>5. PageOK(q, made, kept, Sends, withdrawn, access)
    <3>1. Sound(d, made, kept, Sends, withdrawn, access) /\ \A n \in Msg \ {m} : Stored(d, kept, n)
      BY <1>7 DEF PageOK
    <3> QED
      BY <1>1, <2>1, <2>2, <2>3, <2>4, <3>1, ChainSound
  <2>6. q.recs = d.recs /\ SameLoad(d, q)
    BY <1>7, <2>1, <2>2, ChainFacts
  <2>7. Keeps(d, q, made, {})
    BY <1>7, <2>1, <2>2, ChainKeeps
  <2>8. Awake(t, q, made)
    BY <1>1, <1>9, <2>6, <2>7, KeepsAwake DEF Awake
  <2> QED
    BY <1>7, <2>5, <2>6, <2>8 DEF SameLoad
<1>16. CASE p.recs[m] = None /\ made[m].ch \notin p.droppedChannels /\ orphan
  <2> DEFINE op == [row |-> rec, pump |-> FALSE]
  <2>1. op \in Op
    BY <1>10, RecRow DEF Op
  <2>2. q = Chain(r, m, op.row, op.pump)
    BY <1>8, <1>12, <1>16 DEF Persist
  <2>3. op.row = r.recs[m]
    BY <1>12
  <2> HIDE DEF op
  <2>4. PageOK(q, made, kept, Sends, withdrawn, access)
    BY <1>1, <1>7, <1>12, <2>1, <2>2, <2>3, PersistOK
  <2>5. q.recs = r.recs /\ SameLoad(r, q)
    BY <1>12, <2>1, <2>2, ChainFacts
  <2>6. Keeps(r, q, made, {})
    BY <1>12, <2>1, <2>2, ChainKeeps
  <2>7. Awake(t, q, made)
    BY <1>1, <1>13, <2>5, <2>6, KeepsAwake DEF Awake
  <2> QED
    BY <1>12, <2>4, <2>5, <2>7 DEF SameLoad
<1>17. CASE p.recs[m] = None /\ made[m].ch \notin p.droppedChannels /\ ~ orphan
  <2>1. q = r
    BY <1>8, <1>17
  <2>2. PageOK(r, made, kept, Sends, withdrawn, access)
    <3>1. Sound(r, made, kept, Sends, withdrawn, access) /\ \A n \in Msg \ {m} : Stored(r, kept, n)
      BY <1>1, <1>7, <1>12, RecordedSound
    <3>2. Stored(r, kept, m)
      BY <1>1 DEF Stored
    <3> QED
      BY <3>1, <3>2 DEF PageOK
  <2> QED
    BY <1>12, <1>13, <2>1, <2>2
<1> QED
  BY <1>14, <1>15, <1>16, <1>17

LEMMA LoadRowStep ==
  ASSUME OutboxInv, NEW t \in Tab, LoadRow(t)
  PROVE  OutboxInv'
<1> DEFINE p == page[t]
           m == Oldest(Rest(p))
<1>1. /\ Store /\ Kept /\ PageOK(p, made, kept, Sends, withdrawn, access)
      /\ Loading(p) /\ Awake(t, p, made) /\ p.load = "rows"
  BY Facts DEF LoadRow
<1>2. m \in Msg /\ p.rows[m] # None
  <2>1. Rest(p) \in SUBSET DOMAIN made /\ Rest(p) # {}
    BY <1>1 DEF Rest, Loading, PageOK, Sound, Backed, Store
  <2>2. Oldest(Rest(p)) \in Rest(p)
    BY <1>1, <2>1, OldestOf
  <2> QED
    BY <2>2 DEF Rest
<1>3. PICK q : q = TakeRow(t, p, m)
  OBVIOUS
<1>4. FinishLoad(t, q) /\ UNCHANGED <<disk, made, log, access, kept, late, withdrawn>>
  BY <1>3 DEF LoadRow
<1> HIDE DEF p, m
<1>5. PageOK(q, made, kept, Sends, withdrawn, access) /\ Awake(t, q, made) /\ q.load = "rows"
  BY <1>1, <1>2, <1>3, TakeRowOK
<1> QED
  BY <1>4, <1>5, FinishTurn

LEMMA PersistedOK ==
  ASSUME NEW d, NEW mk, NEW kp, NEW po, NEW wd, NEW ac, PageOK(d, mk, kp, po, wd, ac),
         NEW m \in Msg, m \in DOMAIN mk, d.recs[m] # None,
         NEW w, Recorded(d, w, m), NEW r, r = Persist(w, m)
  PROVE  PageOK(r, mk, kp, po, wd, ac) /\ SameLoad(w, r)
<1> DEFINE op == [row |-> w.recs[m], pump |-> FALSE]
<1>1. op \in Op /\ op.row = w.recs[m] /\ w \in PageType
  BY DEF Op, Recorded, PageType
<1>2. r = Chain(w, m, op.row, op.pump)
  BY DEF Persist
<1> HIDE DEF op
<1>3. PageOK(r, mk, kp, po, wd, ac)
  BY <1>1, <1>2, PersistOK
<1>4. SameLoad(w, r)
  BY <1>1, <1>2, ChainFacts
<1> QED
  BY <1>3, <1>4

LEMMA AdoptedOK ==
  ASSUME NEW t \in Tab, NEW d, NEW mk, NEW kp, NEW po, NEW wd, NEW ac, PageOK(d, mk, kp, po, wd, ac),
         NEW m \in Msg, m \in DOMAIN mk, d.recs[m] # None,
         NEW rec, rec = [d.recs[m] EXCEPT !.owner = t], NEW v, v = [d.recs EXCEPT ![m] = rec],
         NEW w, w = [d EXCEPT !.recs = v], NEW r, r = Persist(w, m)
  PROVE  PageOK(r, mk, kp, po, wd, ac) /\ SameLoad(d, r)
<1>1. d \in PageType /\ d.recs \in [Msg -> Row] /\ d.recs[m] \in Rec
  BY DEF PageOK, Sound, PageType, Row
<1>2. rec \in Rec
  BY <1>1 DEF Rec
<1>3. rec \in Row /\ rec # None
  BY <1>2, RecRow
<1>4. v \in [Msg -> Row] /\ v[m] = rec /\ \A n \in Msg \ {m} : v[n] = d.recs[n]
  BY <1>1, <1>3
<1>5. Recorded(d, w, m) /\ w.recs[m] = rec /\ SameLoad(d, w) /\ w \in PageType
  <2>1. v[m] # None
    BY <1>3, <1>4
  <2>2. Recorded(d, w, m) /\ w.recs = v /\ SameLoad(d, w)
    BY <1>1, <1>4, <2>1, SetRec
  <2> QED
    BY <1>4, <2>2 DEF Recorded
<1>6. PageOK(r, mk, kp, po, wd, ac) /\ SameLoad(w, r)
  BY <1>5, PersistedOK
<1> QED
  BY <1>5, <1>6 DEF SameLoad

LEMMA AdoptRowStep ==
  ASSUME OutboxInv, NEW t \in Tab, AdoptRow(t)
  PROVE  OutboxInv'
<1> DEFINE p == page[t]
           m == Oldest(p.todo)
<1>1. /\ Store /\ PageOK(p, made, kept, Sends, withdrawn, access) /\ p \in PageType
      /\ Loading(p) /\ DOMAIN made \subseteq Msg /\ p.todo # {} /\ p.todo \subseteq DOMAIN made
  BY Facts DEF AdoptRow, PageOK, Sound, Backed
<1>2. m \in Msg /\ m \in DOMAIN made /\ m \in p.todo
  BY <1>1, OldestOf
<1>3. PICK td : td = p.todo \ {m}
  OBVIOUS
<1>4. PICK d : d = [p EXCEPT !.todo = td]
  OBVIOUS
<1> DEFINE rec == [d.recs[m] EXCEPT !.owner = t]
<1>5. PICK v : v = [d.recs EXCEPT ![m] = rec]
  OBVIOUS
<1>6. PICK w : w = [d EXCEPT !.recs = v]
  OBVIOUS
<1>7. PICK r : /\ r = IF d.recs[m] = None \/ d.recs[m].owner = t \/ TabAlive(d.recs[m].owner) THEN d ELSE Persist(w, m)
               /\ page' = [page EXCEPT ![t] = IF r.todo = {} THEN PumpAll(t, r, Lines(r)) ELSE r]
  BY <1>3, <1>4, <1>5, <1>6 DEF AdoptRow, Become
<1>8. /\ UNCHANGED <<disk, made, log, access, kept, late, withdrawn>>
      /\ late \subseteq kept /\ withdrawn \subseteq Msg
  BY <1>1 DEF AdoptRow, Store
<1> HIDE DEF p, m
<1>9. Loads(p, d) /\ d.todo = td /\ d.load = p.load
  <2>1. td \in SUBSET Msg
    BY <1>1, <1>3 DEF PageType
  <2> QED
    BY <1>1, <1>4, <2>1 DEF Loads, PageType, SameMarks
<1>10. PageOK(d, made, kept, Sends, withdrawn, access) /\ d \in PageType
  <2>1. d.todo \subseteq DOMAIN made
    BY <1>1, <1>3, <1>9
  <2> QED
    BY <1>1, <1>9, <2>1, LoadsOK DEF Loads
<1>11. PageOK(r, made, kept, Sends, withdrawn, access) /\ r.load = d.load /\ r.rows = d.rows
  <2>1. CASE d.recs[m] = None \/ d.recs[m].owner = t \/ TabAlive(d.recs[m].owner)
    BY <1>7, <1>10, <2>1
  <2>2. CASE ~ (d.recs[m] = None \/ d.recs[m].owner = t \/ TabAlive(d.recs[m].owner))
    <3>1. r = Persist(w, m) /\ d.recs[m] # None
      BY <1>7, <2>2
    <3>2. PICK e : e = rec
      OBVIOUS
    <3>4. e = [d.recs[m] EXCEPT !.owner = t] /\ v = [d.recs EXCEPT ![m] = e]
      BY <1>5, <3>2
    <3> HIDE DEF rec
    <3>3. PageOK(r, made, kept, Sends, withdrawn, access) /\ SameLoad(d, r)
      BY <1>2, <1>6, <1>10, <3>1, <3>4, AdoptedOK
    <3> QED
      BY <3>3 DEF SameLoad
  <2> QED
    BY <2>1, <2>2
<1>12. PICK q : q = (IF r.todo = {} THEN PumpAll(t, r, Lines(r)) ELSE r) /\ page' = [page EXCEPT ![t] = q]
  BY <1>7
<1>13. PageOK(q, made, kept, Sends, withdrawn, access) /\ Awake(t, q, made) /\ q.load = r.load /\ q.rows = r.rows
  <2>1. CASE r.todo = {}
    <3>1. q = PumpAll(t, r, Lines(r))
      BY <1>12, <2>1
    <3>2. PageOK(q, made, kept, Sends, withdrawn, access) /\ Awake(t, q, made) /\ SameLoad(r, q)
      BY <1>1, <1>11, <3>1, PumpLines
    <3> QED
      BY <3>2 DEF SameLoad
  <2>2. CASE r.todo # {}
    BY <1>11, <1>12, <2>2 DEF Awake, AwakeBut, Attended
  <2> QED
    BY <2>1, <2>2
<1>14. Loading(q)
  BY <1>1, <1>9, <1>11, <1>13 DEF Loading, Loads
<1> QED
  BY <1>8, <1>12, <1>13, <1>14, PageTurn

LEMMA KickStep ==
  ASSUME OutboxInv, NEW t \in Tab, Kick(t)
  PROVE  OutboxInv'
<1> DEFINE p == page[t]
           recs == [m \in Msg |-> IF p.recs[m].status = "retrying" /\ ~ InFlight(p, m)
                                  THEN [p.recs[m] EXCEPT !.status = "pending"] ELSE p.recs[m]]
<1>1. /\ Store /\ PageOK(p, made, kept, Sends, withdrawn, access) /\ p \in PageType /\ Loading(p)
  BY Facts DEF Kick
<1>2. PICK d : d = [p EXCEPT !.recs = recs, !.timer = {}, !.kicked = TRUE]
  OBVIOUS
<1>3. PICK q : q = StartLoad(d) /\ page' = [page EXCEPT ![t] = q]
  BY <1>2 DEF Kick, Become
<1>4. /\ UNCHANGED <<disk, made, log, access, kept, late, withdrawn>>
      /\ late \subseteq kept /\ withdrawn \subseteq Msg
  BY <1>1 DEF Kick, Store
<1>5. recs \in [Msg -> Row] /\ \A m \in Msg : recs[m] = None <=> p.recs[m] = None
  <2>1. p.recs \in [Msg -> Row]
    BY <1>1 DEF PageType
  <2> HIDE DEF p
  <2>2. \A m \in Msg : recs[m] \in Row /\ (recs[m] = None <=> p.recs[m] = None)
    <3> SUFFICES ASSUME NEW m \in Msg PROVE recs[m] \in Row /\ (recs[m] = None <=> p.recs[m] = None)
      OBVIOUS
    <3>1. CASE p.recs[m].status = "retrying" /\ ~ InFlight(p, m)
      <4>1. p.recs[m] \in Rec
        BY <2>1, <3>1 DEF Row, None
      <4>2. [p.recs[m] EXCEPT !.status = "pending"] \in Rec
        BY <4>1 DEF Rec
      <4> QED
        BY <3>1, <4>1, <4>2, RecRow
    <3>2. CASE ~ (p.recs[m].status = "retrying" /\ ~ InFlight(p, m))
      BY <2>1, <3>2
    <3> QED
      BY <3>1, <3>2
  <2> QED
    BY <2>2
<1> HIDE DEF recs, p
<1>6. /\ d \in PageType /\ d.recs = recs /\ d.writing = p.writing /\ d.issued = p.issued /\ d.flight = p.flight
      /\ SameMarks(p, d) /\ d.droppedChannels = p.droppedChannels /\ d.load = p.load /\ d.rows = p.rows
      /\ d.kicked = TRUE /\ d.todo = p.todo
  BY <1>1, <1>2, <1>5 DEF PageType, SameMarks
<1>7. PageOK(d, made, kept, Sends, withdrawn, access)
  <2>1. Backed(d, made, kept)
    BY <1>1, <1>5, <1>6 DEF PageOK, Sound, Backed
  <2>2. Issued(d)
    BY <1>1, <1>6 DEF PageOK, Sound, Issued
  <2>3. Removed(d, made, Sends, withdrawn, access)
    BY <1>1, <1>6 DEF PageOK, Sound, Removed, SameMarks
  <2>4. \A m \in Msg : Stored(d, kept, m)
    BY <1>1, <1>5, <1>6 DEF PageOK, Stored
  <2> QED
    BY <1>6, <2>1, <2>2, <2>3, <2>4 DEF PageOK, Sound
<1>8. PICK is : is = Append(d.issued, NoMsg)
  OBVIOUS
<1>9. /\ is \in Seq(Msg \cup {NoMsg})
      /\ \A i \in DOMAIN is : is[i] = NoMsg \/ (i \in DOMAIN d.issued /\ is[i] = d.issued[i])
  <2>1. d.issued \in Seq(Msg \cup {NoMsg})
    BY <1>6 DEF PageType
  <2> QED
    BY <1>8, <2>1
<1>10. PageOK(q, made, kept, Sends, withdrawn, access) /\ q.load # "idle" /\ q.kicked = TRUE /\ q.rows = d.rows /\ (q.load = "rows" => d.load = "rows")
  <2>1. CASE d.load = "idle"
    <3>1. q = [d EXCEPT !.load = "read", !.issued = is]
      BY <1>3, <1>8, <2>1 DEF StartLoad
    <3>2. /\ q \in PageType /\ q.recs = d.recs /\ q.writing = d.writing /\ q.issued = is /\ q.flight = d.flight
          /\ SameMarks(d, q) /\ q.droppedChannels = d.droppedChannels /\ q.load = "read" /\ q.rows = d.rows
          /\ q.kicked = d.kicked /\ q.todo = d.todo
      BY <1>6, <1>9, <3>1 DEF PageType, SameMarks
    <3>3. Backed(q, made, kept)
      BY <1>7, <3>2 DEF PageOK, Sound, Backed
    <3>4. Issued(q)
      BY <1>7, <1>9, <3>2 DEF PageOK, Sound, Issued
    <3>5. Removed(q, made, Sends, withdrawn, access)
      BY <1>7, <3>2 DEF PageOK, Sound, Removed, SameMarks
    <3>6. \A m \in Msg : Stored(q, kept, m)
      BY <1>7, <3>2 DEF PageOK, Stored
    <3> QED
      BY <1>6, <3>2, <3>3, <3>4, <3>5, <3>6 DEF PageOK, Sound
  <2>2. CASE d.load # "idle"
    BY <1>3, <1>6, <1>7, <2>2 DEF StartLoad
  <2> QED
    BY <2>1, <2>2
<1>11. Awake(t, q, made)
  BY <1>10 DEF Awake, AwakeBut, Attended
<1>12. Loading(q)
  BY <1>1, <1>6, <1>10 DEF Loading
<1> QED
  BY <1>3, <1>4, <1>10, <1>11, <1>12, PageTurn

-----------------------------------------------------------------------------
(* Access is lost, and may come back.                                      *)

LEMMA RevokeStep ==
  ASSUME OutboxInv, NEW ch \in Channel, Revoke(ch)
  PROVE  OutboxInv'
<1>1. Store /\ Kept
  BY DEF OutboxInv
<1>2. /\ UNCHANGED <<page, disk, made, log, late, kept>> /\ access[ch] = "granted"
      /\ access' = [access EXCEPT ![ch] = "revoked"]
      /\ withdrawn' = withdrawn \cup {m \in DOMAIN made : made[m].ch = ch}
  BY DEF Revoke
<1>3. Sends' = Sends
  BY <1>2 DEF Sends, Posted, Server!Posted
<1>4. access' \in [Channel -> {"granted", "revoked", "regranted"}] /\ \A c \in Channel \ {ch} : access'[c] = access[c]
  BY <1>1, <1>2 DEF Store
<1>5. Grows(made, kept, Sends, withdrawn, access, made', kept', Sends', withdrawn', access')
  BY <1>1, <1>2, <1>3, <1>4 DEF Grows, Store
<1>6. Store'
  BY <1>1, <1>2, <1>4 DEF Store
<1>7. Kept'
  <2>1. \A m \in DOMAIN made : made[m].ch \in Channel
    BY <1>1 DEF Store
  <2>2. \A m \in Msg : Given(made, Sends, withdrawn, access, m) => Given(made', Sends', withdrawn', access', m)
    BY <1>2, <1>3, <1>4, <2>1 DEF Given
  <2>3. kept \subseteq Msg
    BY <1>1 DEF Store
  <2>4. \A m \in DOMAIN made : access'[made[m].ch] = "revoked" => m \in withdrawn'
    BY <1>1, <1>2, <1>4, <2>1 DEF Kept
  <2> QED
    BY <1>1, <1>2, <1>3, <2>2, <2>3, <2>4 DEF Kept
<1> QED
  BY <1>2, <1>5, <1>6, <1>7, NoTurn

LEMMA RegrantStep ==
  ASSUME OutboxInv, NEW ch \in Channel, Regrant(ch)
  PROVE  OutboxInv'
<1>1. Store /\ Kept
  BY DEF OutboxInv
<1>2. /\ UNCHANGED <<page, disk, made, log, late, kept, withdrawn>> /\ access[ch] = "revoked"
      /\ access' = [access EXCEPT ![ch] = "regranted"]
  BY DEF Regrant
<1>3. Sends' = Sends
  BY <1>2 DEF Sends, Posted, Server!Posted
<1>4. /\ access' \in [Channel -> {"granted", "revoked", "regranted"}] /\ access'[ch] = "regranted"
      /\ \A c \in Channel \ {ch} : access'[c] = access[c]
  BY <1>1, <1>2 DEF Store
<1>5. Grows(made, kept, Sends, withdrawn, access, made', kept', Sends', withdrawn', access')
  BY <1>1, <1>2, <1>3, <1>4 DEF Grows, Store
<1>6. Store'
  BY <1>1, <1>2, <1>4 DEF Store
<1>7. Kept'
  <2>1. \A m \in DOMAIN made : made[m].ch \in Channel
    BY <1>1 DEF Store
  <2>2. \A m \in Msg : Given(made, Sends, withdrawn, access, m) => Given(made', Sends', withdrawn', access', m)
    BY <1>2, <1>3, <1>4, <2>1 DEF Given
  <2>3. kept \subseteq Msg
    BY <1>1 DEF Store
  <2> QED
    BY <1>1, <1>2, <1>3, <1>4, <2>1, <2>2, <2>3 DEF Kept
<1> QED
  BY <1>2, <1>5, <1>6, <1>7, NoTurn

LEMMA DropChannelStep ==
  ASSUME OutboxInv, NEW t \in Tab, NEW ch \in Channel, DropChannel(t, ch)
  PROVE  OutboxInv'
<1> DEFINE p == page[t]
           gone == {m \in Known(p) : made[m].ch = ch}
           fresh == {m \in gone : p.writing[m] = <<>>}
           recs == [m \in Msg |-> IF m \in gone THEN None ELSE p.recs[m]]
           W == [m \in Msg |-> IF m \in gone THEN Unstore(p, m).writing[m] ELSE p.writing[m]]
           dropped == p.droppedChannels \cup {ch}
           marked == p.accessDropped \cup {m \in gone : InFlight(p, m)}
<1>1. /\ Store /\ Kept /\ PageOK(p, made, kept, Sends, withdrawn, access) /\ p \in PageType
      /\ Loading(p) /\ DOMAIN made \subseteq Msg /\ Awake(t, p, made) /\ access[ch] = "revoked"
  BY Facts DEF DropChannel, HasAccess
<1>2. PICK order \in Orders(fresh) : page' = [page EXCEPT ![t] = [p EXCEPT
          !.droppedChannels    = dropped,
          !.accessDropped      = marked,
          !.recs               = recs,
          !.discardAfterFlight = p.discardAfterFlight \ gone,
          !.settledInFlight    = p.settledInFlight \ gone,
          !.writing            = W,
          !.issued             = p.issued \o order]]
  BY DEF DropChannel, Become
<1>3. PICK is : is = p.issued \o order
  OBVIOUS
<1>4. PICK q : /\ q = [p EXCEPT !.droppedChannels = dropped, !.accessDropped = marked, !.recs = recs,
                                !.discardAfterFlight = p.discardAfterFlight \ gone,
                                !.settledInFlight = p.settledInFlight \ gone, !.writing = W, !.issued = is]
               /\ page' = [page EXCEPT ![t] = q]
  BY <1>2, <1>3
<1>5. /\ UNCHANGED <<disk, made, log, access, kept, late, withdrawn>>
      /\ late \subseteq kept /\ withdrawn \subseteq Msg
  BY <1>1 DEF DropChannel, Store
<1> HIDE DEF p
<1>6. gone \subseteq DOMAIN made /\ gone \subseteq Msg /\ \A m \in gone : made[m].ch = ch /\ m \in withdrawn
  BY <1>1 DEF Known, PageOK, Sound, Backed, Kept
<1>7. /\ order \in Seq(Msg) /\ \A i \in DOMAIN order : order[i] \in fresh
      /\ \A i, j \in DOMAIN order : order[i] = order[j] => i = j
  <2>1. IsFiniteSet(fresh)
    <3>1. fresh \subseteq DOMAIN made /\ IsFiniteSet(DOMAIN made)
      BY <1>1, <1>6 DEF Store
    <3> HIDE DEF fresh
    <3> QED
      BY <3>1, FS_Subset
  <2> HIDE DEF fresh
  <2>2. Cardinality(fresh) \in Nat
    BY <2>1, FS_CardinalityType
  <2>3. order \in [1 .. Cardinality(fresh) -> fresh] /\ \A i, j \in DOMAIN order : order[i] = order[j] => i = j
    BY <1>2 DEF Orders
  <2>4. fresh \subseteq Msg
    BY <1>6 DEF fresh
  <2> QED
    BY <2>2, <2>3, <2>4
<1> DEFINE op == [row |-> None, pump |-> FALSE]
<1>8. op \in Op /\ op.row = None
  BY DEF Op, Row
<1>9. /\ W \in [Msg -> Seq(Op)] /\ \A m \in gone : W[m] = Append(p.writing[m], op)
      /\ \A m \in Msg \ gone : W[m] = p.writing[m]
  <2>1. \A m \in Msg : p.writing[m] \in Seq(Op)
    BY <1>1 DEF PageType
  <2>2. ASSUME NEW m \in gone PROVE Unstore(p, m).writing[m] = Append(p.writing[m], op)
    <3>1. PICK u : u = Chain(p, m, op.row, op.pump)
      OBVIOUS
    <3>2. Unstore(p, m) = u
      BY <3>1 DEF Unstore
    <3> HIDE DEF op, gone
    <3>3. u.writing[m] = Append(p.writing[m], op)
      BY <1>1, <1>6, <1>8, <2>2, <3>1, ChainFacts
    <3> QED
      BY <3>2, <3>3
  <2> HIDE DEF op, gone
  <2>3. \A m \in gone : Append(p.writing[m], op) \in Seq(Op)
    BY <1>6, <1>8, <2>1
  <2> QED
    BY <1>6, <2>1, <2>2, <2>3
<1>10. /\ recs \in [Msg -> Row] /\ \A m \in gone : recs[m] = None
       /\ \A m \in Msg \ gone : recs[m] = p.recs[m]
  <2>1. None \in Row /\ p.recs \in [Msg -> Row]
    BY <1>1 DEF PageType, Row
  <2> HIDE DEF gone
  <2> QED
    BY <1>6, <2>1
<1>11. is \in Seq(Msg \cup {NoMsg}) /\ dropped \in SUBSET Channel /\ marked \in SUBSET Msg
  BY <1>1, <1>3, <1>6, <1>7 DEF PageType
<1>12. \A m \in fresh : m \in gone /\ p.writing[m] = <<>>
  OBVIOUS
<1>13. p.issued \in Seq(Msg \cup {NoMsg}) /\ p.discardAfterFlight \in SUBSET Msg /\ p.settledInFlight \in SUBSET Msg
  BY <1>1 DEF PageType
<1> HIDE DEF recs, W, marked, gone, fresh, op
<1>14. /\ q \in PageType /\ q.recs = recs /\ q.writing = W /\ q.issued = is /\ q.flight = p.flight /\ q.timer = p.timer
       /\ SameMarks(p, q) /\ q.droppedChannels = dropped /\ q.load = p.load /\ q.rows = p.rows /\ q.touched = p.touched
       /\ q.kicked = p.kicked /\ q.todo = p.todo
  BY <1>1, <1>4, <1>9, <1>10, <1>11, <1>13 DEF PageType, SameMarks
<1>15. \A m \in Msg : /\ p.writing[m] # <<>> => W[m] # <<>>
                      /\ W[m] # <<>> => p.writing[m] # <<>> \/ m \in gone
                      /\ \A i \in DOMAIN p.writing[m] : i \in DOMAIN W[m] /\ W[m][i] = p.writing[m][i]
                      /\ \A i \in DOMAIN W[m] : (i \in DOMAIN p.writing[m] /\ W[m][i] = p.writing[m][i]) \/ (m \in gone /\ W[m][i] = op)
                      /\ m \in gone => W[m] # <<>>
  <2> SUFFICES ASSUME NEW m \in Msg
               PROVE  /\ p.writing[m] # <<>> => W[m] # <<>>
                      /\ W[m] # <<>> => p.writing[m] # <<>> \/ m \in gone
                      /\ \A i \in DOMAIN p.writing[m] : i \in DOMAIN W[m] /\ W[m][i] = p.writing[m][i]
                      /\ \A i \in DOMAIN W[m] : (i \in DOMAIN p.writing[m] /\ W[m][i] = p.writing[m][i]) \/ (m \in gone /\ W[m][i] = op)
                      /\ m \in gone => W[m] # <<>>
    OBVIOUS
  <2>1. p.writing[m] \in Seq(Op)
    BY <1>1 DEF PageType
  <2>2. CASE m \in gone
    <3>1. W[m] = Append(p.writing[m], op)
      BY <1>9, <2>2
    <3>2. /\ Append(p.writing[m], op) # <<>> /\ DOMAIN p.writing[m] \subseteq DOMAIN Append(p.writing[m], op)
          /\ \A i \in DOMAIN p.writing[m] : Append(p.writing[m], op)[i] = p.writing[m][i]
          /\ \A i \in DOMAIN Append(p.writing[m], op) : i \notin DOMAIN p.writing[m] => Append(p.writing[m], op)[i] = op
      BY <1>8, <2>1, QueuedLast
    <3> QED
      BY <2>2, <3>1, <3>2
  <2>3. CASE m \notin gone
    BY <1>9, <2>3
  <2> QED
    BY <2>2, <2>3
<1>16. Backed(q, made, kept)
  BY <1>1, <1>6, <1>10, <1>14, <1>15 DEF PageOK, Sound, Backed
<1>17. Issued(q)
  <2>1. /\ DOMAIN is = 1 .. Len(p.issued) + Len(order) /\ Len(p.issued) \in Nat /\ Len(order) \in Nat
        /\ DOMAIN p.issued = 1 .. Len(p.issued) /\ DOMAIN order = 1 .. Len(order)
        /\ \A i \in 1 .. Len(p.issued) : is[i] = p.issued[i]
        /\ \A i \in 1 .. Len(order) : is[Len(p.issued) + i] = order[i]
    BY <1>3, <1>7, <1>13
  <2>2. \A i \in DOMAIN is : \/ i \in DOMAIN p.issued /\ is[i] = p.issued[i]
                             \/ i - Len(p.issued) \in DOMAIN order /\ is[i] = order[i - Len(p.issued)] /\ i \in Int
    <3> SUFFICES ASSUME NEW i \in DOMAIN is, i \notin DOMAIN p.issued
                 PROVE  i - Len(p.issued) \in DOMAIN order /\ is[i] = order[i - Len(p.issued)] /\ i \in Int
      BY <2>1
    <3>1. i - Len(p.issued) \in 1 .. Len(order) /\ i \in Int /\ Len(p.issued) + (i - Len(p.issued)) = i
      BY <2>1
    <3> QED
      BY <2>1, <3>1
  <2>3. \A i \in DOMAIN p.issued : p.issued[i] # NoMsg => p.writing[p.issued[i]] # <<>> /\ p.issued[i] \in Msg
    BY <1>1, <1>13 DEF PageOK, Sound, Issued
  <2>4. \A i \in DOMAIN order : order[i] \in gone /\ p.writing[order[i]] = <<>>
    BY <1>7, <1>12
  <2>5. \A i \in DOMAIN is : is[i] # NoMsg => W[is[i]] # <<>>
    BY <1>6, <1>15, <2>2, <2>3, <2>4
  <2>6. ASSUME NEW i \in DOMAIN is, NEW j \in DOMAIN is, is[i] = is[j], i # j PROVE is[i] = NoMsg
    <3>1. CASE i \in DOMAIN p.issued /\ is[i] = p.issued[i] /\ j \in DOMAIN p.issued /\ is[j] = p.issued[j]
      BY <1>1, <2>6, <3>1 DEF PageOK, Sound, Issued
    <3>2. CASE /\ i - Len(p.issued) \in DOMAIN order /\ is[i] = order[i - Len(p.issued)] /\ i \in Int
               /\ j - Len(p.issued) \in DOMAIN order /\ is[j] = order[j - Len(p.issued)] /\ j \in Int
      <4>1. i - Len(p.issued) = j - Len(p.issued)
        BY <1>7, <2>6, <3>2
      <4> QED
        BY <2>1, <2>6, <3>2, <4>1
    <3>3. CASE (i \in DOMAIN p.issued /\ is[i] = p.issued[i]) /\ (j - Len(p.issued) \in DOMAIN order /\ is[j] = order[j - Len(p.issued)])
      BY <2>3, <2>4, <2>6, <3>3
    <3>4. CASE (j \in DOMAIN p.issued /\ is[j] = p.issued[j]) /\ (i - Len(p.issued) \in DOMAIN order /\ is[i] = order[i - Len(p.issued)])
      BY <2>3, <2>4, <2>6, <3>4
    <3> QED
      BY <2>2, <3>1, <3>2, <3>3, <3>4
  <2> QED
    BY <1>14, <2>5, <2>6 DEF Issued
<1>18. Removed(q, made, Sends, withdrawn, access)
  <2>1. \A m \in Msg : \A i \in DOMAIN W[m] : W[m][i].row = None => Given(made, Sends, withdrawn, access, m)
    <3>1. \A m \in gone : Given(made, Sends, withdrawn, access, m)
      BY <1>6 DEF Given
    <3> QED
      BY <1>1, <1>15, <3>1 DEF PageOK, Sound, Removed
  <2>2. \A c \in dropped : access[c] # "granted"
    BY <1>1 DEF PageOK, Sound, Removed
  <2> QED
    BY <1>1, <1>14, <2>1, <2>2 DEF PageOK, Sound, Removed, SameMarks
<1>19. \A m \in Msg : Stored(q, kept, m)
  BY <1>1, <1>9, <1>10, <1>14 DEF PageOK, Stored
<1>20. Awake(t, q, made)
  <2>1. Keeps(p, q, made, {})
    BY <1>14, <1>15 DEF Keeps
  <2>2. \A m \in Msg : q.recs[m] = None \/ q.recs[m] = p.recs[m]
    BY <1>10, <1>14
  <2> QED
    BY <1>1, <2>1, <2>2, KeepsAwake DEF Awake
<1>21. PageOK(q, made, kept, Sends, withdrawn, access) /\ Loading(q)
  BY <1>1, <1>14, <1>16, <1>17, <1>18, <1>19 DEF PageOK, Sound, Loading
<1> QED
  BY <1>4, <1>5, <1>20, <1>21, PageTurn

-----------------------------------------------------------------------------
(* The theorems.                                                           *)

LEMMA InitInv == Init => OutboxInv
<1> SUFFICES ASSUME Init PROVE OutboxInv
  OBVIOUS
<1>1. /\ page = [t \in Tab |-> Blank] /\ disk = [m \in Msg |-> None] /\ made = [m \in {} |-> [tab |-> NoTab]]
      /\ log = [ch \in Channel |-> <<>>] /\ late = {} /\ access = [ch \in Channel |-> "granted"]
      /\ kept = {} /\ withdrawn = {}
  BY DEF Init, Server!Init
<1>2. DOMAIN made = {} /\ made = [m \in DOMAIN made |-> made[m]]
  BY <1>1
<1>3. Store
  <2>1. IsFiniteSet(DOMAIN made)
    BY <1>2, FS_EmptySet
  <2>2. log \in [Channel -> Seq(Msg)] /\ disk \in [Msg -> Row]
    BY <1>1 DEF Row
  <2> QED
    BY <1>1, <1>2, <2>1, <2>2 DEF Store
<1>4. Sends = {}
  BY <1>1 DEF Sends, Posted, Server!Posted, Server!Range
<1>5. Kept
  BY <1>1, <1>2, <1>4 DEF Kept
<1>6. ASSUME NEW t \in Tab
      PROVE  PageOK(page[t], made, kept, Sends, withdrawn, access) /\ Loading(page[t]) /\ Awake(t, page[t], made)
  <2>1. \A i \in DOMAIN Blank.issued : Blank.issued[i] = NoMsg
    BY BlankFacts
  <2>2. page[t] = Blank /\ Blank.load # "rows"
    BY <1>1, BlankFacts
  <2>3. PageOK(Blank, made, kept, Sends, withdrawn, access) /\ Loading(Blank) /\ Awake(t, Blank, made)
    BY <2>1, <2>2, BlankFacts, EmptyOK
  <2> QED
    BY <2>2, <2>3
<1> QED
  BY <1>1, <1>3, <1>5, <1>6 DEF OutboxInv

LEMMA StepInv == OutboxInv /\ [Next]_vars => OutboxInv'
<1> SUFFICES ASSUME OutboxInv, [Next]_vars PROVE OutboxInv'
  OBVIOUS
<1>1. CASE UNCHANGED vars
  <2>1. UNCHANGED <<page, disk, made, log, late, access, kept, withdrawn>>
    BY <1>1 DEF vars
  <2>2. Sends' = Sends
    BY <2>1 DEF Sends, Posted, Server!Posted
  <2>3. Store' /\ Kept'
    BY <2>1, <2>2 DEF OutboxInv, Store, Kept, Given
  <2>4. Grows(made, kept, Sends, withdrawn, access, made', kept', Sends', withdrawn', access')
    BY <2>1, <2>2 DEF Grows
  <2> QED
    BY <2>1, <2>3, <2>4, NoTurn
<1>2. ASSUME NEW t \in Tab,
             Open(t) \/ Close(t) \/ Kick(t) \/ DiskWrite(t) \/ LoadRead(t) \/ LoadRow(t) \/ AdoptRow(t)
      PROVE  OutboxInv'
  BY <1>2, OpenStep, CloseStep, KickStep, DiskWriteStep, LoadReadStep, LoadRowStep, AdoptRowStep
<1>3. ASSUME NEW t \in Tab, NEW m \in Msg,
             \/ \E ch \in Channel, now \in Clock : Enqueue(t, m, ch, now)
             \/ Retry(t, m) \/ Discard(t, m) \/ Settle(t, m)
      PROVE  OutboxInv'
  BY <1>3, EnqueueStep, RetryStep, DiscardStep, SettleStep
<1>4. ASSUME NEW t \in Tab, NEW ch \in Channel,
             \/ Accept(t, ch) \/ Refuse(t, ch)
             \/ AnswerOk(t, ch) \/ AnswerRefused(t, ch) \/ AnswerLost(t, ch)
             \/ Wake(t, ch) \/ DropChannel(t, ch)
      PROVE  OutboxInv'
  BY <1>4, AcceptStep, RefuseStep, AnswerOkStep, AnswerRefusedStep, AnswerLostStep, WakeStep, DropChannelStep
<1>5. ASSUME NEW m \in Msg, LateArrival(m) PROVE OutboxInv'
  BY <1>5, LateArrivalStep
<1>6. ASSUME NEW ch \in Channel, Revoke(ch) \/ Regrant(ch) PROVE OutboxInv'
  BY <1>6, RevokeStep, RegrantStep
<1> QED
  BY <1>1, <1>2, <1>3, <1>4, <1>5, <1>6 DEF Next

\* Memory, storage and queued writes never lose track of a send: the invariant above holds in
\* every state (outbox.ts: enqueue, persist, unstore, pump, attempt, load, adoptOrphans).
THEOREM OutboxInvariance == Spec => []OutboxInv
<1> QED
  BY InitInv, StepInv, PTL DEF Spec

\* "Durable first, network second" (outbox.ts): what goes to the network, arrives late or is
\* posted was written to storage before.
THEOREM StoredBeforeSent == Spec => []SentWasStored
<1>1. OutboxInv => SentWasStored
  BY DEF OutboxInv, Store, Kept, Sends, SentWasStored, PageOK, Sound, Backed, Mine
<1> QED
  BY <1>1, OutboxInvariance, PTL

\* A stored send stays stored until it is posted or given up, whatever a reload, a closed tab
\* or a lost answer does; but a channel that was lost and came back is still dropped by the
\* tabs that saw it go (droppedChannels, outbox.ts), and they remove what they read of it.
StoredTillDone ==
  \A m \in kept : \/ Posted(m) \/ m \in withdrawn \/ disk[m] # None
                  \/ m \in DOMAIN made /\ access[made[m].ch] = "regranted"

THEOREM StoredUnlessRegranted == Spec => []StoredTillDone
<1>1. OutboxInv => StoredTillDone
  BY DEF OutboxInv, Kept, Given, Sends, StoredTillDone
<1> QED
  BY <1>1, OutboxInvariance, PTL

\* Who writes the server's log, and who changes the access.
LEMMA Untouched ==
  ASSUME [Next]_vars
  PROVE  /\ log' = log \/ (\E t \in Tab, ch \in Channel : Accept(t, ch)) \/ \E m \in Msg : LateArrival(m)
         /\ access' = access \/ \E ch \in Channel : Revoke(ch) \/ Regrant(ch)
<1>1. CASE UNCHANGED vars
  BY <1>1 DEF vars
<1>2. ASSUME NEW t \in Tab,
             Open(t) \/ Close(t) \/ Kick(t) \/ DiskWrite(t) \/ LoadRead(t) \/ LoadRow(t) \/ AdoptRow(t)
      PROVE  log' = log /\ access' = access
  BY <1>2 DEF Open, Close, Kick, DiskWrite, LoadRead, LoadRow, AdoptRow
<1>3. ASSUME NEW t \in Tab, NEW m \in Msg,
             \/ \E ch \in Channel, now \in Clock : Enqueue(t, m, ch, now)
             \/ Retry(t, m) \/ Discard(t, m) \/ Settle(t, m)
      PROVE  log' = log /\ access' = access
  BY <1>3 DEF Enqueue, Retry, Discard, Settle
<1>4. ASSUME NEW t \in Tab, NEW ch \in Channel,
             \/ Refuse(t, ch) \/ AnswerOk(t, ch) \/ AnswerRefused(t, ch) \/ AnswerLost(t, ch)
             \/ Wake(t, ch) \/ DropChannel(t, ch)
      PROVE  log' = log /\ access' = access
  BY <1>4 DEF Refuse, AnswerOk, AnswerRefused, AnswerLost, Wake, DropChannel
<1>5. ASSUME NEW t \in Tab, NEW ch \in Channel, Accept(t, ch) PROVE access' = access
  BY <1>5 DEF Accept
<1>6. ASSUME NEW m \in Msg, LateArrival(m) PROVE access' = access
  BY <1>6 DEF LateArrival
<1>7. ASSUME NEW ch \in Channel, Revoke(ch) \/ Regrant(ch) PROVE log' = log
  BY <1>7 DEF Revoke, Regrant
<1> QED
  BY <1>1, <1>2, <1>3, <1>4, <1>5, <1>6, <1>7 DEF Next

NotRegranted == \A ch \in Channel : access[ch] # "regranted"

\* So where no channel comes back within the lifetime of a tab, nothing stored is ever lost.
THEOREM DurableAlways ==
  ASSUME ~ MayRegrant
  PROVE  Spec => []Durable
<1>1. Init => NotRegranted
  BY DEF Init, NotRegranted
<1>2. NotRegranted /\ OutboxInv /\ [Next]_vars => NotRegranted'
  <2> SUFFICES ASSUME NotRegranted, OutboxInv, [Next]_vars PROVE NotRegranted'
    OBVIOUS
  <2>1. CASE access' = access
    BY <2>1 DEF NotRegranted
  <2>2. ASSUME NEW ch \in Channel, Revoke(ch) PROVE NotRegranted'
    BY <2>2 DEF Revoke, NotRegranted, OutboxInv, Store
  <2>3. access' = access \/ \E ch \in Channel : Revoke(ch)
    <3>1. \A ch \in Channel : ~ Regrant(ch)
      BY DEF Regrant
    <3> QED
      BY <3>1, Untouched
  <2> QED
    BY <2>1, <2>2, <2>3
<1>3. OutboxInv /\ NotRegranted => Durable
  <2> SUFFICES ASSUME OutboxInv, NotRegranted PROVE Durable
    OBVIOUS
  <2>1. SentWasStored
    BY DEF OutboxInv, Store, Kept, Sends, SentWasStored, PageOK, Sound, Backed, Mine
  <2>2. \A m \in DOMAIN made : access[made[m].ch] # "regranted"
    BY DEF OutboxInv, Store, NotRegranted
  <2>3. \A m \in kept : Posted(m) \/ m \in withdrawn \/ disk[m] # None
    BY <2>2 DEF OutboxInv, Kept, Given, Sends
  <2> QED
    BY <2>1, <2>3 DEF Durable
<1> QED
  BY <1>1, <1>2, <1>3, OutboxInvariance, PTL DEF Spec

\* No wake-up of pump is lost: a tab with something to send on a channel has a request out
\* there, a timer, a write that will pump, or a load or an adoption that ends by pumping it.
THEOREM AlwaysAWakeup == Spec => []NoLostWakeup
<1>1. OutboxInv => NoLostWakeup
  <2> SUFFICES ASSUME OutboxInv, NEW t \in Tab, NEW ch \in Channel, IsOpen(t), Line(t, page[t], ch) # {}
               PROVE  Attended(page[t], made, ch)
    BY DEF NoLostWakeup, Attended, Going
  <2> QED
    BY LineIsQueue DEF OutboxInv, IsOpen, Awake, AwakeBut
<1> QED
  BY <1>1, OutboxInvariance, PTL

-----------------------------------------------------------------------------
(* A channel that was lost.  A tab that dropped it has none of its withdrawn sends in memory  *)
(* but those deleted on the wire, and each of them that is out carries a mark.             *)

Fields == {"life", "recs", "writing", "issued", "flight", "timer", "discardAfterFlight", "settledInFlight",
           "accessDropped", "droppedChannels", "accepted", "lastCreatedAt", "load", "rows", "touched", "kicked", "todo"}

\* A page by its fields only, whatever their values; memory holds only what was typed.
Fit(p, mk) ==
  /\ DOMAIN p = Fields /\ DOMAIN p.recs = Msg /\ DOMAIN p.flight = Channel
  /\ \A m \in Msg : p.recs[m] # None => m \in DOMAIN mk

\* What a page that dropped a channel owes to a withdrawn send of it.
Marked(p, mk, wd) ==
  /\ \A m \in Msg : p.recs[m] # None /\ mk[m].ch \in p.droppedChannels /\ m \in wd => m \in p.discardAfterFlight
  /\ \A ch \in Channel : p.flight[ch].id # NoMsg =>
       IF ch \in p.droppedChannels
         THEN p.flight[ch].id \in wd => p.flight[ch].id \in p.accessDropped \cup p.discardAfterFlight
         ELSE p.recs[p.flight[ch].id] # None

Hides(p, mk, wd) == Fit(p, mk) /\ Marked(p, mk, wd)

\* Nothing Hides speaks of differs.
Alike(p, q) ==
  /\ DOMAIN q = Fields /\ q.recs = p.recs /\ q.flight = p.flight /\ q.droppedChannels = p.droppedChannels
  /\ q.discardAfterFlight = p.discardAfterFlight /\ q.accessDropped = p.accessDropped /\ q.accepted = p.accepted

LEMMA AlikeHides ==
  ASSUME NEW p, NEW mk, NEW wd, Hides(p, mk, wd), NEW q, Alike(p, q)
  PROVE  Hides(q, mk, wd) /\ q.accepted = p.accepted
BY DEF Hides, Fit, Marked, Alike

LEMMA ChainHides ==
  ASSUME NEW p, NEW mk, NEW wd, Hides(p, mk, wd), NEW m, NEW row,
         NEW q, q = Chain(p, m, row, FALSE) \/ q = Chain(p, m, row, TRUE)
  PROVE  Hides(q, mk, wd) /\ q.accepted = p.accepted
<1>1. DOMAIN p = Fields
  BY DEF Hides, Fit
<1>2. Alike(p, q)
  BY <1>1 DEF Alike, Chain, Fields
<1> QED
  BY <1>2, AlikeHides

LEMMA ForgetHides ==
  ASSUME NEW p, NEW mk, NEW wd, Hides(p, mk, wd), NEW m \in Msg, ~ InFlight(p, m),
         NEW q, q = Forget(p, m)
  PROVE  Hides(q, mk, wd) /\ q.accepted = p.accepted /\ q.recs[m] = None
<1>1. DOMAIN p = Fields /\ DOMAIN p.recs = Msg /\ DOMAIN p.flight = Channel
  BY DEF Hides, Fit
<1>2. /\ DOMAIN q = Fields /\ q.flight = p.flight /\ q.droppedChannels = p.droppedChannels /\ q.accessDropped = p.accessDropped
      /\ q.discardAfterFlight = p.discardAfterFlight \ {m} /\ q.recs = [p.recs EXCEPT ![m] = None]
      /\ q.accepted = p.accepted
  BY <1>1 DEF Forget, Fields
<1>3. DOMAIN q.recs = Msg /\ q.recs[m] = None /\ \A n \in Msg : n # m => q.recs[n] = p.recs[n]
  BY <1>1, <1>2
<1>4. Fit(q, mk)
  BY <1>1, <1>2, <1>3 DEF Hides, Fit
<1>5. \A ch \in Channel : p.flight[ch].id # m
  BY DEF InFlight
<1>6. Marked(q, mk, wd)
  <2>1. ASSUME NEW ch \in Channel, p.flight[ch].id # NoMsg, ch \notin p.droppedChannels PROVE q.recs[p.flight[ch].id] # None
    <3>1. p.recs[p.flight[ch].id] # None
      BY <2>1 DEF Hides, Marked
    <3>2. q.recs = [n \in Msg |-> IF n = m THEN None ELSE p.recs[n]]
      BY <1>1, <1>2
    <3> QED
      BY <1>1, <1>2, <1>5, <3>1
  <2> QED
    BY <1>2, <1>3, <1>5, <2>1 DEF Hides, Marked
<1> QED
  BY <1>2, <1>3, <1>4, <1>6 DEF Hides

LEMMA DropHides ==
  ASSUME NEW p, NEW mk, NEW wd, Hides(p, mk, wd), NEW m \in Msg, ~ InFlight(p, m)
  PROVE  Hides(Drop(p, m), mk, wd) /\ Drop(p, m).accepted = p.accepted
<1>1. PICK f : f = Forget(p, m)
  OBVIOUS
<1>2. PICK d : d = Drop(p, m)
  OBVIOUS
<1>3. d = Chain(f, m, None, FALSE)
  BY <1>1, <1>2 DEF Drop, Unstore
<1>4. Hides(f, mk, wd) /\ f.accepted = p.accepted
  BY <1>1, ForgetHides
<1>5. Hides(d, mk, wd) /\ d.accepted = f.accepted
  <2>1. DOMAIN f = Fields
    BY <1>4 DEF Hides, Fit
  <2>2. Alike(f, d)
    BY <1>3, <2>1 DEF Alike, Chain, Fields
  <2> QED
    BY <1>4, <2>2, AlikeHides
<1> QED
  BY <1>2, <1>4, <1>5

\* pump: whom it sends is in memory.
LEMMA PumpHides ==
  ASSUME Store, NEW t, NEW p, NEW wd, Hides(p, made, wd), NEW ch \in Channel, NEW q, q = Pump(t, p, ch)
  PROVE  /\ Hides(q, made, wd) /\ q.recs = p.recs /\ q.droppedChannels = p.droppedChannels
         /\ q.discardAfterFlight = p.discardAfterFlight /\ q.accessDropped = p.accessDropped /\ q.accepted = p.accepted
         /\ \/ q.flight[ch] = p.flight[ch]
            \/ q.flight[ch].id \in Msg /\ p.recs[q.flight[ch].id] # None /\ made[q.flight[ch].id].ch = ch
<1> DEFINE line == Line(t, p, ch)
           m == Oldest(line)
<1>1. DOMAIN p = Fields /\ DOMAIN p.recs = Msg /\ DOMAIN p.flight = Channel
  BY DEF Hides, Fit
<1>2. line \subseteq DOMAIN made /\ \A n \in line : n \in Msg /\ made[n].ch = ch /\ p.recs[n] # None
  BY DEF Line, Known, Hides, Fit
<1>3. line # {} => m \in line
  <2> HIDE DEF line
  <2> QED
    BY <1>2, OldestOf
<1>4. \/ q = p
      \/ q = [p EXCEPT !.writing[m][Len(p.writing[m])].pump = TRUE]
      \/ q = [p EXCEPT !.timer = @ \cup {ch}]
      \/ line # {} /\ q = [p EXCEPT !.flight[ch] = [id |-> m, answer |-> "none"]]
  BY DEF Pump
<1> HIDE DEF m, line
<1>5. CASE line # {} /\ q = [p EXCEPT !.flight[ch] = [id |-> m, answer |-> "none"]]
  <2>1. /\ DOMAIN q = Fields /\ q.recs = p.recs /\ q.droppedChannels = p.droppedChannels /\ q.accessDropped = p.accessDropped
        /\ q.discardAfterFlight = p.discardAfterFlight /\ q.accepted = p.accepted
        /\ q.flight = [p.flight EXCEPT ![ch] = [id |-> m, answer |-> "none"]]
    BY <1>1, <1>5 DEF Fields
  <2>2. DOMAIN q.flight = Channel /\ q.flight[ch].id = m /\ \A c \in Channel : c # ch => q.flight[c] = p.flight[c]
    BY <1>1, <2>1
  <2>3. m \in Msg /\ made[m].ch = ch /\ p.recs[m] # None
    BY <1>2, <1>3, <1>5
  <2>4. Hides(q, made, wd)
    BY <1>1, <2>1, <2>2, <2>3 DEF Hides, Fit, Marked
  <2> QED
    BY <2>1, <2>2, <2>3, <2>4
<1>6. CASE \/ q = p
           \/ q = [p EXCEPT !.writing[m][Len(p.writing[m])].pump = TRUE]
           \/ q = [p EXCEPT !.timer = @ \cup {ch}]
  <2>1. Alike(p, q) /\ q.accepted = p.accepted
    BY <1>1, <1>6 DEF Alike, Fields
  <2> QED
    BY <2>1, AlikeHides DEF Alike
<1> QED
  BY <1>4, <1>5, <1>6

LEMMA PumpAllHides ==
  ASSUME Store, NEW t, NEW p, NEW wd, Hides(p, made, wd), NEW chs, NEW q, q = PumpAll(t, p, chs)
  PROVE  Hides(q, made, wd) /\ q.accepted = p.accepted /\ q.recs = p.recs
<1>1. DOMAIN p = Fields /\ DOMAIN p.recs = Msg /\ DOMAIN p.flight = Channel
  BY DEF Hides, Fit
<1>2. \A ch \in chs \cap Channel : \/ Pump(t, p, ch).flight[ch] = p.flight[ch]
                                  \/ LET m == Pump(t, p, ch).flight[ch].id IN m \in Msg /\ p.recs[m] # None /\ made[m].ch = ch
  BY PumpHides
<1>3. /\ DOMAIN q = Fields /\ q.recs = p.recs /\ q.droppedChannels = p.droppedChannels /\ q.accessDropped = p.accessDropped
      /\ q.discardAfterFlight = p.discardAfterFlight /\ q.accepted = p.accepted
      /\ q.flight = [ch \in Channel |-> IF ch \in chs THEN Pump(t, p, ch).flight[ch] ELSE p.flight[ch]]
  BY <1>1 DEF PumpAll, Fields
<1>4. \A ch \in Channel : \/ q.flight[ch] = p.flight[ch]
                          \/ LET m == q.flight[ch].id IN m \in Msg /\ p.recs[m] # None /\ made[m].ch = ch
  BY <1>2, <1>3
<1>5. DOMAIN q.flight = Channel
  BY <1>3
<1> QED
  BY <1>1, <1>3, <1>4, <1>5 DEF Hides, Fit, Marked

HidesInv == withdrawn \subseteq DOMAIN made /\ \A t \in Tab : Hides(page[t], made, withdrawn)

\* Nothing is shown as sent by this step.
Quiet == \A t \in Tab : page'[t].accepted \subseteq page[t].accepted

LEMMA HidesTurn ==
  ASSUME OutboxInv, HidesInv, NEW t \in Tab, NEW q, page' = [page EXCEPT ![t] = q],
         UNCHANGED <<made, withdrawn>>, Hides(q, made, withdrawn)
  PROVE  HidesInv' /\ (q.accepted \subseteq page[t].accepted => Quiet)
<1>1. \A u \in Tab : page'[u] = IF u = t THEN q ELSE page[u]
  BY DEF OutboxInv
<1> QED
  BY <1>1 DEF HidesInv, Quiet

\* A handler that ends with pump(ch).
LEMMA HidesPumped ==
  ASSUME OutboxInv, HidesInv, NEW t \in Tab, NEW p, NEW ch \in Channel, BecomePumped(t, p, ch),
         UNCHANGED <<made, withdrawn>>, Hides(p, made, withdrawn)
  PROVE  HidesInv' /\ (p.accepted \subseteq page[t].accepted => Quiet)
         /\ (page'[t].accepted = p.accepted) /\ \A u \in Tab \ {t} : page'[u] = page[u]
<1>1. PICK q : q = Pump(t, p, ch) /\ page' = [page EXCEPT ![t] = q]
  BY DEF BecomePumped, Become
<1>2. Hides(q, made, withdrawn) /\ q.accepted = p.accepted
  BY <1>1, PumpHides DEF OutboxInv
<1>3. page'[t] = q /\ \A u \in Tab \ {t} : page'[u] = page[u]
  BY <1>1 DEF OutboxInv
<1> QED
  BY <1>1, <1>2, <1>3, HidesTurn

LEMMA HidesBecome ==
  ASSUME OutboxInv, HidesInv, NEW t \in Tab, NEW p, Become(t, p),
         UNCHANGED <<made, withdrawn>>, Hides(p, made, withdrawn)
  PROVE  HidesInv' /\ (p.accepted \subseteq page[t].accepted => Quiet)
BY HidesTurn DEF Become

LEMMA HidesBlank ==
  ASSUME NEW mk, NEW wd, NEW p, DOMAIN p = Fields, p.recs = Blank.recs, p.flight = Blank.flight, p.droppedChannels = {}
  PROVE  Hides(p, mk, wd)
<1>1. p.recs = [m \in Msg |-> None] /\ p.flight = [ch \in Channel |-> [id |-> NoMsg, answer |-> "none"]]
  BY DEF Blank
<1> QED
  BY <1>1 DEF Hides, Fit, Marked

LEMMA OpenHides ==
  ASSUME OutboxInv, HidesInv, NEW t \in Tab, Open(t)
  PROVE  HidesInv' /\ Quiet
<1> DEFINE q == [Blank EXCEPT !.life = "open", !.load = "read", !.issued = <<NoMsg>>]
<1>1. DOMAIN q = Fields /\ q.recs = Blank.recs /\ q.flight = Blank.flight /\ q.droppedChannels = {} /\ q.accepted = {}
  BY DEF Blank, Fields
<1>2. Become(t, q) /\ UNCHANGED <<made, withdrawn>>
  BY DEF Open
<1> HIDE DEF q
<1> QED
  BY <1>1, <1>2, HidesBlank, HidesBecome

LEMMA CloseHides ==
  ASSUME OutboxInv, HidesInv, NEW t \in Tab, Close(t)
  PROVE  HidesInv' /\ Quiet
<1> DEFINE q == [Blank EXCEPT !.life = "gone"]
<1>1. DOMAIN q = Fields /\ q.recs = Blank.recs /\ q.flight = Blank.flight /\ q.droppedChannels = {} /\ q.accepted = {}
  BY DEF Blank, Fields
<1>2. Become(t, q) /\ UNCHANGED <<made, withdrawn>>
  BY DEF Close
<1> HIDE DEF q
<1> QED
  BY <1>1, <1>2, HidesBlank, HidesBecome

LEMMA HidesFacts ==
  ASSUME OutboxInv, HidesInv, NEW t \in Tab
  PROVE  /\ Hides(page[t], made, withdrawn) /\ DOMAIN page[t] = Fields /\ DOMAIN page[t].recs = Msg
         /\ DOMAIN page[t].flight = Channel
         /\ \A m \in Msg : page[t].recs[m] # None => m \in DOMAIN made /\ made[m].ch \in Channel
         /\ \A ch \in Channel : LET m == page[t].flight[ch].id IN
              m = NoMsg \/ (m \in Msg /\ m \in DOMAIN made /\ made[m].ch = ch)
         /\ Store /\ page[t] \in PageType
<1>1. Hides(page[t], made, withdrawn) /\ Store /\ PageOK(page[t], made, kept, Sends, withdrawn, access)
  BY DEF HidesInv, OutboxInv
<1>2. Backed(page[t], made, kept) /\ page[t] \in PageType
  BY <1>1 DEF PageOK, Sound
<1>3. kept \subseteq Msg /\ \A m \in DOMAIN made : made[m].ch \in Channel
  BY <1>1 DEF Store
<1> QED
  BY <1>1, <1>2, <1>3 DEF Hides, Fit, Backed, Mine

LEMMA DiskWriteHides ==
  ASSUME OutboxInv, HidesInv, NEW t \in Tab, DiskWrite(t)
  PROVE  HidesInv' /\ Quiet
<1> DEFINE m == Head(page[t].issued)
           op == Head(page[t].writing[m])
           rest == Tail(page[t].writing[m])
           p == [page[t] EXCEPT !.writing[m] = rest, !.issued = IF rest = <<>> THEN Tail(@) ELSE Append(Tail(@), m)]
<1>1. UNCHANGED <<made, withdrawn>> /\ (IF op.pump THEN BecomePumped(t, p, made[m].ch) ELSE Become(t, p))
  BY DEF DiskWrite
<1>2. page[t].issued # <<>> /\ m # NoMsg
  BY DEF DiskWrite
<1>3. Issued(page[t]) /\ Backed(page[t], made, kept) /\ page[t] \in PageType /\ Store
  BY DEF OutboxInv, PageOK, Sound
<1>4. m \in Msg /\ made[m].ch \in Channel
  <2>1. page[t].issued \in Seq(Msg \cup {NoMsg})
    BY <1>3 DEF PageType
  <2>2. 1 \in DOMAIN page[t].issued /\ m = page[t].issued[1]
    BY <1>2, <2>1
  <2>3. page[t].writing[m] # <<>> /\ m \in Msg
    BY <1>2, <1>3, <2>1, <2>2 DEF Issued
  <2> QED
    BY <1>3, <2>3 DEF Backed, Store
<1>5. Hides(page[t], made, withdrawn) /\ DOMAIN page[t] = Fields
  BY HidesFacts
<1> HIDE DEF m, op, rest
<1>6. Alike(page[t], p)
  BY <1>5 DEF Alike, Fields
<1> HIDE DEF p
<1>7. Hides(p, made, withdrawn) /\ p.accepted = page[t].accepted
  BY <1>5, <1>6, AlikeHides
<1>8. CASE op.pump
  BY <1>1, <1>4, <1>7, <1>8, HidesPumped
<1>9. CASE ~ op.pump
  BY <1>1, <1>7, <1>9, HidesBecome
<1> QED
  BY <1>8, <1>9

\* A record that was there changes.
LEMMA RecHides ==
  ASSUME NEW p, NEW mk, NEW wd, Hides(p, mk, wd), NEW q, DOMAIN q = Fields, DOMAIN q.recs = Msg,
         \A m \in Msg : q.recs[m] # None <=> p.recs[m] # None,
         q.flight = p.flight, \A ch \in Channel : p.flight[ch].id \in Msg \cup {NoMsg},
         q.droppedChannels = p.droppedChannels,
         q.discardAfterFlight = p.discardAfterFlight, q.accessDropped = p.accessDropped
  PROVE  Hides(q, mk, wd)
BY DEF Hides, Fit, Marked

LEMMA RetryHides ==
  ASSUME OutboxInv, HidesInv, NEW t \in Tab, NEW m \in Msg, Retry(t, m)
  PROVE  HidesInv' /\ Quiet
<1> DEFINE rec == [status |-> "pending", owner |-> t]
           p == [page[t] EXCEPT !.recs[m] = rec]
<1>1. /\ Hides(page[t], made, withdrawn) /\ DOMAIN page[t] = Fields /\ DOMAIN page[t].recs = Msg
      /\ \A ch \in Channel : page[t].flight[ch].id \in Msg \cup {NoMsg}
  BY HidesFacts
<1>2. Become(t, PersistThenPump(p, m)) /\ UNCHANGED <<made, withdrawn>> /\ page[t].recs[m].status = "failed"
  BY DEF Retry
<1>3. page[t].recs[m] # None /\ rec # None
  BY <1>2 DEF None
<1> HIDE DEF rec
<1>4. /\ DOMAIN p = Fields /\ p.flight = page[t].flight /\ p.droppedChannels = page[t].droppedChannels
      /\ p.discardAfterFlight = page[t].discardAfterFlight /\ p.accessDropped = page[t].accessDropped
      /\ p.accepted = page[t].accepted /\ p.recs = [page[t].recs EXCEPT ![m] = rec]
  BY <1>1 DEF Fields
<1> HIDE DEF p
<1>5. DOMAIN p.recs = Msg /\ \A n \in Msg : p.recs[n] # None <=> page[t].recs[n] # None
  BY <1>1, <1>3, <1>4
<1>6. Hides(p, made, withdrawn)
  BY <1>1, <1>4, <1>5, RecHides
<1>7. Hides(PersistThenPump(p, m), made, withdrawn) /\ PersistThenPump(p, m).accepted = p.accepted
  <2>1. PICK row : row = p.recs[m]
    OBVIOUS
  <2>2. PICK c : c = PersistThenPump(p, m)
    OBVIOUS
  <2>3. c = Chain(p, m, row, TRUE)
    BY <2>1, <2>2 DEF PersistThenPump
  <2>4. Hides(c, made, withdrawn) /\ c.accepted = p.accepted
    BY <1>6, <2>3, ChainHides
  <2> QED
    BY <2>2, <2>4
<1> QED
  BY <1>2, <1>4, <1>7, HidesBecome

\* A mark of a send that is out.
LEMMA MarkHides ==
  ASSUME NEW p, NEW mk, NEW wd, Hides(p, mk, wd), NEW d, p.discardAfterFlight \subseteq d,
         NEW q, q = [p EXCEPT !.discardAfterFlight = d]
  PROVE  Hides(q, mk, wd) /\ q.accepted = p.accepted
<1>1. DOMAIN p = Fields
  BY DEF Hides, Fit
<1>2. /\ DOMAIN q = Fields /\ q.recs = p.recs /\ q.flight = p.flight /\ q.droppedChannels = p.droppedChannels
      /\ q.discardAfterFlight = d /\ q.accessDropped = p.accessDropped /\ q.accepted = p.accepted
  BY <1>1 DEF Fields
<1> QED
  BY <1>2 DEF Hides, Fit, Marked

Lone == ~ MayDiscard \/ \A t, u \in Tab : t = u

LEMMA DiscardHides ==
  ASSUME Lone, OutboxInv, HidesInv, NEW t \in Tab, NEW m \in Msg, Discard(t, m)
  PROVE  HidesInv' /\ Quiet
<1> DEFINE p == page[t]
<1>1. /\ Hides(p, made, withdrawn) /\ Store /\ DOMAIN p = Fields
      /\ \A n \in Msg : p.recs[n] # None => n \in DOMAIN made /\ made[n].ch \in Channel
  BY HidesFacts
<1>2. /\ made' = made /\ withdrawn' = withdrawn \cup {m} /\ p.recs[m] # None /\ \A u \in Tab : u = t
      /\ IF InFlight(p, m) THEN Become(t, [p EXCEPT !.discardAfterFlight = @ \cup {m}])
         ELSE BecomePumped(t, Drop(p, m), made[m].ch)
  BY DEF Discard, Lone
<1>3. withdrawn' \subseteq DOMAIN made'
  BY <1>1, <1>2 DEF HidesInv
<1> HIDE DEF p
<1>4. ASSUME NEW q, page' = [page EXCEPT ![t] = q], Hides(q, made, withdrawn'), q.accepted = p.accepted
      PROVE  HidesInv' /\ Quiet
  <2>1. page'[t] = q
    BY <1>4 DEF OutboxInv
  <2> QED
    BY <1>2, <1>3, <1>4, <2>1 DEF HidesInv, Quiet, p
<1>5. CASE InFlight(p, m)
  <2>1. PICK d : d = p.discardAfterFlight \cup {m}
    OBVIOUS
  <2>2. PICK q : q = [p EXCEPT !.discardAfterFlight = d]
    OBVIOUS
  <2>3. /\ DOMAIN q = Fields /\ q.recs = p.recs /\ q.flight = p.flight /\ q.droppedChannels = p.droppedChannels
        /\ q.discardAfterFlight = d /\ q.accessDropped = p.accessDropped /\ q.accepted = p.accepted
    BY <1>1, <2>2 DEF Fields
  <2>4. Hides(q, made, withdrawn')
    BY <1>1, <1>2, <2>1, <2>3 DEF Hides, Fit, Marked
  <2>5. page' = [page EXCEPT ![t] = q]
    BY <1>2, <1>5, <2>1, <2>2 DEF Become
  <2> QED
    BY <1>4, <2>3, <2>4, <2>5
<1>6. CASE ~ InFlight(p, m)
  <2>1. PICK f : f = Forget(p, m)
    OBVIOUS
  <2>2. Hides(f, made, withdrawn) /\ f.accepted = p.accepted /\ f.recs[m] = None /\ f.flight = p.flight
    <3>1. Hides(f, made, withdrawn) /\ f.accepted = p.accepted /\ f.recs[m] = None
      BY <1>1, <1>6, <2>1, ForgetHides
    <3>2. f.flight = p.flight
      BY <1>1, <2>1 DEF Forget, Fields
    <3> QED
      BY <3>1, <3>2
  <2>3. Hides(f, made, withdrawn')
    BY <1>2, <1>6, <2>2 DEF Hides, Fit, Marked, InFlight
  <2>4. PICK d : d = Chain(f, m, None, FALSE)
    OBVIOUS
  <2>5. Hides(d, made, withdrawn') /\ d.accepted = f.accepted
    BY <2>3, <2>4, ChainHides
  <2>6. PICK q : q = Pump(t, d, made[m].ch)
    OBVIOUS
  <2>7. page' = [page EXCEPT ![t] = q]
    BY <1>2, <1>6, <2>1, <2>4, <2>6 DEF BecomePumped, Become, Drop, Unstore
  <2>8. Hides(q, made, withdrawn') /\ q.accepted = d.accepted
    BY <1>1, <1>2, <2>5, <2>6, PumpHides
  <2> QED
    BY <1>4, <2>2, <2>5, <2>7, <2>8
<1> QED
  BY <1>5, <1>6

LEMMA SettleHides ==
  ASSUME OutboxInv, HidesInv, NEW t \in Tab, NEW m \in Msg, Settle(t, m)
  PROVE  HidesInv' /\ Quiet
<1> DEFINE p == page[t]
<1>1. /\ Hides(p, made, withdrawn) /\ DOMAIN p = Fields
      /\ \A n \in Msg : p.recs[n] # None => n \in DOMAIN made /\ made[n].ch \in Channel
  BY HidesFacts
<1>2. /\ UNCHANGED <<made, withdrawn>> /\ p.recs[m] # None
      /\ IF InFlight(p, m) THEN Become(t, [p EXCEPT !.settledInFlight = @ \cup {m}])
         ELSE BecomePumped(t, Drop(p, m), made[m].ch)
  BY DEF Settle
<1>3. CASE InFlight(p, m)
  <2>1. PICK q : q = [p EXCEPT !.settledInFlight = @ \cup {m}]
    OBVIOUS
  <2>2. Alike(p, q)
    BY <1>1, <2>1 DEF Alike, Fields
  <2>3. Hides(q, made, withdrawn) /\ q.accepted = p.accepted
    BY <1>1, <2>2, AlikeHides
  <2> QED
    BY <1>2, <1>3, <2>1, <2>3, HidesBecome
<1>4. CASE ~ InFlight(p, m)
  <2>1. PICK d : d = Drop(p, m)
    OBVIOUS
  <2>2. Hides(d, made, withdrawn) /\ d.accepted = p.accepted
    BY <1>1, <1>4, <2>1, DropHides
  <2> QED
    BY <1>1, <1>2, <1>4, <2>1, <2>2, HidesPumped
<1> QED
  BY <1>3, <1>4

LEMMA AnswerHides ==
  ASSUME OutboxInv, HidesInv, NEW t \in Tab, NEW ch \in Channel, Accept(t, ch) \/ Refuse(t, ch)
  PROVE  HidesInv' /\ Quiet
<1> DEFINE p == page[t]
<1>1. Hides(p, made, withdrawn) /\ p \in PageType
  BY HidesFacts
<1>2. PICK a \in {"ok", "final"} : Become(t, [p EXCEPT !.flight[ch].answer = a])
  BY DEF Accept, Refuse
<1>3. UNCHANGED <<made, withdrawn>>
  BY DEF Accept, Refuse
<1>4. PICK q : q = [p EXCEPT !.flight[ch].answer = a]
  OBVIOUS
<1> HIDE DEF p
<1>5. q \in PageType /\ q.recs = p.recs /\ \A c \in Channel : q.flight[c].id = p.flight[c].id
  BY <1>1, <1>4, SetAnswer
<1>6. /\ DOMAIN q = Fields /\ q.droppedChannels = p.droppedChannels /\ q.discardAfterFlight = p.discardAfterFlight
      /\ q.accessDropped = p.accessDropped /\ q.accepted = p.accepted
  BY <1>1, <1>4 DEF Hides, Fit, Fields
<1>7. DOMAIN q.flight = Channel
  BY <1>5 DEF PageType
<1>8. Hides(q, made, withdrawn)
  BY <1>1, <1>5, <1>6, <1>7 DEF Hides, Fit, Marked
<1> QED
  BY <1>2, <1>3, <1>4, <1>6, <1>8, HidesBecome DEF p

\* The flight of ch is over; the mark of an access that was lost goes with it.
LEMMA LandedHides ==
  ASSUME NEW p, NEW mk, NEW wd, Hides(p, mk, wd), NEW ch \in Channel,
         \A c \in Channel : c # ch => p.flight[c].id # p.flight[ch].id \/ p.flight[c].id = NoMsg,
         NEW q, q = Landed(p, ch)
  PROVE  /\ Hides(q, mk, wd) /\ q.accepted = p.accepted /\ q.recs = p.recs /\ DOMAIN q = Fields
         /\ q.discardAfterFlight = p.discardAfterFlight /\ q.droppedChannels = p.droppedChannels
         /\ q.flight[ch].id = NoMsg /\ \A c \in Channel : c # ch => q.flight[c] = p.flight[c]
<1>1. DOMAIN p = Fields /\ DOMAIN p.flight = Channel
  BY DEF Hides, Fit
<1>2. /\ DOMAIN q = Fields /\ q.recs = p.recs /\ q.droppedChannels = p.droppedChannels
      /\ q.discardAfterFlight = p.discardAfterFlight /\ q.accepted = p.accepted
      /\ q.accessDropped = p.accessDropped \ {p.flight[ch].id}
      /\ q.flight = [p.flight EXCEPT ![ch] = [id |-> NoMsg, answer |-> "none"]]
  BY <1>1 DEF Landed, Fields
<1>3. DOMAIN q.flight = Channel /\ q.flight[ch].id = NoMsg /\ \A c \in Channel : c # ch => q.flight[c] = p.flight[c]
  BY <1>1, <1>2
<1>4. Hides(q, mk, wd)
  BY <1>1, <1>2, <1>3 DEF Hides, Fit, Marked
<1> QED
  BY <1>2, <1>3, <1>4

\* No two requests of one page carry the same send.
LEMMA OneFlight ==
  ASSUME OutboxInv, HidesInv, NEW t \in Tab, NEW ch \in Channel, NEW c \in Channel, c # ch
  PROVE  page[t].flight[c].id # page[t].flight[ch].id \/ page[t].flight[c].id = NoMsg
BY HidesFacts

\* What is not out after the request on ch ended.
LEMMA NotOut ==
  ASSUME OutboxInv, HidesInv, NEW t \in Tab, NEW ch \in Channel, page[t].flight[ch].id # NoMsg,
         NEW r, r.flight[ch].id = NoMsg, \A c \in Channel : c # ch => r.flight[c] = page[t].flight[c]
  PROVE  ~ InFlight(r, page[t].flight[ch].id)
BY OneFlight DEF InFlight

LEMMA AnswerOkHides ==
  ASSUME OutboxInv, HidesInv, NEW t \in Tab, NEW ch \in Channel, AnswerOk(t, ch)
  PROVE  /\ HidesInv' /\ \A u \in Tab \ {t} : page'[u] = page[u]
         /\ LET m == page[t].flight[ch].id IN
            /\ page'[t].accepted \subseteq page[t].accepted \cup {m}
            /\ m \in DOMAIN made /\ made[m].ch = ch
            /\ m \in page[t].accessDropped => page'[t].accepted = page[t].accepted
<1> DEFINE p == page[t]
           m == p.flight[ch].id
<1>1. /\ Hides(p, made, withdrawn) /\ DOMAIN p = Fields /\ m \in Msg /\ m \in DOMAIN made /\ made[m].ch = ch /\ m # NoMsg
  BY HidesFacts DEF AnswerOk, Out
<1>2. PICK s : s = IF m \in p.accessDropped THEN p ELSE [p EXCEPT !.accepted = @ \cup {m}]
  OBVIOUS
<1>3. PICK r : r = Landed(s, ch)
  OBVIOUS
<1>4. PICK d : d = Drop(r, m)
  OBVIOUS
<1>5. BecomePumped(t, d, ch) /\ UNCHANGED <<made, withdrawn>>
  BY <1>2, <1>3, <1>4 DEF AnswerOk
<1>6. \A c \in Channel : c # ch => p.flight[c].id # m \/ p.flight[c].id = NoMsg
  BY OneFlight
<1> HIDE DEF p, m
<1>7. /\ DOMAIN s = Fields /\ s.recs = p.recs /\ s.flight = p.flight /\ s.droppedChannels = p.droppedChannels
      /\ s.discardAfterFlight = p.discardAfterFlight /\ s.accessDropped = p.accessDropped
      /\ s.accepted \subseteq p.accepted \cup {m} /\ (m \in p.accessDropped => s.accepted = p.accepted)
  BY <1>1, <1>2 DEF Fields
<1>8. Hides(s, made, withdrawn)
  BY <1>1, <1>7 DEF Hides, Fit, Marked
<1>9. /\ Hides(r, made, withdrawn) /\ r.accepted = s.accepted
      /\ r.flight[ch].id = NoMsg /\ \A c \in Channel : c # ch => r.flight[c] = p.flight[c]
  <2>1. \A c \in Channel : c # ch => s.flight[c].id # s.flight[ch].id \/ s.flight[c].id = NoMsg
    BY <1>6, <1>7 DEF m
  <2> QED
    BY <1>3, <1>7, <1>8, <2>1, LandedHides
<1>10. ~ InFlight(r, m)
  BY <1>1, <1>9, NotOut DEF p, m
<1>11. Hides(d, made, withdrawn) /\ d.accepted = r.accepted
  BY <1>1, <1>4, <1>9, <1>10, DropHides
<1>12. HidesInv' /\ page'[t].accepted = d.accepted /\ \A u \in Tab \ {t} : page'[u] = page[u]
  BY <1>5, <1>11, HidesPumped
<1> QED
  BY <1>1, <1>7, <1>9, <1>11, <1>12 DEF p, m

LEMMA AfterErrorHides ==
  ASSUME OutboxInv, HidesInv, NEW t \in Tab, NEW ch \in Channel, page[t].flight[ch].id # NoMsg,
         NEW st \in {"retrying", "failed"}, AfterError(t, ch, st), UNCHANGED <<made, withdrawn>>
  PROVE  HidesInv' /\ Quiet
<1> DEFINE p == page[t]
           m == p.flight[ch].id
<1>1. /\ Hides(p, made, withdrawn) /\ m \in Msg /\ p \in PageType
  BY HidesFacts
<1>2. PICK r : r = Landed(p, ch)
  OBVIOUS
<1>3. PICK rec : rec = [r.recs[m] EXCEPT !.status = st]
  OBVIOUS
<1>4. PICK w : w = [r EXCEPT !.recs[m] = rec]
  OBVIOUS
<1>5. PICK d : d = IF r.recs[m] = None THEN r
                   ELSE IF m \in r.discardAfterFlight \cup r.settledInFlight THEN Drop(r, m)
                   ELSE Persist(w, m)
  OBVIOUS
<1>6. BecomePumped(t, d, ch)
  BY <1>2, <1>3, <1>4, <1>5 DEF AfterError
<1>7. \A c \in Channel : c # ch => p.flight[c].id # p.flight[ch].id \/ p.flight[c].id = NoMsg
  BY OneFlight
<1>8. p.recs[m] # None => rec # None
  <2>1. p.recs \in [Msg -> Row] /\ r.recs = p.recs
    BY <1>1, <1>2 DEF PageType, Landed
  <2>2. p.recs[m] # None => p.recs[m] \in Rec
    BY <1>1, <2>1 DEF Row
  <2>3. p.recs[m] # None => rec \in Rec
    BY <1>3, <2>1, <2>2 DEF Rec
  <2> QED
    BY <2>3, RecRow
<1>9. ~ InFlight(r, m) /\ Hides(r, made, withdrawn) /\ r.accepted = p.accepted /\ r.recs = p.recs /\ DOMAIN r = Fields
  <2>1. /\ Hides(r, made, withdrawn) /\ r.accepted = p.accepted /\ r.recs = p.recs /\ DOMAIN r = Fields
        /\ r.flight[ch].id = NoMsg /\ \A c \in Channel : c # ch => r.flight[c] = p.flight[c]
    <3> HIDE DEF p, m
    <3> QED
      BY <1>1, <1>2, <1>7, LandedHides
  <2>2. ~ InFlight(r, m)
    BY <2>1, NotOut
  <2> QED
    BY <2>1, <2>2
<1>10. \A c \in Channel : r.flight[c].id \in Msg \cup {NoMsg}
  <2>1. r \in PageType
    BY <1>1, <1>2, LandedLands DEF Lands
  <2> QED
    BY <2>1 DEF PageType
<1> HIDE DEF p, m
<1>11. Hides(d, made, withdrawn) /\ d.accepted = p.accepted
  <2>1. CASE r.recs[m] = None
    BY <1>5, <1>9, <2>1
  <2>2. CASE r.recs[m] # None /\ m \in r.discardAfterFlight \cup r.settledInFlight
    <3>1. d = Drop(r, m)
      BY <1>5, <2>2
    <3> QED
      BY <1>1, <1>9, <3>1, DropHides
  <2>3. CASE r.recs[m] # None /\ m \notin r.discardAfterFlight \cup r.settledInFlight
    <3>1. PICK row : row = w.recs[m]
      OBVIOUS
    <3>2. d = Chain(w, m, row, FALSE)
      BY <1>5, <2>3, <3>1 DEF Persist
    <3>3. /\ DOMAIN w = Fields /\ w.flight = r.flight /\ w.droppedChannels = r.droppedChannels
          /\ w.discardAfterFlight = r.discardAfterFlight /\ w.accessDropped = r.accessDropped
          /\ w.accepted = r.accepted /\ w.recs = [r.recs EXCEPT ![m] = rec] /\ DOMAIN r.recs = Msg
      BY <1>4, <1>9 DEF Fields, Hides, Fit
    <3>4. DOMAIN w.recs = Msg /\ \A n \in Msg : w.recs[n] # None <=> r.recs[n] # None
      BY <1>8, <1>9, <2>3, <3>3
    <3>5. Hides(w, made, withdrawn)
      BY <1>9, <1>10, <3>3, <3>4, RecHides
    <3>6. Alike(w, d)
      BY <3>2, <3>3 DEF Alike, Chain, Fields
    <3>7. Hides(d, made, withdrawn) /\ d.accepted = w.accepted
      BY <3>5, <3>6, AlikeHides
    <3> QED
      BY <1>9, <3>3, <3>7
  <2> QED
    BY <2>1, <2>2, <2>3
<1> QED
  BY <1>6, <1>11, HidesPumped DEF p

LEMMA WakeHides ==
  ASSUME OutboxInv, HidesInv, NEW t \in Tab, NEW ch \in Channel, Wake(t, ch)
  PROVE  HidesInv' /\ Quiet
<1> DEFINE p == page[t]
           line == Line(t, p, ch)
           due == {m \in line : m = Oldest(line) /\ p.recs[m].status = "retrying"}
<1>1. Hides(p, made, withdrawn) /\ DOMAIN p = Fields /\ p \in PageType
  BY HidesFacts
<1>2. PICK recs : recs = [m \in Msg |-> IF m \in due THEN [p.recs[m] EXCEPT !.status = "pending"] ELSE p.recs[m]]
  OBVIOUS
<1>3. PICK r : r = [p EXCEPT !.timer = @ \ {ch}, !.recs = recs]
  OBVIOUS
<1>4. BecomePumped(t, r, ch) /\ UNCHANGED <<made, withdrawn>>
  BY <1>2, <1>3 DEF Wake
<1>5. \A m \in Msg : recs[m] # None <=> p.recs[m] # None
  <2> SUFFICES ASSUME NEW m \in Msg, m \in due PROVE recs[m] # None /\ p.recs[m] # None
    BY <1>2
  <2>1. p.recs[m] \in Rec /\ p.recs[m] # None
    BY <1>1 DEF Line, Known, PageType, Row
  <2>2. recs[m] = [p.recs[m] EXCEPT !.status = "pending"]
    BY <1>2
  <2>3. recs[m] \in Rec
    BY <2>1, <2>2 DEF Rec
  <2> QED
    BY <2>1, <2>3, RecRow
<1> HIDE DEF due, line, p
<1>6. /\ DOMAIN r = Fields /\ r.recs = recs /\ r.flight = p.flight /\ r.droppedChannels = p.droppedChannels
      /\ r.discardAfterFlight = p.discardAfterFlight /\ r.accessDropped = p.accessDropped /\ r.accepted = p.accepted
  BY <1>1, <1>3 DEF Fields
<1>7. DOMAIN recs = Msg /\ \A c \in Channel : p.flight[c].id \in Msg \cup {NoMsg}
  BY <1>1, <1>2 DEF PageType
<1>8. Hides(r, made, withdrawn)
  BY <1>1, <1>5, <1>6, <1>7, RecHides
<1> QED
  BY <1>4, <1>6, <1>8, HidesPumped DEF p

LEMMA KickHides ==
  ASSUME OutboxInv, HidesInv, NEW t \in Tab, Kick(t)
  PROVE  HidesInv' /\ Quiet
<1> DEFINE p == page[t]
<1>1. Hides(p, made, withdrawn) /\ DOMAIN p = Fields /\ p \in PageType
  BY HidesFacts
<1>2. PICK recs : recs = [m \in Msg |-> IF p.recs[m].status = "retrying" /\ ~ InFlight(p, m)
                                        THEN [p.recs[m] EXCEPT !.status = "pending"] ELSE p.recs[m]]
  OBVIOUS
<1>3. PICK r : r = [p EXCEPT !.recs = recs, !.timer = {}, !.kicked = TRUE]
  OBVIOUS
<1>4. PICK q : q = StartLoad(r)
  OBVIOUS
<1>5. Become(t, q) /\ UNCHANGED <<made, withdrawn>>
  BY <1>2, <1>3, <1>4 DEF Kick
<1>6. \A m \in Msg : recs[m] # None <=> p.recs[m] # None
  <2> SUFFICES ASSUME NEW m \in Msg, p.recs[m].status = "retrying", recs[m] = [p.recs[m] EXCEPT !.status = "pending"]
               PROVE  recs[m] # None /\ p.recs[m] # None
    BY <1>2
  <2>1. p.recs[m] # None
    BY DEF None
  <2>2. p.recs[m] \in Rec
    BY <1>1, <2>1 DEF PageType, Row
  <2>3. recs[m] \in Rec
    BY <2>2 DEF Rec
  <2> QED
    BY <2>1, <2>3, RecRow
<1> HIDE DEF p
<1>7. /\ DOMAIN r = Fields /\ r.recs = recs /\ r.flight = p.flight /\ r.droppedChannels = p.droppedChannels
      /\ r.discardAfterFlight = p.discardAfterFlight /\ r.accessDropped = p.accessDropped /\ r.accepted = p.accepted
  BY <1>1, <1>3 DEF Fields
<1>8. DOMAIN recs = Msg /\ \A c \in Channel : p.flight[c].id \in Msg \cup {NoMsg}
  BY <1>1, <1>2 DEF PageType
<1>9. Hides(r, made, withdrawn)
  BY <1>1, <1>6, <1>7, <1>8, RecHides
<1>10. Alike(r, q)
  BY <1>4, <1>7 DEF StartLoad, Alike, Fields
<1>11. Hides(q, made, withdrawn) /\ q.accepted = r.accepted
  BY <1>9, <1>10, AlikeHides
<1> QED
  BY <1>5, <1>7, <1>11, HidesBecome DEF p

LEMMA LoadedHides ==
  ASSUME Store, NEW t, NEW p, Hides(p, made, withdrawn), NEW q, q = Loaded(t, p)
  PROVE  Hides(q, made, withdrawn) /\ q.accepted = p.accepted
<1>1. PICK s : s = PumpAll(t, p, p.touched)
  OBVIOUS
<1>2. Hides(s, made, withdrawn) /\ s.accepted = p.accepted
  BY <1>1, PumpAllHides
<1>3. PICK d : d = [s EXCEPT !.load = "idle", !.touched = {}]
  OBVIOUS
<1>4. Hides(d, made, withdrawn) /\ d.accepted = p.accepted /\ DOMAIN d = Fields
  <2>1. DOMAIN s = Fields
    BY <1>2 DEF Hides, Fit
  <2>2. Alike(s, d)
    BY <1>3, <2>1 DEF Alike, Fields
  <2> QED
    BY <1>2, <2>2, AlikeHides DEF Alike
<1>5. PICK e : e = PumpAll(t, d, Lines(d))
  OBVIOUS
<1>6. Hides(e, made, withdrawn) /\ e.accepted = d.accepted /\ DOMAIN e = Fields
  BY <1>4, <1>5, PumpAllHides DEF Hides, Fit
<1>7. PICK T : T = {m \in Known(p) : p.recs[m].owner # t}
  OBVIOUS
<1>8. q = d \/ q = [d EXCEPT !.kicked = FALSE, !.todo = @ \cup T] \/ q = [e EXCEPT !.kicked = FALSE]
  BY <1>1, <1>3, <1>5, <1>7 DEF Loaded
<1>9. CASE q = d
  BY <1>4, <1>9
<1>10. CASE q = [d EXCEPT !.kicked = FALSE, !.todo = @ \cup T]
  <2>1. Alike(d, q)
    BY <1>4, <1>10 DEF Alike, Fields
  <2> QED
    BY <1>4, <2>1, AlikeHides
<1>11. CASE q = [e EXCEPT !.kicked = FALSE]
  <2>1. Alike(e, q)
    BY <1>6, <1>11 DEF Alike, Fields
  <2> QED
    BY <1>4, <1>6, <2>1, AlikeHides
<1> QED
  BY <1>8, <1>9, <1>10, <1>11

LEMMA HidesFinish ==
  ASSUME OutboxInv, HidesInv, NEW t \in Tab, NEW p, FinishLoad(t, p), UNCHANGED <<made, withdrawn>>,
         Hides(p, made, withdrawn), p.accepted = page[t].accepted
  PROVE  HidesInv' /\ Quiet
<1>1. PICK q : q = (IF Rest(p) = {} THEN Loaded(t, p) ELSE p) /\ page' = [page EXCEPT ![t] = q]
  BY DEF FinishLoad, Become
<1>2. Store
  BY DEF OutboxInv
<1>3. Hides(q, made, withdrawn) /\ q.accepted = p.accepted
  <2>1. CASE Rest(p) = {}
    <3>1. q = Loaded(t, p)
      BY <1>1, <2>1
    <3> QED
      BY <1>2, <3>1, LoadedHides
  <2>2. CASE Rest(p) # {}
    BY <1>1, <2>2
  <2> QED
    BY <2>1, <2>2
<1> QED
  BY <1>1, <1>3, HidesTurn

LEMMA LoadReadHides ==
  ASSUME OutboxInv, HidesInv, NEW t \in Tab, LoadRead(t)
  PROVE  HidesInv' /\ Quiet
<1>1. Hides(page[t], made, withdrawn) /\ DOMAIN page[t] = Fields
  BY HidesFacts
<1>2. PICK q : q = [page[t] EXCEPT !.load = "rows", !.rows = disk, !.issued = Tail(@)]
  OBVIOUS
<1>3. FinishLoad(t, q) /\ UNCHANGED <<made, withdrawn>>
  BY <1>2 DEF LoadRead
<1>4. Alike(page[t], q)
  BY <1>1, <1>2 DEF Alike, Fields
<1>5. Hides(q, made, withdrawn) /\ q.accepted = page[t].accepted
  BY <1>1, <1>4, AlikeHides
<1> QED
  BY <1>3, <1>5, HidesFinish

\* A row of a dropped channel is not taken into memory.
LEMMA LoadRowHides ==
  ASSUME OutboxInv, HidesInv, NEW t \in Tab, LoadRow(t)
  PROVE  HidesInv' /\ Quiet
<1> DEFINE p == page[t]
           m == Oldest(Rest(p))
           owner == p.rows[m].owner
           orphan == owner # t /\ ~ TabAlive(owner)
           rec == [status |-> IF p.rows[m].status = "failed" THEN "failed" ELSE "pending",
                   owner  |-> IF orphan THEN t ELSE owner]
<1>1. /\ Hides(p, made, withdrawn) /\ DOMAIN p = Fields /\ Store /\ Loading(p) /\ p.load = "rows"
      /\ PageOK(p, made, kept, Sends, withdrawn, access)
      /\ \A c \in Channel : p.flight[c].id \in Msg \cup {NoMsg}
  BY HidesFacts, Facts DEF LoadRow
<1>2. m \in Msg /\ m \in DOMAIN made
  <2>1. Rest(p) \in SUBSET DOMAIN made /\ Rest(p) # {}
    BY <1>1 DEF Rest, Loading, PageOK, Sound, Backed, Store
  <2>2. Oldest(Rest(p)) \in Rest(p)
    BY <1>1, <2>1, OldestOf
  <2> QED
    BY <2>1, <2>2 DEF Rest
<1>3. PICK d : d = [p EXCEPT !.rows[m] = None]
  OBVIOUS
<1>4. PICK r : r = [d EXCEPT !.recs[m] = rec, !.touched = @ \cup {made[m].ch}, !.lastCreatedAt = Later(@, made[m].at)]
  OBVIOUS
<1>5. PICK q : q = IF p.recs[m] # None THEN d
                   ELSE IF made[m].ch \in p.droppedChannels THEN Unstore(d, m)
                   ELSE IF orphan THEN Persist(r, m) ELSE r
  OBVIOUS
<1>6. FinishLoad(t, q) /\ UNCHANGED <<made, withdrawn>>
  BY <1>3, <1>4, <1>5 DEF LoadRow, TakeRow
<1> HIDE DEF m, p, rec, orphan
<1>7. Hides(d, made, withdrawn) /\ d.accepted = p.accepted /\ DOMAIN d = Fields /\ d.recs = p.recs
      /\ d.flight = p.flight /\ d.droppedChannels = p.droppedChannels
  <2>1. Alike(p, d)
    BY <1>1, <1>3 DEF Alike, Fields
  <2> QED
    BY <1>1, <2>1, AlikeHides DEF Alike
<1>8. CASE p.recs[m] # None
  <2>1. q = d
    BY <1>5, <1>8
  <2> QED
    BY <1>6, <1>7, <2>1, HidesFinish DEF p
<1>9. CASE p.recs[m] = None /\ made[m].ch \in p.droppedChannels
  <2>1. q = Chain(d, m, None, FALSE)
    BY <1>5, <1>9 DEF Unstore
  <2>2. Alike(d, q)
    BY <1>7, <2>1 DEF Alike, Chain, Fields
  <2>3. Hides(q, made, withdrawn) /\ q.accepted = d.accepted
    BY <1>7, <2>2, AlikeHides
  <2> QED
    BY <1>6, <1>7, <2>3, HidesFinish DEF p
<1>10. CASE p.recs[m] = None /\ made[m].ch \notin p.droppedChannels
  <2>1. q = r \/ q = Chain(r, m, r.recs[m], FALSE)
    BY <1>5, <1>10 DEF Persist
  <2>2. /\ DOMAIN r = Fields /\ r.flight = d.flight /\ r.droppedChannels = d.droppedChannels
        /\ r.discardAfterFlight = d.discardAfterFlight /\ r.accessDropped = d.accessDropped
        /\ r.accepted = d.accepted /\ r.recs = [d.recs EXCEPT ![m] = rec]
    BY <1>4, <1>7 DEF Fields
  <2>3. rec # None
    BY DEF rec, None
  <2>4. DOMAIN r.recs = Msg /\ r.recs[m] = rec /\ \A n \in Msg : n # m => r.recs[n] = d.recs[n]
    BY <1>2, <1>7, <2>2 DEF Hides, Fit
  <2>5. Hides(r, made, withdrawn)
    <3>1. Fit(r, made)
      BY <1>2, <1>7, <2>2, <2>4 DEF Hides, Fit
    <3>2. \A c \in Channel : r.flight[c].id # NoMsg /\ d.recs[r.flight[c].id] # None => r.recs[r.flight[c].id] # None
      BY <1>1, <1>7, <2>2, <2>3, <2>4
    <3>3. \A n \in Msg : r.recs[n] # None /\ made[n].ch \in r.droppedChannels /\ n \in withdrawn => n \in r.discardAfterFlight
      BY <1>7, <1>10, <2>2, <2>4 DEF Hides, Marked
    <3> QED
      BY <1>7, <2>2, <3>1, <3>2, <3>3 DEF Hides, Marked
  <2>6. Alike(r, q)
    BY <2>1, <2>2 DEF Alike, Chain, Fields
  <2>7. Hides(q, made, withdrawn) /\ q.accepted = r.accepted
    BY <2>5, <2>6, AlikeHides
  <2> QED
    BY <1>6, <1>7, <2>2, <2>7, HidesFinish DEF p
<1> QED
  BY <1>8, <1>9, <1>10

LEMMA AdoptRowHides ==
  ASSUME OutboxInv, HidesInv, NEW t \in Tab, AdoptRow(t)
  PROVE  HidesInv' /\ Quiet
<1> DEFINE p == page[t]
           m == Oldest(p.todo)
<1>1. /\ Hides(p, made, withdrawn) /\ DOMAIN p = Fields /\ Store /\ p \in PageType
  BY HidesFacts
<1>2. m \in Msg
  BY Facts, OldestOf DEF AdoptRow, PageOK, Sound, Backed
<1>3. PICK d : d = [p EXCEPT !.todo = @ \ {m}]
  OBVIOUS
<1>4. PICK rec : rec = [d.recs[m] EXCEPT !.owner = t]
  OBVIOUS
<1>5. PICK w : w = [d EXCEPT !.recs[m] = rec]
  OBVIOUS
<1>6. PICK r : /\ r = IF d.recs[m] = None \/ d.recs[m].owner = t \/ TabAlive(d.recs[m].owner) THEN d ELSE Persist(w, m)
               /\ Become(t, IF r.todo = {} THEN PumpAll(t, r, Lines(r)) ELSE r)
  BY <1>3, <1>4, <1>5 DEF AdoptRow
<1>7. UNCHANGED <<made, withdrawn>>
  BY DEF AdoptRow
<1> HIDE DEF p, m
<1>8. Alike(p, d)
  BY <1>1, <1>3 DEF Alike, Fields
<1>9. Hides(d, made, withdrawn) /\ d.accepted = p.accepted /\ DOMAIN d = Fields
  BY <1>1, <1>8, AlikeHides DEF Alike
<1>10. Hides(r, made, withdrawn) /\ r.accepted = p.accepted
  <2>1. CASE r = d
    BY <1>9, <2>1
  <2>2. CASE d.recs[m] # None /\ r = Persist(w, m)
    <3>1. /\ DOMAIN w = Fields /\ w.flight = d.flight /\ w.droppedChannels = d.droppedChannels
          /\ w.discardAfterFlight = d.discardAfterFlight /\ w.accessDropped = d.accessDropped
          /\ w.accepted = d.accepted /\ w.recs = [d.recs EXCEPT ![m] = rec] /\ DOMAIN d.recs = Msg
      BY <1>5, <1>9 DEF Fields, Hides, Fit
    <3>2. rec # None
      <4>1. d.recs[m] \in Rec
        BY <1>1, <1>2, <1>8, <2>2 DEF Alike, PageType, Row
      <4>2. rec \in Rec
        BY <1>4, <4>1 DEF Rec
      <4> QED
        BY <4>2, RecRow
    <3>3. DOMAIN w.recs = Msg /\ \A n \in Msg : w.recs[n] # None <=> d.recs[n] # None
      BY <1>2, <2>2, <3>1, <3>2
    <3>4. \A c \in Channel : d.flight[c].id \in Msg \cup {NoMsg}
      BY <1>1, <1>8 DEF Alike, PageType
    <3>5. Hides(w, made, withdrawn)
      BY <1>9, <3>1, <3>3, <3>4, RecHides
    <3>6. r = Chain(w, m, w.recs[m], FALSE)
      BY <2>2 DEF Persist
    <3>7. Alike(w, r)
      BY <3>1, <3>6 DEF Alike, Chain, Fields
    <3> QED
      BY <1>9, <3>1, <3>5, <3>7, AlikeHides
  <2> QED
    BY <1>6, <2>1, <2>2
<1>11. PICK q : q = IF r.todo = {} THEN PumpAll(t, r, Lines(r)) ELSE r
  OBVIOUS
<1>12. Hides(q, made, withdrawn) /\ q.accepted = p.accepted
  <2>1. CASE r.todo = {}
    <3>1. PICK chs : chs = Lines(r)
      OBVIOUS
    <3>2. q = PumpAll(t, r, chs)
      BY <1>11, <2>1, <3>1
    <3> QED
      BY <1>1, <1>10, <3>2, PumpAllHides
  <2>2. CASE r.todo # {}
    BY <1>10, <1>11, <2>2
  <2> QED
    BY <2>1, <2>2
<1> QED
  BY <1>6, <1>7, <1>11, <1>12, HidesBecome DEF p

\* A send of a channel that this tab knows to be lost is not even typed.
LEMMA EnqueueHides ==
  ASSUME OutboxInv, HidesInv, NEW t \in Tab, NEW m \in Msg, NEW ch \in Channel, NEW now \in Clock, Enqueue(t, m, ch, now)
  PROVE  HidesInv' /\ Quiet
<1> DEFINE p == page[t]
           at == Stamp(p, now)
           rec == [status |-> "pending", owner |-> t]
<1>1. /\ Hides(p, made, withdrawn) /\ DOMAIN p = Fields /\ DOMAIN p.recs = Msg /\ Store
      /\ withdrawn \subseteq DOMAIN made /\ m \notin DOMAIN made
  BY HidesFacts DEF Enqueue, HidesInv
<1>2. PICK r : r = [p EXCEPT !.lastCreatedAt = at, !.recs[m] = rec]
  OBVIOUS
<1>3. PICK row : row = r.recs[m]
  OBVIOUS
<1>4. PICK q : q = Chain(r, m, row, TRUE)
  OBVIOUS
<1>5. /\ made' = [n \in DOMAIN made \cup {m} |-> IF n = m THEN [tab |-> t, ch |-> ch, at |-> at] ELSE made[n]]
      /\ page' = [page EXCEPT ![t] = q]
      /\ withdrawn' = IF HasAccess(ch) THEN withdrawn ELSE withdrawn \cup {m}
      /\ HasAccess(ch) \/ ch \notin p.droppedChannels
  BY <1>2, <1>3, <1>4 DEF Enqueue, PersistThenPump, Become
<1> HIDE DEF p, at, rec
<1>6. /\ DOMAIN made' = DOMAIN made \cup {m} /\ made'[m].ch = ch /\ \A n \in DOMAIN made : made'[n] = made[n]
      /\ withdrawn' \subseteq DOMAIN made' /\ withdrawn' \subseteq withdrawn \cup {m}
      /\ m \in withdrawn' => ch \notin p.droppedChannels
  BY <1>1, <1>5
<1>7. ASSUME NEW u \in Tab
      PROVE  /\ page[u].recs[m] = None /\ Hides(page[u], made', withdrawn')
             /\ \A c \in Channel : page[u].flight[c].id \in Msg \cup {NoMsg}
  <2>1. /\ Hides(page[u], made, withdrawn) /\ page[u].recs[m] = None
        /\ \A c \in Channel : page[u].flight[c].id = NoMsg \/ page[u].flight[c].id \in Msg \cap DOMAIN made
    BY <1>1, HidesFacts
  <2>2. Fit(page[u], made')
    BY <1>6, <2>1 DEF Hides, Fit
  <2>3. Marked(page[u], made', withdrawn')
    <3>1. ASSUME NEW n \in Msg, page[u].recs[n] # None PROVE made'[n] = made[n] /\ (n \in withdrawn' => n \in withdrawn)
      BY <1>1, <1>6, <2>1, <3>1 DEF Hides, Fit
    <3>2. \A c \in Channel : page[u].flight[c].id # NoMsg => (page[u].flight[c].id \in withdrawn' => page[u].flight[c].id \in withdrawn)
      BY <1>1, <1>6, <2>1
    <3> QED
      BY <2>1, <3>1, <3>2 DEF Hides, Marked
  <2> QED
    BY <2>1, <2>2, <2>3 DEF Hides
<1>8. /\ DOMAIN r = Fields /\ r.recs = [p.recs EXCEPT ![m] = rec] /\ r.flight = p.flight /\ r.droppedChannels = p.droppedChannels
      /\ r.discardAfterFlight = p.discardAfterFlight /\ r.accessDropped = p.accessDropped /\ r.accepted = p.accepted
  BY <1>1, <1>2 DEF Fields
<1>9. DOMAIN r.recs = Msg /\ r.recs[m] = rec /\ rec # None /\ \A n \in Msg : n # m => r.recs[n] = p.recs[n]
  <2>1. rec # None
    BY DEF rec, None
  <2> QED
    BY <1>1, <1>8, <2>1
<1>10. Hides(r, made', withdrawn')
  <2>1. Hides(p, made', withdrawn') /\ \A c \in Channel : p.flight[c].id \in Msg \cup {NoMsg}
    BY <1>7 DEF p
  <2>2. Fit(r, made')
    BY <1>6, <1>8, <1>9, <2>1 DEF Hides, Fit
  <2>3. \A n \in Msg : r.recs[n] # None /\ made'[n].ch \in r.droppedChannels /\ n \in withdrawn' => n \in r.discardAfterFlight
    BY <1>6, <1>8, <1>9, <2>1 DEF Hides, Marked
  <2>4. \A c \in Channel : r.flight[c].id # NoMsg /\ p.recs[r.flight[c].id] # None => r.recs[r.flight[c].id] # None
    BY <1>8, <1>9, <2>1
  <2> QED
    BY <1>8, <2>1, <2>2, <2>3, <2>4 DEF Hides, Marked
<1>11. Alike(r, q)
  BY <1>4, <1>8 DEF Alike, Chain, Fields
<1>12. Hides(q, made', withdrawn') /\ q.accepted = p.accepted
  BY <1>8, <1>10, <1>11, AlikeHides
<1>13. \A u \in Tab : page'[u] = IF u = t THEN q ELSE page[u]
  BY <1>5 DEF OutboxInv
<1> QED
  BY <1>6, <1>7, <1>12, <1>13 DEF HidesInv, Quiet, p

\* What is out on the channel carries a mark from now on, and nothing of it is left in memory.
LEMMA DropChannelHides ==
  ASSUME OutboxInv, HidesInv, NEW t \in Tab, NEW ch \in Channel, DropChannel(t, ch)
  PROVE  HidesInv' /\ Quiet
<1> DEFINE p == page[t]
           gone == {m \in Known(p) : made[m].ch = ch}
<1>1. /\ Hides(p, made, withdrawn) /\ DOMAIN p = Fields /\ DOMAIN p.flight = Channel
      /\ \A c \in Channel : LET m == p.flight[c].id IN
              m = NoMsg \/ (m \in Msg /\ m \in DOMAIN made /\ made[m].ch = c)
  BY HidesFacts
<1>2. PICK order :
        Become(t, [p EXCEPT
          !.droppedChannels    = @ \cup {ch},
          !.accessDropped      = @ \cup {m \in gone : InFlight(p, m)},
          !.recs               = [m \in Msg |-> IF m \in gone THEN None ELSE @[m]],
          !.discardAfterFlight = @ \ gone,
          !.settledInFlight    = @ \ gone,
          !.writing            = [m \in Msg |-> IF m \in gone THEN Unstore(p, m).writing[m] ELSE @[m]],
          !.issued             = @ \o order])
  BY DEF DropChannel
<1>3. UNCHANGED <<made, withdrawn>> /\ ch \notin p.droppedChannels
  BY DEF DropChannel
<1>4. PICK q : q = [p EXCEPT
          !.droppedChannels    = @ \cup {ch},
          !.accessDropped      = @ \cup {m \in gone : InFlight(p, m)},
          !.recs               = [m \in Msg |-> IF m \in gone THEN None ELSE @[m]],
          !.discardAfterFlight = @ \ gone,
          !.settledInFlight    = @ \ gone,
          !.writing            = [m \in Msg |-> IF m \in gone THEN Unstore(p, m).writing[m] ELSE @[m]],
          !.issued             = @ \o order]
  OBVIOUS
<1>5. Become(t, q)
  BY <1>2, <1>4
<1>6. \A m \in Msg : m \in gone <=> (p.recs[m] # None /\ made[m].ch = ch)
  BY DEF Known
<1>7. PICK carried : carried = {m \in gone : InFlight(p, m)}
  OBVIOUS
<1> HIDE DEF gone, p
<1>8. /\ DOMAIN q = Fields /\ q.flight = p.flight /\ q.droppedChannels = p.droppedChannels \cup {ch}
      /\ q.accessDropped = p.accessDropped \cup carried
      /\ q.recs = [m \in Msg |-> IF m \in gone THEN None ELSE p.recs[m]]
      /\ q.discardAfterFlight = p.discardAfterFlight \ gone /\ q.accepted = p.accepted
  BY <1>1, <1>4, <1>7 DEF Fields
<1>9. DOMAIN q.recs = Msg /\ \A m \in Msg : q.recs[m] = IF m \in gone THEN None ELSE p.recs[m]
  BY <1>8
<1>10. Fit(q, made)
  BY <1>1, <1>8, <1>9 DEF Hides, Fit
<1>11. \A m \in Msg : q.recs[m] # None /\ made[m].ch \in q.droppedChannels /\ m \in withdrawn => m \in q.discardAfterFlight
  BY <1>1, <1>6, <1>8, <1>9 DEF Hides, Marked
<1>12. ASSUME NEW c \in Channel, q.flight[c].id # NoMsg
       PROVE  IF c \in q.droppedChannels
              THEN q.flight[c].id \in withdrawn => q.flight[c].id \in q.accessDropped \cup q.discardAfterFlight
              ELSE q.recs[q.flight[c].id] # None
  <2> DEFINE m == p.flight[c].id
  <2>1. q.flight[c].id = m /\ m \in Msg /\ made[m].ch = c /\ m # NoMsg
    BY <1>1, <1>8, <1>12
  <2>2. InFlight(p, m)
    BY DEF InFlight
  <2>3. IF c \in p.droppedChannels THEN m \in withdrawn => m \in p.accessDropped \cup p.discardAfterFlight
        ELSE p.recs[m] # None
    BY <1>1, <2>1 DEF Hides, Marked
  <2> HIDE DEF m
  <2>4. CASE c = ch
    BY <1>3, <1>6, <1>7, <1>8, <2>1, <2>2, <2>3, <2>4
  <2>5. CASE c # ch
    <3>1. m \notin gone /\ q.recs[m] = p.recs[m] /\ (c \in q.droppedChannels <=> c \in p.droppedChannels)
      BY <1>6, <1>8, <1>9, <2>1, <2>5
    <3> QED
      BY <1>8, <2>1, <2>3, <3>1
  <2> QED
    BY <2>4, <2>5
<1>13. Hides(q, made, withdrawn)
  BY <1>10, <1>11, <1>12 DEF Hides, Marked
<1> QED
  BY <1>3, <1>5, <1>8, <1>13, HidesBecome DEF p

\* Who was told that a channel is lost does not see it lost a second time.
LEMMA RevokeHides ==
  ASSUME OutboxInv, HidesInv, NEW ch \in Channel, Revoke(ch)
  PROVE  HidesInv' /\ Quiet
<1>1. /\ page' = page /\ made' = made /\ access[ch] = "granted"
      /\ withdrawn' = withdrawn \cup {m \in DOMAIN made : made[m].ch = ch}
  BY DEF Revoke
<1>2. ASSUME NEW t \in Tab PROVE Hides(page[t], made, withdrawn')
  <2>1. /\ Hides(page[t], made, withdrawn)
        /\ \A c \in Channel : LET m == page[t].flight[c].id IN
              m = NoMsg \/ (m \in Msg /\ m \in DOMAIN made /\ made[m].ch = c)
    BY HidesFacts
  <2>2. ch \notin page[t].droppedChannels
    BY <1>1 DEF OutboxInv, PageOK, Sound, Removed
  <2> QED
    BY <1>1, <2>1, <2>2 DEF Hides, Marked
<1> QED
  BY <1>1, <1>2 DEF HidesInv, Quiet

LEMMA HidesStep ==
  ASSUME Lone, OutboxInv, HidesInv, [Next]_vars
  PROVE  HidesInv' /\ (Quiet \/ \E t \in Tab, ch \in Channel : AnswerOk(t, ch))
<1>1. CASE page' = page /\ made' = made /\ withdrawn' = withdrawn
  BY <1>1 DEF HidesInv, Quiet
<1>2. ASSUME NEW t \in Tab,
             Open(t) \/ Close(t) \/ Kick(t) \/ DiskWrite(t) \/ LoadRead(t) \/ LoadRow(t) \/ AdoptRow(t)
      PROVE  HidesInv' /\ Quiet
  BY <1>2, OpenHides, CloseHides, KickHides, DiskWriteHides, LoadReadHides, LoadRowHides, AdoptRowHides
<1>3. ASSUME NEW t \in Tab, NEW m \in Msg,
             \/ \E ch \in Channel, now \in Clock : Enqueue(t, m, ch, now)
             \/ Retry(t, m) \/ Discard(t, m) \/ Settle(t, m)
      PROVE  HidesInv' /\ Quiet
  BY <1>3, EnqueueHides, RetryHides, DiscardHides, SettleHides
<1>4. ASSUME NEW t \in Tab, NEW ch \in Channel, AnswerRefused(t, ch) \/ AnswerLost(t, ch)
      PROVE  HidesInv' /\ Quiet
  <2>1. page[t].flight[ch].id # NoMsg /\ UNCHANGED <<made, withdrawn>>
        /\ \E st \in {"retrying", "failed"} : AfterError(t, ch, st)
    BY <1>4 DEF AnswerRefused, AnswerLost, Out
  <2> QED
    BY <2>1, AfterErrorHides
<1>5. ASSUME NEW t \in Tab, NEW ch \in Channel, Accept(t, ch) \/ Refuse(t, ch) \/ Wake(t, ch) \/ DropChannel(t, ch)
      PROVE  HidesInv' /\ Quiet
  BY <1>5, AnswerHides, WakeHides, DropChannelHides
<1>6. ASSUME NEW t \in Tab, NEW ch \in Channel, AnswerOk(t, ch) PROVE HidesInv'
  BY <1>6, AnswerOkHides
<1>7. ASSUME NEW ch \in Channel, Revoke(ch) PROVE HidesInv' /\ Quiet
  BY <1>7, RevokeHides
<1>8. \/ page' = page /\ made' = made /\ withdrawn' = withdrawn
      \/ \E t \in Tab : Open(t) \/ Close(t) \/ Kick(t) \/ DiskWrite(t) \/ LoadRead(t) \/ LoadRow(t) \/ AdoptRow(t)
      \/ \E t \in Tab, m \in Msg : \/ \E ch \in Channel, now \in Clock : Enqueue(t, m, ch, now)
                                   \/ Retry(t, m) \/ Discard(t, m) \/ Settle(t, m)
      \/ \E t \in Tab, ch \in Channel : \/ AnswerRefused(t, ch) \/ AnswerLost(t, ch)
                                        \/ Accept(t, ch) \/ Refuse(t, ch) \/ Wake(t, ch) \/ DropChannel(t, ch)
                                        \/ AnswerOk(t, ch)
      \/ \E ch \in Channel : Revoke(ch)
  <2>1. UNCHANGED vars => page' = page /\ made' = made /\ withdrawn' = withdrawn
    BY DEF vars
  <2>2. \A m \in Msg : LateArrival(m) => page' = page /\ made' = made /\ withdrawn' = withdrawn
    BY DEF LateArrival
  <2>3. \A ch \in Channel : Regrant(ch) => page' = page /\ made' = made /\ withdrawn' = withdrawn
    BY DEF Regrant
  <2> QED
    BY <2>1, <2>2, <2>3 DEF Next
<1> QED
  BY <1>1, <1>2, <1>3, <1>4, <1>5, <1>6, <1>7, <1>8

LEMMA HidesInit == Init => HidesInv
<1> SUFFICES ASSUME Init PROVE HidesInv
  OBVIOUS
<1>1. page = [t \in Tab |-> Blank] /\ withdrawn = {}
  BY DEF Init
<1>2. DOMAIN Blank = Fields /\ Blank.droppedChannels = {}
  BY DEF Blank, Fields
<1>3. Hides(Blank, made, withdrawn)
  <2>1. PICK b : b = Blank
    OBVIOUS
  <2>2. DOMAIN b = Fields /\ b.droppedChannels = {} /\ b.recs = Blank.recs /\ b.flight = Blank.flight
    BY <1>2, <2>1
  <2>3. Hides(b, made, withdrawn)
    BY <2>2, HidesBlank
  <2> QED
    BY <2>1, <2>3
<1> QED
  BY <1>1, <1>3 DEF HidesInv

\* A request that was out when its channel was lost may succeed late, even after access came
\* back: the tab that dropped the channel still does not show it (accessDropped in attempt,
\* dropChannels, load and enqueue, outbox.ts).  With several tabs, none of them may delete what
\* another one has on the wire: that one shows it.
THEOREM RevokedNeverShown ==
  ASSUME ~ MayDiscard \/ \A t, u \in Tab : t = u
  PROVE  Spec => RevokedStaysHidden
<1> DEFINE Step == \A t \in Tab, m \in withdrawn :
                     /\ made[m].ch \in page[t].droppedChannels /\ IsOpen(t)
                     /\ m \notin page[t].discardAfterFlight
                     => m \notin page'[t].accepted \ page[t].accepted
<1>1. HidesInv /\ OutboxInv /\ [Next]_vars => HidesInv'
  BY HidesStep DEF Lone
<1>2. HidesInv /\ OutboxInv /\ [Next]_vars => [Step]_vars
  <2> SUFFICES ASSUME HidesInv, OutboxInv, [Next]_vars PROVE Step
    OBVIOUS
  <2>1. CASE Quiet
    BY <2>1 DEF Quiet
  <2>2. ASSUME NEW u \in Tab, NEW ch \in Channel, AnswerOk(u, ch) PROVE Step
    <3> SUFFICES ASSUME NEW t \in Tab, NEW m \in withdrawn, made[m].ch \in page[t].droppedChannels,
                        m \notin page[t].discardAfterFlight, m \in page'[t].accepted, m \notin page[t].accepted
                 PROVE  FALSE
      OBVIOUS
    <3>1. t = u /\ m = page[u].flight[ch].id /\ made[m].ch = ch /\ m \notin page[u].accessDropped
      BY <2>2, AnswerOkHides
    <3>2. Hides(page[t], made, withdrawn) /\ page[u].flight[ch].id # NoMsg
      BY <2>2 DEF HidesInv, AnswerOk, Out
    <3> QED
      BY <3>1, <3>2 DEF Hides, Marked
  <2> QED
    BY <2>1, <2>2, HidesStep DEF Lone
<1> QED
  BY <1>1, <1>2, HidesInit, OutboxInvariance, PTL DEF Spec, RevokedStaysHidden
=============================================================================
