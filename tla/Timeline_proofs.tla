-------------------------- MODULE Timeline_proofs --------------------------
(* The cursor is honest (CursorHonest), for any number of messages, any page sizes and
   whatever is posted, changed, deleted, lost or restarted: the hypotheses are those of
   CursorHypothesis.

   Good relates the timeline to the requests that are out: a page is asked for while
   nothing else of its generation is under way, what an older page or a sync brings joins
   what is shown, and an event under way was posted so late that the page it was left out
   of holds whatever follows it.

   And no change is missed (SyncedHonest), where besides nobody pages and no two changes of
   a message overlap (SyncHypothesis): SyncInv relates the copies that are held, cached and
   on their way to the rows, and the times of the questions to the times of the changes. *)
EXTENDS Timeline, FiniteSetTheorems, WellFoundedInduction, TLAPS

(* The list does not page while its page loads, and events are not late.  The margin is
   small against a page, so that an event that is still on its way belongs near the end.
   And where the conversation is opened more than once no request fails and no window is
   paged down: with either, two loads may be out at once whose answers do not fit together. *)
CursorHypothesis ==
  /\ "early" \notin May /\ "late" \notin May
  /\ Start >= 1 /\ Page >= 2
  /\ Margin <= Page /\ Margin - 1 <= Page \div 2 /\ Margin <= CacheSize
  /\ MaxOpens <= 1 \/ ("fail" \notin May /\ "newer" \notin May)

\* The row of a message, and the copies of them that a client holds.
Row == [ver : Nat, at : Int, gone : BOOLEAN]
Copies == UNION {[S -> Row] : S \in SUBSET (1 .. MaxSeq)}
Kinds == {"paint", "newest", "around", "reload", "older", "newer", "heal", "drop"}
Req == [kind : Kinds, live : BOOLEAN, step : {"asked", "answered"},
        from : 0 .. MaxSeq + 1, since : Int, min : Int, at : Int, page : Copies, last : 0 .. MaxSeq, before : BOOLEAN, beyond : BOOLEAN]
Tl == [shown : SUBSET (1 .. MaxSeq), before : BOOLEAN, after : BOOLEAN,
       status : {"none", "idle", "loading", "ready", "error"}, last : 0 .. MaxSeq, synced : Int,
       cached : BOOLEAN, older : {"idle", "loading", "error"}, newer : {"idle", "loading", "error"}]
View == [tl : Tl, held : Copies, known : 0 .. MaxSeq, gap : 0 .. MaxSeq, reqs : SUBSET Req,
         save : BOOLEAN, open : BOOLEAN]
Event == [kind : {"new", "upd"}, seq : 1 .. MaxSeq, copy : Row]
Change == [seq : 1 .. MaxSeq, at : Int, gone : BOOLEAN]
Types ==
  /\ log \in Seq(Row) /\ Len(log) \in Start .. MaxSeq
  /\ changing \in SUBSET Change /\ (\A c \in changing : c.seq <= Len(log))
  /\ clock \in Int /\ events \in SUBSET Event
  /\ online \in BOOLEAN
  /\ view \in View
  /\ cache \in [page : Copies, last : Int]
  /\ opens \in Nat /\ faults \in Nat
  /\ view.tl.shown \subseteq DOMAIN view.held

-----------------------------------------------------------------------------
\* A message that the channel shows, by the rows L; one below it is still to be told of.
Visible(s, L) == s \notin Reply /\ ~L[s].gone
Coming(s, E) == \E e \in E : e.kind = "new" /\ e.seq <= s

\* From the first one of S on, or of those that are still to come, all that is to be shown is in S.
WholeTo(S, before, hi, L, E) ==
  \A s \in 1 .. hi :
    /\ Visible(s, L)
    /\ (before /\ S # {}) => (Coming(s, E) \/ \E u \in S : u <= s)
    => s \in S

\* Where a page ends.
End(r) == IF r.kind = "around" /\ r.beyond THEN Max(DOMAIN r.page) ELSE r.last

PageOK(r, L, E) ==
  /\ End(r) \in 1 .. Len(L) /\ DOMAIN r.page \subseteq 1 .. End(r)
  /\ r.before => DOMAIN r.page # {}
  /\ (r.kind = "around" /\ r.beyond) => DOMAIN r.page # {}
  /\ WholeTo(DOMAIN r.page, r.before, End(r), L, E)

OlderOK(r, t, L) ==
  /\ r.from \in t.shown
  /\ r.step = "answered" =>
       /\ DOMAIN r.page \subseteq 1 .. Len(L) /\ (\A u \in DOMAIN r.page : u < r.from)
       /\ \A s \in 1 .. r.from - 1 :
            Visible(s, L) /\ (r.before => \E u \in DOMAIN r.page : u <= s) => s \in DOMAIN r.page

\* What sync_channel answered.
SyncOK(r, L) ==
  r.step = "answered" =>
    /\ r.last \in r.from .. Len(L) /\ DOMAIN r.page \subseteq 1 .. r.last
    /\ ~r.beyond => \A s \in r.from + 1 .. r.last : s \in DOMAIN r.page
    /\ \A u \in DOMAIN r.page : \A s \in r.from + 1 .. u : s \in DOMAIN r.page
    /\ r.kind = "newer" => \A u \in DOMAIN r.page : u >= r.from

HealOK(r, t, L) ==
  /\ r.from \in 1 .. t.last /\ ~t.after
  /\ \A s \in r.from + 1 .. t.last : Visible(s, L) => s \in t.shown
  /\ SyncOK(r, L)

NewerOK(r, t, L) ==
  /\ "newer" \in May
  /\ r.live /\ t.after /\ t.newer = "loading" /\ r.from = t.last
  /\ SyncOK(r, L)

TlOK(t, L, E) ==
  /\ t.last \in 0 .. Len(L) /\ t.shown \subseteq 1 .. Len(L)
  /\ WholeTo(t.shown, t.before, t.last, L, E)
  /\ t.after => t.shown # {} /\ t.last >= 1 /\ t.shown \subseteq 1 .. t.last
  /\ t.status = "none" => t.shown = {} /\ t.last = 0
  /\ t.status = "ready" => t.last >= 1 /\ ~t.cached
  /\ "fail" \notin May => t.status \in {"none", "loading", "ready"}

\* What a request asks for.
FromOK(r, L) ==
  /\ r.kind \in {"newest", "reload"} => r.from = MaxSeq + 1
  /\ r.kind = "around" => r.from \in 1 .. Len(L)
  /\ r.kind = "newer" => r.min = r.from

\* A page is asked for by itself, and then there is no cursor or nobody heals.
ReqOK(r, t, R, L, E) ==
  /\ FromOK(r, L)
  /\ (r.live /\ r.kind \in PageKinds) =>
       /\ \A q \in R : q.live => q = r
       /\ IF "fail" \in May THEN t.last = 0 ELSE t.status \in {"none", "loading"}
       /\ (r.step = "answered" /\ r.kind # "paint") => PageOK(r, L, E)
  /\ r.kind = "paint" => r.live /\ r.step = "asked"
  /\ (r.live /\ r.kind = "older") => OlderOK(r, t, L)
  /\ (r.live /\ r.kind = "heal") => HealOK(r, t, L)
  /\ r.kind = "newer" => NewerOK(r, t, L) /\ \A q \in R : q.kind = "newer" => q = r
  /\ (r.live /\ r.kind = "drop") => t.last >= 1 /\ ~t.after
  /\ (r.kind = "drop" /\ "newer" \in May) => r.live
  /\ r.kind \in HealKinds => \A q \in R : q.kind \in HealKinds => q = r

Good(t, R, L, E) == TlOK(t, L, E) /\ \A r \in R : ReqOK(r, t, R, L, E)

EventOK(e, L, now) ==
  /\ e.seq \in 1 .. Len(L)
  /\ e.kind = "new" => /\ e.seq > Start
                       /\ Len(L) - e.seq <= now - e.copy.at /\ now < e.copy.at + Margin

CacheOK(c, L, E) ==
  /\ c # NoCache => c.last \in 1 .. Len(L)
  /\ DOMAIN c.page \subseteq 1 .. Len(L)
  /\ WholeTo(DOMAIN c.page, TRUE, c.last, L, E)

\* Before the first opening, and while a page from the cache is awaited.
FirstOK ==
  /\ opens = 0 => view.tl.status = "none" /\ view.reqs = {} /\ cache = NoCache /\ ~view.open
  /\ ("fail" \in May /\ \E r \in view.reqs : r.kind = "paint") =>
       view.tl.status = "none" /\ cache = NoCache /\ \A r \in view.reqs : r.kind = "paint"

CursorInv ==
  /\ Types
  /\ Good(view.tl, view.reqs, log, events)
  /\ \A e \in events : EventOK(e, log, clock)
  /\ CacheOK(cache, log, events)
  /\ FirstOK

-----------------------------------------------------------------------------
(* Least and greatest numbers of a set, and the first and last ones of it. *)

LEMMA Constants ==
  /\ Start \in Nat /\ MaxSeq \in Nat /\ MaxClock \in Nat /\ MaxOpens \in Nat /\ MaxFaults \in Nat
  /\ Page \in Nat \ {0} /\ SyncMax \in Nat \ {0} /\ CacheSize \in Nat \ {0} /\ Margin \in Nat \ {0}
  /\ Start <= MaxSeq /\ Reply \subseteq 1 .. MaxSeq /\ Target \subseteq 1 .. MaxSeq
BY TimelineAssumption

LEMMA Least ==
  ASSUME NEW S \in SUBSET Nat, S # {}
  PROVE  \E x \in S : \A y \in S : x <= y
<1>1. PICK n \in S : TRUE
  OBVIOUS
<1> DEFINE W == {y \in S : y <= n}
<1>2. IsFiniteSet(W)
  <2>1. IsFiniteSet(0 .. n)
    <3>1. 0 \in Int /\ n \in Int
      OBVIOUS
    <3> HIDE DEF W
    <3> QED
      BY <3>1, FS_Interval
  <2>2. W \subseteq 0 .. n
    <3>1. \A y \in S : y \in Nat /\ (y <= n => y \in 0 .. n)
      OBVIOUS
    <3> QED
      BY <3>1
  <2> HIDE DEF W
  <2> QED
    BY <2>1, <2>2, FS_Subset
<1> DEFINE below(x) == {y \in W : y < x}
           C == {below(x) : x \in W}
<1>3. C \subseteq FiniteSubsetsOf(W) /\ C # {}
  <2>1. ASSUME NEW x \in W PROVE below(x) \in SUBSET W /\ IsFiniteSet(below(x))
    <3>1. below(x) \in SUBSET W
      OBVIOUS
    <3> HIDE DEF below, W
    <3> QED
      BY <1>2, <3>1, FS_Subset
  <2>2. below(n) \in C
    OBVIOUS
  <2> HIDE DEF below, W
  <2>3. C \subseteq FiniteSubsetsOf(W)
    BY <2>1 DEF FiniteSubsetsOf
  <2> QED
    BY <2>2, <2>3
<1> HIDE DEF W
<1>4. PICK T \in C : \A U \in C : ~ (<<U, T>> \in StrictSubsetOrdering(W))
  BY <1>2, <1>3, FS_StrictSubsetOrderingWellFounded, WFMin
<1>5. PICK x \in W : T = below(x)
  BY <1>4
<1>6. \A y \in W : y \in Nat
  BY DEF W
<1>7. ASSUME NEW y \in W, y < x PROVE FALSE
  <2>1. below(y) \subseteq below(x) /\ y \in below(x) /\ y \notin below(y)
    <3>1. \A z \in W : z < y => z < x
      BY <1>6, <1>7
    <3>2. ~ (y < y)
      BY <1>6
    <3> QED
      BY <1>7, <3>1, <3>2
  <2>2. below(y) \in C /\ below(x) \in C
    OBVIOUS
  <2> HIDE DEF below
  <2>3. <<below(y), below(x)>> \in StrictSubsetOrdering(W)
    BY <1>3, <2>1, <2>2 DEF StrictSubsetOrdering, FiniteSubsetsOf
  <2> QED
    BY <1>4, <1>5, <2>2, <2>3
<1>8. ASSUME NEW y \in S PROVE x <= y
  <2>1. y \in Nat /\ x \in Nat /\ n \in Nat /\ x <= n
    BY DEF W
  <2>2. y \in W => ~ (y < x)
    BY <1>7
  <2>3. y \notin W => y > n
    BY <2>1 DEF W
  <2> QED
    BY <2>1, <2>2, <2>3
<1> QED
  BY <1>8 DEF W


LEMMA MinIs ==
  ASSUME NEW S \in SUBSET Nat, S # {}
  PROVE  Min(S) \in S /\ \A y \in S : Min(S) <= y
<1>1. \E x \in S : \A y \in S : x <= y
  BY Least
<1> QED
  BY <1>1 DEF Min

LEMMA MaxIs ==
  ASSUME NEW n \in Nat, NEW S \in SUBSET (0 .. n), S # {}
  PROVE  Max(S) \in S /\ \A y \in S : y <= Max(S)
<1> DEFINE D == {n - x : x \in S}
<1>1. D \in SUBSET Nat /\ D # {}
  <2>1. \A x \in S : n - x \in Nat
    OBVIOUS
  <2> QED
    BY <2>1
<1>2. PICK d \in D : \A e \in D : d <= e
  <2> HIDE DEF D
  <2> QED
    BY <1>1, Least
<1>3. PICK x \in S : d = n - x
  OBVIOUS
<1>4. ASSUME NEW y \in S PROVE x >= y
  <2>1. n - y \in D
    OBVIOUS
  <2>2. d <= n - y
    BY <1>2, <2>1
  <2>3. x \in Int /\ y \in Int
    OBVIOUS
  <2> QED
    BY <1>3, <2>2, <2>3
<1>5. \E z \in S : \A y \in S : z >= y
  BY <1>4
<1>6. Max(S) \in S /\ \A y \in S : Max(S) >= y
  BY <1>5 DEF Max
<1>7. \A y \in S : y \in Int
  OBVIOUS
<1> QED
  BY <1>6, <1>7

LEMMA Finite ==
  ASSUME NEW n \in Nat, NEW S \in SUBSET (1 .. n)
  PROVE  IsFiniteSet(S) /\ Cardinality(S) \in Nat /\ S \in SUBSET Nat /\ S \in SUBSET (0 .. n)
<1>1. IsFiniteSet(1 .. n)
  BY FS_Interval
<1>2. IsFiniteSet(S)
  BY <1>1, FS_Subset
<1> QED
  BY <1>2, FS_CardinalityType

\* What has fewer than k numbers of 1 .. n above it is among the k highest.
LEMMA HighestHas ==
  ASSUME NEW n \in Nat, NEW S \in SUBSET (1 .. n), NEW s \in S, NEW k \in Int, n - s < k
  PROVE  s \in Highest(S, k)
<1> DEFINE T == {t \in S : t > s}
<1>1. T \subseteq s + 1 .. n /\ s \in Int /\ s <= n
  <2>1. s \in Int /\ s <= n /\ \A t \in S : t \in Int /\ t <= n
    OBVIOUS
  <2>2. \A t \in S : t > s => t \in s + 1 .. n
    BY <2>1
  <2> QED
    BY <2>1, <2>2
<1> HIDE DEF T
<1>2. IsFiniteSet(s + 1 .. n) /\ Cardinality(s + 1 .. n) <= n - s
  <2>1. s + 1 \in Int /\ n \in Int
    BY <1>1
  <2>2. /\ IsFiniteSet(s + 1 .. n)
        /\ Cardinality(s + 1 .. n) = IF s + 1 > n THEN 0 ELSE n - (s + 1) + 1
    BY <2>1, FS_Interval
  <2> QED
    BY <1>1, <2>2
<1>3. Cardinality(T) <= Cardinality(s + 1 .. n) /\ IsFiniteSet(T)
  BY <1>1, <1>2, FS_Subset
<1>4. Cardinality(T) \in Nat /\ Cardinality(s + 1 .. n) \in Nat
  BY <1>2, <1>3, FS_CardinalityType
<1>5. Cardinality(T) < k
  BY <1>1, <1>2, <1>3, <1>4
<1> USE DEF T
<1> QED
  BY <1>5 DEF Highest

LEMMA HighestUp ==
  ASSUME NEW n \in Nat, NEW S \in SUBSET (1 .. n), NEW k \in Int,
         NEW u \in Highest(S, k), NEW s \in S, u <= s
  PROVE  s \in Highest(S, k)
<1> DEFINE T(x) == {t \in S : t > x}
<1>1. T(s) \subseteq T(u) /\ T(u) \subseteq S
  <2>1. u \in Int /\ s \in Int /\ \A t \in S : t \in Int
    BY DEF Highest
  <2>2. \A t \in S : t > s => t > u
    BY <2>1
  <2> QED
    BY <2>2
<1>2. Cardinality(T(u)) < k
  BY DEF Highest
<1> HIDE DEF T
<1>3. IsFiniteSet(T(u)) /\ T(u) \in SUBSET S
  BY <1>1, Finite, FS_Subset
<1>4. IsFiniteSet(T(s)) /\ Cardinality(T(s)) <= Cardinality(T(u))
  BY <1>1, <1>3, FS_Subset
<1>5. Cardinality(T(s)) \in Nat /\ Cardinality(T(u)) \in Nat
  BY <1>3, <1>4, FS_CardinalityType
<1>6. Cardinality(T(s)) < k
  BY <1>2, <1>4, <1>5
<1> USE DEF T
<1> QED
  BY <1>6 DEF Highest

LEMMA LowestDown ==
  ASSUME NEW n \in Nat, NEW S \in SUBSET (1 .. n), NEW k \in Int,
         NEW u \in Lowest(S, k), NEW s \in S, s <= u
  PROVE  s \in Lowest(S, k)
<1> DEFINE T(x) == {t \in S : t < x}
<1>1. T(s) \subseteq T(u) /\ T(u) \subseteq S
  <2>1. u \in Int /\ s \in Int /\ \A t \in S : t \in Int
    BY DEF Lowest
  <2>2. \A t \in S : t < s => t < u
    BY <2>1
  <2> QED
    BY <2>2
<1>2. Cardinality(T(u)) < k
  BY DEF Lowest
<1> HIDE DEF T
<1>3. IsFiniteSet(T(u)) /\ T(u) \in SUBSET S
  BY <1>1, Finite, FS_Subset
<1>4. IsFiniteSet(T(s)) /\ Cardinality(T(s)) <= Cardinality(T(u))
  BY <1>1, <1>3, FS_Subset
<1>5. Cardinality(T(s)) \in Nat /\ Cardinality(T(u)) \in Nat
  BY <1>3, <1>4, FS_CardinalityType
<1>6. Cardinality(T(s)) < k
  BY <1>2, <1>4, <1>5
<1> USE DEF T
<1> QED
  BY <1>6 DEF Lowest

\* All of a set are its k highest, and its k lowest, if it has no more.
LEMMA AllOfThem ==
  ASSUME NEW n \in Nat, NEW S \in SUBSET (1 .. n), NEW k \in Int, Cardinality(S) <= k
  PROVE  Highest(S, k) = S /\ Lowest(S, k) = S
<1>1. ASSUME NEW s \in S, NEW T \in SUBSET S, s \notin T PROVE Cardinality(T) < k
  <2>1. IsFiniteSet(S) /\ Cardinality(S) \in Nat
    BY Finite
  <2>2. /\ IsFiniteSet(T) /\ Cardinality(T) <= Cardinality(S)
        /\ Cardinality(S) = Cardinality(T) => S = T
    BY <2>1, FS_Subset
  <2>3. Cardinality(T) \in Nat
    BY <2>2, FS_CardinalityType
  <2>4. Cardinality(S) # Cardinality(T)
    BY <1>1, <2>2
  <2> QED
    BY <2>1, <2>2, <2>3, <2>4
<1>2. \A s \in S : ~ (s > s) /\ ~ (s < s)
  OBVIOUS
<1>3. \A s \in S : Cardinality({t \in S : t > s}) < k /\ Cardinality({t \in S : t < s}) < k
  BY <1>1, <1>2
<1> QED
  BY <1>3 DEF Highest, Lowest

\* There is a highest one and a lowest one.
LEMMA SomeOfThem ==
  ASSUME NEW n \in Nat, NEW S \in SUBSET (1 .. n), S # {}, NEW k \in Int, k >= 1
  PROVE  Highest(S, k) # {} /\ Lowest(S, k) # {}
<1>1. PICK lo \in S : \A y \in S : lo <= y
  BY Finite, Least
<1>2. PICK hi \in S : \A y \in S : y <= hi
  BY Finite, MaxIs
<1>3. \A y \in S : y \in Int
  OBVIOUS
<1>4. {t \in S : t > hi} = {} /\ {t \in S : t < lo} = {}
  <2>1. hi \in Int /\ lo \in Int
    BY <1>3
  <2>2. \A t \in S : ~ (t > hi) /\ ~ (t < lo)
    BY <1>1, <1>2, <1>3, <2>1
  <2> QED
    BY <2>2
<1>5. Cardinality({t \in S : t > hi}) < k /\ Cardinality({t \in S : t < lo}) < k
  BY <1>4, FS_EmptySet
<1> QED
  BY <1>5 DEF Highest, Lowest

-----------------------------------------------------------------------------
(* Pages *)

LEMMA WholeKept ==
  ASSUME NEW S, NEW b, NEW hi \in Int, NEW L, NEW E, NEW M, NEW F, WholeTo(S, b, hi, L, E),
         \A s \in 1 .. hi : Visible(s, M) => Visible(s, L),
         \A s \in 1 .. hi : Coming(s, F) => Coming(s, E)
  PROVE  WholeTo(S, b, hi, M, F)
BY DEF WholeTo

LEMMA ComingFewer ==
  ASSUME NEW E, NEW F \in SUBSET E, NEW s, Coming(s, F)
  PROVE  Coming(s, E)
BY DEF Coming

\* An event under way is about one of the last messages.
LEMMA ComingNear ==
  ASSUME NEW L \in Seq(Row), NEW E \in SUBSET Event, NEW now \in Int, NEW s \in Int, Coming(s, E),
         \A e \in E : EventOK(e, L, now)
  PROVE  Len(L) - s < Margin
<1>1. PICK e \in E : e.kind = "new" /\ e.seq <= s
  BY DEF Coming
<1>2. /\ Len(L) - e.seq <= now - e.copy.at
      /\ now < e.copy.at + Margin
  BY <1>1 DEF EventOK
<1>3. e.seq \in Int /\ e.copy.at \in Int /\ Len(L) \in Int /\ Margin \in Int
  <2>1. e.seq \in 1 .. MaxSeq /\ e.copy \in Row
    BY DEF Event
  <2>2. e.copy.at \in Int
    BY <2>1 DEF Row
  <2> QED
    BY <2>1, <2>2, Constants
<1> QED
  BY <1>1, <1>2, <1>3

\* The highest ones of what is below `from`, up to the end of it.
LEMMA PageBelow ==
  ASSUME NEW n \in Nat, NEW L, NEW from \in Int, NEW k \in Nat, k >= 1,
         NEW B \in SUBSET (1 .. n), \A x \in 1 .. n : x \in B <=> (Visible(x, L) /\ x < from),
         NEW s \in 1 .. n, s < from, Visible(s, L),
         \/ Cardinality(B) <= k
         \/ \E u \in Highest(B, k) : u <= s
         \/ n - s < k
         \/ (from <= n /\ n - s <= k)
  PROVE  s \in Highest(B, k)
<1>1. s \in B
  OBVIOUS
<1> k \in Int
  OBVIOUS
<1>2. CASE Cardinality(B) <= k
  <2>1. Highest(B, k) = B
    BY <1>2, AllOfThem
  <2> QED
    BY <1>1, <2>1
<1>3. CASE \E u \in Highest(B, k) : u <= s
  BY <1>1, <1>3, HighestUp
<1>4. CASE n - s < k
  BY <1>1, <1>4, HighestHas
<1>5. CASE from <= n /\ n - s <= k
  <2>1. B \in SUBSET (1 .. n - 1) /\ n - 1 \in Nat
    <3>1. n - 1 \in Nat
      OBVIOUS
    <3>2. \A x \in 1 .. n : x < from => x \in 1 .. n - 1
      BY <1>5
    <3> QED
      BY <3>1, <3>2
  <2>2. (n - 1) - s < k
    BY <1>5
  <2> QED
    BY <1>1, <2>1, <2>2, HighestHas
<1> QED
  BY <1>2, <1>3, <1>4, <1>5

LEMMA Below ==
  ASSUME NEW n \in Nat, NEW B \in SUBSET (1 .. n), NEW k \in Nat, k >= 1
  PROVE  /\ Highest(B, k) \subseteq B /\ Lowest(B, k) \subseteq B
         /\ Cardinality(B) > k => Highest(B, k) # {} /\ Lowest(B, k) # {}
<1> k \in Int
  OBVIOUS
<1>1. Highest(B, k) \subseteq B /\ Lowest(B, k) \subseteq B
  BY DEF Highest, Lowest
<1>2. ASSUME Cardinality(B) > k PROVE Highest(B, k) # {} /\ Lowest(B, k) # {}
  <2>1. Cardinality({}) = 0
    BY FS_EmptySet
  <2>2. B # {}
    BY <1>2, <2>1
  <2> QED
    BY <2>2, SomeOfThem
<1> QED
  BY <1>1, <1>2

LEMMA NewestWhole ==
  ASSUME CursorHypothesis, NEW L, NEW E, NEW n \in Nat, NEW from \in Int, n < from,
         NEW B \in SUBSET (1 .. n), \A x \in 1 .. n : x \in B <=> (Visible(x, L) /\ x < from),
         \A s \in 1 .. n : Coming(s, E) => n - s < Margin
  PROVE  /\ WholeTo(Highest(B, Page), Cardinality(B) > Page, n, L, E)
         /\ Highest(B, Page) \subseteq 1 .. n
         /\ Cardinality(B) > Page => Highest(B, Page) # {}
<1> DEFINE H == Highest(B, Page)
<1>1. Page \in Nat /\ Page >= 1 /\ Margin \in Nat /\ Margin <= Page
  BY Constants DEF CursorHypothesis
<1>2. H \subseteq B /\ (Cardinality(B) > Page => H # {})
  BY <1>1, Below
<1>3. ASSUME NEW s \in 1 .. n, Visible(s, L),
             (Cardinality(B) > Page /\ H # {}) => (Coming(s, E) \/ \E u \in H : u <= s)
      PROVE  s \in H
  <2>1. s < from
    BY <1>3
  <2>2. CASE Cardinality(B) > Page
    <3>1. Coming(s, E) \/ \E u \in H : u <= s
      BY <1>2, <1>3, <2>2
    <3>2. CASE Coming(s, E)
      <4>1. n - s < Page
        BY <1>1, <3>2
      <4> HIDE DEF H
      <4> QED
        BY <1>1, <1>3, <2>1, <4>1, PageBelow DEF H
    <3>3. CASE \E u \in H : u <= s
      BY <1>1, <1>3, <2>1, <3>3, PageBelow
    <3> QED
      BY <3>1, <3>2, <3>3
  <2>3. CASE ~ (Cardinality(B) > Page)
    <3>1. IsFiniteSet(B) /\ Cardinality(B) \in Nat
      BY Finite
    <3>2. Cardinality(B) <= Page
      BY <1>1, <2>3, <3>1
    <3> QED
      BY <1>1, <1>3, <2>1, <3>2, PageBelow
  <2> QED
    BY <2>2, <2>3
<1> QED
  BY <1>2, <1>3 DEF WholeTo

LEMMA OlderWhole ==
  ASSUME NEW L, NEW n \in Nat, NEW from \in 1 .. n,
         NEW B \in SUBSET (1 .. n), \A x \in 1 .. n : x \in B <=> (Visible(x, L) /\ x < from)
  PROVE  /\ Highest(B, Page) \subseteq 1 .. n /\ (\A u \in Highest(B, Page) : u < from)
         /\ \A s \in 1 .. from - 1 :
              Visible(s, L) /\ (Cardinality(B) > Page => \E u \in Highest(B, Page) : u <= s)
              => s \in Highest(B, Page)
<1>1. Page \in Nat /\ Page >= 1
  BY Constants
<1>2. Highest(B, Page) \subseteq B
  BY <1>1, Below
<1>3. ASSUME NEW s \in 1 .. from - 1, Visible(s, L),
             Cardinality(B) > Page => \E u \in Highest(B, Page) : u <= s
      PROVE  s \in Highest(B, Page)
  <2>1. s \in 1 .. n /\ s < from /\ from \in Int
    OBVIOUS
  <2>2. IsFiniteSet(B) /\ Cardinality(B) \in Nat
    BY Finite
  <2>3. Cardinality(B) <= Page \/ \E u \in Highest(B, Page) : u <= s
    BY <1>1, <1>3, <2>2
  <2> QED
    BY <1>1, <1>3, <2>1, <2>3, PageBelow
<1> QED
  BY <1>2, <1>3


\* What sync_channel brings beyond the cursor leaves out nothing before its last one.
LEMMA SyncWhole ==
  ASSUME NEW n \in Nat, NEW from \in Int, from \in 0 .. n,
         NEW C \in SUBSET (1 .. n), \A x \in C : x <= from,
         NEW N \in SUBSET (1 .. n), \A s \in 1 .. n : s \in N <=> s > from
  PROVE  /\ Lowest(N, SyncMax) \union Lowest(C, SyncMax) \subseteq 1 .. n
         /\ ~ (Cardinality(N) > SyncMax) =>
              \A s \in from + 1 .. n : s \in Lowest(N, SyncMax) \union Lowest(C, SyncMax)
         /\ \A u \in Lowest(N, SyncMax) \union Lowest(C, SyncMax) :
              \A s \in from + 1 .. u : s \in Lowest(N, SyncMax) \union Lowest(C, SyncMax)
<1> DEFINE P == Lowest(N, SyncMax) \union Lowest(C, SyncMax)
<1>1. SyncMax \in Nat /\ SyncMax \in Int /\ SyncMax >= 1 /\ from \in Int
  BY Constants
<1>2. N \in SUBSET (1 .. n) /\ \A s \in 1 .. n : s \in N <=> s > from
  OBVIOUS
<1>3. Lowest(N, SyncMax) \subseteq N /\ Lowest(C, SyncMax) \subseteq C
  BY DEF Lowest
<1>4. P \subseteq 1 .. n
  BY <1>2, <1>3
<1>5. ASSUME ~ (Cardinality(N) > SyncMax), NEW s \in from + 1 .. n PROVE s \in P
  <2>1. Cardinality(N) \in Nat
    BY <1>2, Finite
  <2>2. Cardinality(N) <= SyncMax
    BY <1>1, <1>5, <2>1
  <2>3. Lowest(N, SyncMax) = N
    BY <1>1, <1>2, <2>2, AllOfThem
  <2>4. s \in 1 .. n /\ s > from
    BY <1>1
  <2> QED
    BY <1>2, <2>3, <2>4
<1>6. ASSUME NEW u \in P, NEW s \in from + 1 .. u PROVE s \in P
  <2>1. u \in 1 .. n /\ s \in 1 .. n /\ s > from /\ s <= u /\ u > from
    BY <1>1, <1>4
  <2>2. u \in Lowest(N, SyncMax) /\ s \in N
    BY <1>1, <1>2, <1>3, <2>1
  <2>3. s \in Lowest(N, SyncMax)
    BY <1>1, <1>2, <2>1, <2>2, LowestDown
  <2> QED
    BY <2>3
<1> QED
  BY <1>4, <1>5, <1>6

-----------------------------------------------------------------------------
(* The client's state after a piece of a handler: what becomes of the timeline and of the
   requests. *)

LEMMA CopiesAre ==
  ASSUME NEW p \in Copies
  PROVE  DOMAIN p \in SUBSET (1 .. MaxSeq) /\ p \in [DOMAIN p -> Row] /\ \A s \in DOMAIN p : p[s] \in Row
BY DEF Copies

LEMMA AreCopies ==
  ASSUME NEW S \in SUBSET (1 .. MaxSeq), NEW p \in [S -> Row]
  PROVE  p \in Copies
BY DEF Copies

LEMMA Nothing ==
  /\ NoRows \in Copies /\ DOMAIN NoRows = {}
  /\ EmptyTimeline \in Tl
  /\ \A n \in 0 .. MaxSeq : FirstView(n) \in View
<1>1. NoRows \in [{} -> Row] /\ DOMAIN NoRows = {} /\ {} \in SUBSET (1 .. MaxSeq)
  BY DEF NoRows
<1>2. NoRows \in Copies
  BY <1>1, AreCopies
<1>3. 0 \in 0 .. MaxSeq
  BY Constants
<1>4. EmptyTimeline \in Tl
  BY <1>3 DEF EmptyTimeline, Tl
<1>5. [EmptyTimeline EXCEPT !.status = "none"] \in Tl
  BY <1>4 DEF Tl
<1>6. \A n \in 0 .. MaxSeq : FirstView(n) \in View
  BY <1>2, <1>3, <1>5 DEF FirstView, View
<1> QED
  BY <1>1, <1>2, <1>4, <1>6

LEMMA MergeIs ==
  ASSUME NEW h \in Copies, NEW p \in Copies
  PROVE  Merge(h, p) \in Copies
<1> DEFINE D == DOMAIN h \union DOMAIN p
<1>1. D \in SUBSET (1 .. MaxSeq)
  BY CopiesAre
<1>2. (\A s \in DOMAIN h : h[s] \in Row) /\ (\A s \in DOMAIN p : p[s] \in Row)
  BY CopiesAre
<1>3. Merge(h, p) \in [D -> Row]
  BY <1>2 DEF Merge
<1> HIDE DEF D
<1> QED
  BY <1>1, <1>3, AreCopies

LEMMA RowsAre ==
  ASSUME Types, NEW S \in SUBSET (1 .. Len(log))
  PROVE  Rows(S) \in Copies /\ DOMAIN Rows(S) = S /\ S \in SUBSET (1 .. MaxSeq)
<1>1. \A s \in 1 .. Len(log) : log[s] \in Row /\ s \in 1 .. MaxSeq
  BY Constants DEF Types
<1>2. Rows(S) \in [S -> Row] /\ DOMAIN Rows(S) = S
  BY <1>1 DEF Rows
<1>3. S \in SUBSET (1 .. MaxSeq)
  BY <1>1
<1> QED
  BY <1>2, <1>3, AreCopies

LEMMA MaxOfTwo ==
  ASSUME NEW a \in 0 .. MaxSeq, NEW b \in 0 .. MaxSeq
  PROVE  Max({a, b}) \in 0 .. MaxSeq /\ Max({a, b}) = IF a <= b THEN b ELSE a
<1>1. {a, b} \in SUBSET (0 .. MaxSeq) /\ {a, b} # {} /\ MaxSeq \in Nat
  BY Constants
<1>2. Max({a, b}) \in {a, b} /\ \A y \in {a, b} : y <= Max({a, b})
  BY <1>1, MaxIs
<1>3. a \in Int /\ b \in Int
  OBVIOUS
<1> QED
  BY <1>2, <1>3

\* A request as Ask makes it.
Asked(kind, from, since, min, at) ==
  [kind |-> kind, live |-> TRUE, step |-> "asked", from |-> from, since |-> since, min |-> min,
   at |-> at, page |-> NoRows, last |-> 0, before |-> FALSE, beyond |-> FALSE]

LEMMA AskIs ==
  ASSUME NEW v \in View, NEW kind \in Kinds, NEW from \in 0 .. MaxSeq + 1, NEW since \in Int,
         NEW min \in Int, NEW at \in Int
  PROVE  /\ Ask(v, kind, from, since, min, at) \in View
         /\ Asked(kind, from, since, min, at) \in Req
         /\ Ask(v, kind, from, since, min, at).tl = v.tl
         /\ Ask(v, kind, from, since, min, at).reqs = v.reqs \union {Asked(kind, from, since, min, at)}
<1>1. 0 \in 0 .. MaxSeq
  BY Constants
<1>2. Asked(kind, from, since, min, at) \in Req
  BY <1>1, Nothing DEF Asked, Req
<1>3. Ask(v, kind, from, since, min, at) = [v EXCEPT !.reqs = @ \union {Asked(kind, from, since, min, at)}]
  BY DEF Ask, Asked
<1>4. v.reqs \union {Asked(kind, from, since, min, at)} \in SUBSET Req
  BY <1>2 DEF View
<1> QED
  BY <1>2, <1>3, <1>4 DEF View

Bumped(R) == {[r EXCEPT !.live = FALSE] : r \in {q \in R : q.kind \in {"older", "newer"} \union HealKinds}}

LEMMA BumpIs ==
  ASSUME NEW v \in View
  PROVE  Bump(v) \in View /\ Bump(v).tl = v.tl /\ Bump(v).reqs = Bumped(v.reqs)
<1>1. \A r \in v.reqs : r \in Req
  BY DEF View
<1>2. \A r \in v.reqs : [r EXCEPT !.live = FALSE] \in Req
  BY <1>1 DEF Req
<1>3. Bumped(v.reqs) \in SUBSET Req
  BY <1>2 DEF Bumped
<1>4. Bump(v) = [v EXCEPT !.reqs = Bumped(v.reqs)]
  BY DEF Bump, Bumped
<1> QED
  BY <1>3, <1>4 DEF View

LEMMA NoteGapIs ==
  ASSUME NEW v \in View, NEW s \in 0 .. MaxSeq
  PROVE  NoteGap(v, s) \in View /\ NoteGap(v, s).tl = v.tl /\ NoteGap(v, s).reqs = v.reqs
BY DEF NoteGap, View

LEMMA HealIfBehindIs ==
  ASSUME NEW v \in View
  PROVE  HealIfBehind(v) \in View /\ HealIfBehind(v).tl = v.tl /\ HealIfBehind(v).reqs = v.reqs
<1> DEFINE S == {v.known} \union v.tl.shown
<1>1. S \in SUBSET (0 .. MaxSeq) /\ S # {}
  BY Constants DEF View, Tl
<1>2. Max(S) \in 0 .. MaxSeq
  <2> HIDE DEF S
  <2> QED
    BY <1>1, Constants, MaxIs
<1>3. /\ NoteGap(v, Max(S)) \in View /\ NoteGap(v, Max(S)).tl = v.tl
      /\ NoteGap(v, Max(S)).reqs = v.reqs
  BY <1>2, NoteGapIs
<1> QED
  BY <1>3 DEF HealIfBehind

\* What healChannel asks for, if it asks.
HealAsked(v) ==
  Asked("heal", v.tl.last, (IF v.tl.synced > 0 THEN v.tl.synced ELSE clock) - Margin,
        IF v.tl.shown = {} THEN v.tl.last ELSE Min(v.tl.shown), clock)

LEMMA HealChannelIs ==
  ASSUME NEW v \in View, clock \in Int
  PROVE  /\ HealChannel(v) \in View /\ HealChannel(v).tl = v.tl
         /\ HealChannel(v).reqs = v.reqs \union (IF CanHeal(v) THEN {HealAsked(v)} ELSE {})
         /\ HealAsked(v) \in Req
<1>1. v.tl \in Tl
  BY DEF View
<1>2. v.tl.last \in 0 .. MaxSeq + 1 /\ v.tl.synced \in Int /\ Margin \in Int /\ v.tl.last \in Int
  BY <1>1, Constants DEF Tl
<1>3. v.tl.shown # {} => Min(v.tl.shown) \in Int
  <2>1. v.tl.shown \in SUBSET Nat
    BY <1>1 DEF Tl
  <2>2. v.tl.shown # {} => Min(v.tl.shown) \in v.tl.shown
    BY <2>1, MinIs
  <2> QED
    BY <2>1, <2>2
<1> DEFINE since == (IF v.tl.synced > 0 THEN v.tl.synced ELSE clock) - Margin
           least == IF v.tl.shown = {} THEN v.tl.last ELSE Min(v.tl.shown)
<1>4. since \in Int /\ least \in Int /\ "heal" \in Kinds
  BY <1>2, <1>3 DEF Kinds
<1>5. HealAsked(v) = Asked("heal", v.tl.last, since, least, clock)
  BY DEF HealAsked
<1>6. HealChannel(v) = IF CanHeal(v) THEN Ask(v, "heal", v.tl.last, since, least, clock) ELSE v
  BY DEF HealChannel
<1> HIDE DEF since, least
<1>7. /\ Ask(v, "heal", v.tl.last, since, least, clock) \in View
      /\ HealAsked(v) \in Req
      /\ Ask(v, "heal", v.tl.last, since, least, clock).tl = v.tl
      /\ Ask(v, "heal", v.tl.last, since, least, clock).reqs = v.reqs \union {HealAsked(v)}
  BY <1>2, <1>4, <1>5, AskIs
<1> QED
  BY <1>6, <1>7

\* What a newest page is asked for with.
NewestAsked == Asked("newest", MaxSeq + 1, 0, 0, clock)
LoadingTl(t) == [t EXCEPT !.status = "loading"]

LEMMA AskNewestIs ==
  ASSUME NEW v \in View, clock \in Int
  PROVE  /\ AskNewest(v) \in View /\ AskNewest(v).tl = LoadingTl(v.tl)
         /\ AskNewest(v).reqs = v.reqs \union {NewestAsked}
         /\ NewestAsked \in Req /\ LoadingTl(v.tl) \in Tl
<1> DEFINE w == [v EXCEPT !.tl.status = "loading"]
<1>1. v.tl \in Tl
  BY DEF View
<1>2. LoadingTl(v.tl) \in Tl
  BY <1>1 DEF LoadingTl, Tl
<1>3. w \in View /\ w.tl = LoadingTl(v.tl) /\ w.reqs = v.reqs
  BY <1>2 DEF View, LoadingTl
<1>4. AskNewest(v) = Ask(w, "newest", MaxSeq + 1, 0, 0, clock)
  BY DEF AskNewest
<1>5. MaxSeq + 1 \in 0 .. MaxSeq + 1 /\ "newest" \in Kinds /\ 0 \in Int
  BY Constants DEF Kinds
<1> HIDE DEF w
<1> QED
  BY <1>2, <1>3, <1>4, <1>5, AskIs DEF NewestAsked

-----------------------------------------------------------------------------
(* The timeline and the requests that are out: what keeps them Good. *)

LEMMA FewerRequests ==
  ASSUME NEW t, NEW R, NEW Q \in SUBSET R, NEW L, NEW E, Good(t, R, L, E)
  PROVE  Good(t, Q, L, E)
<1>1. ASSUME NEW r \in Q PROVE ReqOK(r, t, Q, L, E)
  <2>1. r \in R /\ ReqOK(r, t, R, L, E)
    BY DEF Good
  <2> QED
    BY <2>1 DEF ReqOK
<1> QED
  BY <1>1 DEF Good

\* With nobody who waits for the timeline as it was, it may be replaced.
LEMMA OtherTimeline ==
  ASSUME NEW t, NEW u, NEW R, NEW L, NEW E, Good(t, R, L, E), \A r \in R : ~r.live, TlOK(u, L, E)
  PROVE  Good(u, R, L, E)
<1>1. ASSUME NEW r \in R PROVE ReqOK(r, u, R, L, E)
  <2>1. ReqOK(r, t, R, L, E) /\ ~r.live
    BY DEF Good
  <2>2. r.kind # "newer"
    BY <2>1 DEF ReqOK, NewerOK
  <2> QED
    BY <2>1, <2>2 DEF ReqOK
<1> QED
  BY <1>1 DEF Good

LEMMA MoreShown ==
  ASSUME NEW t, NEW u, NEW R, NEW L, NEW E, Good(t, R, L, E), TlOK(u, L, E),
         u.last = t.last, u.after = t.after, t.shown \subseteq u.shown,
         (\E r \in R : r.kind = "newer") => u.newer = t.newer,
         (\E r \in R : r.live /\ r.kind \in PageKinds) =>
           "fail" \in May \/ u.status \in {"none", "loading"}
  PROVE  Good(u, R, L, E)
<1>1. ASSUME NEW r \in R PROVE ReqOK(r, u, R, L, E)
  <2>1. ReqOK(r, t, R, L, E)
    BY DEF Good
  <2>2. (r.live /\ r.kind = "older") => OlderOK(r, u, L)
    BY <2>1 DEF ReqOK, OlderOK
  <2>3. (r.live /\ r.kind = "heal") => HealOK(r, u, L)
    BY <2>1 DEF ReqOK, HealOK
  <2>4. r.kind = "newer" => NewerOK(r, u, L)
    BY <2>1 DEF ReqOK, NewerOK
  <2> QED
    BY <2>1, <2>2, <2>3, <2>4 DEF ReqOK
<1> QED
  BY <1>1 DEF Good

LEMMA Dead ==
  ASSUME NEW t, NEW R \in SUBSET Req, NEW L, NEW E, Good(t, R, L, E),
         \A r \in R : r.kind # "newer",
         "newer" \in May => \A r \in R : r.kind # "drop"
  PROVE  /\ Good(t, Bumped(R), L, E)
         /\ \A r \in Bumped(R) : ~r.live /\ r.kind \in {"older"} \union HealKinds
         /\ (\A r \in R : r.kind \notin HealKinds) => \A r \in Bumped(R) : r.kind \notin HealKinds
<1> DEFINE Off(r) == [r EXCEPT !.live = FALSE]
<1>1. \A r \in R : /\ ~Off(r).live /\ Off(r).kind = r.kind /\ Off(r).from = r.from
                   /\ Off(r).min = r.min
  BY DEF Req
<1>2. \A x \in Bumped(R) : \E r \in R : x = Off(r) /\ r.kind \in {"older", "newer"} \union HealKinds
  BY DEF Bumped
<1> HIDE DEF Off
<1>3. \A x \in Bumped(R) : ~x.live /\ x.kind \in {"older"} \union HealKinds
  BY <1>1, <1>2
<1>4. ASSUME NEW x \in Bumped(R) PROVE ReqOK(x, t, Bumped(R), L, E)
  <2>1. PICK r \in R : x = Off(r)
    BY <1>2
  <2>2. ReqOK(r, t, R, L, E)
    BY DEF Good
  <2>3. /\ ~x.live /\ x.kind = r.kind /\ x.from = r.from /\ x.min = r.min
        /\ x.kind \notin {"newer", "paint"} /\ ("newer" \in May => x.kind # "drop")
    BY <1>1, <1>3, <2>1 DEF HealKinds
  <2>4. FromOK(x, L)
    BY <2>2, <2>3 DEF ReqOK, FromOK
  <2>5. ASSUME x.kind \in HealKinds, NEW y \in Bumped(R), y.kind \in HealKinds PROVE y = x
    <3>1. PICK q \in R : y = Off(q)
      BY <1>2
    <3>2. q = r
      BY <1>1, <2>2, <2>3, <2>5, <3>1 DEF ReqOK
    <3> QED
      BY <2>1, <3>1, <3>2
  <2> QED
    BY <2>3, <2>4, <2>5 DEF ReqOK
<1> QED
  BY <1>1, <1>2, <1>3, <1>4 DEF Good

\* A page is asked for while nothing is under way.
LEMMA AskPage ==
  ASSUME NEW t, NEW R, NEW L, NEW E, Good(t, R, L, E), \A r \in R : ~r.live,
         NEW a, a.live, a.kind \in PageKinds, a.step = "asked", FromOK(a, L),
         IF "fail" \in May THEN t.last = 0 ELSE t.status \in {"none", "loading"},
         a.kind \in HealKinds => \A r \in R : r.kind \notin HealKinds
  PROVE  Good(t, R \union {a}, L, E)
<1> DEFINE Q == R \union {a}
<1>1. a.kind \notin {"older", "newer", "heal", "drop"}
  BY DEF PageKinds
<1>2. ReqOK(a, t, Q, L, E)
  BY <1>1 DEF ReqOK
<1>3. ASSUME NEW r \in R PROVE ReqOK(r, t, Q, L, E)
  <2>1. ReqOK(r, t, R, L, E) /\ ~r.live
    BY DEF Good
  <2>2. r.kind # "newer"
    BY <2>1 DEF ReqOK, NewerOK
  <2> QED
    BY <2>1, <2>2 DEF ReqOK
<1> QED
  BY <1>2, <1>3 DEF Good

\* What joins the timeline is asked for while no page is.
LEMMA AskMore ==
  ASSUME NEW t, NEW R, NEW L, NEW E, Good(t, R, L, E),
         \A r \in R : ~ (r.live /\ r.kind \in PageKinds),
         NEW a, a.live, a.kind \in {"older", "newer", "heal"}, a.step = "asked",
         \/ a.kind = "older" /\ a.from \in t.shown
         \/ /\ a.kind = "newer" /\ "newer" \in May /\ t.after /\ t.newer = "loading"
            /\ a.from = t.last /\ a.min = a.from /\ \A r \in R : r.kind # "newer"
         \/ /\ a.kind = "heal" /\ a.from = t.last /\ t.last >= 1 /\ t.last \in Int /\ ~t.after
            /\ \A r \in R : r.kind \notin HealKinds
  PROVE  Good(t, R \union {a}, L, E)
<1> DEFINE Q == R \union {a}
<1>1. FromOK(a, L)
  BY DEF FromOK
<1>2. a.kind \notin PageKinds /\ a.kind \notin {"drop", "reload"}
  BY DEF PageKinds
<1>3. a.kind = "older" => OlderOK(a, t, L)
  BY DEF OlderOK
<1>4. a.kind = "newer" => NewerOK(a, t, L)
  BY DEF NewerOK, SyncOK
<1>5. a.kind = "heal" => HealOK(a, t, L)
  BY DEF HealOK, SyncOK
<1>6. ReqOK(a, t, Q, L, E)
  BY <1>1, <1>2, <1>3, <1>4, <1>5 DEF ReqOK, HealKinds, PageKinds
<1>7. ASSUME NEW r \in R PROVE ReqOK(r, t, Q, L, E)
  <2>1. ReqOK(r, t, R, L, E) /\ ~ (r.live /\ r.kind \in PageKinds)
    BY DEF Good
  <2>2. r.kind = "newer" => a.kind # "newer"
    OBVIOUS
  <2>3. r.kind \in HealKinds => a.kind \notin HealKinds
    BY DEF HealKinds
  <2> QED
    BY <2>1, <2>2, <2>3 DEF ReqOK
<1> QED
  BY <1>6, <1>7 DEF Good

\* The server's side moves: there is more of it, less of it is to be shown, less is to come.
LEMMA ServerMoves ==
  ASSUME NEW t, NEW R, NEW L, NEW E, NEW M, NEW F, Good(t, R, L, E),
         Len(L) \in Nat, Len(M) \in Nat, Len(L) <= Len(M), Len(L) <= MaxSeq,
         \A s \in 1 .. Len(L) : Visible(s, M) => Visible(s, L),
         \A s \in 1 .. Len(L) : Coming(s, F) => Coming(s, E)
  PROVE  Good(t, R, M, F)
<1>1. TlOK(t, L, E)
  BY DEF Good
<1>2. t.last \in 0 .. Len(L) /\ t.shown \subseteq 1 .. Len(L) /\ WholeTo(t.shown, t.before, t.last, L, E)
  BY <1>1 DEF TlOK
<1>3. t.last \in Int /\ \A s \in 1 .. t.last : s \in 1 .. Len(L)
  BY <1>2
<1>4. WholeTo(t.shown, t.before, t.last, M, F)
  BY <1>2, <1>3, WholeKept
<1>5. t.last \in 0 .. Len(M) /\ t.shown \subseteq 1 .. Len(M)
  BY <1>2
<1>6. TlOK(t, M, F)
  BY <1>1, <1>4, <1>5 DEF TlOK
<1>7. ASSUME NEW r \in R PROVE ReqOK(r, t, R, M, F)
  <2>1. ReqOK(r, t, R, L, E)
    BY DEF Good
  <2>2. FromOK(r, M)
    <3>1. FromOK(r, L)
      BY <2>1 DEF ReqOK
    <3> QED
      BY <3>1 DEF FromOK
  <2>3. ASSUME PageOK(r, L, E) PROVE PageOK(r, M, F)
    <3>1. End(r) \in 1 .. Len(L) /\ WholeTo(DOMAIN r.page, r.before, End(r), L, E)
      BY <2>3 DEF PageOK
    <3>2. End(r) \in Int /\ \A s \in 1 .. End(r) : s \in 1 .. Len(L)
      BY <3>1
    <3>3. WholeTo(DOMAIN r.page, r.before, End(r), M, F)
      BY <3>1, <3>2, WholeKept
    <3>4. End(r) \in 1 .. Len(M)
      BY <3>1
    <3> QED
      BY <2>3, <3>3, <3>4 DEF PageOK
  <2>4. ASSUME OlderOK(r, t, L) PROVE OlderOK(r, t, M)
    <3>1. r.from \in 1 .. Len(L)
      BY <1>2, <2>4 DEF OlderOK
    <3>2. \A s \in 1 .. r.from - 1 : s \in 1 .. Len(L)
      BY <3>1
    <3>3. DOMAIN r.page \subseteq 1 .. Len(L) => DOMAIN r.page \subseteq 1 .. Len(M)
      OBVIOUS
    <3> QED
      BY <2>4, <3>2, <3>3 DEF OlderOK
  <2>5. ASSUME SyncOK(r, L) PROVE SyncOK(r, M)
    <3>1. r.last \in r.from .. Len(L) => r.last \in r.from .. Len(M)
      OBVIOUS
    <3> QED
      BY <2>5, <3>1 DEF SyncOK
  <2>6. ASSUME HealOK(r, t, L) PROVE HealOK(r, t, M)
    <3>1. r.from \in 1 .. t.last /\ SyncOK(r, M)
      BY <2>5, <2>6 DEF HealOK
    <3>2. \A s \in r.from + 1 .. t.last : s \in 1 .. Len(L)
      BY <1>2, <3>1
    <3> QED
      BY <2>6, <3>1, <3>2 DEF HealOK
  <2>7. NewerOK(r, t, L) => NewerOK(r, t, M)
    BY <2>5 DEF NewerOK
  <2> QED
    BY <2>1, <2>2, <2>3, <2>4, <2>6, <2>7 DEF ReqOK
<1> QED
  BY <1>6, <1>7 DEF Good

LEMMA CacheKept ==
  ASSUME NEW c, NEW L, NEW E, NEW M, NEW F, CacheOK(c, L, E), c.last \in Int, c.last <= Len(L),
         Len(L) \in Nat, Len(M) \in Nat, Len(L) <= Len(M),
         \A s \in 1 .. Len(L) : Visible(s, M) => Visible(s, L),
         \A s \in 1 .. Len(L) : Coming(s, F) => Coming(s, E)
  PROVE  CacheOK(c, M, F)
<1>1. \A s \in 1 .. c.last : s \in 1 .. Len(L)
  OBVIOUS
<1>2. WholeTo(DOMAIN c.page, TRUE, c.last, L, E)
  BY DEF CacheOK
<1>3. WholeTo(DOMAIN c.page, TRUE, c.last, M, F)
  BY <1>1, <1>2, WholeKept
<1>4. c # NoCache => c.last \in 1 .. Len(M)
  <2>1. c # NoCache => c.last \in 1 .. Len(L)
    BY DEF CacheOK
  <2> QED
    BY <2>1
<1>5. DOMAIN c.page \subseteq 1 .. Len(M)
  <2>1. DOMAIN c.page \subseteq 1 .. Len(L)
    BY DEF CacheOK
  <2> QED
    BY <2>1
<1> QED
  BY <1>3, <1>4, <1>5 DEF CacheOK

-----------------------------------------------------------------------------
(* What the person does *)

LEMMA Facts ==
  ASSUME CursorInv
  PROVE  /\ view \in View /\ view.tl \in Tl /\ view.reqs \in SUBSET Req /\ clock \in Int
         /\ Len(log) \in Nat /\ Len(log) <= MaxSeq /\ log \in Seq(Row) /\ events \in SUBSET Event
         /\ view.tl.shown \subseteq DOMAIN view.held
         /\ Good(view.tl, view.reqs, log, events)
         /\ TlOK(view.tl, log, events)
         /\ \A r \in view.reqs : r \in Req /\ ReqOK(r, view.tl, view.reqs, log, events)
         /\ cache \in [page : Copies, last : Int] /\ CacheOK(cache, log, events)
         /\ opens \in Nat /\ faults \in Nat
<1>1. Types /\ Good(view.tl, view.reqs, log, events) /\ CacheOK(cache, log, events)
  BY DEF CursorInv
<1>2. Len(log) \in Nat /\ Len(log) <= MaxSeq
  BY <1>1, Constants DEF Types
<1>3. TlOK(view.tl, log, events) /\ \A r \in view.reqs : ReqOK(r, view.tl, view.reqs, log, events)
  BY <1>1 DEF Good
<1>4. view \in View /\ view.tl \in Tl /\ view.reqs \in SUBSET Req
  BY <1>1 DEF Types, View
<1> QED
  BY <1>1, <1>2, <1>3, <1>4 DEF Types

LEMMA NewView ==
  ASSUME CursorInv, NEW v, view' = v, UNCHANGED <<server, clock, events, online>>,
         v \in View, v.tl.shown \subseteq DOMAIN v.held, Good(v.tl, v.reqs, log, events),
         cache' \in [page : Copies, last : Int], CacheOK(cache', log, events),
         opens' \in Nat, faults' \in Nat, FirstOK'
  PROVE  CursorInv'
<1>1. log' = log /\ changing' = changing /\ clock' = clock /\ events' = events /\ online' = online
  BY DEF server
<1>2. Types'
  BY <1>1 DEF CursorInv, Types
<1>3. Good(view'.tl, view'.reqs, log', events') /\ CacheOK(cache', log', events')
  BY <1>1
<1>4. \A e \in events' : EventOK(e, log', clock')
  BY <1>1 DEF CursorInv
<1> QED
  BY <1>2, <1>3, <1>4 DEF CursorInv

LEMMA FirstLater ==
  ASSUME opens' # 0, "fail" \in May => \A r \in view'.reqs : r.kind # "paint"
  PROVE  FirstOK'
BY DEF FirstOK

\* Once something is under way or painted, the conversation has been opened.
LEMMA Opened ==
  ASSUME CursorInv, view.reqs # {} \/ view.tl.status # "none" \/ view.open \/ view.tl.shown # {} \/ view.tl.last # 0
  PROVE  opens # 0
<1>1. FirstOK /\ TlOK(view.tl, log, events)
  BY Facts DEF CursorInv
<1>2. opens = 0 => view.tl.status = "none" /\ view.reqs = {} /\ ~view.open
  BY <1>1 DEF FirstOK
<1> QED
  BY <1>1, <1>2 DEF TlOK

LEMMA CloseKeeps ==
  ASSUME CursorInv, CloseChannel
  PROVE  CursorInv'
<1> DEFINE v == [view EXCEPT !.open = FALSE, !.save = TRUE]
<1>1. view' = v /\ UNCHANGED <<server, clock, events, online>> /\ cache' = cache /\ opens' = opens /\ faults' = faults
  BY DEF CloseChannel, Client, bounds
<1>2. v \in View /\ v.tl = view.tl /\ v.reqs = view.reqs /\ v.held = view.held /\ ~v.open
  BY Facts DEF View
<1>3. FirstOK'
  BY <1>1, <1>2 DEF CursorInv, FirstOK
<1> HIDE DEF v
<1> QED
  BY <1>1, <1>2, <1>3, Facts, NewView

LEMMA OlderAsked ==
  ASSUME CursorInv, CursorHypothesis, LoadOlder
  PROVE  CursorInv'
<1> DEFINE u == [view.tl EXCEPT !.older = "loading"]
           v == [view EXCEPT !.tl.older = "loading"]
           from == Min(view.tl.shown)
           a == Asked("older", from, 0, 0, 0)
           w == Ask(v, "older", from, 0, 0, 0)
<1>1. /\ view' = w /\ UNCHANGED <<server, clock, events, online>>
      /\ cache' = cache /\ opens' = opens /\ faults' = faults
      /\ view.tl.shown # {} /\ ~Loading(view)
  BY DEF LoadOlder, Client, bounds, Scrolls, CursorHypothesis
<1>2. view.tl.shown \in SUBSET (1 .. MaxSeq) /\ view.tl.shown \in SUBSET Nat
  BY Facts DEF Tl
<1>3. from \in view.tl.shown /\ from \in 0 .. MaxSeq + 1
  <2>1. from \in view.tl.shown
    BY <1>1, <1>2, MinIs
  <2> QED
    BY <1>2, <2>1, Constants
<1>4. u \in Tl /\ u.shown = view.tl.shown /\ u.last = view.tl.last /\ u.after = view.tl.after
      /\ u.newer = view.tl.newer /\ u.status = view.tl.status /\ u.before = view.tl.before
      /\ u.cached = view.tl.cached
  BY Facts DEF Tl
<1>5. v \in View /\ v.tl = u /\ v.reqs = view.reqs /\ v.held = view.held
  BY <1>4, Facts DEF View
<1>6. TlOK(u, log, events)
  BY <1>4, Facts DEF TlOK
<1>7. \A r \in view.reqs : ~ (r.live /\ r.kind \in PageKinds)
  BY <1>1 DEF Loading
<1>8. Good(u, view.reqs, log, events)
  <2> HIDE DEF u
  <2> QED
    BY <1>4, <1>6, <1>7, Facts, MoreShown
<1>9. "older" \in Kinds /\ 0 \in Int
  BY DEF Kinds
<1>10. w \in View /\ w.tl = u /\ w.reqs = view.reqs \union {a}
  <2> HIDE DEF v, from, a
  <2> QED
    BY <1>3, <1>5, <1>9, AskIs DEF a
<1>11. w.held = view.held
  BY <1>5 DEF Ask
<1>12. a.live /\ a.kind = "older" /\ a.step = "asked" /\ a.from = from
  BY DEF Asked
<1>13. Good(u, view.reqs \union {a}, log, events)
  <2> HIDE DEF u, a, from
  <2> QED
    BY <1>3, <1>4, <1>7, <1>8, <1>12, AskMore
<1>14. FirstOK'
  <2>1. opens' # 0
    BY <1>1, Opened
  <2>2. \A r \in view'.reqs : r.kind # "paint"
    <3>1. ASSUME NEW r \in view.reqs PROVE r.kind # "paint"
      BY <1>7, Facts DEF ReqOK, PageKinds
    <3> HIDE DEF w, a
    <3> QED
      BY <1>1, <1>10, <1>12, <3>1
  <2> QED
    BY <2>1, <2>2, FirstLater
<1> HIDE DEF w, a, u
<1>15. w.tl.shown \subseteq DOMAIN w.held
  BY <1>4, <1>10, <1>11, Facts
<1> QED
  BY <1>1, <1>10, <1>13, <1>14, <1>15, Facts, NewView

LEMMA NewerAsked ==
  ASSUME CursorInv, CursorHypothesis, LoadNewer
  PROVE  CursorInv'
<1> DEFINE u == [view.tl EXCEPT !.newer = "loading"]
           v == [view EXCEPT !.tl.newer = "loading"]
           from == Max({view.tl.last} \union view.tl.shown)
           a == Asked("newer", from, MaxClock, from, clock)
           w == Ask(v, "newer", from, MaxClock, from, clock)
<1>1. /\ view' = w /\ UNCHANGED <<server, clock, events, online>>
      /\ cache' = cache /\ opens' = opens /\ faults' = faults
      /\ "newer" \in May /\ view.tl.after /\ view.tl.newer # "loading"
      /\ view.tl.shown # {} /\ ~Loading(view)
  BY DEF LoadNewer, Client, bounds, Scrolls, CursorHypothesis
<1>2. view.tl.shown \in SUBSET (1 .. MaxSeq) /\ view.tl.last \in 0 .. MaxSeq
  BY Facts DEF Tl
<1>3. from = view.tl.last /\ from \in 0 .. MaxSeq + 1 /\ from \in Int
  <2> DEFINE S == {view.tl.last} \union view.tl.shown
  <2>1. S \in SUBSET (0 .. MaxSeq) /\ S # {} /\ MaxSeq \in Nat
    BY <1>2, Constants
  <2>2. \A y \in S : y <= view.tl.last
    BY <1>1, <1>2, Facts DEF TlOK
  <2>3. view.tl.last \in S
    OBVIOUS
  <2>4. Max(S) \in S /\ \A y \in S : y <= Max(S)
    <3> HIDE DEF S
    <3> QED
      BY <2>1, MaxIs
  <2>5. Max(S) = view.tl.last
    <3> HIDE DEF S
    <3>1. Max(S) \in 0 .. MaxSeq
      BY <2>1, <2>4
    <3>2. Max(S) <= view.tl.last /\ view.tl.last <= Max(S)
      BY <2>2, <2>3, <2>4
    <3> QED
      BY <1>2, <2>1, <3>1, <3>2
  <2> QED
    BY <1>2, <2>5, Constants
<1>4. u \in Tl /\ u.shown = view.tl.shown /\ u.last = view.tl.last /\ u.after = view.tl.after
      /\ u.newer = "loading" /\ u.status = view.tl.status /\ u.before = view.tl.before
      /\ u.cached = view.tl.cached
  BY Facts DEF Tl
<1>5. v \in View /\ v.tl = u /\ v.reqs = view.reqs /\ v.held = view.held
  BY <1>4, Facts DEF View
<1>6. TlOK(u, log, events)
  BY <1>4, Facts DEF TlOK
<1>7. \A r \in view.reqs : ~ (r.live /\ r.kind \in PageKinds)
  BY <1>1 DEF Loading
<1>8. \A r \in view.reqs : r.kind # "newer"
  BY <1>1, Facts DEF ReqOK, NewerOK
<1>9. Good(u, view.reqs, log, events)
  <2> HIDE DEF u
  <2> QED
    BY <1>4, <1>6, <1>7, <1>8, Facts, MoreShown
<1>10. "newer" \in Kinds /\ MaxClock \in Int /\ clock \in Int
  BY Constants, Facts DEF Kinds
<1>11. w \in View /\ w.tl = u /\ w.reqs = view.reqs \union {a}
  <2> HIDE DEF v, from, a
  <2> QED
    BY <1>3, <1>5, <1>10, AskIs DEF a
<1>12. w.held = view.held
  BY <1>5 DEF Ask
<1>13. a.live /\ a.kind = "newer" /\ a.step = "asked" /\ a.from = from /\ a.min = from
  BY DEF Asked
<1>14. Good(u, view.reqs \union {a}, log, events)
  <2> HIDE DEF u, a, from
  <2> QED
    BY <1>1, <1>3, <1>4, <1>7, <1>8, <1>9, <1>13, AskMore
<1>15. FirstOK'
  <2>1. opens' # 0
    BY <1>1, Opened
  <2>2. \A r \in view'.reqs : r.kind # "paint"
    <3>1. ASSUME NEW r \in view.reqs PROVE r.kind # "paint"
      BY <1>7, Facts DEF ReqOK, PageKinds
    <3> HIDE DEF w, a
    <3> QED
      BY <1>1, <1>11, <1>13, <3>1
  <2> QED
    BY <2>1, <2>2, FirstLater
<1> HIDE DEF w, a, u
<1>16. w.tl.shown \subseteq DOMAIN w.held
  BY <1>4, <1>11, <1>12, Facts
<1> QED
  BY <1>1, <1>11, <1>14, <1>15, <1>16, Facts, NewView

\* A new generation is begun only when nobody is paging down.
LEMMA OpensFirst ==
  ASSUME CursorInv, CursorHypothesis, opens < MaxOpens
  PROVE  /\ \A r \in view.reqs : r.kind # "newer"
         /\ "newer" \in May => \A r \in view.reqs : r.kind # "drop"
         /\ "fail" \in May => opens = 0
<1>1. opens \in Nat /\ MaxOpens \in Nat
  BY Facts, Constants
<1>2. MaxOpens <= 1 \/ ("fail" \notin May /\ "newer" \notin May)
  BY DEF CursorHypothesis
<1>3. CASE MaxOpens <= 1
  <2>1. opens = 0
    BY <1>1, <1>3
  <2>2. view.reqs = {}
    BY <2>1 DEF CursorInv, FirstOK
  <2> QED
    BY <2>1, <2>2
<1>4. CASE "fail" \notin May /\ "newer" \notin May
  BY <1>4, Facts DEF ReqOK, NewerOK
<1> QED
  BY <1>2, <1>3, <1>4

LEMMA OpenKeeps ==
  ASSUME CursorInv, CursorHypothesis, OpenChannel
  PROVE  CursorInv'
<1> DEFINE t == view.tl
           u == [t EXCEPT !.older = Idle(@), !.newer = Idle(@)]
           v == [SettleSubLoad(Bump(view)) EXCEPT !.open = TRUE]
           R == Bumped(view.reqs)
<1>1. /\ opens' = opens + 1 /\ cache' = cache /\ faults' = faults /\ opens < MaxOpens
      /\ UNCHANGED <<server, clock, events, online>>
      /\ \/ view' = IF Warm(v.tl) THEN HealChannel(v)
                    ELSE IF v.tl.shown = {} THEN Ask(v, "paint", 0, 0, 0, 0)
                    ELSE AskNewest(v)
         \/ \E s \in Target \cap Seqs :
              view' = Ask([v EXCEPT !.tl.status = "loading"], "around", s, 0, 0, clock)
  BY DEF OpenChannel, Client, bounds
<1>2. /\ Bump(view) \in View /\ Bump(view).tl = t /\ Bump(view).reqs = R
      /\ Bump(view).held = view.held
  <2>1. Bump(view).held = view.held
    BY Facts DEF Bump, View
  <2>2. view \in View
    BY Facts
  <2> QED
    BY <2>1, <2>2, BumpIs
<1>3. t \in Tl /\ t.shown \in SUBSET (1 .. MaxSeq) /\ t.last \in 0 .. MaxSeq /\ t.last \in Int
  BY Facts DEF Tl
<1>4. /\ u \in Tl /\ u.shown = t.shown /\ u.last = t.last /\ u.after = t.after
      /\ u.status = t.status /\ u.before = t.before /\ u.cached = t.cached
  BY <1>3 DEF Tl, Idle
<1>5. v \in View /\ v.tl = u /\ v.reqs = R /\ v.held = view.held
  <2>1. SettleSubLoad(Bump(view)) = [Bump(view) EXCEPT !.tl = u]
    BY <1>2 DEF SettleSubLoad, View
  <2> HIDE DEF u
  <2> QED
    BY <1>2, <1>4, <2>1 DEF View
<1>6. TlOK(t, log, events) /\ TlOK(u, log, events)
  BY <1>4, Facts DEF TlOK
<1>7. Good(t, R, log, events) /\ \A r \in R : ~r.live /\ r.kind # "paint"
  <2>1. Good(t, R, log, events) /\ \A r \in R : ~r.live /\ r.kind \in {"older"} \union HealKinds
    BY <1>1, OpensFirst, Facts, Dead
  <2> QED
    BY <2>1 DEF HealKinds
<1>8. Good(u, R, log, events)
  <2> HIDE DEF u, R
  <2> QED
    BY <1>6, <1>7, OtherTimeline
<1>9. opens' # 0 /\ opens' \in Nat /\ cache' \in [page : Copies, last : Int]
      /\ CacheOK(cache', log, events) /\ faults' \in Nat
  BY <1>1, Facts
<1>10. "fail" \in May => /\ t.status = "none" /\ t.shown = {} /\ t.last = 0 /\ cache = NoCache
                         /\ view.reqs = {}
  <2>1. ASSUME "fail" \in May PROVE opens = 0
    BY <1>1, <2>1, OpensFirst
  <2> QED
    BY <2>1, <1>6 DEF CursorInv, FirstOK, TlOK
<1> HIDE DEF R, u, v
<1>11. CASE view' = HealChannel(v) /\ Warm(v.tl)
  <2> DEFINE w == HealChannel(v)
             Q == R \union (IF CanHeal(v) THEN {HealAsked(v)} ELSE {})
  <2>1. w \in View /\ w.tl = u /\ w.reqs = Q /\ HealAsked(v) \in Req
    BY <1>5, Facts, HealChannelIs
  <2>2. w.held = view.held
    BY <1>5 DEF HealChannel, Ask
  <2>3. /\ HealAsked(v).live /\ HealAsked(v).kind = "heal" /\ HealAsked(v).step = "asked"
        /\ HealAsked(v).from = u.last
    BY <1>5 DEF HealAsked, Asked
  <2>4. u.last >= 1 /\ ~u.after /\ u.last \in Int
    BY <1>3, <1>4, <1>5, <1>11 DEF Warm
  <2>5. CanHeal(v) => \A r \in R : r.kind \notin HealKinds
    BY <1>5 DEF CanHeal, Healing
  <2>6. Good(u, Q, log, events)
    <3>1. CASE CanHeal(v)
      <4> DEFINE a == HealAsked(v)
      <4>1. Good(u, R \union {a}, log, events)
        <5> HIDE DEF a
        <5>1. /\ a.live /\ a.kind = "heal" /\ a.step = "asked" /\ a.from = u.last
              /\ \A r \in R : r.kind \notin HealKinds
          BY <2>3, <2>5, <3>1 DEF a
        <5> QED
          BY <1>7, <1>8, <2>4, <5>1, AskMore
      <4> QED
        BY <3>1, <4>1
    <3>2. CASE ~CanHeal(v)
      <4>1. Q = R
        BY <3>2
      <4> QED
        BY <1>8, <4>1
    <3> QED
      BY <3>1, <3>2
  <2>7. \A r \in w.reqs : r.kind # "paint"
    BY <1>7, <2>1, <2>3
  <2>8. view' = w /\ UNCHANGED <<server, clock, events, online>>
    BY <1>1, <1>11
  <2> HIDE DEF w, Q
  <2>9. FirstOK'
    <3>1. \A r \in view'.reqs : r.kind # "paint"
      BY <2>7, <2>8
    <3> QED
      BY <1>9, <3>1, FirstLater
  <2>10. w.tl.shown \subseteq DOMAIN w.held
    BY <1>4, <2>1, <2>2, Facts
  <2> QED
    BY <1>9, <2>1, <2>6, <2>8, <2>9, <2>10, NewView
<1>12. CASE view' = Ask(v, "paint", 0, 0, 0, 0) /\ ~Warm(v.tl) /\ v.tl.shown = {}
  <2> DEFINE w == Ask(v, "paint", 0, 0, 0, 0)
             a == Asked("paint", 0, 0, 0, 0)
  <2>1. "paint" \in Kinds /\ 0 \in 0 .. MaxSeq + 1
    BY Constants DEF Kinds
  <2>2. w \in View /\ w.tl = u /\ w.reqs = R \union {a}
    BY <1>5, <2>1, AskIs
  <2>3. w.held = view.held
    BY <1>5 DEF Ask
  <2>4. a.live /\ a.kind = "paint" /\ a.step = "asked"
    BY DEF Asked
  <2>5. "fail" \notin May => u.status \in {"none", "loading"}
    <3>1. ASSUME "fail" \notin May, u.status = "ready" PROVE FALSE
      <4>1. u.last >= 1 /\ ~u.cached /\ (u.after => u.shown # {})
        BY <1>6, <3>1 DEF TlOK
      <4>2. u.shown = {} /\ ~Warm(u)
        BY <1>5, <1>12
      <4>3. ~u.after
        BY <4>1, <4>2
      <4>4. u.last > 0
        BY <1>3, <1>4, <4>1
      <4> QED
        BY <3>1, <4>1, <4>2, <4>3, <4>4 DEF Warm
    <3>2. "fail" \notin May => u.status \in {"none", "loading", "ready"}
      BY <1>6 DEF TlOK
    <3> QED
      BY <3>1, <3>2
  <2>6. IF "fail" \in May THEN u.last = 0 ELSE u.status \in {"none", "loading"}
    BY <1>4, <1>10, <2>5
  <2>7. FromOK(a, log) /\ a.kind \in PageKinds /\ a.kind \notin HealKinds
    BY <2>4 DEF FromOK, PageKinds, HealKinds
  <2>8. view' = w /\ UNCHANGED <<server, clock, events, online>>
    BY <1>1, <1>12
  <2> HIDE DEF w, a
  <2>9. Good(u, R \union {a}, log, events)
    BY <1>7, <1>8, <2>4, <2>6, <2>7, AskPage
  <2>10. FirstOK'
    <3>1. "fail" \in May => R = {}
      <4>1. "fail" \in May => view.reqs = {}
        BY <1>10
      <4> QED
        BY <4>1 DEF R, Bumped
    <3>2. "fail" \in May => /\ view'.tl.status = "none" /\ cache' = NoCache
                            /\ \A r \in view'.reqs : r.kind = "paint"
      BY <1>1, <1>4, <1>10, <2>2, <2>4, <2>8, <3>1
    <3> QED
      BY <1>9, <3>2 DEF FirstOK
  <2>11. w.tl.shown \subseteq DOMAIN w.held
    BY <1>4, <2>2, <2>3, Facts
  <2> QED
    BY <1>9, <2>2, <2>8, <2>9, <2>10, <2>11, NewView
<1>13. CASE view' = AskNewest(v) /\ v.tl.shown # {}
  <2> DEFINE w == AskNewest(v)
  <2>1. w \in View /\ w.tl = LoadingTl(u) /\ w.reqs = R \union {NewestAsked} /\ LoadingTl(u) \in Tl
    BY <1>5, Facts, AskNewestIs
  <2>2. w.held = view.held
    BY <1>5 DEF AskNewest, Ask
  <2>3. view' = w /\ UNCHANGED <<server, clock, events, online>>
    BY <1>1, <1>13
  <2>4. "fail" \notin May
    BY <1>4, <1>5, <1>10, <1>13
  <2>5. /\ LoadingTl(u).status = "loading" /\ LoadingTl(u).shown = u.shown /\ LoadingTl(u).last = u.last
        /\ LoadingTl(u).before = u.before /\ LoadingTl(u).after = u.after
    BY <1>4 DEF LoadingTl, Tl
  <2>6. TlOK(LoadingTl(u), log, events)
    BY <1>6, <2>5 DEF TlOK
  <2>7. Good(LoadingTl(u), R, log, events)
    BY <1>7, <1>8, <2>6, OtherTimeline
  <2>8. /\ NewestAsked.live /\ NewestAsked.kind = "newest" /\ NewestAsked.step = "asked"
        /\ NewestAsked.from = MaxSeq + 1
    BY DEF NewestAsked, Asked
  <2>9. /\ FromOK(NewestAsked, log) /\ NewestAsked.kind \in PageKinds
        /\ NewestAsked.kind \notin HealKinds
    BY <2>8 DEF FromOK, PageKinds, HealKinds
  <2> HIDE DEF w
  <2>10. Good(LoadingTl(u), R \union {NewestAsked}, log, events)
    BY <1>7, <2>4, <2>5, <2>7, <2>8, <2>9, AskPage
  <2>11. FirstOK'
    BY <1>9, <2>4, FirstLater
  <2>12. w.tl.shown \subseteq DOMAIN w.held
    BY <1>4, <2>1, <2>2, <2>5, Facts
  <2> QED
    BY <1>9, <2>1, <2>3, <2>10, <2>11, <2>12, NewView
<1>14. ASSUME NEW s \in Target \cap Seqs,
              view' = Ask([v EXCEPT !.tl.status = "loading"], "around", s, 0, 0, clock)
       PROVE  CursorInv'
  <2> DEFINE x == [v EXCEPT !.tl.status = "loading"]
             w == Ask(x, "around", s, 0, 0, clock)
             a == Asked("around", s, 0, 0, clock)
  <2>1. /\ LoadingTl(u).status = "loading" /\ LoadingTl(u).shown = u.shown /\ LoadingTl(u).last = u.last
        /\ LoadingTl(u).before = u.before /\ LoadingTl(u).after = u.after /\ LoadingTl(u) \in Tl
    BY <1>4 DEF LoadingTl, Tl
  <2>2. x \in View /\ x.tl = LoadingTl(u) /\ x.reqs = R /\ x.held = view.held
    BY <1>5, <2>1 DEF View, LoadingTl
  <2>3. s \in 1 .. Len(log) /\ s \in 0 .. MaxSeq + 1
    <3>1. s \in 1 .. Len(log) /\ Len(log) <= MaxSeq /\ Len(log) \in Nat
      BY Facts DEF Seqs
    <3> QED
      BY <3>1, Constants
  <2>4. "around" \in Kinds /\ clock \in Int /\ 0 \in Int
    BY Facts DEF Kinds
  <2>5. w \in View /\ w.tl = LoadingTl(u) /\ w.reqs = R \union {a}
    <3> HIDE DEF x
    <3> QED
      BY <2>2, <2>3, <2>4, AskIs
  <2>6. w.held = view.held
    BY <2>2 DEF Ask
  <2>7. view' = w /\ UNCHANGED <<server, clock, events, online>>
    BY <1>1, <1>14
  <2>8. a.live /\ a.kind = "around" /\ a.step = "asked" /\ a.from = s
    BY DEF Asked
  <2> HIDE DEF w, x, a
  <2>9. FromOK(a, log) /\ a.kind \in PageKinds /\ a.kind \notin HealKinds
    BY <2>3, <2>8 DEF FromOK, PageKinds, HealKinds
  <2>10. TlOK(LoadingTl(u), log, events)
    BY <1>6, <2>1 DEF TlOK
  <2>11. Good(LoadingTl(u), R, log, events)
    BY <1>7, <1>8, <2>10, OtherTimeline
  <2>12. IF "fail" \in May THEN LoadingTl(u).last = 0 ELSE LoadingTl(u).status \in {"none", "loading"}
    BY <1>4, <1>10, <2>1
  <2>13. Good(LoadingTl(u), R \union {a}, log, events)
    BY <1>7, <2>8, <2>9, <2>11, <2>12, AskPage
  <2>14. FirstOK'
    <3>1. \A r \in view'.reqs : r.kind # "paint"
      BY <1>7, <2>5, <2>7, <2>8
    <3> QED
      BY <1>9, <3>1, FirstLater
  <2>15. w.tl.shown \subseteq DOMAIN w.held
    BY <1>4, <2>1, <2>5, <2>6, Facts
  <2> QED
    BY <1>9, <2>5, <2>7, <2>13, <2>14, <2>15, NewView
<1> QED
  BY <1>1, <1>11, <1>12, <1>13, <1>14

-----------------------------------------------------------------------------
(* The server, the network and the clock *)

LEMMA ServerStep ==
  ASSUME CursorInv, view' = view, cache' = cache, opens' = opens, faults' \in Nat,
         log' \in Seq(Row), Len(log') \in Start .. MaxSeq, Len(log) <= Len(log'),
         \A s \in 1 .. Len(log) : Visible(s, log') => Visible(s, log),
         \A s \in 1 .. Len(log) : Coming(s, events') => Coming(s, events),
         changing' \in SUBSET Change, \A c \in changing' : c.seq <= Len(log'),
         clock' \in Int, events' \in SUBSET Event, online' \in BOOLEAN,
         \A e \in events' : EventOK(e, log', clock')
  PROVE  CursorInv'
<1>1. Len(log) \in Nat /\ Len(log') \in Nat /\ Len(log) <= MaxSeq
  BY Facts, Constants
<1>2. Types'
  BY DEF CursorInv, Types
<1>3. Good(view'.tl, view'.reqs, log', events')
  BY <1>1, Facts, ServerMoves
<1>4. cache.last \in Int /\ cache.last <= Len(log)
  <2>1. cache.last \in Int /\ (cache # NoCache => cache.last <= Len(log))
    BY Facts DEF CacheOK
  <2>2. cache = NoCache => cache.last = -1
    BY DEF NoCache
  <2> QED
    BY <1>1, <2>1, <2>2
<1>5. CacheOK(cache', log', events')
  BY <1>1, <1>4, Facts, CacheKept
<1>6. FirstOK'
  BY DEF CursorInv, FirstOK
<1> QED
  BY <1>2, <1>3, <1>5, <1>6 DEF CursorInv

\* Events go, whichever way.
LEMMA EventsGo ==
  ASSUME CursorInv, view' = view, cache' = cache, opens' = opens, faults' \in Nat,
         log' = log, changing' = changing, clock' = clock, events' \in SUBSET events, online' \in BOOLEAN
  PROVE  CursorInv'
<1>1. \A s : Coming(s, events') => Coming(s, events)
  BY DEF Coming
<1>2. events' \in SUBSET Event /\ \A e \in events' : EventOK(e, log', clock')
  BY DEF CursorInv, Types
<1>3. /\ log \in Seq(Row) /\ Len(log) \in Start .. MaxSeq /\ Len(log) \in Nat
      /\ changing \in SUBSET Change /\ (\A c \in changing : c.seq <= Len(log)) /\ clock \in Int
  BY Facts DEF CursorInv, Types
<1>4. Len(log) <= Len(log')
  BY <1>3
<1> QED
  BY <1>1, <1>2, <1>3, <1>4, ServerStep

LEMMA LoseKeeps ==
  ASSUME CursorInv, Lose
  PROVE  CursorInv'
<1>1. /\ log' = log /\ changing' = changing /\ clock' = clock /\ online' = online /\ view' = view
      /\ cache' = cache /\ opens' = opens /\ faults' = faults + 1 /\ events' \in SUBSET events
  BY DEF Lose, server
<1>2. faults' \in Nat /\ online' \in BOOLEAN
  BY <1>1, Facts DEF CursorInv, Types
<1> QED
  BY <1>1, <1>2, EventsGo

LEMMA AwayKeeps ==
  ASSUME CursorInv, GoAway
  PROVE  CursorInv'
<1>1. /\ log' = log /\ changing' = changing /\ clock' = clock /\ online' = FALSE /\ view' = view
      /\ cache' = cache /\ opens' = opens /\ faults' = faults + 1 /\ events' \in SUBSET events
  BY DEF GoAway, server
<1>2. faults' \in Nat
  BY <1>1, Facts
<1> QED
  BY <1>1, <1>2, EventsGo

\* An event that is on its way when time passes is still in time.
LEMMA StillInTime ==
  ASSUME CursorInv, CursorHypothesis, InTime, clock' = clock + 1, NEW e \in events, NEW L,
         Len(L) \in Nat, Len(log) <= Len(L), Len(L) <= Len(log) + 1
  PROVE  EventOK(e, L, clock')
<1>1. EventOK(e, log, clock) /\ e \in Event
  BY Facts DEF CursorInv
<1>2. e.seq \in Int /\ e.copy.at \in Int /\ Len(log) \in Nat /\ clock \in Int /\ Margin \in Int
  BY <1>1, Facts, Constants DEF Event, Row
<1>3. clock + 1 < e.copy.at + Margin
  BY DEF InTime, CursorHypothesis
<1>4. e.seq \in 1 .. Len(L)
  BY <1>1, <1>2 DEF EventOK
<1>5. Len(log) - e.seq <= clock - e.copy.at => Len(L) - e.seq <= (clock + 1) - e.copy.at
  BY <1>2
<1> QED
  BY <1>1, <1>2, <1>3, <1>4, <1>5 DEF EventOK

LEMMA TickKeeps ==
  ASSUME CursorInv, CursorHypothesis, Tick
  PROVE  CursorInv'
<1>1. /\ log' = log /\ changing' = changing /\ clock' = clock + 1 /\ online' = online /\ view' = view
      /\ cache' = cache /\ opens' = opens /\ faults' = faults /\ events' = events /\ InTime
  BY DEF Tick, server, bounds
<1>2. /\ log \in Seq(Row) /\ Len(log) \in Start .. MaxSeq /\ Len(log) \in Nat
      /\ changing \in SUBSET Change /\ (\A c \in changing : c.seq <= Len(log))
      /\ clock \in Int /\ online \in BOOLEAN /\ faults \in Nat /\ events \in SUBSET Event
  BY Facts DEF CursorInv, Types
<1>3. Len(log) <= Len(log) /\ Len(log) <= Len(log) + 1 /\ clock + 1 \in Int
  BY <1>2
<1>4. \A e \in events : EventOK(e, log, clock')
  BY <1>1, <1>2, <1>3, StillInTime
<1> QED
  BY <1>1, <1>2, <1>3, <1>4, ServerStep

LEMMA BeginKeeps ==
  ASSUME CursorInv, CursorHypothesis, BeginChange
  PROVE  CursorInv'
<1>1. /\ log' = log /\ clock' = clock + 1 /\ online' = online /\ view' = view
      /\ cache' = cache /\ opens' = opens /\ faults' = faults /\ events' = events /\ InTime
  BY DEF BeginChange, bounds
<1>2. PICK s \in Seqs, gone \in BOOLEAN :
        changing' = changing \union {[seq |-> s, at |-> clock', gone |-> gone]}
  BY DEF BeginChange
<1>3. /\ log \in Seq(Row) /\ Len(log) \in Start .. MaxSeq /\ Len(log) \in Nat /\ Len(log) <= MaxSeq
      /\ changing \in SUBSET Change /\ (\A c \in changing : c.seq <= Len(log))
      /\ clock \in Int /\ online \in BOOLEAN /\ faults \in Nat /\ events \in SUBSET Event
  BY Facts DEF CursorInv, Types
<1>4. Len(log) <= Len(log) /\ Len(log) <= Len(log) + 1 /\ clock' \in Int
  BY <1>1, <1>3
<1>5. \A e \in events : EventOK(e, log, clock')
  BY <1>1, <1>3, <1>4, StillInTime
<1>6. s \in 1 .. MaxSeq /\ s <= Len(log)
  BY <1>3, Constants DEF Seqs
<1>7. [seq |-> s, at |-> clock', gone |-> gone] \in Change
  BY <1>4, <1>6 DEF Change
<1>8. changing' \in SUBSET Change /\ \A c \in changing' : c.seq <= Len(log')
  BY <1>1, <1>2, <1>3, <1>6, <1>7
<1> QED
  BY <1>1, <1>3, <1>4, <1>5, <1>8, ServerStep

LEMMA CommitKeeps ==
  ASSUME CursorInv, CommitChange
  PROVE  CursorInv'
<1>1. PICK c \in changing :
        /\ changing' = changing \ {c}
        /\ IF log[c.seq].gone THEN UNCHANGED <<log, events>>
           ELSE LET row == [ver |-> log[c.seq].ver + 1, at |-> c.at, gone |-> c.gone]
                IN log' = [log EXCEPT ![c.seq] = row] /\ Tell([kind |-> "upd", seq |-> c.seq, copy |-> row])
        /\ UNCHANGED <<clock, online, view, cache, bounds>>
  BY DEF CommitChange
<1>2. /\ clock' = clock /\ online' = online /\ view' = view /\ cache' = cache /\ opens' = opens
      /\ faults' = faults
  BY <1>1 DEF bounds
<1>3. /\ log \in Seq(Row) /\ Len(log) \in Start .. MaxSeq /\ Len(log) \in Nat /\ Len(log) <= MaxSeq
      /\ changing \in SUBSET Change /\ (\A x \in changing : x.seq <= Len(log))
      /\ clock \in Int /\ online \in BOOLEAN /\ faults \in Nat /\ events \in SUBSET Event
  BY Facts DEF CursorInv, Types
<1>4. CASE log[c.seq].gone
  <2>1. log' = log /\ events' \in SUBSET events
    BY <1>1, <1>4
  <2>2. events' \in SUBSET Event /\ \A e \in events' : EventOK(e, log', clock')
    BY <1>2, <1>3, <2>1 DEF CursorInv
  <2>3. \A s : Coming(s, events') => Coming(s, events)
    BY <2>1 DEF Coming
  <2>4. changing' \in SUBSET Change /\ \A x \in changing' : x.seq <= Len(log')
    BY <1>1, <1>3, <2>1
  <2>5. Len(log) <= Len(log')
    BY <1>3, <2>1
  <2> QED
    BY <1>2, <1>3, <2>1, <2>2, <2>3, <2>4, <2>5, ServerStep
<1>5. CASE ~log[c.seq].gone
  <2> DEFINE row == [ver |-> log[c.seq].ver + 1, at |-> c.at, gone |-> c.gone]
             e0 == [kind |-> "upd", seq |-> c.seq, copy |-> row]
  <2>1. log' = [log EXCEPT ![c.seq] = row] /\ events' \in SUBSET (events \union {e0})
    BY <1>1, <1>5 DEF Tell
  <2>2. c \in Change /\ c.seq \in 1 .. MaxSeq /\ c.seq <= Len(log) /\ c.at \in Int /\ c.gone \in BOOLEAN
    BY <1>3 DEF Change
  <2>3. c.seq \in 1 .. Len(log)
    BY <1>3, <2>2
  <2>4. row \in Row
    <3>1. log[c.seq] \in Row
      BY <1>3, <2>3
    <3> QED
      BY <2>2, <3>1 DEF Row
  <2>5. /\ log' \in Seq(Row) /\ Len(log') = Len(log)
        /\ \A s \in 1 .. Len(log) : log'[s] = IF s = c.seq THEN row ELSE log[s]
    <3> HIDE DEF row
    <3> QED
      BY <1>3, <2>1, <2>3, <2>4
  <2>6. \A s \in 1 .. Len(log) : Visible(s, log') => Visible(s, log)
    BY <1>5, <2>5 DEF Visible
  <2>7. \A s : Coming(s, events') => Coming(s, events)
    BY <2>1 DEF Coming
  <2>8. e0 \in Event
    <3> HIDE DEF row
    <3> QED
      BY <2>2, <2>4 DEF Event
  <2>9. \A e \in events' : EventOK(e, log', clock')
    <3>1. EventOK(e0, log', clock')
      BY <2>3, <2>5 DEF EventOK
    <3>2. \A e \in events : EventOK(e, log', clock')
      BY <1>2, <2>5 DEF CursorInv, EventOK
    <3> HIDE DEF e0
    <3> QED
      BY <2>1, <3>1, <3>2
  <2>10. events' \in SUBSET Event
    <3> HIDE DEF e0
    <3> QED
      BY <1>3, <2>1, <2>8
  <2>11. changing' \in SUBSET Change /\ \A x \in changing' : x.seq <= Len(log')
    BY <1>1, <1>3, <2>5
  <2>12. Len(log) <= Len(log') /\ Len(log') \in Start .. MaxSeq
    BY <1>3, <2>5
  <2> QED
    BY <1>2, <1>3, <2>5, <2>6, <2>7, <2>9, <2>10, <2>11, <2>12, ServerStep
<1> QED
  BY <1>4, <1>5

LEMMA PostKeeps ==
  ASSUME CursorInv, CursorHypothesis, Post
  PROVE  CursorInv'
<1> DEFINE row == [ver |-> 0, at |-> clock', gone |-> FALSE]
           e0 == [kind |-> "new", seq |-> Len(log'), copy |-> row]
<1>1. /\ changing' = changing /\ clock' = clock + 1 /\ online' = online /\ view' = view
      /\ cache' = cache /\ opens' = opens /\ faults' = faults /\ InTime /\ Len(log) < MaxSeq
      /\ log' = Append(log, row) /\ events' \in SUBSET (events \union {e0})
  BY DEF Post, Tell, bounds
<1>2. /\ log \in Seq(Row) /\ Len(log) \in Start .. MaxSeq /\ Len(log) \in Nat
      /\ changing \in SUBSET Change /\ (\A x \in changing : x.seq <= Len(log))
      /\ clock \in Int /\ online \in BOOLEAN /\ faults \in Nat /\ events \in SUBSET Event
  BY Facts DEF CursorInv, Types
<1>3. clock' \in Int /\ row \in Row
  BY <1>1, <1>2 DEF Row
<1>4. /\ log' \in Seq(Row) /\ Len(log') = Len(log) + 1
      /\ \A s \in 1 .. Len(log) : log'[s] = log[s]
  <2> HIDE DEF row
  <2> QED
    BY <1>1, <1>2, <1>3
<1>5. /\ Len(log') \in Start .. MaxSeq /\ Len(log') \in 1 .. MaxSeq /\ Len(log') > Start
      /\ Len(log) <= Len(log') /\ Len(log') <= Len(log) + 1 /\ Len(log') \in Nat
  BY <1>1, <1>2, <1>4, Constants
<1>6. \A s \in 1 .. Len(log) : Visible(s, log') => Visible(s, log)
  BY <1>4 DEF Visible
<1>7. \A s \in 1 .. Len(log) : Coming(s, events') => Coming(s, events)
  <2>1. \A s \in 1 .. Len(log) : ~ (e0.seq <= s)
    BY <1>2, <1>4
  <2> HIDE DEF e0
  <2> QED
    BY <1>1, <2>1 DEF Coming
<1>8. e0 \in Event
  <2> HIDE DEF row
  <2> QED
    BY <1>3, <1>5 DEF Event
<1>9. EventOK(e0, log', clock')
  <2>1. e0.seq = Len(log') /\ e0.copy.at = clock'
    OBVIOUS
  <2>2. Margin \in Nat /\ Margin >= 1
    BY Constants
  <2>3. e0.seq \in 1 .. Len(log') /\ e0.seq > Start
    BY <1>5, <2>1
  <2>4. Len(log') - e0.seq <= clock' - e0.copy.at /\ clock' < e0.copy.at + Margin
    BY <1>3, <1>5, <2>1, <2>2
  <2> QED
    BY <2>3, <2>4 DEF EventOK
<1>10. \A e \in events : EventOK(e, log', clock')
  BY <1>1, <1>5, StillInTime
<1> HIDE DEF e0, row
<1>11. events' \in SUBSET Event /\ \A e \in events' : EventOK(e, log', clock')
  BY <1>1, <1>2, <1>8, <1>9, <1>10
<1>12. changing' \in SUBSET Change /\ \A x \in changing' : x.seq <= Len(log')
  <2>1. \A x \in changing : x.seq \in Int
    BY <1>2 DEF Change
  <2> QED
    BY <1>1, <1>2, <1>4, <2>1
<1> QED
  BY <1>1, <1>2, <1>3, <1>4, <1>5, <1>6, <1>7, <1>11, <1>12, ServerStep

-----------------------------------------------------------------------------
(* Healing, the start, and the page in IndexedDB *)

\* A heal is asked for where no page is awaited.
LEMMA HealKeeps ==
  ASSUME CursorInv, NEW v \in View, v.tl = view.tl, v.reqs = view.reqs, v.held = view.held, v.open = view.open,
         view' = HealChannel(v), UNCHANGED <<server, clock, events, cache, bounds>>, online' \in BOOLEAN
  PROVE  CursorInv'
<1> DEFINE a == HealAsked(v)
           Q == view.reqs \union (IF CanHeal(v) THEN {a} ELSE {})
           w == HealChannel(v)
<1>1. w \in View /\ w.tl = view.tl /\ w.reqs = Q /\ w.held = view.held
  <2>1. w.held = v.held
    BY DEF HealChannel, Ask, View
  <2>2. clock \in Int
    BY Facts
  <2> QED
    BY <2>1, <2>2, HealChannelIs
<1>2. a.live /\ a.kind = "heal" /\ a.step = "asked" /\ a.from = view.tl.last
  BY DEF HealAsked, Asked
<1>3. Good(view.tl, Q, log, events)
  <2>1. CASE CanHeal(v)
    <3>1. /\ \A r \in view.reqs : r.kind \notin HealKinds
          /\ ~view.tl.after /\ view.tl.status \notin {"none", "loading"} /\ view.tl.last > 0
      BY <2>1 DEF CanHeal, Healing
    <3>2. view.tl.last \in Int /\ view.tl.last >= 1
      BY <3>1, Facts DEF Tl
    <3>3. \A r \in view.reqs : ~ (r.live /\ r.kind \in PageKinds)
      BY <3>1, <3>2, Facts DEF ReqOK
    <3> HIDE DEF a
    <3>4. Good(view.tl, view.reqs \union {a}, log, events)
      BY <1>2, <3>1, <3>2, <3>3, Facts, AskMore
    <3> QED
      BY <2>1, <3>4
  <2>2. CASE ~CanHeal(v)
    BY <2>2, Facts
  <2> QED
    BY <2>1, <2>2
<1>4. /\ log' = log /\ changing' = changing /\ clock' = clock /\ events' = events /\ cache' = cache
      /\ opens' = opens /\ faults' = faults /\ view' = w
  BY DEF server, bounds
<1>5. FirstOK'
  <2>1. CASE CanHeal(v)
    <3>1. view.tl.status # "none"
      BY <2>1 DEF CanHeal
    <3>2. opens # 0
      BY <3>1, Opened
    <3>3. "fail" \in May => \A r \in view.reqs : r.kind # "paint"
      BY <3>1 DEF CursorInv, FirstOK
    <3>4. \A r \in view'.reqs : r \in view.reqs \/ r = a
      BY <1>1, <1>4
    <3>5. "fail" \in May => \A r \in view'.reqs : r.kind # "paint"
      BY <1>2, <3>3, <3>4
    <3> QED
      BY <1>4, <3>2, <3>5, FirstLater
  <2>2. CASE ~CanHeal(v)
    <3>1. w.reqs = view.reqs
      BY <1>1, <2>2
    <3>2. opens = 0 => ~w.open
      <4>1. w = v
        BY <2>2 DEF HealChannel
      <4>2. opens = 0 => ~v.open
        BY DEF CursorInv, FirstOK
      <4> QED
        BY <4>1, <4>2
    <3> HIDE DEF w
    <3> QED
      BY <1>1, <1>4, <3>1, <3>2 DEF CursorInv, FirstOK
  <2> QED
    BY <2>1, <2>2
<1> HIDE DEF w, Q
<1>6. w.tl.shown \subseteq DOMAIN w.held
  BY <1>1, Facts
<1>7. Types'
  BY <1>1, <1>4, <1>6 DEF CursorInv, Types
<1>8. Good(view'.tl, view'.reqs, log', events') /\ CacheOK(cache', log', events')
  BY <1>1, <1>3, <1>4, Facts
<1>9. \A e \in events' : EventOK(e, log', clock')
  BY <1>4 DEF CursorInv
<1> QED
  BY <1>5, <1>7, <1>8, <1>9 DEF CursorInv

LEMMA GapKeeps ==
  ASSUME CursorInv, GapTimer
  PROVE  CursorInv'
<1> DEFINE v == [view EXCEPT !.gap = 0]
<1>1. /\ view' = IF view.tl.last < view.gap THEN HealChannel(v) ELSE v
      /\ UNCHANGED <<server, clock, events, online>> /\ UNCHANGED <<cache, bounds>>
  BY DEF GapTimer, Client
<1>2. /\ v \in View /\ v.tl = view.tl /\ v.reqs = view.reqs /\ v.held = view.held
      /\ v.open = view.open
  <2>1. 0 \in 0 .. MaxSeq
    BY Constants
  <2> QED
    BY <2>1, Facts DEF View
<1>3. online \in BOOLEAN
  BY DEF CursorInv, Types
<1> HIDE DEF v
<1>4. CASE view' = HealChannel(v)
  BY <1>1, <1>2, <1>3, <1>4, HealKeeps
<1>5. CASE view' = v
  <2>1. v.tl.shown \subseteq DOMAIN v.held /\ Good(v.tl, v.reqs, log, events)
    BY <1>2, Facts
  <2>2. cache' = cache /\ opens' = opens /\ faults' = faults
    BY <1>1 DEF bounds
  <2>3. FirstOK'
    BY <1>2, <1>5, <2>2 DEF CursorInv, FirstOK
  <2> QED
    BY <1>1, <1>2, <1>5, <2>1, <2>2, <2>3, Facts, NewView
<1> QED
  BY <1>1, <1>4, <1>5

LEMMA ReconnectKeeps ==
  ASSUME CursorInv, Reconnect
  PROVE  CursorInv'
<1>1. /\ view' = IF ~view.open THEN view
                 ELSE IF view.tl.last = 0 THEN ReloadChannel(view) ELSE HealChannel(view)
      /\ online' = TRUE /\ UNCHANGED <<server, clock, events, cache, bounds>>
  BY DEF Reconnect
<1>2. /\ log' = log /\ changing' = changing /\ clock' = clock /\ events' = events /\ cache' = cache
      /\ opens' = opens /\ faults' = faults
  BY <1>1 DEF server, bounds
<1>3. CASE view' = view
  <2>1. Types' /\ FirstOK'
    BY <1>1, <1>2, <1>3 DEF CursorInv, Types, FirstOK
  <2>2. Good(view'.tl, view'.reqs, log', events') /\ CacheOK(cache', log', events')
    BY <1>2, <1>3, Facts
  <2>3. \A e \in events' : EventOK(e, log', clock')
    BY <1>2 DEF CursorInv
  <2> QED
    BY <2>1, <2>2, <2>3 DEF CursorInv
<1>4. CASE view' = HealChannel(view)
  BY <1>1, <1>4, Facts, HealKeeps
<1>5. CASE view' = ReloadChannel(view) /\ view.open /\ view.tl.last = 0
  <2> DEFINE b == Bump(view)
             R == Bumped(view.reqs)
             u == LoadingTl(view.tl)
             w == AskNewest(b)
  <2>1. b \in View /\ b.tl = view.tl /\ b.reqs = R
    BY Facts, BumpIs
  <2>2. b.held = view.held
    BY Facts DEF Bump, View
  <2>3. w \in View /\ w.tl = u /\ w.reqs = R \union {NewestAsked} /\ u \in Tl
    <3> HIDE DEF b, R
    <3>1. clock \in Int
      BY Facts
    <3> QED
      BY <2>1, <3>1, AskNewestIs
  <2>4. w.held = view.held
    <3>1. w.held = b.held
      BY DEF AskNewest, Ask
    <3> QED
      BY <2>2, <3>1
  <2>5. /\ u.status = "loading" /\ u.shown = view.tl.shown /\ u.last = 0
        /\ u.before = view.tl.before /\ u.after = view.tl.after
    BY <1>5, Facts DEF LoadingTl, Tl
  <2>6. \A r \in view.reqs : r.kind # "newer" /\ ~ (r.live /\ r.kind = "drop")
    <3>1. ~view.tl.after
      BY <1>5, Facts DEF TlOK
    <3> QED
      BY <1>5, <3>1, Facts DEF ReqOK, NewerOK
  <2>7. "newer" \in May => \A r \in view.reqs : r.kind # "drop"
    BY <2>6, Facts DEF ReqOK
  <2>8. /\ Good(view.tl, R, log, events)
        /\ \A r \in R : ~r.live /\ r.kind \in {"older"} \union HealKinds
    BY <2>6, <2>7, Facts, Dead
  <2>9. TlOK(u, log, events)
    BY <1>5, <2>5, Facts DEF TlOK
  <2> HIDE DEF R, u
  <2>10. Good(u, R, log, events)
    BY <2>8, <2>9, OtherTimeline
  <2>11. /\ NewestAsked.live /\ NewestAsked.kind = "newest" /\ NewestAsked.step = "asked"
         /\ NewestAsked.from = MaxSeq + 1
    BY DEF NewestAsked, Asked
  <2>12. /\ FromOK(NewestAsked, log) /\ NewestAsked.kind \in PageKinds
         /\ NewestAsked.kind \notin HealKinds
    BY <2>11 DEF FromOK, PageKinds, HealKinds
  <2>13. Good(u, R \union {NewestAsked}, log, events)
    BY <2>5, <2>8, <2>10, <2>11, <2>12, AskPage
  <2>14. view' = w
    BY <1>5 DEF ReloadChannel
  <2> HIDE DEF w
  <2>15. FirstOK'
    <3>1. opens' # 0
      BY <1>2, <1>5, Opened
    <3>2. \A r \in view'.reqs : r.kind # "paint"
      BY <2>3, <2>8, <2>11, <2>14 DEF HealKinds
    <3> QED
      BY <3>1, <3>2, FirstLater
  <2>16. w.tl.shown \subseteq DOMAIN w.held
    BY <2>3, <2>4, <2>5, Facts
  <2>17. Types'
    BY <1>1, <1>2, <2>3, <2>14, <2>16 DEF CursorInv, Types
  <2>18. Good(view'.tl, view'.reqs, log', events') /\ CacheOK(cache', log', events')
    BY <1>2, <2>3, <2>13, <2>14, Facts
  <2>19. \A e \in events' : EventOK(e, log', clock')
    BY <1>2 DEF CursorInv
  <2> QED
    BY <2>15, <2>17, <2>18, <2>19 DEF CursorInv
<1> QED
  BY <1>1, <1>3, <1>4, <1>5

LEMMA FirstGood ==
  ASSUME NEW n, NEW L, NEW E, Len(L) \in Nat
  PROVE  /\ Good(FirstView(n).tl, FirstView(n).reqs, L, E)
         /\ FirstView(n).tl.status = "none" /\ FirstView(n).tl.shown = {} /\ FirstView(n).reqs = {}
         /\ ~FirstView(n).open
<1> DEFINE t == FirstView(n).tl
<1>1. /\ t.status = "none" /\ t.shown = {} /\ t.last = 0 /\ ~t.after /\ FirstView(n).reqs = {}
      /\ ~FirstView(n).open
  BY DEF FirstView, EmptyTimeline
<1> HIDE DEF t
<1>2. WholeTo(t.shown, t.before, t.last, L, E)
  BY <1>1 DEF WholeTo
<1>3. TlOK(t, L, E)
  BY <1>1, <1>2 DEF TlOK
<1> QED
  BY <1>1, <1>3 DEF Good, t

LEMMA RestartKeeps ==
  ASSUME CursorInv, Restart
  PROVE  CursorInv'
<1> DEFINE w == FirstView(Len(log))
<1>1. /\ log' = log /\ changing' = changing /\ clock' = clock /\ events' = {} /\ cache' = cache
      /\ opens' = opens /\ faults' = faults + 1 /\ online' = FALSE /\ view' = w
  BY DEF Restart, server
<1>2. Len(log) \in 0 .. MaxSeq /\ Len(log) \in Nat /\ faults \in Nat
  BY Facts
<1>3. w \in View
  BY <1>2, Nothing
<1>4. /\ Good(w.tl, w.reqs, log, {}) /\ w.tl.status = "none" /\ w.tl.shown = {}
      /\ w.reqs = {} /\ ~w.open
  BY <1>2, FirstGood
<1> HIDE DEF w
<1>5. Types'
  <2>1. Types
    BY DEF CursorInv
  <2>2. view' \in View /\ view'.tl.shown \subseteq DOMAIN view'.held
    BY <1>1, <1>3, <1>4
  <2>3. faults' \in Nat
    BY <1>1, <1>2
  <2>4. events' \in SUBSET Event /\ online' \in BOOLEAN
    BY <1>1
  <2> QED
    BY <1>1, <2>1, <2>2, <2>3, <2>4 DEF Types
<1>6. CacheOK(cache, log, {})
  <2>1. cache.last \in Int /\ cache.last <= Len(log)
    <3>1. cache.last \in Int /\ (cache # NoCache => cache.last <= Len(log))
      BY Facts DEF CacheOK
    <3>2. cache = NoCache => cache.last = -1
      BY DEF NoCache
    <3> QED
      BY <1>2, <3>1, <3>2
  <2>2. \A s : ~Coming(s, {})
    BY DEF Coming
  <2>3. Len(log) <= Len(log)
    BY <1>2
  <2> QED
    BY <1>2, <2>1, <2>2, <2>3, Facts, CacheKept
<1>7. FirstOK'
  BY <1>1, <1>4 DEF CursorInv, FirstOK
<1> QED
  BY <1>1, <1>4, <1>5, <1>6, <1>7 DEF CursorInv

LEMMA WriteKeeps ==
  ASSUME CursorInv, CursorHypothesis, WriteCache
  PROVE  CursorInv'
<1> DEFINE v == [view EXCEPT !.save = FALSE]
           t == view.tl
           H == Highest(t.shown, CacheSize)
           c == [page |-> Restrict(view.held, H), last |-> t.last]
<1>1. /\ view' = v /\ UNCHANGED <<server, clock, events, online>>
      /\ opens' = opens /\ faults' = faults
      /\ cache' = IF t.status = "ready" /\ ~t.after /\ ~t.cached THEN c ELSE cache
  BY DEF WriteCache, Client, bounds
<1>2. /\ v \in View /\ v.tl = view.tl /\ v.reqs = view.reqs /\ v.held = view.held
      /\ v.open = view.open
  BY Facts DEF View
<1>3. t.last \in 0 .. Len(log) /\ t.shown \in SUBSET (1 .. Len(log)) /\ t.last \in Int
      /\ WholeTo(t.shown, t.before, t.last, log, events)
  BY Facts DEF TlOK
<1>4. ASSUME t.status = "ready"
      PROVE  c \in [page : Copies, last : Int] /\ CacheOK(c, log, events)
  <2>1. t.last \in 1 .. Len(log)
    BY <1>3, <1>4, Facts DEF TlOK
  <2>2. H \in SUBSET t.shown
    BY DEF Highest
  <2>3. DOMAIN c.page = H
    BY DEF Restrict
  <2>4. c.page \in [H -> Row] /\ H \in SUBSET (1 .. MaxSeq)
    <3>1. view.held \in Copies
      BY Facts DEF View
    <3>2. (\A s \in DOMAIN view.held : view.held[s] \in Row) /\ DOMAIN view.held \in SUBSET (1 .. MaxSeq)
      BY <3>1, CopiesAre
    <3>3. \A s \in H : view.held[s] \in Row /\ s \in 1 .. MaxSeq
      BY <2>2, <3>2, Facts
    <3> QED
      BY <3>3 DEF Restrict
  <2>5. c.page \in Copies
    <3> HIDE DEF c, H
    <3> QED
      BY <2>4, AreCopies
  <2>6. CacheSize \in Nat /\ CacheSize >= 1 /\ CacheSize \in Int /\ Margin \in Nat /\ Margin <= CacheSize
    BY Constants DEF CursorHypothesis
  <2>7. WholeTo(H, TRUE, t.last, log, events)
    <3> SUFFICES ASSUME NEW s \in 1 .. t.last, Visible(s, log),
                        H # {} => (Coming(s, events) \/ \E u \in H : u <= s)
                 PROVE  s \in H
      BY DEF WholeTo
    <3>1. s \in 1 .. Len(log) /\ s \in Int
      BY <1>3
    <3>2. s \in t.shown
      <4>1. CASE H = {}
        <5>1. t.shown = {}
          BY <1>3, <2>6, <4>1, SomeOfThem, Facts
        <5> QED
          BY <1>3, <5>1 DEF WholeTo
      <4>2. CASE H # {}
        <5>1. Coming(s, events) \/ \E u \in t.shown : u <= s
          BY <2>2, <4>2
        <5> QED
          BY <1>3, <5>1 DEF WholeTo
      <4> QED
        BY <4>1, <4>2
    <3>3. CASE Coming(s, events)
      <4>1. Len(log) - s < Margin
        <5>1. \A e \in events : EventOK(e, log, clock)
          BY DEF CursorInv
        <5> QED
          BY <3>1, <3>3, <5>1, Facts, ComingNear
      <4>2. Len(log) - s < CacheSize /\ Len(log) \in Nat
        BY <2>6, <3>1, <4>1, Facts
      <4> QED
        BY <1>3, <2>6, <3>2, <4>2, HighestHas
    <3>4. CASE \E u \in H : u <= s
      <4>1. PICK u \in Highest(t.shown, CacheSize) : u <= s
        BY <3>4
      <4>2. Len(log) \in Nat
        BY Facts
      <4> QED
        BY <1>3, <2>6, <3>2, <4>1, <4>2, HighestUp
    <3>5. H # {}
      <4>1. t.shown # {} /\ Len(log) \in Nat
        BY <3>2, Facts
      <4> QED
        BY <1>3, <2>6, <4>1, SomeOfThem
    <3> QED
      BY <3>3, <3>4, <3>5
  <2>8. c.last = t.last
    OBVIOUS
  <2> HIDE DEF c, H
  <2>9. CacheOK(c, log, events)
    BY <1>3, <2>1, <2>2, <2>3, <2>7, <2>8 DEF CacheOK
  <2> QED
    BY <1>3, <2>5, <2>8, <2>9 DEF c
<1>5. FirstOK'
  <2>1. t.status # "ready" => cache' = cache
    BY <1>1
  <2>2. t.status = "none" => t.status # "ready"
    OBVIOUS
  <2> HIDE DEF v, c, H
  <2> QED
    BY <1>1, <1>2, <2>1, <2>2 DEF CursorInv, FirstOK
<1> HIDE DEF v, c, H
<1>6. cache' \in [page : Copies, last : Int] /\ CacheOK(cache', log, events)
  BY <1>1, <1>4, Facts
<1>7. v.tl.shown \subseteq DOMAIN v.held /\ Good(v.tl, v.reqs, log, events)
  BY <1>2, Facts
<1>8. opens' \in Nat /\ faults' \in Nat
  BY <1>1, Facts
<1> QED
  BY <1>1, <1>2, <1>5, <1>6, <1>7, <1>8, NewView

-----------------------------------------------------------------------------
(* Realtime events *)

LEMMA EventStep ==
  ASSUME CursorInv, NEW v \in View, view' = v, v.reqs = view.reqs, v.open = view.open,
         v.tl.status = view.tl.status, v.tl.shown \subseteq DOMAIN v.held,
         UNCHANGED <<server, clock, online, cache, bounds>>, events' \in SUBSET events,
         Good(v.tl, v.reqs, log, events')
  PROVE  CursorInv'
<1>1. /\ log' = log /\ changing' = changing /\ clock' = clock /\ online' = online /\ cache' = cache
      /\ opens' = opens /\ faults' = faults
  BY DEF server, bounds
<1>2. Types'
  BY <1>1 DEF CursorInv, Types
<1>3. Good(view'.tl, view'.reqs, log', events')
  BY <1>1
<1>4. CacheOK(cache', log', events')
  <2>1. \A s : Coming(s, events') => Coming(s, events)
    BY DEF Coming
  <2>2. CacheOK(cache, log, events')
    <3>1. WholeTo(DOMAIN cache.page, TRUE, cache.last, log, events) /\ cache.last \in Int
      BY Facts DEF CacheOK
    <3>2. WholeTo(DOMAIN cache.page, TRUE, cache.last, log, events')
      BY <2>1, <3>1, WholeKept
    <3> QED
      BY <3>2, Facts DEF CacheOK
  <2> QED
    BY <1>1, <2>2
<1>5. \A e \in events' : EventOK(e, log', clock')
  BY <1>1 DEF CursorInv
<1>6. FirstOK'
  BY <1>1 DEF CursorInv, FirstOK
<1> QED
  BY <1>2, <1>3, <1>4, <1>5, <1>6 DEF CursorInv

LEMMA OneCopy ==
  ASSUME NEW s \in 1 .. MaxSeq, NEW h \in Copies, NEW one \in [{s} -> Row]
  PROVE  Merge(h, one) \in Copies /\ DOMAIN Merge(h, one) = DOMAIN h \union {s}
<1>1. {s} \in SUBSET (1 .. MaxSeq) /\ one \in [{s} -> Row] /\ DOMAIN one = {s}
  OBVIOUS
<1>2. one \in Copies
  BY <1>1, AreCopies
<1>3. DOMAIN Merge(h, one) = DOMAIN h \union {s}
  BY DEF Merge
<1>4. Merge(h, one) \in Copies
  BY <1>2, MergeIs
<1> QED
  BY <1>3, <1>4

LEMMA OtherCopy ==
  ASSUME NEW h \in Copies, NEW s \in DOMAIN h, NEW row \in Row, NEW g, g = [h EXCEPT ![s] = row]
  PROVE  g \in Copies /\ DOMAIN g = DOMAIN h
<1>1. DOMAIN h \in SUBSET (1 .. MaxSeq) /\ h \in [DOMAIN h -> Row]
  BY CopiesAre
<1>2. g \in [DOMAIN h -> Row]
  BY <1>1
<1> QED
  BY <1>1, <1>2, AreCopies

\* The events that are left are fewer.
LEMMA LessComing ==
  ASSUME CursorInv, NEW F \in SUBSET events
  PROVE  Good(view.tl, view.reqs, log, F) /\ TlOK(view.tl, log, F)
<1>1. \A s : Coming(s, F) => Coming(s, events)
  BY DEF Coming
<1>2. Len(log) \in Nat /\ Len(log) <= Len(log)
  BY Facts
<1>3. Good(view.tl, view.reqs, log, F)
  BY <1>1, <1>2, Facts, ServerMoves
<1> QED
  BY <1>3 DEF Good

\* A message arrives: it is shown, and it moves the cursor if it is the next one.
LEMMA Arrives ==
  ASSUME CursorInv, NEW s \in 1 .. Len(log), s > Start, CursorHypothesis, NEW F \in SUBSET events,
         NEW e \in events, e.kind = "new", e.seq = s,
         view.tl.status # "none", ~view.tl.after,
         NEW u, u = [view.tl EXCEPT !.shown = IF s \in Reply THEN @ ELSE @ \union {s},
                                    !.last = IF s = view.tl.last + 1 THEN s ELSE @]
  PROVE  Good(u, view.reqs, log, F)
<1> DEFINE t == view.tl
<1>1. t \in Tl /\ TlOK(t, log, events) /\ Len(log) \in Nat /\ t.last \in 0 .. Len(log)
      /\ t.shown \subseteq 1 .. Len(log) /\ WholeTo(t.shown, t.before, t.last, log, events)
  BY Facts DEF TlOK
<1>2. /\ u.shown = IF s \in Reply THEN t.shown ELSE t.shown \union {s}
      /\ u.last = IF s = t.last + 1 THEN s ELSE t.last
      /\ u.before = t.before /\ u.after = t.after /\ u.status = t.status /\ u.newer = t.newer
      /\ u.cached = t.cached
  BY <1>1 DEF Tl
<1>3. \A x \in 1 .. u.last : x \in 1 .. t.last \/ (x = s /\ s = t.last + 1)
  BY <1>1, <1>2
<1>4. t.last \in Int /\ u.last \in 0 .. Len(log) /\ t.last <= u.last /\ u.shown \subseteq 1 .. Len(log)
      /\ t.shown \subseteq u.shown
  BY <1>1, <1>2
<1>5. WholeTo(u.shown, u.before, u.last, log, F)
  <2> SUFFICES ASSUME NEW x \in 1 .. u.last, Visible(x, log),
                      (u.before /\ u.shown # {}) => (Coming(x, F) \/ \E y \in u.shown : y <= x)
               PROVE  x \in u.shown
    BY DEF WholeTo
  <2>1. CASE x = s
    BY <1>2, <2>1 DEF Visible
  <2>2. CASE x \in 1 .. t.last
    <3>1. ASSUME t.before, t.shown # {} PROVE Coming(x, events) \/ \E y \in t.shown : y <= x
      <4>1. Coming(x, F) \/ \E y \in u.shown : y <= x
        BY <1>2, <1>4, <3>1
      <4>2. ASSUME s <= x PROVE Coming(x, events)
        BY <4>2 DEF Coming
      <4>3. Coming(x, F) => Coming(x, events)
        BY DEF Coming
      <4> QED
        BY <1>2, <4>1, <4>2, <4>3
    <3>2. x \in t.shown
      BY <1>1, <2>2, <3>1 DEF WholeTo
    <3> QED
      BY <1>4, <3>2
  <2> QED
    BY <1>3, <2>1, <2>2
<1>6. TlOK(u, log, F)
  <2>1. u.status = "ready" => u.last >= 1 /\ ~u.cached
    BY <1>1, <1>2, <1>4 DEF TlOK
  <2>2. "fail" \notin May => u.status \in {"none", "loading", "ready"}
    BY <1>1, <1>2 DEF TlOK
  <2> QED
    BY <1>2, <1>4, <1>5, <2>1, <2>2 DEF TlOK
<1>7. "fail" \in May /\ t.last = 0 => u.last = 0
  <2>1. s # 1
    BY Constants DEF CursorHypothesis
  <2> QED
    BY <1>2, <2>1
<1>8. Good(t, view.reqs, log, F)
  BY LessComing
<1>9. ASSUME NEW r \in view.reqs PROVE ReqOK(r, u, view.reqs, log, F)
  <2>1. ReqOK(r, t, view.reqs, log, F)
    BY <1>8 DEF Good
  <2>2. r.kind # "newer"
    BY <2>1 DEF ReqOK, NewerOK
  <2>3. (r.live /\ r.kind = "older") => OlderOK(r, u, log)
    BY <1>4, <2>1 DEF ReqOK, OlderOK
  <2>4. ASSUME r.live, r.kind = "heal" PROVE HealOK(r, u, log)
    <3>1. HealOK(r, t, log)
      BY <2>1, <2>4 DEF ReqOK
    <3>2. r.from \in 1 .. u.last
      BY <1>1, <1>4, <3>1 DEF HealOK
    <3>3. ASSUME NEW x \in r.from + 1 .. u.last, Visible(x, log) PROVE x \in u.shown
      <4>1. x \in 1 .. u.last /\ x >= r.from + 1 /\ x \in Int
        BY <3>2
      <4>2. CASE x = s
        BY <1>2, <3>3, <4>2 DEF Visible
      <4>3. CASE x \in 1 .. t.last
        <5>1. x \in r.from + 1 .. t.last
          BY <1>4, <3>2, <4>1, <4>3
        <5> QED
          BY <1>4, <3>1, <3>3, <5>1 DEF HealOK
      <4> QED
        BY <1>3, <4>1, <4>2, <4>3
    <3> QED
      BY <1>2, <3>1, <3>2, <3>3 DEF HealOK
  <2>5. (r.live /\ r.kind = "drop") => u.last >= 1 /\ ~u.after
    BY <1>2, <1>4, <2>1 DEF ReqOK
  <2>6. (r.live /\ r.kind \in PageKinds) =>
          IF "fail" \in May THEN u.last = 0 ELSE u.status \in {"none", "loading"}
    BY <1>2, <1>7, <2>1 DEF ReqOK
  <2> QED
    BY <2>1, <2>2, <2>3, <2>4, <2>5, <2>6 DEF ReqOK
<1> QED
  BY <1>6, <1>9 DEF Good

LEMMA NewKeeps ==
  ASSUME CursorInv, CursorHypothesis, NEW e \in events, e.kind = "new", events' = events \ {e},
         view' = NewMessage(e.seq, e.copy), UNCHANGED <<server, clock, online, cache, bounds>>
  PROVE  CursorInv'
<1> DEFINE t == view.tl
           s == e.seq
           one == [x \in {s} |-> e.copy]
           exists == t.status # "none"
           h == IF exists \/ s \in DOMAIN view.held THEN Merge(view.held, one) ELSE view.held
           v == [view EXCEPT !.held = h, !.known = Max({@, s}), !.save = @ \/ exists]
           u == [t EXCEPT !.shown = IF s \in Reply THEN @ ELSE @ \union {s},
                          !.last = IF s = t.last + 1 THEN s ELSE @]
           w == [v EXCEPT !.tl.shown = IF s \in Reply THEN @ ELSE @ \union {s},
                          !.tl.last = IF s = t.last + 1 THEN s ELSE @]
<1>1. e \in Event /\ EventOK(e, log, clock) /\ events' \in SUBSET events
  BY Facts DEF CursorInv
<1>2. s \in 1 .. Len(log) /\ s > Start /\ s \in 1 .. MaxSeq /\ s \in 0 .. MaxSeq /\ e.copy \in Row
  <2>1. s \in 1 .. MaxSeq /\ e.copy \in Row
    BY <1>1 DEF Event
  <2>2. s \in 0 .. MaxSeq
    BY <2>1
  <2> QED
    BY <1>1, <2>1, <2>2 DEF EventOK
<1>3. view' = IF ~exists \/ t.after THEN v ELSE IF s > t.last + 1 THEN NoteGap(w, s) ELSE w
  BY DEF NewMessage
<1>4. view.held \in Copies /\ view.known \in 0 .. MaxSeq /\ t \in Tl /\ t.last \in 0 .. MaxSeq
      /\ t.shown \in SUBSET (1 .. MaxSeq)
  BY Facts DEF View, Tl
<1>5. /\ h \in Copies /\ DOMAIN view.held \subseteq DOMAIN h /\ (exists => s \in DOMAIN h)
  <2>1. one \in [{s} -> Row]
    BY <1>2
  <2>2. Merge(view.held, one) \in Copies /\ DOMAIN Merge(view.held, one) = DOMAIN view.held \union {s}
    <3> HIDE DEF one, s, t
    <3> QED
      BY <1>2, <1>4, <2>1, OneCopy
  <2> HIDE DEF one
  <2> QED
    BY <1>4, <2>2
<1>6. Max({view.known, s}) \in 0 .. MaxSeq
  BY <1>2, <1>4, MaxOfTwo
<1>7. v \in View /\ v.tl = t /\ v.reqs = view.reqs /\ v.open = view.open /\ v.held = h
  <2> HIDE DEF h, exists
  <2>1. view.save \/ exists \in BOOLEAN
    BY DEF exists
  <2> QED
    BY <1>5, <1>6, Facts DEF View
<1>8. u \in Tl /\ u.status = t.status /\ u.shown \subseteq t.shown \union {s}
  BY <1>2, <1>4 DEF Tl
<1>9. w \in View /\ w.tl = u /\ w.reqs = view.reqs /\ w.open = view.open /\ w.held = h
  <2>1. w = [v EXCEPT !.tl = u]
    BY <1>7 DEF View
  <2> HIDE DEF v, u, w
  <2> QED
    BY <1>7, <1>8, <2>1 DEF View
<1>10. CASE ~exists \/ t.after
  <2>1. view' = v
    BY <1>3, <1>10
  <2>2. Good(v.tl, v.reqs, log, events')
    BY <1>1, <1>7, LessComing
  <2>3. v.tl.shown \subseteq DOMAIN v.held
    BY <1>5, <1>7, Facts
  <2> HIDE DEF v
  <2> QED
    BY <1>1, <1>7, <2>1, <2>2, <2>3, EventStep
<1>11. CASE exists /\ ~t.after
  <2>1. Good(u, view.reqs, log, events')
    BY <1>1, <1>2, <1>11, Arrives
  <2> HIDE DEF u, w, v, h
  <2>2. PICK x \in {w, NoteGap(w, s)} : view' = x
    BY <1>3, <1>11
  <2>3. x \in View /\ x.tl = u /\ x.reqs = view.reqs
    <3>1. NoteGap(w, s) \in View /\ NoteGap(w, s).tl = w.tl /\ NoteGap(w, s).reqs = w.reqs
      BY <1>2, <1>9, NoteGapIs
    <3> QED
      BY <1>9, <2>2, <3>1
  <2>4. x.open = view.open /\ x.held = h
    <3>1. NoteGap(w, s).open = w.open /\ NoteGap(w, s).held = w.held
      BY <1>9 DEF NoteGap, View
    <3> QED
      BY <1>9, <2>2, <3>1
  <2>5. x.tl.shown \subseteq DOMAIN x.held
    BY <1>5, <1>8, <1>11, <2>3, <2>4, Facts
  <2> QED
    BY <1>1, <1>8, <2>1, <2>2, <2>3, <2>4, <2>5, EventStep
<1> QED
  BY <1>10, <1>11

LEMMA UpdKeeps ==
  ASSUME CursorInv, NEW e \in events, events' = events \ {e},
         view' = UpdatedMessage(e.seq, e.copy), UNCHANGED <<server, clock, online, cache, bounds>>
  PROVE  CursorInv'
<1> DEFINE t == view.tl
           s == e.seq
           back == /\ t.status # "none" /\ ~t.after /\ s \notin Reply
                   /\ t.shown # {} /\ s > Min(t.shown)
           S == IF back THEN t.shown \union {s} ELSE t.shown
           u == [t EXCEPT !.shown = S]
           h == [view.held EXCEPT ![s] = e.copy]
           v == [view EXCEPT !.held[s] = e.copy, !.save = TRUE,
                             !.tl.shown = IF back THEN @ \union {s} ELSE @]
<1>1. e \in Event /\ EventOK(e, log, clock) /\ events' \in SUBSET events
  BY Facts DEF CursorInv
<1>2. s \in 1 .. Len(log) /\ s \in 1 .. MaxSeq /\ e.copy \in Row
  BY <1>1 DEF Event, EventOK
<1>3. view' = view \/ (s \in DOMAIN view.held /\ view' = v)
  BY DEF UpdatedMessage
<1>4. CASE view' = view
  <2>1. Good(view.tl, view.reqs, log, events')
    BY <1>1, LessComing
  <2> QED
    BY <1>1, <1>4, <2>1, Facts, EventStep
<1>5. CASE s \in DOMAIN view.held /\ view' = v
  <2>1. view.held \in Copies /\ t \in Tl /\ t.shown \in SUBSET (1 .. MaxSeq) /\ t.shown \in SUBSET Nat
    BY Facts DEF View, Tl
  <2>2. h \in Copies /\ DOMAIN h = DOMAIN view.held
    BY <1>2, <1>5, <2>1, OtherCopy
  <2>3. /\ u \in Tl /\ u.status = t.status /\ u.shown = S /\ u.last = t.last /\ u.before = t.before
        /\ u.after = t.after /\ u.cached = t.cached /\ u.newer = t.newer
    <3>1. S \in SUBSET (1 .. MaxSeq)
      BY <1>2, <2>1
    <3> HIDE DEF S
    <3> QED
      BY <2>1, <3>1 DEF Tl
  <2>4. v = [view EXCEPT !.held = h, !.save = TRUE, !.tl = u]
    BY Facts DEF View
  <2> HIDE DEF u, h, v
  <2>5. v \in View /\ v.tl = u /\ v.reqs = view.reqs /\ v.open = view.open /\ v.held = h
    BY <2>2, <2>3, <2>4, Facts DEF View
  <2>6. TlOK(t, log, events') /\ Good(t, view.reqs, log, events')
    BY <1>1, LessComing
  <2>7. WholeTo(u.shown, u.before, u.last, log, events')
    <3>1. CASE back
      <4>1. Min(t.shown) \in t.shown /\ Min(t.shown) \in Int /\ Min(t.shown) <= s /\ u.shown = t.shown \union {s}
        <5>1. Min(t.shown) \in t.shown
          BY <2>1, <3>1, MinIs
        <5>2. Min(t.shown) \in Int /\ s \in Int
          BY <1>2, <2>1, <5>1
        <5> QED
          BY <2>3, <3>1, <5>1, <5>2
      <4>2. WholeTo(t.shown, t.before, t.last, log, events')
        BY <2>6 DEF TlOK
      <4>3. \A x \in 1 .. t.last : s <= x => \E y \in t.shown : y <= x
        BY <1>2, <4>1
      <4> QED
        BY <2>3, <4>1, <4>2, <4>3 DEF WholeTo
    <3>2. CASE ~back
      BY <2>3, <2>6, <3>2 DEF TlOK
    <3> QED
      BY <3>1, <3>2
  <2>8. t.shown \subseteq u.shown /\ u.shown \subseteq 1 .. Len(log)
    BY <1>2, <2>3, <2>6 DEF TlOK
  <2>9. TlOK(u, log, events')
    BY <2>3, <2>6, <2>7, <2>8 DEF TlOK
  <2>10. \A r \in view.reqs : (r.live /\ r.kind \in PageKinds) =>
           "fail" \in May \/ u.status \in {"none", "loading"}
    BY <2>3, Facts DEF ReqOK
  <2>11. Good(u, view.reqs, log, events')
    BY <2>3, <2>6, <2>8, <2>9, <2>10, MoreShown
  <2>12. v.tl.shown \subseteq DOMAIN v.held
    BY <1>5, <2>2, <2>3, <2>5, Facts
  <2> QED
    BY <1>1, <1>5, <2>3, <2>5, <2>11, <2>12, EventStep
<1> QED
  BY <1>3, <1>4, <1>5

LEMMA EventKeeps ==
  ASSUME CursorInv, CursorHypothesis, HandleEvent
  PROVE  CursorInv'
<1>1. PICK e \in events :
        /\ events' = events \ {e}
        /\ view' = IF e.kind = "new" THEN NewMessage(e.seq, e.copy) ELSE UpdatedMessage(e.seq, e.copy)
        /\ UNCHANGED <<server, clock, online, cache, bounds>>
  BY DEF HandleEvent
<1>2. CASE e.kind = "new"
  BY <1>1, <1>2, NewKeeps
<1>3. CASE e.kind # "new"
  BY <1>1, <1>3, UpdKeeps
<1> QED
  BY <1>2, <1>3

-----------------------------------------------------------------------------
(* The server's answers *)

IsAnswer(a, r, S, b, y) ==
  /\ a \in Req /\ DOMAIN a.page = S /\ a.last = Len(log) /\ a.before = b /\ a.beyond = y
  /\ a.step = "answered" /\ a.kind = r.kind /\ a.live = r.live /\ a.from = r.from /\ a.min = r.min

LEMMA AnswerIs ==
  ASSUME CursorInv, NEW r \in Req, NEW S \in SUBSET (1 .. Len(log)), NEW b \in BOOLEAN, NEW y \in BOOLEAN
  PROVE  IsAnswer(Answer(r, S, b, y), r, S, b, y)
<1>1. Rows(S) \in Copies /\ DOMAIN Rows(S) = S
  BY RowsAre DEF CursorInv
<1>2. Len(log) \in 0 .. MaxSeq
  BY Facts
<1> DEFINE a == [r EXCEPT !.step = "answered", !.page = Rows(S), !.last = Len(log), !.before = b, !.beyond = y]
<1>3. /\ a \in Req /\ DOMAIN a.page = S /\ a.last = Len(log) /\ a.before = b /\ a.beyond = y
      /\ a.step = "answered" /\ a.kind = r.kind /\ a.live = r.live /\ a.from = r.from /\ a.min = r.min
  BY <1>1, <1>2 DEF Req
<1>4. Answer(r, S, b, y) = a
  BY DEF Answer
<1> HIDE DEF a
<1> QED
  BY <1>3, <1>4 DEF IsAnswer

LEMMA Nearness ==
  ASSUME CursorInv
  PROVE  \A s \in 1 .. Len(log) : Coming(s, events) => Len(log) - s < Margin
<1>1. \A e \in events : EventOK(e, log, clock)
  BY DEF CursorInv
<1> QED
  BY <1>1, Facts, ComingNear

LEMMA NewestAnswer ==
  ASSUME CursorInv, CursorHypothesis, NEW r \in Req, r.kind \in {"newest", "reload"}, FromOK(r, log),
         NEW a, a = ListMessages(r)
  PROVE  /\ a \in Req /\ a.step = "answered" /\ a.kind = r.kind /\ a.live = r.live
         /\ a.from = r.from /\ a.min = r.min
         /\ PageOK(a, log, events)
<1> DEFINE S == {s \in Seqs : Shows(s) /\ s < r.from}
           H == Highest(S, Page)
           n == Len(log)
<1>1. n \in Nat /\ n <= MaxSeq /\ n >= 1 /\ (Cardinality(S) > Page) \in BOOLEAN
  BY Facts, Constants DEF CursorInv, Types, CursorHypothesis
<1>2. r.from \in Int /\ n < r.from
  BY <1>1, Constants DEF FromOK
<1>3. S \in SUBSET (1 .. n) /\ \A x \in 1 .. n : x \in S <=> (Visible(x, log) /\ x < r.from)
  BY DEF Seqs, Shows, Visible
<1>4. a = Answer(r, H, Cardinality(S) > Page, FALSE)
  BY DEF ListMessages
<1> HIDE DEF S
<1>5. /\ WholeTo(H, Cardinality(S) > Page, n, log, events) /\ H \subseteq 1 .. n
      /\ Cardinality(S) > Page => H # {}
  <2> HIDE DEF n
  <2>1. \A s \in 1 .. n : Coming(s, events) => n - s < Margin
    BY Nearness DEF n
  <2> QED
    BY <1>1, <1>2, <1>3, <2>1, NewestWhole
<1> HIDE DEF H
<1>6. /\ a \in Req /\ DOMAIN a.page = H /\ a.last = n /\ a.before = (Cardinality(S) > Page)
      /\ a.step = "answered" /\ a.kind = r.kind /\ a.live = r.live /\ a.from = r.from /\ a.min = r.min
  <2> DEFINE b == Cardinality(S) > Page
             y == FALSE
  <2>1. b \in BOOLEAN /\ a = Answer(r, H, b, y) /\ y \in BOOLEAN /\ H \in SUBSET (1 .. Len(log))
    BY <1>1, <1>4, <1>5
  <2> HIDE DEF b, y
  <2>2. IsAnswer(Answer(r, H, b, y), r, H, b, y)
    BY <2>1, AnswerIs
  <2> QED
    BY <2>1, <2>2 DEF b, IsAnswer
<1>7. End(a) = n /\ a.kind # "around"
  BY <1>6 DEF End
<1>8. WholeTo(DOMAIN a.page, a.before, End(a), log, events)
  <2> DEFINE b == Cardinality(S) > Page
  <2>1. WholeTo(H, b, n, log, events) /\ a.before = b
    BY <1>5, <1>6
  <2> HIDE DEF b
  <2> QED
    BY <1>6, <1>7, <2>1
<1>9. (a.before => DOMAIN a.page # {}) /\ n \in 1 .. Len(log) /\ DOMAIN a.page \subseteq 1 .. n
  <2>1. n \in 1 .. Len(log)
    BY <1>1
  <2> HIDE DEF n
  <2> QED
    BY <1>5, <1>6, <2>1
<1> QED
  BY <1>6, <1>7, <1>8, <1>9 DEF PageOK

LEMMA OlderAnswer ==
  ASSUME CursorInv, NEW r \in Req, r.kind = "older", OlderOK(r, view.tl, log),
         NEW a, a = ListMessages(r)
  PROVE  /\ a \in Req /\ a.step = "answered" /\ a.kind = r.kind /\ a.live = r.live
         /\ a.from = r.from /\ a.min = r.min
         /\ OlderOK(a, view.tl, log)
<1> DEFINE S == {s \in Seqs : Shows(s) /\ s < r.from}
           H == Highest(S, Page)
           n == Len(log)
<1>1. n \in Nat /\ (Cardinality(S) > Page) \in BOOLEAN
  BY Facts
<1>2. r.from \in view.tl.shown /\ r.from \in 1 .. n
  BY Facts DEF OlderOK, TlOK
<1>3. S \in SUBSET (1 .. n) /\ \A x \in 1 .. n : x \in S <=> (Visible(x, log) /\ x < r.from)
  BY DEF Seqs, Shows, Visible
<1>4. a = Answer(r, H, Cardinality(S) > Page, FALSE)
  BY DEF ListMessages
<1> HIDE DEF S
<1>5. /\ H \subseteq 1 .. n /\ (\A u \in H : u < r.from)
      /\ \A s \in 1 .. r.from - 1 :
           Visible(s, log) /\ (Cardinality(S) > Page => \E u \in H : u <= s) => s \in H
  <2> HIDE DEF n
  <2> QED
    BY <1>1, <1>2, <1>3, OlderWhole
<1> HIDE DEF H
<1>6. /\ a \in Req /\ DOMAIN a.page = H /\ a.before = (Cardinality(S) > Page)
      /\ a.step = "answered" /\ a.kind = r.kind /\ a.live = r.live /\ a.from = r.from /\ a.min = r.min
  <2> DEFINE b == Cardinality(S) > Page
             y == FALSE
  <2>1. b \in BOOLEAN /\ a = Answer(r, H, b, y) /\ y \in BOOLEAN /\ H \in SUBSET (1 .. Len(log))
    BY <1>1, <1>4, <1>5
  <2> HIDE DEF b, y
  <2>2. IsAnswer(Answer(r, H, b, y), r, H, b, y)
    BY <2>1, AnswerIs
  <2> QED
    BY <2>1, <2>2 DEF b, IsAnswer
<1> QED
  BY <1>2, <1>5, <1>6 DEF OlderOK

LEMMA AroundAnswer ==
  ASSUME CursorInv, CursorHypothesis, NEW r \in Req, r.kind = "around", FromOK(r, log),
         NEW a, a = ListMessagesAround(r)
  PROVE  /\ a \in Req /\ a.step = "answered" /\ a.kind = r.kind /\ a.live = r.live
         /\ a.from = r.from /\ a.min = r.min
         /\ PageOK(a, log, events)
<1> DEFINE B == {s \in Seqs : Shows(s) /\ s < r.from}
           A == {s \in Seqs : Shows(s) /\ s >= r.from}
           n == Len(log)
           nb == Page \div 2
           na == Page - nb
           P == Highest(B, nb) \union Lowest(A, na)
           hi == IF Cardinality(A) > na THEN Max(P) ELSE n
<1>1. n \in Nat /\ (Cardinality(B) > nb) \in BOOLEAN /\ (Cardinality(A) > na) \in BOOLEAN
  BY Facts
<1>2. r.from \in 1 .. n
  BY DEF FromOK
<1>3. /\ B \in SUBSET (1 .. n) /\ \A x \in 1 .. n : x \in B <=> (Visible(x, log) /\ x < r.from)
      /\ A \in SUBSET (1 .. n) /\ \A x \in 1 .. n : x \in A <=> (Visible(x, log) /\ x >= r.from)
  BY DEF Seqs, Shows, Visible
<1>4. a = Answer(r, P, Cardinality(B) > nb, Cardinality(A) > na)
  BY DEF ListMessagesAround
<1> HIDE DEF A, B
<1>5. nb = Page \div 2 /\ na = Page - nb
  OBVIOUS
<1>6. P = Highest(B, nb) \union Lowest(A, na) /\ hi = IF Cardinality(A) > na THEN Max(P) ELSE n
  OBVIOUS
<1>7. \A s \in 1 .. n : Coming(s, events) => n - s < Margin
  BY Nearness
<1> HIDE DEF n, nb, na, P, hi
<1>8. /\ WholeTo(P, Cardinality(B) > nb, hi, log, events)
      /\ hi \in 1 .. n /\ P \subseteq 1 .. hi
      /\ Cardinality(B) > nb => P # {}
      /\ Cardinality(A) > na => P # {}
  <2>1. PICK from \in 1 .. n : from = r.from
    BY <1>2
  <2>2. /\ \A x \in 1 .. n : x \in B <=> (Visible(x, log) /\ x < from)
        /\ \A x \in 1 .. n : x \in A <=> (Visible(x, log) /\ x >= from)
    BY <1>3, <2>1
  <2> USE <1>1, <1>3, <1>5, <1>6, <1>7, <2>2
  <2>3. /\ nb \in Nat /\ na \in Nat /\ nb >= 1 /\ na >= 1 /\ nb \in Int /\ na \in Int
        /\ Margin \in Nat /\ Margin <= nb + 1 /\ n >= 1 /\ from \in Int
    <3>1. Page \in Nat /\ Page >= 2 /\ Margin \in Nat /\ Margin - 1 <= Page \div 2
      BY Constants DEF CursorHypothesis
    <3>2. n >= 1 /\ from \in Int
      OBVIOUS
    <3> QED
      BY <3>1, <3>2
  <2> DEFINE H == Highest(B, nb)
             W == Lowest(A, na)
  <2>4. H \subseteq B /\ (Cardinality(B) > nb => H # {})
    <3>1. nb \in Nat /\ nb >= 1
      BY <2>3
    <3>2. Highest(B, nb) \subseteq B
      BY <3>1, Below
    <3>3. Cardinality(B) > nb => Highest(B, nb) # {}
      <4>1. \A k \in Nat : k >= 1 => (Cardinality(B) > k => Highest(B, k) # {})
        BY Below
      <4> QED
        BY <3>1, <4>1
    <3> QED
      BY <3>2, <3>3
  <2>5. W \subseteq A /\ (Cardinality(A) > na => W # {})
    <3>1. na \in Nat /\ na >= 1
      BY <2>3
    <3>2. Lowest(A, na) \subseteq A
      BY <3>1, Below
    <3>3. Cardinality(A) > na => Lowest(A, na) # {}
      <4>1. \A k \in Nat : k >= 1 => (Cardinality(A) > k => Lowest(A, k) # {})
        BY Below
      <4> QED
        BY <3>1, <4>1
    <3> QED
      BY <3>2, <3>3
  <2>6. P = H \union W /\ P \in SUBSET (1 .. n) /\ P \in SUBSET (0 .. n)
    <3>1. P = H \union W
      OBVIOUS
    <3> HIDE DEF H, W
    <3>2. P \in SUBSET (1 .. n)
      BY <2>4, <2>5, <3>1
    <3> QED
      BY <3>1, <3>2
  <2> HIDE DEF H, W
  <2>7. (Cardinality(B) > nb => P # {}) /\ (Cardinality(A) > na => P # {})
    BY <2>4, <2>5, <2>6
  <2>8. hi \in 1 .. n /\ P \subseteq 1 .. hi
    <3>1. CASE Cardinality(A) > na
      <4>1. Max(P) \in P /\ \A y \in P : y <= Max(P)
        BY <2>6, <2>7, <3>1, MaxIs
      <4>2. hi = Max(P)
        BY <3>1
      <4>3. hi \in 1 .. n
        BY <2>6, <4>1, <4>2
      <4>4. \A y \in P : y \in 1 .. n /\ y <= hi
        BY <2>6, <4>1, <4>2
      <4>5. ASSUME NEW y \in P PROVE y \in 1 .. hi
        <5>1. y \in 1 .. n /\ y <= hi
          BY <4>4
        <5>2. hi \in Int /\ y \in Int /\ y >= 1
          BY <4>3, <5>1
        <5> QED
          BY <5>1, <5>2
      <4> QED
        BY <4>3, <4>5
    <3>2. CASE ~ (Cardinality(A) > na)
      BY <2>3, <2>6, <3>2
    <3> QED
      BY <3>1, <3>2
  <2>9. ASSUME NEW s \in 1 .. hi, Visible(s, log),
               (Cardinality(B) > nb /\ P # {}) => (Coming(s, events) \/ \E u \in P : u <= s)
        PROVE  s \in P
    <3>1. s \in 1 .. n /\ s <= hi
      BY <2>8
    <3>2. CASE s < from
      <4>1. CASE Cardinality(B) > nb
        <5>1. Coming(s, events) \/ \E u \in P : u <= s
          BY <2>7, <2>9, <4>1
        <5>2. CASE Coming(s, events)
          <6>1. n - s < Margin
            BY <3>1, <5>2
          <6>2. from <= n /\ n - s <= nb
            BY <2>3, <3>1, <6>1
          <6>3. s \in H
            BY <2>3, <2>9, <3>1, <3>2, <6>2, PageBelow DEF H
          <6> QED
            BY <2>6, <6>3
        <5>3. CASE \E u \in P : u <= s
          <6>1. PICK u \in P : u <= s
            BY <5>3
          <6>2. u \in 1 .. n /\ (u \in A => u >= from)
            BY <2>6
          <6>3. u \notin A
            BY <2>3, <3>1, <3>2, <6>1, <6>2
          <6>4. u \in H
            BY <2>5, <2>6, <6>1, <6>3
          <6>5. s \in H
            BY <2>3, <2>9, <3>1, <3>2, <6>1, <6>4, PageBelow DEF H
          <6> QED
            BY <2>6, <6>5
        <5> QED
          BY <5>1, <5>2, <5>3
      <4>2. CASE ~ (Cardinality(B) > nb)
        <5>1. IsFiniteSet(B) /\ Cardinality(B) \in Nat
          BY Finite
        <5>2. Cardinality(B) <= nb
          BY <2>3, <4>2, <5>1
        <5>3. s \in H
          BY <2>3, <2>9, <3>1, <3>2, <5>2, PageBelow DEF H
        <5> QED
          BY <2>6, <5>3
      <4> QED
        BY <4>1, <4>2
    <3>3. CASE s >= from
      <4>1. s \in A
        BY <2>9, <3>1, <3>3
      <4>2. CASE Cardinality(A) > na
        <5>1. Max(P) \in P /\ hi = Max(P)
          <6>1. Max(P) \in P
            BY <2>6, <2>7, <4>2, MaxIs
          <6> QED
            BY <4>2, <6>1
        <5>2. hi \in P /\ hi >= s /\ hi \in 1 .. n /\ hi >= from
          BY <2>3, <2>8, <3>1, <3>3, <5>1
        <5>3. hi \notin B
          BY <2>3, <5>2
        <5>4. hi \in W
          BY <2>4, <2>6, <5>2, <5>3
        <5>5. s \in W
          BY <2>3, <4>1, <5>2, <5>4, LowestDown DEF W
        <5> QED
          BY <2>6, <5>5
      <4>3. CASE ~ (Cardinality(A) > na)
        <5>1. IsFiniteSet(A) /\ Cardinality(A) \in Nat
          BY Finite
        <5>2. Cardinality(A) <= na
          BY <2>3, <4>3, <5>1
        <5>3. W = A
          BY <2>3, <5>2, AllOfThem DEF W
        <5> QED
          BY <2>6, <4>1, <5>3
      <4> QED
        BY <4>2, <4>3
    <3> QED
      BY <2>3, <3>1, <3>2, <3>3
  <2> QED
    BY <2>7, <2>8, <2>9 DEF WholeTo
<1>9. P \in SUBSET (1 .. Len(log))
  BY <1>1, <1>8 DEF n
<1>10. /\ a \in Req /\ DOMAIN a.page = P /\ a.last = n /\ a.before = (Cardinality(B) > nb)
       /\ a.beyond = (Cardinality(A) > na)
       /\ a.step = "answered" /\ a.kind = r.kind /\ a.live = r.live /\ a.from = r.from /\ a.min = r.min
  <2> DEFINE b == Cardinality(B) > nb
             y == Cardinality(A) > na
  <2>1. b \in BOOLEAN /\ y \in BOOLEAN /\ a = Answer(r, P, b, y)
    BY <1>1, <1>4
  <2> HIDE DEF b, y
  <2>2. IsAnswer(Answer(r, P, b, y), r, P, b, y)
    BY <1>9, <2>1, AnswerIs
  <2> QED
    BY <2>1, <2>2 DEF b, y, n, IsAnswer
<1>11. End(a) = hi
  BY <1>6, <1>10 DEF End
<1> QED
  BY <1>8, <1>10, <1>11 DEF PageOK, n

LEMMA SyncAnswer ==
  ASSUME CursorInv, NEW r \in Req, r.kind \in {"heal", "newer"}, r.from \in 0 .. Len(log),
         r.kind = "newer" => r.min = r.from,
         NEW a, a = SyncChannel(r)
  PROVE  /\ a \in Req /\ a.step = "answered" /\ a.kind = r.kind /\ a.live = r.live
         /\ a.from = r.from /\ a.min = r.min
         /\ SyncOK(a, log)
<1> DEFINE n == Len(log)
           N == {s \in Seqs : s > r.from}
           C == {s \in Seqs : s >= r.min /\ s <= r.from /\ log[s].at > r.since}
           P == Lowest(N, SyncMax) \union Lowest(C, SyncMax)
           beyond == Cardinality(N) > SyncMax \/ Cardinality(C) > SyncMax
<1>1. n \in Nat /\ beyond \in BOOLEAN /\ FALSE \in BOOLEAN
  BY Facts
<1>2. C \in SUBSET (1 .. n) /\ (\A x \in C : x <= r.from /\ x >= r.min) 
      /\ N \in SUBSET (1 .. n) /\ (\A s \in 1 .. n : s \in N <=> s > r.from)
  BY DEF Seqs
<1>3. a = Answer(r, P, FALSE, beyond)
  BY DEF SyncChannel
<1>4. P = Lowest(N, SyncMax) \union Lowest(C, SyncMax) /\ (~beyond => ~ (Cardinality(N) > SyncMax))
  OBVIOUS
<1>5. \A u \in P : u \in N \/ u \in C
  BY DEF Lowest
<1> HIDE DEF n, N, C, P, beyond
<1>6. /\ P \subseteq 1 .. n
      /\ ~ (Cardinality(N) > SyncMax) => \A s \in r.from + 1 .. n : s \in P
      /\ \A u \in P : \A s \in r.from + 1 .. u : s \in P
  <2>1. r.from \in 0 .. n /\ r.from \in Int /\ \A x \in C : x <= r.from
    BY <1>2 DEF n
  <2>2. PICK from \in 0 .. n : from = r.from
    BY <2>1
  <2>3. (\A x \in C : x <= from) /\ (\A s \in 1 .. n : s \in N <=> s > from)
    BY <1>2, <2>2
  <2>4. /\ P \subseteq 1 .. n
        /\ ~ (Cardinality(N) > SyncMax) => \A s \in from + 1 .. n : s \in P
        /\ \A u \in P : \A s \in from + 1 .. u : s \in P
    BY <1>1, <1>2, <1>4, <2>1, <2>2, <2>3, SyncWhole
  <2> QED
    BY <2>2, <2>4
<1>7. P \in SUBSET (1 .. Len(log))
  BY <1>6 DEF n
<1>8. /\ a \in Req /\ DOMAIN a.page = P /\ a.last = n /\ a.beyond = beyond
      /\ a.step = "answered" /\ a.kind = r.kind /\ a.live = r.live /\ a.from = r.from /\ a.min = r.min
  <2> DEFINE no == FALSE
  <2>1. no \in BOOLEAN /\ a = Answer(r, P, no, beyond)
    BY <1>3
  <2> HIDE DEF no
  <2>2. IsAnswer(Answer(r, P, no, beyond), r, P, no, beyond)
    BY <1>1, <1>7, <2>1, AnswerIs
  <2> QED
    BY <2>1, <2>2 DEF n, IsAnswer
<1>9. r.kind = "newer" => \A u \in P : u >= r.from
  <2>1. \A u \in N : u >= r.from
    BY <1>2
  <2> QED
    BY <1>2, <1>5, <2>1
<1>10. n \in r.from .. n
  BY <1>1 DEF n
<1> QED
  BY <1>4, <1>6, <1>8, <1>9, <1>10 DEF SyncOK, n

LEMMA AnswerKept ==
  ASSUME NEW t, NEW R, NEW L, NEW E, Good(t, R, L, E), NEW r \in R, r.live,
         NEW a, a.kind = r.kind, a.live = r.live, a.from = r.from, a.min = r.min,
         r.kind \notin {"paint", "drop"},
         r.kind \in PageKinds => PageOK(a, L, E),
         r.kind = "older" => OlderOK(a, t, L),
         r.kind \in {"heal", "newer"} => SyncOK(a, L)
  PROVE  Good(t, (R \ {r}) \union {a}, L, E)
<1> DEFINE Q == (R \ {r}) \union {a}
<1>1. ReqOK(r, t, R, L, E)
  BY DEF Good
<1>2. ReqOK(a, t, Q, L, E)
  <2>1. FromOK(a, L)
    BY <1>1 DEF ReqOK, FromOK
  <2>2. r.kind = "heal" => HealOK(a, t, L)
    BY <1>1 DEF ReqOK, HealOK
  <2>3. r.kind = "newer" => NewerOK(a, t, L)
    BY <1>1 DEF ReqOK, NewerOK
  <2>4. r.kind \in PageKinds =>
          /\ \A q \in Q : q.live => q = a
          /\ IF "fail" \in May THEN t.last = 0 ELSE t.status \in {"none", "loading"}
    BY <1>1 DEF ReqOK
  <2>5. r.kind = "newer" => \A q \in Q : q.kind = "newer" => q = a
    BY <1>1 DEF ReqOK
  <2>6. r.kind \in HealKinds => \A q \in Q : q.kind \in HealKinds => q = a
    BY <1>1 DEF ReqOK
  <2> QED
    BY <2>1, <2>2, <2>3, <2>4, <2>5, <2>6 DEF ReqOK
<1>3. ASSUME NEW q \in R, q # r PROVE ReqOK(q, t, Q, L, E)
  <2>1. ReqOK(q, t, R, L, E)
    BY DEF Good
  <2>2. ~ (q.live /\ q.kind \in PageKinds)
    BY <1>3, <2>1 DEF ReqOK
  <2>3. (q.kind = "newer" => r.kind # "newer") /\ (q.kind \in HealKinds => r.kind \notin HealKinds)
    BY <1>3, <2>1 DEF ReqOK
  <2> QED
    BY <2>1, <2>2, <2>3 DEF ReqOK
<1> QED
  BY <1>2, <1>3 DEF Good

LEMMA ServeKeeps ==
  ASSUME CursorInv, CursorHypothesis, Serve
  PROVE  CursorInv'
<1>1. PICK r \in view.reqs :
    /\ r.live /\ r.step = "asked" /\ r.kind \notin {"paint", "drop"}
    /\ LET a == CASE r.kind \in {"newest", "reload", "older"} -> ListMessages(r)
                  [] r.kind = "around" -> ListMessagesAround(r)
                  [] r.kind \in {"newer", "heal"} -> SyncChannel(r)
       IN Client([view EXCEPT !.reqs = (@ \ {r}) \union {a}])
    /\ UNCHANGED <<cache, bounds>>
  BY DEF Serve
<1> DEFINE a == CASE r.kind \in {"newest", "reload", "older"} -> ListMessages(r)
                  [] r.kind = "around" -> ListMessagesAround(r)
                  [] r.kind \in {"newer", "heal"} -> SyncChannel(r)
           R == (view.reqs \ {r}) \union {a}
           v == [view EXCEPT !.reqs = R]
<1>2. /\ view' = v /\ UNCHANGED <<server, clock, events, online>>
      /\ cache' = cache /\ opens' = opens /\ faults' = faults
  BY <1>1 DEF Client, bounds
<1>3. r \in Req /\ ReqOK(r, view.tl, view.reqs, log, events)
  BY Facts
<1>4. r.kind \in {"newest", "around", "reload", "older", "newer", "heal"}
  BY <1>1, <1>3 DEF Req, Kinds
<1>5. /\ a \in Req /\ a.step = "answered" /\ a.kind = r.kind /\ a.live = r.live
      /\ a.from = r.from /\ a.min = r.min
      /\ r.kind \in PageKinds => PageOK(a, log, events)
      /\ r.kind = "older" => OlderOK(a, view.tl, log)
      /\ r.kind \in {"heal", "newer"} => SyncOK(a, log)
  <2>1. FromOK(r, log)
    BY <1>3 DEF ReqOK
  <2>2. CASE r.kind \in {"newest", "reload"}
    <3>1. a = ListMessages(r)
      BY <2>2
    <3> HIDE DEF a
    <3> QED
      BY <1>3, <2>1, <2>2, <3>1, NewestAnswer
  <2>3. CASE r.kind = "older"
    <3>1. a = ListMessages(r)
      BY <2>3
    <3>2. OlderOK(r, view.tl, log)
      BY <1>1, <1>3, <2>3 DEF ReqOK
    <3> HIDE DEF a
    <3>3. r.kind \notin PageKinds
      BY <2>3 DEF PageKinds
    <3> QED
      BY <1>3, <2>3, <3>1, <3>2, <3>3, OlderAnswer
  <2>4. CASE r.kind = "around"
    <3>1. a = ListMessagesAround(r)
      BY <2>4
    <3> HIDE DEF a
    <3> QED
      BY <1>3, <2>1, <2>4, <3>1, AroundAnswer
  <2>5. CASE r.kind \in {"newer", "heal"}
    <3>1. a = SyncChannel(r)
      BY <2>5
    <3>2. r.from \in 0 .. Len(log) /\ (r.kind = "newer" => r.min = r.from)
      <4>1. view.tl.last \in 0 .. Len(log) /\ Len(log) \in Nat
        BY Facts DEF TlOK
      <4>2. r.kind = "newer" => r.from = view.tl.last /\ r.min = r.from
        BY <1>3 DEF ReqOK, NewerOK, FromOK
      <4>3. r.kind = "heal" => r.from \in 1 .. view.tl.last
        BY <1>1, <1>3 DEF ReqOK, HealOK
      <4> QED
        BY <2>5, <4>1, <4>2, <4>3
    <3> HIDE DEF a
    <3>3. r.kind \notin PageKinds
      BY <2>5 DEF PageKinds
    <3> QED
      BY <1>3, <2>5, <3>1, <3>2, <3>3, SyncAnswer
  <2> QED
    BY <1>4, <2>2, <2>3, <2>4, <2>5
<1> HIDE DEF a
<1>6. Good(view.tl, R, log, events)
  BY <1>1, <1>5, Facts, AnswerKept
<1>7. R \in SUBSET Req
  BY <1>5, Facts
<1> HIDE DEF R
<1>8. v \in View /\ v.tl = view.tl /\ v.reqs = R /\ v.held = view.held /\ v.open = view.open
  BY <1>7, Facts DEF View
<1>9. FirstOK'
  <2>1. opens' # 0
    BY <1>1, <1>2, Opened
  <2>2. "fail" \in May => \A q \in view.reqs : q.kind # "paint"
    BY <1>1 DEF CursorInv, FirstOK
  <2>3. "fail" \in May => \A q \in view'.reqs : q.kind # "paint"
    BY <1>1, <1>2, <1>5, <1>8, <2>2 DEF R
  <2> QED
    BY <2>1, <2>3, FirstLater
<1> HIDE DEF v
<1>10. v.tl.shown \subseteq DOMAIN v.held
  BY <1>8, Facts
<1>11. Good(v.tl, v.reqs, log, events)
  BY <1>6, <1>8
<1> QED
  BY <1>2, <1>8, <1>9, <1>10, <1>11, Facts, NewView

-----------------------------------------------------------------------------
(* What answers do *)

LEMMA WithoutIs ==
  ASSUME CursorInv, NEW r
  PROVE  /\ Without(r) \in View /\ Without(r).tl = view.tl /\ Without(r).reqs = view.reqs \ {r}
         /\ Without(r).held = view.held /\ Without(r).open = view.open
         /\ Good(view.tl, view.reqs \ {r}, log, events)
<1>1. view.reqs \ {r} \in SUBSET view.reqs /\ view.reqs \ {r} \in SUBSET Req
  BY Facts
<1>2. Good(view.tl, view.reqs \ {r}, log, events)
  BY <1>1, Facts, FewerRequests
<1> QED
  BY <1>1, <1>2, Facts DEF Without, View

LEMMA AnswerTaken ==
  ASSUME CursorInv, NEW r \in view.reqs, r.kind # "paint", NEW w \in View, view' = w,
         \A q \in w.reqs : q \in view.reqs \/ q.kind # "paint",
         UNCHANGED <<server, clock, events, online>>,
         cache' \in [page : Copies, last : Int], CacheOK(cache', log, events),
         opens' = opens, faults' \in Nat,
         w.tl.shown \subseteq DOMAIN w.held, Good(w.tl, w.reqs, log, events)
  PROVE  CursorInv'
<1>1. opens # 0 /\ opens \in Nat
  BY Opened, Facts
<1>2. "fail" \in May => \A q \in view.reqs : q.kind # "paint"
  BY DEF CursorInv, FirstOK
<1>3. FirstOK'
  <2>1. "fail" \in May => \A q \in view'.reqs : q.kind # "paint"
    BY <1>2
  <2> QED
    BY <1>1, <2>1, FirstLater
<1> QED
  BY <1>1, <1>3, NewView

\* While a page is awaited nothing else of its generation is under way.
LEMMA Alone ==
  ASSUME CursorInv, NEW r \in view.reqs, r.live, r.kind \in PageKinds
  PROVE  \A q \in view.reqs \ {r} : ~q.live /\ q.kind \notin {"paint", "newer"}
<1>1. \A q \in view.reqs : q.live => q = r
  BY Facts DEF ReqOK
<1>2. \A q \in view.reqs : q.kind \in {"paint", "newer"} => q.live
  BY Facts DEF ReqOK, NewerOK
<1> QED
  BY <1>1, <1>2

LEMMA PaintKeeps ==
  ASSUME CursorInv, NEW r \in view.reqs, r.kind = "paint", view' = PaintFromCache(r),
         UNCHANGED <<server, clock, events, online>>, cache' = cache, opens' = opens, faults' = faults
  PROVE  CursorInv'
<1> DEFINE v == Without(r)
           u == [EmptyTimeline EXCEPT !.shown = DOMAIN cache.page, !.last = cache.last, !.cached = TRUE]
           p == [v EXCEPT !.held = Merge(@, cache.page), !.tl = u]
           R == view.reqs \ {r}
<1>1. v \in View /\ v.tl = view.tl /\ v.reqs = R /\ v.held = view.held /\ Good(view.tl, R, log, events)
  BY WithoutIs
<1>2. r.live /\ r.kind \in PageKinds /\ ReqOK(r, view.tl, view.reqs, log, events)
  BY Facts DEF ReqOK, PageKinds
<1>3. \A q \in R : ~q.live /\ q.kind # "paint"
  BY <1>2, Alone
<1>4. "fail" \in May => cache = NoCache /\ view.tl.last = 0
  BY <1>2 DEF CursorInv, FirstOK, ReqOK
<1>5. view' = AskNewest(v) \/ (cache # NoCache /\ view' = AskNewest(p))
  BY DEF PaintFromCache
<1>6. clock \in Int /\ opens # 0
  BY Facts, Opened
<1>7. /\ NewestAsked.live /\ NewestAsked.kind = "newest" /\ NewestAsked.step = "asked"
      /\ NewestAsked.from = MaxSeq + 1
  BY DEF NewestAsked, Asked
<1>8. /\ FromOK(NewestAsked, log) /\ NewestAsked.kind \in PageKinds
      /\ NewestAsked.kind \notin HealKinds
  BY <1>7 DEF FromOK, PageKinds, HealKinds
<1>9. ASSUME NEW x \in View, x.reqs = R, x.tl.shown \subseteq DOMAIN x.held, view' = AskNewest(x),
             TlOK(LoadingTl(x.tl), log, events), "fail" \in May => x.tl.last = 0
      PROVE  CursorInv'
  <2> DEFINE t == LoadingTl(x.tl)
             w == AskNewest(x)
  <2>1. w \in View /\ w.tl = t /\ w.reqs = R \union {NewestAsked}
    BY <1>6, <1>9, AskNewestIs
  <2>2. w.held = x.held
    BY DEF AskNewest, Ask
  <2>3. x.tl \in Tl
    BY DEF View
  <2>4. /\ t.status = "loading" /\ t.shown = x.tl.shown /\ t.last = x.tl.last
        /\ t.before = x.tl.before /\ t.after = x.tl.after
    BY <2>3 DEF LoadingTl, Tl
  <2>5. TlOK(t, log, events)
    BY <1>9
  <2> HIDE DEF t
  <2>6. Good(t, R, log, events)
    BY <1>1, <1>3, <2>5, OtherTimeline
  <2>7. Good(t, R \union {NewestAsked}, log, events)
    BY <1>3, <1>7, <1>8, <1>9, <2>4, <2>6, AskPage
  <2> HIDE DEF w
  <2>8. view' = w
    BY <1>9 DEF w
  <2>9. FirstOK'
    <3>1. \A q \in view'.reqs : q.kind # "paint"
      BY <1>3, <1>7, <2>1, <2>8
    <3> QED
      BY <1>6, <3>1, FirstLater
  <2>10. w.tl.shown \subseteq DOMAIN w.held /\ Good(w.tl, w.reqs, log, events)
    BY <1>9, <2>1, <2>2, <2>4, <2>7
  <2> QED
    BY <2>1, <2>8, <2>9, <2>10, Facts, NewView
<1>10. CASE view' = AskNewest(v)
  <2> HIDE DEF v, R
  <2>1. v.tl.shown \subseteq DOMAIN v.held
    BY <1>1, Facts
  <2>2. "fail" \in May => v.tl.last = 0
    BY <1>1, <1>4
  <2>3. TlOK(view.tl, log, events) /\ view.tl \in Tl
    BY Facts
  <2>4. TlOK(LoadingTl(view.tl), log, events)
    BY <2>3 DEF TlOK, LoadingTl, Tl
  <2> QED
    BY <1>1, <1>9, <1>10, <2>1, <2>2, <2>4
<1>11. CASE cache # NoCache /\ view' = AskNewest(p)
  <2>1. /\ cache.page \in Copies /\ cache.last \in 1 .. Len(log) /\ DOMAIN cache.page \subseteq 1 .. Len(log)
        /\ WholeTo(DOMAIN cache.page, TRUE, cache.last, log, events)
    BY <1>11, Facts DEF CacheOK
  <2>2. Len(log) \in Nat /\ Len(log) <= MaxSeq
    BY Facts
  <2>3. DOMAIN cache.page \in SUBSET (1 .. MaxSeq) /\ cache.last \in 0 .. MaxSeq
    <3>1. cache.last \in 0 .. MaxSeq
      BY <2>1, <2>2, Constants
    <3> QED
      BY <2>1, <3>1, CopiesAre
  <2>4. /\ u \in Tl /\ u.shown = DOMAIN cache.page /\ u.last = cache.last /\ u.before = TRUE /\ u.after = FALSE
        /\ u.status = "idle"
    BY <2>3, Nothing DEF EmptyTimeline, Tl
  <2>5. view.held \in Copies
    BY Facts DEF View
  <2>6. Merge(view.held, cache.page) \in Copies
    BY <2>1, <2>5, MergeIs
  <2>7. DOMAIN cache.page \subseteq DOMAIN Merge(view.held, cache.page)
    BY DEF Merge
  <2>8. p \in View /\ p.tl = u /\ p.reqs = R /\ p.held = Merge(view.held, cache.page)
    <3> HIDE DEF u, v, R
    <3> QED
      BY <1>1, <2>4, <2>6 DEF View
  <2> HIDE DEF u, p, R
  <2>9. "fail" \notin May
    BY <1>4, <1>11
  <2>10. /\ LoadingTl(u).status = "loading" /\ LoadingTl(u).shown = u.shown /\ LoadingTl(u).last = u.last
         /\ LoadingTl(u).before = u.before /\ LoadingTl(u).after = u.after
    BY <2>4 DEF LoadingTl, Tl
  <2>11. cache.last \in 0 .. Len(log)
    BY <2>1
  <2>12. TlOK(LoadingTl(u), log, events)
    BY <2>1, <2>4, <2>10, <2>11 DEF TlOK
  <2>13. p.tl.shown \subseteq DOMAIN p.held
    BY <2>4, <2>7, <2>8
  <2> QED
    BY <1>9, <1>11, <2>8, <2>9, <2>12, <2>13
<1> QED
  BY <1>5, <1>10, <1>11

LEMMA MergeHolds ==
  ASSUME NEW h \in Copies, NEW p \in Copies
  PROVE  Merge(h, p) \in Copies /\ DOMAIN Merge(h, p) = DOMAIN h \union DOMAIN p
<1>1. DOMAIN Merge(h, p) = DOMAIN h \union DOMAIN p
  BY DEF Merge
<1> QED
  BY <1>1, MergeIs

\* A page from the server replaces the timeline.
LEMMA PageTaken ==
  ASSUME CursorInv, NEW r \in view.reqs, r.live, r.kind \in {"newest", "around", "reload"},
         NEW x \in View, x.reqs = view.reqs \ {r}, x.held = Merge(view.held, r.page),
         x.tl.shown \subseteq DOMAIN r.page \union view.tl.shown, TlOK(x.tl, log, events),
         view' \in {x, HealIfBehind(x)},
         UNCHANGED <<server, clock, events, online>>, cache' = cache, opens' = opens, faults' = faults
  PROVE  CursorInv'
<1> DEFINE R == view.reqs \ {r}
<1>1. r.kind \in PageKinds /\ r.kind # "paint" /\ r \in Req
  BY Facts DEF PageKinds
<1>2. Good(view.tl, R, log, events) /\ \A q \in R : ~q.live
  BY <1>1, WithoutIs, Alone
<1> HIDE DEF R
<1>3. Good(x.tl, R, log, events)
  BY <1>2, OtherTimeline
<1>4. view.held \in Copies /\ r.page \in Copies
  BY <1>1, Facts DEF View, Req
<1>5. x.tl.shown \subseteq DOMAIN x.held
  <2>1. DOMAIN x.held = DOMAIN view.held \union DOMAIN r.page
    BY <1>4, MergeHolds
  <2>2. view.tl.shown \subseteq DOMAIN view.held
    BY Facts
  <2> QED
    BY <2>1, <2>2
<1>6. HealIfBehind(x) \in View /\ HealIfBehind(x).tl = x.tl /\ HealIfBehind(x).reqs = x.reqs
  BY HealIfBehindIs
<1>7. HealIfBehind(x).held = x.held
  BY DEF HealIfBehind, NoteGap
<1>8. PICK w \in {x, HealIfBehind(x)} : view' = w
  OBVIOUS
<1>9. w \in View /\ w.tl = x.tl /\ w.reqs = R /\ w.held = x.held
  BY <1>6, <1>7, <1>8 DEF R
<1>10. \A q \in w.reqs : q \in view.reqs
  BY <1>9 DEF R
<1> QED
  BY <1>1, <1>3, <1>5, <1>8, <1>9, <1>10, Facts, AnswerTaken

LEMMA NewestTaken ==
  ASSUME CursorInv, NEW r \in view.reqs, r.live, r.step = "answered", r.kind \in {"newest", "reload"},
         view' = LoadNewest(r),
         UNCHANGED <<server, clock, events, online>>, cache' = cache, opens' = opens, faults' = faults
  PROVE  CursorInv'
<1> DEFINE live == {s \in view.tl.shown : s > r.last}
           S == DOMAIN r.page \union live
           u == [EmptyTimeline EXCEPT !.shown = S, !.before = r.before, !.status = "ready",
                                      !.last = r.last, !.synced = r.at]
           v == Without(r)
           h == Merge(view.held, r.page)
           x == [v EXCEPT !.held = h, !.save = TRUE, !.tl = u]
<1>1. /\ v \in View /\ v.tl = view.tl /\ v.reqs = view.reqs \ {r} /\ v.held = view.held
  BY WithoutIs
<1>2. view' = HealIfBehind(x)
  BY <1>1 DEF LoadNewest
<1>3. r \in Req /\ PageOK(r, log, events) /\ End(r) = r.last
  <2>1. r.kind \in PageKinds /\ r.kind # "paint"
    BY DEF PageKinds
  <2> QED
    BY <2>1, Facts DEF ReqOK, End
<1>4. /\ r.last \in 1 .. Len(log) /\ r.last \in Int /\ DOMAIN r.page \subseteq 1 .. r.last
      /\ (r.before => DOMAIN r.page # {})
      /\ WholeTo(DOMAIN r.page, r.before, r.last, log, events)
  BY <1>3 DEF PageOK
<1>5. /\ r.page \in Copies /\ DOMAIN r.page \in SUBSET (1 .. MaxSeq) /\ r.before \in BOOLEAN
      /\ r.at \in Int /\ r.last \in 0 .. MaxSeq
  BY <1>3, CopiesAre DEF Req
<1>6. view.tl.shown \subseteq 1 .. Len(log) /\ view.tl.shown \in SUBSET (1 .. MaxSeq) /\ view.held \in Copies
  BY Facts DEF TlOK, View, Tl
<1>7. S \in SUBSET (1 .. MaxSeq) /\ S \subseteq 1 .. Len(log) /\ live \subseteq view.tl.shown
      /\ (\A s \in live : s > r.last)
  <2>1. \A s \in DOMAIN r.page : s \in 1 .. Len(log)
    BY <1>4
  <2> QED
    BY <1>5, <1>6, <2>1
<1> HIDE DEF live
<1>8. /\ u \in Tl /\ u.shown = S /\ u.before = r.before /\ u.status = "ready" /\ u.last = r.last
      /\ u.after = FALSE /\ u.cached = FALSE
  <2> HIDE DEF S
  <2> QED
    BY <1>5, <1>7, Nothing DEF EmptyTimeline, Tl
<1>9. WholeTo(S, r.before, r.last, log, events)
  <2> SUFFICES ASSUME NEW s \in 1 .. r.last, Visible(s, log),
                      (r.before /\ S # {}) => (Coming(s, events) \/ \E y \in S : y <= s)
               PROVE  s \in DOMAIN r.page
    BY DEF WholeTo
  <2>1. \A y \in live : ~ (y <= s)
    BY <1>4, <1>6, <1>7
  <2>2. (r.before /\ DOMAIN r.page # {}) => (Coming(s, events) \/ \E y \in DOMAIN r.page : y <= s)
    BY <2>1
  <2> QED
    BY <1>4, <2>2 DEF WholeTo
<1>10. u.last \in 0 .. Len(log) /\ u.last >= 1
  BY <1>4, <1>8
<1>11. TlOK(u, log, events)
  <2> HIDE DEF u
  <2> QED
    BY <1>7, <1>8, <1>9, <1>10 DEF TlOK
<1> HIDE DEF u, h, v
<1>12. h \in Copies
  BY <1>5, <1>6, MergeIs DEF h
<1>13. x \in View /\ x.tl = u /\ x.reqs = view.reqs \ {r} /\ x.held = h
  BY <1>1, <1>8, <1>12 DEF View
<1> HIDE DEF x, S
<1>14. x.tl.shown \subseteq DOMAIN r.page \union view.tl.shown
  BY <1>7, <1>8, <1>13 DEF S
<1>15. r.kind \in {"newest", "around", "reload"}
  OBVIOUS
<1>16. TlOK(x.tl, log, events) /\ x.held = Merge(view.held, r.page) /\ view' \in {x, HealIfBehind(x)}
  BY <1>2, <1>11, <1>13 DEF h
<1> QED
  BY <1>13, <1>14, <1>15, <1>16, PageTaken

LEMMA AroundTaken ==
  ASSUME CursorInv, NEW r \in view.reqs, r.live, r.step = "answered", r.kind = "around",
         view' = LoadAround(r),
         UNCHANGED <<server, clock, events, online>>, cache' = cache, opens' = opens, faults' = faults
  PROVE  CursorInv'
<1> DEFINE S == DOMAIN r.page
           last == IF ~r.beyond THEN r.last ELSE IF DOMAIN r.page = {} THEN r.from ELSE Max(DOMAIN r.page)
           u == [EmptyTimeline EXCEPT !.shown = DOMAIN r.page, !.before = r.before,
                        !.after = r.beyond, !.status = "ready", !.synced = r.at,
                        !.last = IF ~r.beyond THEN r.last
                                 ELSE IF DOMAIN r.page = {} THEN r.from ELSE Max(DOMAIN r.page)]
           v == Without(r)
           h == Merge(view.held, r.page)
           x == [v EXCEPT !.held = h, !.tl = u]
           y == [x EXCEPT !.save = TRUE]
<1>1. /\ v \in View /\ v.tl = view.tl /\ v.reqs = view.reqs \ {r} /\ v.held = view.held
  BY WithoutIs
<1>2. view' = x \/ view' = HealIfBehind(y)
  BY <1>1 DEF LoadAround
<1>3. r \in Req /\ PageOK(r, log, events)
  <2>1. r.kind \in PageKinds /\ r.kind # "paint"
    BY DEF PageKinds
  <2> QED
    BY <2>1, Facts DEF ReqOK
<1>4. last = End(r)
  BY <1>3 DEF PageOK, End
<1> HIDE DEF last
<1>5. /\ last \in 1 .. Len(log) /\ last \in Int /\ S \subseteq 1 .. last
      /\ (r.beyond => S # {})
      /\ WholeTo(S, r.before, last, log, events)
  BY <1>3, <1>4 DEF PageOK
<1>6. /\ r.page \in Copies /\ S \in SUBSET (1 .. MaxSeq) /\ r.before \in BOOLEAN /\ r.beyond \in BOOLEAN
      /\ r.at \in Int /\ view.held \in Copies
  BY <1>3, Facts, CopiesAre DEF Req, View
<1>7. last \in 0 .. MaxSeq /\ last \in 0 .. Len(log) /\ last >= 1
  <2>1. Len(log) \in Nat /\ Len(log) <= MaxSeq /\ MaxSeq \in Nat
    BY Facts, Constants
  <2> QED
    BY <1>5, <2>1
<1>8. /\ u \in Tl /\ u.shown = S /\ u.before = r.before /\ u.status = "ready" /\ u.last = last
      /\ u.after = r.beyond /\ u.cached = FALSE
  BY <1>6, <1>7, Nothing DEF EmptyTimeline, Tl, last
<1>9. S \subseteq 1 .. Len(log)
  BY <1>5
<1> HIDE DEF S, u
<1>10. TlOK(u, log, events)
  BY <1>5, <1>7, <1>8, <1>9 DEF TlOK
<1> HIDE DEF h, v
<1>11. h \in Copies
  BY <1>6, MergeIs DEF h
<1>12. x \in View /\ x.tl = u /\ x.reqs = view.reqs \ {r} /\ x.held = h
  BY <1>1, <1>8, <1>11 DEF View
<1> HIDE DEF x
<1>13. y \in View /\ y.tl = u /\ y.reqs = view.reqs \ {r} /\ y.held = h
  BY <1>12 DEF View
<1> HIDE DEF y
<1>14. PICK z \in {x, y} : view' \in {z, HealIfBehind(z)}
  BY <1>2
<1>15. z \in View /\ z.tl = u /\ z.reqs = view.reqs \ {r} /\ z.held = Merge(view.held, r.page)
  BY <1>12, <1>13, <1>14 DEF h
<1>16. z.tl.shown \subseteq DOMAIN r.page \union view.tl.shown /\ TlOK(z.tl, log, events)
  BY <1>8, <1>10, <1>15 DEF S
<1>17. r.kind \in {"newest", "around", "reload"}
  OBVIOUS
<1> QED
  BY <1>14, <1>15, <1>16, <1>17, PageTaken

\* An older page goes below what is shown.
LEMMA OlderTaken ==
  ASSUME CursorInv, NEW r \in view.reqs, r.live, r.step = "answered", r.kind = "older",
         view' = TakeOlder(r),
         UNCHANGED <<server, clock, events, online>>, cache' = cache, opens' = opens, faults' = faults
  PROVE  CursorInv'
<1> DEFINE t == view.tl
           S == t.shown \union DOMAIN r.page
           u == [t EXCEPT !.shown = S, !.before = r.before, !.older = "idle"]
           v == Without(r)
           h == Merge(view.held, r.page)
           R == view.reqs \ {r}
           x == [v EXCEPT !.held = h, !.tl = u]
<1>1. /\ v \in View /\ v.tl = t /\ v.reqs = R /\ v.held = view.held
      /\ Good(t, R, log, events)
  BY WithoutIs
<1>2. r \in Req /\ t \in Tl /\ OlderOK(r, t, log) /\ TlOK(t, log, events)
  BY Facts DEF ReqOK
<1>3. view' = x
  BY <1>1 DEF TakeOlder, View, Tl
<1>4. /\ r.page \in Copies /\ DOMAIN r.page \in SUBSET (1 .. MaxSeq) /\ r.before \in BOOLEAN
      /\ view.held \in Copies
  BY <1>2, Facts, CopiesAre DEF Req, View
<1>5. S \in SUBSET (1 .. MaxSeq)
  BY <1>2, <1>4 DEF Tl
<1>6. /\ t.shown \subseteq 1 .. Len(log) /\ t.last \in 0 .. Len(log) /\ Len(log) \in Nat
      /\ WholeTo(t.shown, t.before, t.last, log, events)
      /\ r.from \in t.shown /\ DOMAIN r.page \subseteq 1 .. Len(log) /\ (\A y \in DOMAIN r.page : y < r.from)
      /\ \A s \in 1 .. r.from - 1 :
            Visible(s, log) /\ (r.before => \E y \in DOMAIN r.page : y <= s) => s \in DOMAIN r.page
  BY <1>2, Facts DEF TlOK, OlderOK
<1>7. /\ u \in Tl /\ u.shown = S /\ u.before = r.before /\ u.status = t.status /\ u.last = t.last
      /\ u.after = t.after /\ u.cached = t.cached /\ u.newer = t.newer
  <2> HIDE DEF S
  <2> QED
    BY <1>2, <1>4, <1>5 DEF Tl
<1>8. WholeTo(S, r.before, t.last, log, events)
  <2> SUFFICES ASSUME NEW s \in 1 .. t.last, Visible(s, log),
                      (r.before /\ S # {}) => (Coming(s, events) \/ \E y \in S : y <= s)
               PROVE  s \in S
    BY DEF WholeTo
  <2>1. r.from \in Int /\ s \in Int /\ s >= 1 /\ S # {}
    BY <1>6
  <2>2. CASE Coming(s, events) \/ \E y \in t.shown : y <= s
    <3>1. s \in t.shown
      BY <1>6, <2>2 DEF WholeTo
    <3> QED
      BY <3>1
  <2>3. CASE ~ (Coming(s, events) \/ \E y \in t.shown : y <= s)
    <3>1. s < r.from
      BY <1>6, <2>1, <2>3
    <3>2. s \in 1 .. r.from - 1
      BY <2>1, <3>1
    <3>3. r.before => \E y \in DOMAIN r.page : y <= s
      BY <2>1, <2>3
    <3>4. s \in DOMAIN r.page
      BY <1>6, <3>2, <3>3
    <3> QED
      BY <3>4
  <2> QED
    BY <2>2, <2>3
<1>9. S \subseteq 1 .. Len(log) /\ t.shown \subseteq S
  BY <1>6
<1>10. t.after => S \subseteq 1 .. t.last
  <2>1. ASSUME t.after, NEW y \in DOMAIN r.page PROVE y \in 1 .. t.last
    <3>1. r.from \in 1 .. t.last /\ t.last \in Int
      BY <1>2, <1>6, <2>1 DEF TlOK
    <3>2. y \in 1 .. Len(log) /\ y < r.from
      BY <1>6
    <3> QED
      BY <3>1, <3>2
  <2> QED
    BY <1>2, <2>1 DEF TlOK
<1>11. TlOK(u, log, events)
  <2>1. t.status # "none"
    BY <1>2, <1>6 DEF TlOK
  <2>2. u.last \in 0 .. Len(log) /\ u.shown \subseteq 1 .. Len(log)
        /\ WholeTo(u.shown, u.before, u.last, log, events)
    BY <1>6, <1>7, <1>8, <1>9
  <2>3. u.after => u.shown # {} /\ u.last >= 1 /\ u.shown \subseteq 1 .. u.last
    BY <1>2, <1>6, <1>7, <1>10 DEF TlOK
  <2>4. (u.status = "ready" => u.last >= 1 /\ ~u.cached)
        /\ ("fail" \notin May => u.status \in {"none", "loading", "ready"})
    BY <1>2, <1>7 DEF TlOK
  <2> HIDE DEF u
  <2> QED
    BY <1>7, <2>1, <2>2, <2>3, <2>4 DEF TlOK
<1> HIDE DEF u, h, v, S, R
<1>12. h \in Copies /\ DOMAIN h = DOMAIN view.held \union DOMAIN r.page
  BY <1>4, MergeHolds DEF h
<1>13. x \in View /\ x.tl = u /\ x.reqs = R /\ x.held = h
  BY <1>1, <1>7, <1>12 DEF View
<1> HIDE DEF x
<1>14. \A q \in R : ~ (q.live /\ q.kind \in PageKinds)
  <2>1. \A q \in view.reqs : q.live /\ q.kind \in PageKinds => q = r
    BY Facts DEF ReqOK
  <2> QED
    BY <2>1 DEF R
<1>15. Good(u, R, log, events)
  BY <1>1, <1>7, <1>9, <1>11, <1>14, MoreShown
<1>16. x.tl.shown \subseteq DOMAIN x.held
  BY <1>7, <1>12, <1>13, Facts DEF S
<1>17. \A q \in x.reqs : q \in view.reqs
  BY <1>13 DEF R
<1> QED
  BY <1>3, <1>13, <1>15, <1>16, <1>17, Facts, AnswerTaken

\* The next page below the end is taken while nobody heals.
LEMMA NewerTaken ==
  ASSUME CursorInv, NEW r \in view.reqs, r.live, r.step = "answered", r.kind = "newer",
         view' = TakeNewer(r),
         UNCHANGED <<server, clock, events, online>>, cache' = cache, opens' = opens, faults' = faults
  PROVE  CursorInv'
<1> DEFINE t == view.tl
           S == t.shown \union (DOMAIN r.page \ Reply)
           last == IF ~r.beyond THEN Max({r.last, r.from})
                   ELSE IF DOMAIN r.page = {} THEN r.from ELSE Max(DOMAIN r.page)
           u == [t EXCEPT !.shown = S, !.after = r.beyond, !.newer = "idle",
                          !.synced = IF r.beyond THEN @ ELSE r.at, !.last = last]
           v == Without(r)
           h == Merge(view.held, r.page)
           R == view.reqs \ {r}
           x == [v EXCEPT !.held = h, !.tl = u]
           y == [x EXCEPT !.save = TRUE]
<1>1. /\ v \in View /\ v.tl = t /\ v.reqs = R /\ v.held = view.held
      /\ Good(t, R, log, events)
  BY WithoutIs
<1>2. r \in Req /\ t \in Tl /\ NewerOK(r, t, log) /\ TlOK(t, log, events)
      /\ \A q \in R : q.kind # "newer"
  BY Facts DEF ReqOK
<1>3. view' = x \/ view' = HealIfBehind(y)
  <2> DEFINE z == [v EXCEPT
              !.held = Merge(@, r.page), !.tl.shown = @ \union (DOMAIN r.page \ Reply),
              !.tl.after = r.beyond, !.tl.newer = "idle",
              !.tl.synced = IF r.beyond THEN @ ELSE r.at,
              !.tl.last = IF ~r.beyond THEN Max({r.last, r.from})
                          ELSE IF DOMAIN r.page = {} THEN r.from ELSE Max(DOMAIN r.page)]
  <2>1. TakeNewer(r) = IF r.beyond THEN z ELSE HealIfBehind([z EXCEPT !.save = TRUE])
    BY DEF TakeNewer
  <2>2. z = x
    <3> HIDE DEF v
    <3> QED
      BY <1>1 DEF View, Tl
  <2> HIDE DEF z, x
  <2> QED
    BY <2>1, <2>2
<1>4. /\ r.page \in Copies /\ DOMAIN r.page \in SUBSET (1 .. MaxSeq) /\ r.beyond \in BOOLEAN
      /\ view.held \in Copies /\ r.at \in Int /\ t.synced \in Int /\ r.last \in 0 .. MaxSeq
  BY <1>2, Facts, CopiesAre DEF Req, View, Tl
<1>5. /\ t.shown \subseteq 1 .. t.last /\ t.last \in 0 .. Len(log) /\ Len(log) \in Nat /\ t.last >= 1
      /\ t.shown \subseteq 1 .. Len(log) /\ t.shown # {} /\ t.after
      /\ WholeTo(t.shown, t.before, t.last, log, events)
      /\ r.from = t.last /\ r.last \in r.from .. Len(log) /\ DOMAIN r.page \subseteq 1 .. r.last
      /\ (~r.beyond => \A s \in r.from + 1 .. r.last : s \in DOMAIN r.page)
      /\ (\A p \in DOMAIN r.page : \A s \in r.from + 1 .. p : s \in DOMAIN r.page)
      /\ (\A p \in DOMAIN r.page : p >= r.from)
  BY <1>2, Facts DEF TlOK, NewerOK, SyncOK
<1>6. t.last \in Int /\ r.last \in Int /\ t.last <= r.last /\ r.last <= Len(log)
  BY <1>5
<1>7. /\ last \in t.last .. Len(log)
      /\ \A s \in t.last + 1 .. last : s \in DOMAIN r.page
      /\ r.beyond => \A p \in DOMAIN r.page : p <= last
  <2>1. CASE ~r.beyond
    <3>1. r.from \in 0 .. MaxSeq
      BY <1>2, <1>5 DEF Tl
    <3>2. last = r.last
      BY <1>4, <1>5, <1>6, <2>1, <3>1, MaxOfTwo
    <3> HIDE DEF last
    <3> QED
      BY <1>5, <1>6, <2>1, <3>2
  <2>2. CASE r.beyond /\ DOMAIN r.page = {}
    <3>1. last = t.last
      BY <1>5, <2>2
    <3> HIDE DEF last
    <3> QED
      BY <1>5, <1>6, <2>2, <3>1
  <2>3. CASE r.beyond /\ DOMAIN r.page # {}
    <3>1. last = Max(DOMAIN r.page)
      BY <2>3
    <3> HIDE DEF last
    <3>2. DOMAIN r.page \in SUBSET (0 .. MaxSeq) /\ MaxSeq \in Nat
      BY <1>4, Constants
    <3>3. last \in DOMAIN r.page /\ \A p \in DOMAIN r.page : p <= last
      BY <2>3, <3>1, <3>2, MaxIs
    <3>4. last \in t.last .. Len(log)
      BY <1>5, <1>6, <3>3
    <3> QED
      BY <1>5, <3>3, <3>4
  <2> QED
    BY <1>4, <2>1, <2>2, <2>3
<1> HIDE DEF last
<1>8. last \in Int /\ last \in 0 .. Len(log) /\ last \in 0 .. MaxSeq /\ last >= 1 /\ t.last <= last
      /\ S \in SUBSET (1 .. MaxSeq) /\ S \subseteq 1 .. Len(log) /\ t.shown \subseteq S /\ S # {}
  <2>1. Len(log) <= MaxSeq /\ MaxSeq \in Nat /\ t.shown \in SUBSET (1 .. MaxSeq)
    BY <1>2, Facts, Constants DEF Tl
  <2>2. last \in Int /\ last \in 0 .. Len(log) /\ last \in 0 .. MaxSeq /\ last >= 1 /\ t.last <= last
    BY <1>5, <1>6, <1>7, <2>1
  <2>3. S \subseteq 1 .. Len(log)
    BY <1>5, <1>6
  <2> QED
    BY <1>4, <1>5, <2>1, <2>2, <2>3
<1>9. WholeTo(S, t.before, last, log, events)
  <2> SUFFICES ASSUME NEW s \in 1 .. last, Visible(s, log),
                      (t.before /\ S # {}) => (Coming(s, events) \/ \E p \in S : p <= s)
               PROVE  s \in S
    BY DEF WholeTo
  <2>1. s \in Int /\ s >= 1 /\ s <= last /\ s \notin Reply
    BY <1>8 DEF Visible
  <2>2. CASE s > t.last
    <3>1. s \in t.last + 1 .. last
      BY <1>6, <1>8, <2>1, <2>2
    <3>2. s \in DOMAIN r.page
      BY <1>7, <3>1
    <3> QED
      BY <2>1, <3>2
  <2>3. CASE s \in DOMAIN r.page
    BY <2>1, <2>3
  <2>4. CASE s <= t.last /\ s \notin DOMAIN r.page
    <3>1. s \in 1 .. t.last
      BY <1>6, <2>1, <2>4
    <3>2. \A p \in DOMAIN r.page : ~ (p <= s)
      <4>1. ASSUME NEW p \in DOMAIN r.page, p <= s PROVE FALSE
        <5>1. p \in Int /\ p >= t.last /\ p # s
          BY <1>4, <1>5, <2>4
        <5> QED
          BY <1>6, <2>1, <2>4, <4>1, <5>1
      <4> QED
        BY <4>1
    <3>3. t.before => Coming(s, events) \/ \E p \in t.shown : p <= s
      BY <1>8, <3>2
    <3>4. s \in t.shown
      BY <1>5, <3>1, <3>3 DEF WholeTo
    <3> QED
      BY <3>4
  <2> QED
    BY <1>6, <2>1, <2>2, <2>3, <2>4
<1>10. r.beyond => S \subseteq 1 .. last
  <2>1. ASSUME r.beyond, NEW p \in DOMAIN r.page PROVE p \in 1 .. last
    <3>1. p \in Int /\ p >= 1
      BY <1>4
    <3> QED
      BY <1>7, <1>8, <2>1, <3>1
  <2>2. ASSUME NEW p \in t.shown PROVE p \in 1 .. last
    <3>1. p \in Int /\ p >= 1 /\ p <= t.last
      BY <1>5
    <3> QED
      BY <1>6, <1>8, <3>1
  <2> QED
    BY <2>1, <2>2
<1>11. /\ u \in Tl /\ u.shown = S /\ u.before = t.before /\ u.status = t.status /\ u.last = last
       /\ u.after = r.beyond /\ u.cached = t.cached
  <2> HIDE DEF S
  <2> QED
    BY <1>2, <1>4, <1>8 DEF Tl
<1> HIDE DEF u, S
<1>12. TlOK(u, log, events)
  <2>1. t.status # "none"
    BY <1>2, <1>5 DEF TlOK
  <2>2. (u.status = "ready" => ~u.cached)
        /\ ("fail" \notin May => u.status \in {"none", "loading", "ready"})
    BY <1>2, <1>11 DEF TlOK
  <2>3. u.after => u.shown # {} /\ u.last >= 1 /\ u.shown \subseteq 1 .. u.last
    BY <1>8, <1>10, <1>11
  <2>4. u.last \in 0 .. Len(log) /\ u.shown \subseteq 1 .. Len(log)
        /\ WholeTo(u.shown, u.before, u.last, log, events)
    BY <1>8, <1>9, <1>11
  <2> QED
    BY <1>8, <1>11, <2>1, <2>2, <2>3, <2>4 DEF TlOK
<1> HIDE DEF h, v, R
<1>13. h \in Copies /\ DOMAIN h = DOMAIN view.held \union DOMAIN r.page
  BY <1>4, MergeHolds DEF h
<1>14. x \in View /\ x.tl = u /\ x.reqs = R /\ x.held = h
  BY <1>1, <1>11, <1>13 DEF View
<1> HIDE DEF x
<1>15. y \in View /\ y.tl = u /\ y.reqs = R /\ y.held = h
  BY <1>14 DEF View
<1> HIDE DEF y
<1>16. /\ HealIfBehind(y) \in View /\ HealIfBehind(y).tl = u /\ HealIfBehind(y).reqs = R
       /\ HealIfBehind(y).held = h
  <2>1. HealIfBehind(y).held = y.held
    BY DEF HealIfBehind, NoteGap
  <2> QED
    BY <1>15, <2>1, HealIfBehindIs
<1>17. ASSUME NEW q \in R PROVE ReqOK(q, u, R, log, events)
  <2>1. ReqOK(q, t, R, log, events) /\ q \in view.reqs /\ q.kind # "newer"
    BY <1>1, <1>2 DEF Good, R
  <2>2. ~ (q.live /\ q.kind \in PageKinds)
    <3>1. r \in view.reqs /\ ReqOK(q, t, view.reqs, log, events)
      BY <2>1, Facts
    <3>2. q.live /\ q.kind \in PageKinds => q = r
      BY <3>1 DEF ReqOK
    <3> QED
      BY <2>1, <3>2 DEF PageKinds, R
  <2>3. ~ (q.live /\ q.kind = "heal") /\ ~ (q.live /\ q.kind = "drop")
    BY <1>5, <2>1 DEF ReqOK, HealOK
  <2>4. (q.live /\ q.kind = "older") => OlderOK(q, u, log)
    BY <1>8, <1>11, <2>1 DEF ReqOK, OlderOK
  <2> QED
    BY <2>1, <2>2, <2>3, <2>4 DEF ReqOK
<1>18. Good(u, R, log, events)
  BY <1>12, <1>17 DEF Good
<1>19. PICK w \in {x, HealIfBehind(y)} : view' = w
  BY <1>3
<1>20. w \in View /\ w.tl = u /\ w.reqs = R /\ w.held = h
  BY <1>14, <1>16, <1>19
<1>21. w.tl.shown \subseteq DOMAIN w.held
  BY <1>11, <1>13, <1>20, Facts DEF S
<1>22. \A q \in w.reqs : q \in view.reqs
  BY <1>20 DEF R
<1> QED
  BY <1>18, <1>19, <1>20, <1>21, <1>22, Facts, AnswerTaken

\* What else is out while a heal is: older pages, and what nobody waits for.
LEMMA BesideHeal ==
  ASSUME CursorInv, NEW r \in view.reqs, r.live, r.kind \in {"heal", "drop"}
  PROVE  /\ ~view.tl.after /\ view.tl.last >= 1
         /\ \A q \in view.reqs \ {r} :
              /\ q.kind \notin {"paint", "newer"} \union HealKinds
              /\ q.live => q.kind = "older"
<1>1. /\ r.kind \in HealKinds /\ r \in Req /\ view.tl \in Tl
      /\ ReqOK(r, view.tl, view.reqs, log, events)
  BY Facts DEF HealKinds
<1>2. ~view.tl.after /\ view.tl.last >= 1
  <2>1. r.kind = "drop" => ~view.tl.after /\ view.tl.last >= 1
    BY <1>1 DEF ReqOK
  <2>2. r.kind = "heal" => ~view.tl.after /\ r.from \in 1 .. view.tl.last /\ view.tl.last \in Int
    BY <1>1 DEF ReqOK, HealOK, Tl
  <2>3. r.from \in 1 .. view.tl.last /\ view.tl.last \in Int => view.tl.last >= 1
    OBVIOUS
  <2> QED
    BY <2>1, <2>2, <2>3
<1>3. ASSUME NEW q \in view.reqs, q # r
      PROVE  /\ q.kind \notin {"paint", "newer"} \union HealKinds
             /\ q.live => q.kind = "older"
  <2>1. ReqOK(q, view.tl, view.reqs, log, events) /\ q \in Req
    BY Facts
  <2>2. q.kind \notin HealKinds
    BY <1>1, <1>3 DEF ReqOK
  <2>3. ~ (q.live /\ q.kind \in PageKinds)
    BY <1>3, <2>1 DEF ReqOK
  <2>4. q.kind \notin {"paint", "newer"}
    BY <1>2, <2>1, <2>3 DEF ReqOK, NewerOK, PageKinds
  <2>5. q.kind \in Kinds
    BY <2>1 DEF Req
  <2> QED
    BY <2>2, <2>3, <2>4, <2>5 DEF Kinds, HealKinds, PageKinds
<1> QED
  BY <1>2, <1>3

\* What a heal brings goes past the cursor it was asked with.
LEMMA HealTaken ==
  ASSUME CursorInv, NEW r \in view.reqs, r.live, r.step = "answered", r.kind = "heal", ~r.beyond,
         view' = ApplySync(r),
         UNCHANGED <<server, clock, events, online>>, cache' = cache, opens' = opens, faults' = faults
  PROVE  CursorInv'
<1> DEFINE t == view.tl
           S == t.shown \union {s \in DOMAIN r.page : s > r.from /\ s \notin Reply}
           last == Max({t.last, r.last})
           known == Max({view.known, r.last})
           u == [t EXCEPT !.shown = S, !.last = last, !.synced = r.at, !.status = "ready", !.cached = FALSE]
           v == Without(r)
           h == Merge(view.held, r.page)
           R == view.reqs \ {r}
           x == [v EXCEPT !.held = h, !.save = TRUE, !.known = known, !.tl = u]
<1>1. /\ v \in View /\ v.tl = t /\ v.reqs = R /\ v.held = view.held /\ v.known = view.known
      /\ Good(t, R, log, events)
  <2>1. v.known = view.known
    BY Facts DEF Without, View
  <2> QED
    BY <2>1, WithoutIs
<1>2. r \in Req /\ t \in Tl /\ HealOK(r, t, log) /\ TlOK(t, log, events) /\ ~t.after
  BY Facts DEF ReqOK, HealOK
<1>3. view' = x
  <2> DEFINE z == [v EXCEPT
     !.held = Merge(@, r.page), !.save = TRUE, !.known = Max({@, r.last}),
     !.tl.shown = @ \union {s \in DOMAIN r.page : s > r.from /\ s \notin Reply},
     !.tl.last = Max({@, r.last}), !.tl.synced = r.at,
     !.tl.status = "ready", !.tl.cached = FALSE]
  <2>1. ApplySync(r) = z
    BY DEF ApplySync
  <2>2. z = x
    <3> HIDE DEF v
    <3> QED
      BY <1>1 DEF View, Tl
  <2> HIDE DEF z, x
  <2> QED
    BY <2>1, <2>2
<1>4. /\ r.page \in Copies /\ DOMAIN r.page \in SUBSET (1 .. MaxSeq)
      /\ view.held \in Copies /\ r.at \in Int /\ r.last \in 0 .. MaxSeq /\ view.known \in 0 .. MaxSeq
  BY <1>2, Facts, CopiesAre DEF Req, View
<1>5. /\ t.last \in 0 .. Len(log) /\ t.last \in 0 .. MaxSeq /\ t.shown \subseteq 1 .. Len(log)
      /\ t.shown \in SUBSET (1 .. MaxSeq) /\ Len(log) \in Nat
      /\ WholeTo(t.shown, t.before, t.last, log, events)
      /\ r.from \in 1 .. t.last /\ r.last \in r.from .. Len(log) /\ DOMAIN r.page \subseteq 1 .. r.last
      /\ (\A s \in r.from + 1 .. r.last : s \in DOMAIN r.page)
      /\ (\A s \in r.from + 1 .. t.last : Visible(s, log) => s \in t.shown)
  BY <1>2, Facts DEF TlOK, HealOK, SyncOK, Tl
<1>6. /\ last = (IF t.last <= r.last THEN r.last ELSE t.last) /\ last \in 0 .. MaxSeq
      /\ known \in 0 .. MaxSeq
  BY <1>4, <1>5, MaxOfTwo
<1> HIDE DEF last, known
<1>7. last \in 0 .. Len(log) /\ last >= 1 /\ last \in Int /\ t.last \in Int /\ r.last \in Int /\ r.from \in Int
  BY <1>5, <1>6
<1>8. S \in SUBSET (1 .. MaxSeq) /\ S \subseteq 1 .. Len(log) /\ t.shown \subseteq S
  <2>1. \A s \in DOMAIN r.page : s \in 1 .. Len(log)
    BY <1>5
  <2> QED
    BY <1>4, <1>5, <2>1
<1>9. WholeTo(S, t.before, last, log, events)
  <2> SUFFICES ASSUME NEW s \in 1 .. last, Visible(s, log),
                      (t.before /\ S # {}) => (Coming(s, events) \/ \E y \in S : y <= s)
               PROVE  s \in S
    BY DEF WholeTo
  <2>1. s \in Int /\ s >= 1 /\ s <= last /\ s \notin Reply
    BY <1>7 DEF Visible
  <2>2. CASE s > t.last
    <3>1. s \in r.from + 1 .. r.last
      BY <1>5, <1>6, <1>7, <2>1, <2>2
    <3>2. s \in DOMAIN r.page /\ s > r.from
      BY <1>5, <1>7, <3>1
    <3> QED
      BY <2>1, <3>2
  <2>3. CASE s > r.from /\ s <= t.last
    <3>1. s \in r.from + 1 .. t.last
      BY <1>7, <2>1, <2>3
    <3> QED
      BY <1>5, <3>1
  <2>4. CASE s <= r.from
    <3>1. s \in 1 .. t.last
      BY <1>5, <1>7, <2>1, <2>4
    <3>2. \A y \in S : y <= s => y \in t.shown
      <4>1. ASSUME NEW y \in DOMAIN r.page, y > r.from PROVE ~ (y <= s)
        <5>1. y \in Int
          BY <1>4
        <5> QED
          BY <1>7, <2>1, <2>4, <4>1, <5>1
      <4> QED
        BY <4>1
    <3>3. (t.before /\ t.shown # {}) => Coming(s, events) \/ \E y \in t.shown : y <= s
      BY <1>8, <3>2
    <3>4. s \in t.shown
      BY <1>5, <3>1, <3>3 DEF WholeTo
    <3> QED
      BY <3>4
  <2> QED
    BY <1>7, <2>1, <2>2, <2>3, <2>4
<1>10. /\ u \in Tl /\ u.shown = S /\ u.before = t.before /\ u.status = "ready" /\ u.last = last
       /\ ~u.after /\ ~u.cached
  <2> HIDE DEF S
  <2> QED
    BY <1>2, <1>4, <1>6, <1>8 DEF Tl
<1> HIDE DEF u, S
<1>11. TlOK(u, log, events)
  BY <1>7, <1>8, <1>9, <1>10 DEF TlOK
<1>12. \A q \in R : q.kind \notin {"paint", "newer"} \union HealKinds /\ (q.live => q.kind = "older")
  BY BesideHeal
<1> HIDE DEF h, v, R
<1>13. h \in Copies /\ DOMAIN h = DOMAIN view.held \union DOMAIN r.page
  BY <1>4, MergeHolds DEF h
<1>14. x \in View /\ x.tl = u /\ x.reqs = R /\ x.held = h
  BY <1>1, <1>6, <1>10, <1>13 DEF View
<1> HIDE DEF x
<1>15. ASSUME NEW q \in R PROVE ReqOK(q, u, R, log, events)
  <2>1. ReqOK(q, t, R, log, events) /\ q.kind \notin {"paint", "newer"} \union HealKinds
        /\ (q.live => q.kind = "older")
    BY <1>1, <1>12 DEF Good
  <2>2. (q.live /\ q.kind = "older") => OlderOK(q, u, log)
    BY <1>8, <1>10, <2>1 DEF ReqOK, OlderOK
  <2>3. ~ (q.live /\ q.kind \in PageKinds)
    BY <2>1 DEF PageKinds
  <2> QED
    BY <2>1, <2>2, <2>3 DEF ReqOK, HealKinds
<1>16. Good(u, R, log, events)
  BY <1>11, <1>15 DEF Good
<1>17. x.tl.shown \subseteq DOMAIN x.held
  BY <1>10, <1>13, <1>14, Facts DEF S
<1>18. \A q \in x.reqs : q \in view.reqs
  BY <1>14 DEF R
<1> QED
  BY <1>3, <1>14, <1>16, <1>17, <1>18, Facts, AnswerTaken

\* Too much has happened: the cache is dropped first.
LEMMA DropTaken ==
  ASSUME CursorInv, NEW r \in view.reqs, r.live, r.kind = "heal",
         view' = DropCache(r),
         UNCHANGED <<server, clock, events, online>>, cache' = cache, opens' = opens, faults' = faults
  PROVE  CursorInv'
<1> DEFINE t == view.tl
           d == [r EXCEPT !.kind = "drop", !.page = NoRows]
           v == Without(r)
           R == view.reqs \ {r}
           Q == R \union {d}
           x == [v EXCEPT !.save = FALSE, !.reqs = Q]
<1>1. v \in View /\ v.tl = t /\ v.reqs = R /\ v.held = view.held /\ Good(t, R, log, events)
  BY WithoutIs
<1>2. /\ ~t.after /\ t.last >= 1
      /\ \A q \in R : q.kind \notin {"paint", "newer"} \union HealKinds /\ (q.live => q.kind = "older")
  BY BesideHeal
<1>3. view' = x
  BY <1>1 DEF DropCache
<1>4. r \in Req /\ "drop" \in Kinds
  BY Facts DEF Kinds
<1>5. d \in Req /\ d.kind = "drop" /\ d.live
  BY <1>4, Nothing DEF Req
<1> HIDE DEF d, v, R
<1>6. x \in View /\ x.tl = t /\ x.reqs = Q /\ x.held = view.held
  BY <1>1, <1>5 DEF View
<1>7. ReqOK(d, t, Q, log, events)
  BY <1>2, <1>5 DEF ReqOK, FromOK, PageKinds
<1>8. ASSUME NEW q \in R PROVE ReqOK(q, t, Q, log, events)
  <2>1. ReqOK(q, t, R, log, events) /\ q.kind \notin {"paint", "newer"} \union HealKinds
        /\ (q.live => q.kind = "older")
    BY <1>1, <1>2 DEF Good
  <2>2. ~ (q.live /\ q.kind \in PageKinds)
    BY <2>1 DEF PageKinds
  <2> HIDE DEF Q
  <2> QED
    BY <2>1, <2>2 DEF ReqOK, HealKinds
<1>9. Good(t, Q, log, events)
  BY <1>7, <1>8, Facts DEF Good
<1>10. \A q \in x.reqs : q \in view.reqs \/ q.kind # "paint"
  BY <1>5, <1>6 DEF R
<1> HIDE DEF x, Q
<1>11. x.tl.shown \subseteq DOMAIN x.held
  BY <1>6, Facts
<1> QED
  BY <1>3, <1>6, <1>9, <1>10, <1>11, Facts, AnswerTaken

LEMMA NoCacheOK == NoCache \in [page : Copies, last : Int] /\ CacheOK(NoCache, log, events)
<1>1. NoCache.page = NoRows /\ NoCache.last = -1 /\ NoCache \in [page : Copies, last : Int]
  BY Nothing DEF NoCache
<1>2. WholeTo(DOMAIN NoCache.page, TRUE, NoCache.last, log, events)
  BY <1>1 DEF WholeTo
<1>3. DOMAIN NoCache.page = {}
  BY <1>1, Nothing
<1> QED
  BY <1>1, <1>2, <1>3 DEF CacheOK

\* Then the timeline starts over, and everything before it is dead.
LEMMA OverKeeps ==
  ASSUME CursorInv, NEW r \in view.reqs, r.kind = "drop",
         view' = StartOver(r), cache' = NoCache,
         UNCHANGED <<server, clock, events, online>>, opens' = opens, faults' = faults
  PROVE  CursorInv'
<1> DEFINE t == view.tl
           R == view.reqs \ {r}
           u == [EmptyTimeline EXCEPT !.status = "loading"]
           v == [Without(r) EXCEPT !.tl = u]
           B == Bumped(R)
           a == Asked("reload", MaxSeq + 1, 0, 0, clock)
           x == Ask(Bump(v), "reload", MaxSeq + 1, 0, 0, clock)
<1>1. /\ Without(r) \in View /\ Without(r).reqs = R /\ Without(r).held = view.held
      /\ Good(t, R, log, events)
  BY WithoutIs
<1>2. u \in Tl /\ u.shown = {} /\ u.last = 0 /\ ~u.after /\ u.status = "loading" /\ ~u.cached
  BY Nothing DEF EmptyTimeline, Tl
<1>3. TlOK(u, log, events)
  <2>1. Len(log) \in Nat
    BY Facts
  <2>2. WholeTo(u.shown, u.before, u.last, log, events)
    BY <1>2 DEF WholeTo
  <2> HIDE DEF u
  <2> QED
    BY <1>2, <2>1, <2>2 DEF TlOK
<1> HIDE DEF u, R
<1>4. v \in View /\ v.tl = u /\ v.reqs = R /\ v.held = view.held
  BY <1>1, <1>2 DEF View
<1> HIDE DEF v
<1>5. Bump(v) \in View /\ Bump(v).tl = u /\ Bump(v).reqs = B
  BY <1>4, BumpIs
<1>6. Bump(v).held = view.held
  BY <1>4 DEF Bump
<1>7. "reload" \in Kinds /\ MaxSeq + 1 \in 0 .. MaxSeq + 1 /\ 0 \in Int /\ clock \in Int
  BY Constants, Facts DEF Kinds
<1>8. x \in View /\ x.tl = u /\ x.reqs = B \union {a}
  BY <1>5, <1>7, AskIs
<1>9. x.held = view.held
  BY <1>5, <1>6 DEF Ask
<1>10. a.live /\ a.kind = "reload" /\ a.step = "asked" /\ a.from = MaxSeq + 1
  BY DEF Asked
<1>11. ASSUME NEW q \in R PROVE q.kind \notin HealKinds /\ q.kind # "newer"
  <2>1. q \in view.reqs /\ q # r
    BY DEF R
  <2>2. r.kind \in HealKinds /\ ReqOK(r, t, view.reqs, log, events) /\ ReqOK(q, t, view.reqs, log, events)
    BY <2>1, Facts DEF HealKinds
  <2>3. q.kind \notin HealKinds
    BY <2>1, <2>2 DEF ReqOK
  <2>4. q.kind # "newer"
    BY <2>2 DEF ReqOK, NewerOK
  <2> QED
    BY <2>3, <2>4
<1>12. R \in SUBSET Req
  BY Facts DEF R
<1>13. /\ Good(t, B, log, events)
       /\ \A q \in B : ~q.live /\ q.kind \in {"older"} \union HealKinds
       /\ \A q \in B : q.kind \notin HealKinds
  <2>1. \A q \in R : q.kind # "drop" /\ q.kind # "newer" /\ q.kind \notin HealKinds
    BY <1>11 DEF HealKinds
  <2> QED
    BY <1>1, <1>12, <2>1, Dead
<1> HIDE DEF B, a, x
<1>14. Good(u, B, log, events)
  BY <1>3, <1>13, OtherTimeline
<1>15. FromOK(a, log) /\ a.kind \in PageKinds
  BY <1>10 DEF FromOK, PageKinds
<1>16. Good(u, B \union {a}, log, events)
  <2>1. IF "fail" \in May THEN u.last = 0 ELSE u.status \in {"none", "loading"}
    BY <1>2
  <2>2. \A q \in B : ~q.live /\ q.kind \notin HealKinds
    BY <1>13
  <2> QED
    BY <1>10, <1>14, <1>15, <2>1, <2>2, AskPage
<1>17. \A q \in x.reqs : q.kind # "paint"
  BY <1>8, <1>10, <1>13 DEF HealKinds
<1>18. x.tl.shown \subseteq DOMAIN x.held
  BY <1>2, <1>8
<1>19. view' = x
  BY DEF StartOver, x, v, u
<1>20. Good(x.tl, x.reqs, log, events) /\ r.kind # "paint"
  BY <1>8, <1>16
<1> QED
  BY <1>8, <1>17, <1>18, <1>19, <1>20, Facts, NoCacheOK, AnswerTaken

\* An answer that is let go, and a timeline that changes only in what is loading.
LEMMA LetGo ==
  ASSUME CursorInv, NEW r \in view.reqs, r.kind # "paint",
         NEW u \in Tl, u.shown = view.tl.shown, u.before = view.tl.before, u.last = view.tl.last,
         u.after = view.tl.after, u.cached = view.tl.cached,
         u.status = view.tl.status \/ (u.status = "error" /\ "fail" \in May),
         r.kind # "newer" => u.newer = view.tl.newer,
         view' = [Without(r) EXCEPT !.tl = u],
         UNCHANGED <<server, clock, events, online>>, cache' = cache, opens' = opens, faults' \in Nat
  PROVE  CursorInv'
<1> DEFINE R == view.reqs \ {r}
           x == [Without(r) EXCEPT !.tl = u]
<1>1. /\ Without(r) \in View /\ Without(r).reqs = R /\ Without(r).held = view.held
      /\ Good(view.tl, R, log, events)
  BY WithoutIs
<1>2. TlOK(u, log, events)
  BY Facts DEF TlOK
<1>3. (\E q \in R : q.kind = "newer") => u.newer = view.tl.newer
  <2>1. ASSUME NEW q \in R, q.kind = "newer" PROVE r.kind # "newer"
    <3>1. ReqOK(q, view.tl, view.reqs, log, events)
      BY Facts
    <3> QED
      BY <2>1, <3>1 DEF ReqOK
  <2> QED
    BY <2>1
<1>4. (\E q \in R : q.live /\ q.kind \in PageKinds) => "fail" \in May \/ u.status \in {"none", "loading"}
  BY Facts DEF ReqOK
<1>5. \A q \in R : q \in view.reqs
  OBVIOUS
<1> HIDE DEF R
<1>6. Good(u, R, log, events)
  BY <1>1, <1>2, <1>3, <1>4, MoreShown
<1>7. x \in View /\ x.tl = u /\ x.reqs = R /\ x.held = view.held
  BY <1>1 DEF View
<1> HIDE DEF x
<1>8. x.tl.shown \subseteq DOMAIN x.held
  BY <1>7, Facts
<1>9. view' = x
  BY DEF x
<1> QED
  BY <1>5, <1>6, <1>7, <1>8, <1>9, Facts, AnswerTaken

LEMMA JustGone ==
  ASSUME CursorInv, NEW r \in view.reqs, r.kind # "paint", view' = Without(r),
         UNCHANGED <<server, clock, events, online>>, cache' = cache, opens' = opens, faults' \in Nat
  PROVE  CursorInv'
<1>1. /\ Without(r) \in View /\ Without(r).tl = view.tl /\ Without(r).reqs = view.reqs \ {r}
      /\ Without(r).held = view.held /\ Good(view.tl, view.reqs \ {r}, log, events)
  BY WithoutIs
<1>2. \A q \in Without(r).reqs : q \in view.reqs
  BY <1>1
<1>3. Without(r).tl.shown \subseteq DOMAIN Without(r).held
  BY <1>1, Facts
<1>4. PICK w \in View : w = Without(r)
  BY <1>1
<1> QED
  BY <1>1, <1>2, <1>3, <1>4, Facts, AnswerTaken

\* A failed load, and an older or newer page that is idle again.
LEMMA FailedTl ==
  ASSUME CursorInv, NEW r
  PROVE  /\ \A y \in {"idle", "loading", "error"} :
              [view.tl EXCEPT !.older = y] \in Tl /\ [view.tl EXCEPT !.newer = y] \in Tl
         /\ [view.tl EXCEPT !.status = "error"] \in Tl
         /\ \A y : /\ [Without(r) EXCEPT !.tl.older = y] = [Without(r) EXCEPT !.tl = [view.tl EXCEPT !.older = y]]
                   /\ [Without(r) EXCEPT !.tl.newer = y] = [Without(r) EXCEPT !.tl = [view.tl EXCEPT !.newer = y]]
                   /\ [Without(r) EXCEPT !.tl.status = y] = [Without(r) EXCEPT !.tl = [view.tl EXCEPT !.status = y]]
         /\ Without(r).tl = view.tl
<1>1. view.tl \in Tl
  BY Facts
<1>2. Without(r) \in View /\ Without(r).tl = view.tl
  BY WithoutIs
<1>3. /\ \A y \in {"idle", "loading", "error"} :
           [view.tl EXCEPT !.older = y] \in Tl /\ [view.tl EXCEPT !.newer = y] \in Tl
      /\ [view.tl EXCEPT !.status = "error"] \in Tl
  BY <1>1 DEF Tl
<1>4. PICK w \in View : w = Without(r) /\ w.tl = view.tl
  BY <1>2
<1>5. \A y : /\ [w EXCEPT !.tl.older = y] = [w EXCEPT !.tl = [view.tl EXCEPT !.older = y]]
             /\ [w EXCEPT !.tl.newer = y] = [w EXCEPT !.tl = [view.tl EXCEPT !.newer = y]]
             /\ [w EXCEPT !.tl.status = y] = [w EXCEPT !.tl = [view.tl EXCEPT !.status = y]]
  BY <1>4 DEF View
<1> QED
  BY <1>2, <1>3, <1>4, <1>5

LEMMA DeadTaken ==
  ASSUME CursorInv, NEW r \in view.reqs, ~r.live,
         view' = CASE r.kind = "older" -> [Without(r) EXCEPT !.tl.older = Idle(@)]
                   [] r.kind = "newer" -> [Without(r) EXCEPT !.tl.newer = Idle(@)]
                   [] OTHER -> Without(r),
         UNCHANGED <<server, clock, events, online>>, cache' = cache, opens' = opens, faults' = faults
  PROVE  CursorInv'
<1>1. r.kind \notin {"paint", "newer"}
  BY Facts DEF ReqOK, NewerOK
<1>2. faults' \in Nat
  BY Facts
<1>3. CASE r.kind = "older"
  <2> DEFINE y == Idle(view.tl.older)
  <2>1. view' = [Without(r) EXCEPT !.tl.older = y]
    BY <1>3, FailedTl
  <2>2. y \in {"idle", "loading", "error"}
    BY Facts DEF Idle, Tl
  <2> HIDE DEF y
  <2>3. PICK u \in Tl : u = [view.tl EXCEPT !.older = y]
    BY <2>2, FailedTl
  <2>4. view' = [Without(r) EXCEPT !.tl = u]
    BY <2>1, <2>3, FailedTl
  <2>5. /\ u.shown = view.tl.shown /\ u.before = view.tl.before /\ u.last = view.tl.last
        /\ u.after = view.tl.after /\ u.cached = view.tl.cached
        /\ u.status = view.tl.status /\ u.newer = view.tl.newer
    BY <2>3, Facts DEF Tl
  <2> QED
    BY <1>1, <1>2, <2>4, <2>5, LetGo
<1>4. CASE r.kind # "older"
  <2>1. view' = Without(r)
    BY <1>1, <1>4
  <2> QED
    BY <1>1, <1>2, <2>1, JustGone
<1> QED
  BY <1>3, <1>4

\* Whatever comes in is taken, let go or starts the timeline over.
LEMMA ReceiveKeeps ==
  ASSUME CursorInv, CursorHypothesis, Receive
  PROVE  CursorInv'
<1>1. PICK r \in view.reqs :
        \/ /\ r.kind = "paint"
           /\ Client(PaintFromCache(r)) /\ UNCHANGED <<cache, bounds>>
        \/ /\ r.kind = "drop"
           /\ Client(StartOver(r)) /\ cache' = NoCache /\ UNCHANGED bounds
        \/ /\ ~r.live /\ r.kind # "drop"
           /\ Client(CASE r.kind = "older" -> [Without(r) EXCEPT !.tl.older = Idle(@)]
                       [] r.kind = "newer" -> [Without(r) EXCEPT !.tl.newer = Idle(@)]
                       [] OTHER -> Without(r))
           /\ UNCHANGED <<cache, bounds>>
        \/ /\ r.live /\ r.step = "answered" /\ r.kind # "drop"
           /\ Client(CASE r.kind \in {"newest", "reload"} -> LoadNewest(r)
                       [] r.kind = "around" -> LoadAround(r)
                       [] r.kind = "older" -> TakeOlder(r)
                       [] r.kind = "newer" -> TakeNewer(r)
                       [] r.kind = "heal" -> IF r.beyond THEN DropCache(r) ELSE ApplySync(r))
           /\ UNCHANGED <<cache, bounds>>
  BY DEF Receive
<1>2. UNCHANGED <<server, clock, events, online>> /\ opens' = opens /\ faults' = faults
  BY <1>1 DEF Client, bounds
<1>3. CASE r.kind = "paint" /\ Client(PaintFromCache(r)) /\ UNCHANGED <<cache, bounds>>
  <2>1. view' = PaintFromCache(r) /\ cache' = cache
    BY <1>3 DEF Client
  <2> QED
    BY <1>2, <1>3, <2>1, PaintKeeps
<1>4. CASE r.kind = "drop" /\ Client(StartOver(r)) /\ cache' = NoCache /\ UNCHANGED bounds
  <2>1. view' = StartOver(r)
    BY <1>4 DEF Client
  <2> QED
    BY <1>2, <1>4, <2>1, OverKeeps
<1>5. CASE /\ ~r.live /\ r.kind # "drop"
           /\ Client(CASE r.kind = "older" -> [Without(r) EXCEPT !.tl.older = Idle(@)]
                       [] r.kind = "newer" -> [Without(r) EXCEPT !.tl.newer = Idle(@)]
                       [] OTHER -> Without(r))
           /\ UNCHANGED <<cache, bounds>>
  <2>1. /\ cache' = cache
        /\ view' = CASE r.kind = "older" -> [Without(r) EXCEPT !.tl.older = Idle(@)]
                     [] r.kind = "newer" -> [Without(r) EXCEPT !.tl.newer = Idle(@)]
                     [] OTHER -> Without(r)
    BY <1>5 DEF Client
  <2> QED
    BY <1>2, <1>5, <2>1, DeadTaken
<1>6. CASE /\ r.live /\ r.step = "answered" /\ r.kind # "drop"
           /\ Client(CASE r.kind \in {"newest", "reload"} -> LoadNewest(r)
                       [] r.kind = "around" -> LoadAround(r)
                       [] r.kind = "older" -> TakeOlder(r)
                       [] r.kind = "newer" -> TakeNewer(r)
                       [] r.kind = "heal" -> IF r.beyond THEN DropCache(r) ELSE ApplySync(r))
           /\ UNCHANGED <<cache, bounds>>
  <2>1. /\ cache' = cache
        /\ view' = CASE r.kind \in {"newest", "reload"} -> LoadNewest(r)
                     [] r.kind = "around" -> LoadAround(r)
                     [] r.kind = "older" -> TakeOlder(r)
                     [] r.kind = "newer" -> TakeNewer(r)
                     [] r.kind = "heal" -> IF r.beyond THEN DropCache(r) ELSE ApplySync(r)
    BY <1>6 DEF Client
  <2>2. r.kind \in Kinds /\ r.kind \notin {"paint", "drop"}
    <3>1. r \in Req /\ ReqOK(r, view.tl, view.reqs, log, events)
      BY Facts
    <3>2. r.kind # "paint"
      BY <1>6, <3>1 DEF ReqOK
    <3> QED
      BY <1>6, <3>1, <3>2 DEF Req
  <2>3. CASE r.kind \in {"newest", "reload"}
    <3>1. view' = LoadNewest(r)
      BY <2>1, <2>3
    <3> QED
      BY <1>2, <1>6, <2>1, <2>3, <3>1, NewestTaken
  <2>4. CASE r.kind = "around"
    <3>1. view' = LoadAround(r)
      BY <2>1, <2>4
    <3> QED
      BY <1>2, <1>6, <2>1, <2>4, <3>1, AroundTaken
  <2>5. CASE r.kind = "older"
    <3>1. view' = TakeOlder(r)
      BY <2>1, <2>5
    <3> QED
      BY <1>2, <1>6, <2>1, <2>5, <3>1, OlderTaken
  <2>6. CASE r.kind = "newer"
    <3>1. view' = TakeNewer(r)
      BY <2>1, <2>6
    <3> QED
      BY <1>2, <1>6, <2>1, <2>6, <3>1, NewerTaken
  <2>7. CASE r.kind = "heal" /\ ~r.beyond
    <3>1. view' = ApplySync(r)
      BY <2>1, <2>7
    <3> QED
      BY <1>2, <1>6, <2>1, <2>7, <3>1, HealTaken
  <2>8. CASE r.kind = "heal" /\ r.beyond
    <3>1. view' = DropCache(r)
      BY <2>1, <2>8
    <3> QED
      BY <1>2, <1>6, <2>1, <2>8, <3>1, DropTaken
  <2> QED
    BY <2>2, <2>3, <2>4, <2>5, <2>6, <2>7, <2>8 DEF Kinds
<1> QED
  BY <1>1, <1>3, <1>4, <1>5, <1>6

LEMMA FailKeeps ==
  ASSUME CursorInv, Fail
  PROVE  CursorInv'
<1>1. /\ "fail" \in May /\ faults' = faults + 1 /\ cache' = cache /\ opens' = opens
      /\ UNCHANGED <<server, clock, events, online>>
  BY DEF Fail, Client
<1>2. PICK r \in view.reqs :
        /\ r.kind \notin {"paint", "drop"}
        /\ view' = CASE r.kind = "older" -> [Without(r) EXCEPT !.tl.older = "error"]
                     [] r.kind = "newer" -> [Without(r) EXCEPT !.tl.newer = "error"]
                     [] r.kind = "heal" -> Without(r)
                     [] OTHER -> [Without(r) EXCEPT !.tl.status = "error"]
  BY DEF Fail, Client
<1>3. faults' \in Nat
  BY <1>1, Facts
<1>4. CASE r.kind = "heal"
  <2>1. view' = Without(r)
    BY <1>2, <1>4
  <2> QED
    BY <1>1, <1>2, <1>3, <2>1, JustGone
<1>5. CASE r.kind # "heal"
  <2>1. PICK u \in Tl :
          /\ view' = [Without(r) EXCEPT !.tl = u]
          /\ u = IF r.kind = "older" THEN [view.tl EXCEPT !.older = "error"]
                 ELSE IF r.kind = "newer" THEN [view.tl EXCEPT !.newer = "error"]
                 ELSE [view.tl EXCEPT !.status = "error"]
    <3>1. CASE r.kind = "older"
      <4>1. view' = [Without(r) EXCEPT !.tl.older = "error"]
        BY <1>2, <3>1
      <4> QED
        BY <3>1, <4>1, FailedTl
    <3>2. CASE r.kind = "newer"
      <4>1. view' = [Without(r) EXCEPT !.tl.newer = "error"]
        BY <1>2, <3>2
      <4> QED
        BY <3>2, <4>1, FailedTl
    <3>3. CASE r.kind \notin {"older", "newer"}
      <4>1. view' = [Without(r) EXCEPT !.tl.status = "error"]
        BY <1>2, <1>5, <3>3
      <4> QED
        BY <3>3, <4>1, FailedTl
    <3> QED
      BY <3>1, <3>2, <3>3
  <2>2. /\ u.shown = view.tl.shown /\ u.before = view.tl.before /\ u.last = view.tl.last
        /\ u.after = view.tl.after /\ u.cached = view.tl.cached
        /\ u.status = view.tl.status \/ u.status = "error"
        /\ r.kind # "newer" => u.newer = view.tl.newer
    BY <2>1, Facts DEF Tl
  <2> QED
    BY <1>1, <1>2, <1>3, <2>1, <2>2, LetGo
<1> QED
  BY <1>4, <1>5

-----------------------------------------------------------------------------
(* All steps together *)

LEMMA CursorInit == CursorHypothesis /\ Init => CursorInv
<1> SUFFICES ASSUME CursorHypothesis, Init PROVE CursorInv
  OBVIOUS
<1> DEFINE row == [ver |-> 0, at |-> 0, gone |-> FALSE]
<1>1. /\ log = [s \in 1 .. Start |-> row] /\ changing = {} /\ clock = Margin /\ events = {}
      /\ online = TRUE /\ view = FirstView(Start) /\ cache = NoCache /\ opens = 0 /\ faults = 0
  BY DEF Init
<1>2. row \in Row
  BY DEF Row
<1> HIDE DEF row
<1>3. Start \in Nat /\ Start >= 1 /\ Start <= MaxSeq /\ MaxSeq \in Nat /\ Margin \in Int
  BY Constants DEF CursorHypothesis
<1>4. log \in Seq(Row) /\ Len(log) = Start
  <2>1. log \in [1 .. Start -> Row]
    BY <1>1, <1>2
  <2> QED
    BY <1>3, <2>1
<1>5. Start \in 0 .. MaxSeq /\ Start \in Start .. MaxSeq
  BY <1>3
<1>6. /\ view \in View /\ view.reqs = {} /\ view.tl = [EmptyTimeline EXCEPT !.status = "none"]
      /\ ~view.open
  BY <1>1, <1>5, Nothing DEF FirstView
<1>7. /\ view.tl.shown = {} /\ view.tl.last = 0 /\ view.tl.status = "none" /\ ~view.tl.after
  BY <1>6 DEF EmptyTimeline
<1>8. Types
  <2>1. cache \in [page : Copies, last : Int]
    BY <1>1, NoCacheOK
  <2>2. view.tl.shown \subseteq DOMAIN view.held
    BY <1>7
  <2> QED
    BY <1>1, <1>3, <1>4, <1>5, <1>6, <2>1, <2>2 DEF Types
<1>9. TlOK(view.tl, log, events)
  <2>1. WholeTo(view.tl.shown, view.tl.before, view.tl.last, log, events)
    BY <1>7 DEF WholeTo
  <2>2. view.tl.last \in 0 .. Len(log)
    BY <1>3, <1>4, <1>7
  <2> QED
    BY <1>7, <2>1, <2>2 DEF TlOK
<1>10. Good(view.tl, view.reqs, log, events)
  BY <1>6, <1>9 DEF Good
<1>11. CacheOK(cache, log, events)
  BY <1>1, NoCacheOK
<1>12. FirstOK
  BY <1>1, <1>6, <1>7 DEF FirstOK
<1> QED
  BY <1>1, <1>8, <1>10, <1>11, <1>12 DEF CursorInv

LEMMA CursorStays ==
  ASSUME CursorInv, UNCHANGED vars
  PROVE  CursorInv'
<1>1. /\ log' = log /\ changing' = changing /\ clock' = clock /\ events' = events
      /\ online' = online /\ view' = view /\ cache' = cache /\ opens' = opens /\ faults' = faults
  BY DEF vars, server, bounds
<1>2. Types'
  BY <1>1 DEF CursorInv, Types
<1>3. Good(view.tl, view.reqs, log, events)' /\ (\A e \in events : EventOK(e, log, clock))'
      /\ CacheOK(cache, log, events)'
  BY <1>1 DEF CursorInv
<1>4. FirstOK'
  BY <1>1 DEF CursorInv, FirstOK
<1> QED
  BY <1>2, <1>3, <1>4 DEF CursorInv

LEMMA CursorStep == CursorHypothesis /\ CursorInv /\ [Next]_vars => CursorInv'
<1> SUFFICES ASSUME CursorHypothesis, CursorInv, [Next]_vars PROVE CursorInv'
  OBVIOUS
<1>1. CASE OpenChannel
  BY <1>1, OpenKeeps
<1>2. CASE CloseChannel
  BY <1>2, CloseKeeps
<1>3. CASE LoadOlder
  BY <1>3, OlderAsked
<1>4. CASE LoadNewer
  BY <1>4, NewerAsked
<1>5. CASE Serve
  BY <1>5, ServeKeeps
<1>6. CASE Receive
  BY <1>6, ReceiveKeeps
<1>7. CASE HandleEvent
  BY <1>7, EventKeeps
<1>8. CASE GapTimer
  BY <1>8, GapKeeps
<1>9. CASE Reconnect
  BY <1>9, ReconnectKeeps
<1>10. CASE WriteCache
  BY <1>10, WriteKeeps
<1>11. CASE CommitChange
  BY <1>11, CommitKeeps
<1>12. CASE Fail
  BY <1>12, FailKeeps
<1>13. CASE Lose
  BY <1>13, LoseKeeps
<1>14. CASE GoAway
  BY <1>14, AwayKeeps
<1>15. CASE Restart
  BY <1>15, RestartKeeps
<1>16. CASE Post
  BY <1>16, PostKeeps
<1>17. CASE BeginChange
  BY <1>17, BeginKeeps
<1>18. CASE Tick
  BY <1>18, TickKeeps
<1>19. CASE UNCHANGED vars
  BY <1>19, CursorStays
<1> QED
  BY <1>1, <1>2, <1>3, <1>4, <1>5, <1>6, <1>7, <1>8, <1>9, <1>10, <1>11, <1>12, <1>13, <1>14,
     <1>15, <1>16, <1>17, <1>18, <1>19 DEF Next, Running

\* What is invariant of the timeline, the requests that are out, the events on their way and
\* the page in the cache, under the hypotheses on the margin and on what the person does.
THEOREM CursorInvariance ==
  ASSUME CursorHypothesis
  PROVE  Spec => []CursorInv
<1>1. Init => CursorInv
  BY CursorInit
<1>2. CursorInv /\ [Next]_vars => CursorInv'
  BY CursorStep
<1> QED
  BY <1>1, <1>2, PTL DEF Spec

\* The cursor is honest (loadNewest, loadOlder, loadNewer, applySync, applyNewMessage): from
\* where the timeline begins to the cursor nothing that the channel shows is missing, however
\* events are lost, reordered and overtaken by pages, whatever is posted or changed meanwhile,
\* and after any restart.
THEOREM CursorAlwaysHonest ==
  ASSUME CursorHypothesis
  PROVE  Spec => []CursorHonest
<1>1. ASSUME CursorInv PROVE CursorHonest
  <2> DEFINE t == view.tl
  <2>1. TlOK(t, log, events) /\ t \in Tl
    BY <1>1, Facts
  <2>2. /\ WholeTo(t.shown, t.before, t.last, log, events) /\ t.last \in 0 .. Len(log)
        /\ t.shown \in SUBSET (1 .. MaxSeq) /\ t.shown \in SUBSET Nat /\ t.last \in Int
    BY <2>1 DEF TlOK, Tl
  <2> SUFFICES ASSUME NEW s \in Floor(t) .. t.last, Shows(s) PROVE s \in t.shown
    BY DEF CursorHonest
  <2>3. Visible(s, log)
    BY DEF Shows, Visible
  <2>4. CASE ~t.before
    <3>1. s \in 1 .. t.last
      BY <2>4 DEF Floor
    <3> QED
      BY <2>2, <2>3, <2>4, <3>1 DEF WholeTo
  <2>5. CASE t.before /\ t.shown = {}
    <3>1. s \in t.last + 1 .. t.last
      BY <2>5 DEF Floor
    <3> QED
      BY <2>2, <3>1
  <2>6. CASE t.before /\ t.shown # {}
    <3>1. Min(t.shown) \in t.shown /\ Floor(t) = Min(t.shown)
      BY <2>2, <2>6, MinIs DEF Floor
    <3>2. PICK m \in t.shown : s \in m .. t.last
      BY <3>1
    <3>3. m \in Int /\ m >= 1 /\ m <= s /\ s \in 1 .. t.last
      BY <2>2, <3>2
    <3> QED
      BY <2>2, <2>3, <3>3 DEF WholeTo
  <2> QED
    BY <2>4, <2>5, <2>6
<1>2. CursorInv => CursorHonest
  BY <1>1
<1> QED
  BY <1>2, CursorInvariance, PTL

-----------------------------------------------------------------------------
(* Changes are not missed. *)

(* Beside CursorHypothesis: nobody pages, and no two changes of a message overlap. *)
SyncHypothesis == CursorHypothesis /\ May \cap {"older", "newer", "overlap"} = {}

\* A copy is the row or an earlier one of it; and it is the row, if that is as old as `since`.
Past(c, s, L) == c = L[s] \/ c.at < L[s].at
Pasts(f, L) == \A s \in DOMAIN f : s \in 1 .. Len(L) /\ Past(f[s], s, L)
Fresh(f, s, since, L) == L[s].at <= since => s \in DOMAIN f /\ f[s] = L[s]

\* Transactions and events are younger than the margin, and a row's time grows.
Stamps ==
  /\ clock >= 1
  /\ \A s \in 1 .. Len(log) : log[s].at <= clock
  /\ \A c \in changing : c.at <= clock /\ clock < c.at + Margin /\ log[c.seq].at < c.at
  /\ \A c, d \in changing : c.seq = d.seq => c = d
  /\ \A e \in events : Past(e.copy, e.seq, log) /\ clock < e.copy.at + Margin

TlFresh(t, h, L, now) ==
  /\ 0 <= t.synced /\ t.synced <= now
  /\ t.synced > 0 => \A s \in t.shown : Fresh(h, s, t.synced - Margin, L)
  /\ t.status = "ready" => t.synced > 0
  /\ ("fail" \in May /\ t.synced = 0) => t.last = 0

\* What an answer brings was so after it was asked for.
Snapshot(r, L) ==
  /\ \A s \in DOMAIN r.page : Fresh(r.page, s, r.at - Margin, L)
  /\ \A s \in r.last + 1 .. Len(L) : L[s].at > r.at - Margin

\* A heal goes on from where the timeline is synced to, and asks for all it showed.
HealFresh(r, t, L) ==
  /\ t.synced > 0 /\ r.since = t.synced - Margin
  /\ \A s \in t.shown : s < r.min => L[s].at > r.at - Margin
  /\ (r.step = "answered" /\ ~r.beyond) =>
       \A s \in 1 .. r.from : r.min <= s /\ r.since < L[s].at /\ L[s].at <= r.at - Margin => s \in DOMAIN r.page

ReqFresh(r, t, L, now) ==
  /\ r.kind \notin {"older", "newer"}
  /\ r.kind # "paint" => 1 <= r.at /\ r.at <= now
  /\ (r.live /\ r.step = "answered" /\ r.kind # "drop") => Snapshot(r, L)
  /\ (r.live /\ r.kind = "heal") => HealFresh(r, t, L)

ViewFresh(v, c, L, now) ==
  /\ Pasts(v.held, L) /\ Pasts(c.page, L)
  /\ TlFresh(v.tl, v.held, L, now)
  /\ \A r \in v.reqs : Pasts(r.page, L) /\ ReqFresh(r, v.tl, L, now)

SyncInv == Stamps /\ ViewFresh(view, cache, log, clock)

\* Copies and times have their types.
LEMMA Copied ==
  ASSUME CursorInv
  PROVE  /\ view.held \in Copies /\ cache.page \in Copies
         /\ \A r \in view.reqs : r.page \in Copies /\ r.at \in Int /\ r.last \in 0 .. MaxSeq
                                 /\ r.min \in Int /\ r.since \in Int /\ r.from \in 0 .. MaxSeq + 1
         /\ view.tl.synced \in Int /\ view.tl.last \in 0 .. MaxSeq /\ view.tl.shown \in SUBSET (1 .. MaxSeq)
         /\ view.tl.shown \subseteq 1 .. Len(log)
         /\ \A s \in 1 .. Len(log) : log[s] \in Row /\ log[s].at \in Int
<1>1. /\ view.held \in Copies /\ view.tl.synced \in Int /\ view.tl.last \in 0 .. MaxSeq
      /\ view.tl.shown \in SUBSET (1 .. MaxSeq)
  BY Facts DEF View, Tl
<1>2. \A r \in view.reqs : r.page \in Copies /\ r.at \in Int /\ r.last \in 0 .. MaxSeq
                           /\ r.min \in Int /\ r.since \in Int /\ r.from \in 0 .. MaxSeq + 1
  BY Facts DEF Req
<1>3. \A s \in 1 .. Len(log) : log[s] \in Row
  BY Facts
<1>4. \A s \in 1 .. Len(log) : log[s].at \in Int
  BY <1>3 DEF Row
<1>5. view.tl.shown \subseteq 1 .. Len(log) /\ cache.page \in Copies
  BY Facts DEF TlOK
<1> QED
  BY <1>1, <1>2, <1>3, <1>4, <1>5

LEMMA MergeFresh ==
  ASSUME NEW h \in Copies, NEW p \in Copies, NEW L \in Seq(Row), Pasts(h, L), Pasts(p, L)
  PROVE  /\ Pasts(Merge(h, p), L)
         /\ \A s \in 1 .. Len(L) : \A since \in Int :
              Fresh(h, s, since, L) \/ Fresh(p, s, since, L) => Fresh(Merge(h, p), s, since, L)
<1> DEFINE m == Merge(h, p)
<1>1. /\ DOMAIN m = DOMAIN h \union DOMAIN p
      /\ \A s \in DOMAIN m : m[s] = IF s \in DOMAIN p /\ (s \in DOMAIN h => p[s].at >= h[s].at) THEN p[s] ELSE h[s]
  BY DEF Merge
<1>2. /\ \A s \in DOMAIN h : h[s].at \in Int
      /\ \A s \in DOMAIN p : p[s].at \in Int
      /\ \A s \in 1 .. Len(L) : L[s].at \in Int
  <2>1. \A s \in DOMAIN h : h[s] \in Row
    BY CopiesAre
  <2>2. \A s \in DOMAIN p : p[s] \in Row
    BY CopiesAre
  <2>3. \A s \in 1 .. Len(L) : L[s] \in Row
    OBVIOUS
  <2> QED
    BY <2>1, <2>2, <2>3 DEF Row
<1> HIDE DEF m
<1>3. Pasts(m, L)
  BY <1>1 DEF Pasts
<1>4. ASSUME NEW s \in 1 .. Len(L), NEW since \in Int, Fresh(h, s, since, L) \/ Fresh(p, s, since, L), L[s].at <= since
      PROVE  s \in DOMAIN m /\ m[s] = L[s]
  <2>1. CASE Fresh(h, s, since, L)
    <3>1. s \in DOMAIN h /\ h[s] = L[s]
      BY <1>4, <2>1 DEF Fresh
    <3>2. s \in DOMAIN p => p[s] = L[s] \/ p[s].at < L[s].at
      BY DEF Pasts, Past
    <3> QED
      BY <1>1, <1>2, <3>1, <3>2
  <2>2. CASE Fresh(p, s, since, L)
    <3>1. s \in DOMAIN p /\ p[s] = L[s]
      BY <1>4, <2>2 DEF Fresh
    <3>2. s \in DOMAIN h => h[s] = L[s] \/ h[s].at < L[s].at
      BY DEF Pasts, Past
    <3>3. s \in DOMAIN h => p[s].at >= h[s].at
      BY <1>2, <3>1, <3>2
    <3> QED
      BY <1>1, <3>1, <3>3
  <2> QED
    BY <1>4, <2>1, <2>2
<1> QED
  BY <1>3, <1>4 DEF m, Fresh

\* Rows only change to later ones, of transactions younger than the margin.
Later(L, M, now) ==
  /\ Len(L) <= Len(M)
  /\ \A s \in 1 .. Len(L) : M[s] = L[s] \/ (L[s].at < M[s].at /\ M[s].at > now - Margin)
  /\ \A s \in Len(L) + 1 .. Len(M) : M[s].at > now - Margin

LEMMA PastLater ==
  ASSUME NEW L \in Seq(Row), NEW M \in Seq(Row), NEW now \in Int, Later(L, M, now),
         NEW f \in Copies, Pasts(f, L)
  PROVE  /\ Pasts(f, M)
         /\ \A s \in 1 .. Len(L) : \A since \in Int : since <= now - Margin /\ Fresh(f, s, since, L) => Fresh(f, s, since, M)
<1>1. /\ Len(L) \in Nat /\ Len(M) \in Nat /\ Len(L) <= Len(M) /\ now \in Int /\ Margin \in Int
      /\ \A s \in 1 .. Len(L) : M[s] = L[s] \/ (L[s].at < M[s].at /\ M[s].at > now - Margin)
  BY Constants DEF Later
<1>2. \A s \in 1 .. Len(L) : L[s].at \in Int /\ M[s].at \in Int
  <2>1. \A s \in 1 .. Len(L) : L[s] \in Row /\ M[s] \in Row
    BY <1>1
  <2> QED
    BY <2>1 DEF Row
<1>3. \A s \in DOMAIN f : f[s].at \in Int
  <2>1. \A s \in DOMAIN f : f[s] \in Row
    BY CopiesAre
  <2> QED
    BY <2>1 DEF Row
<1>4. Pasts(f, M)
  <2> SUFFICES ASSUME NEW s \in DOMAIN f PROVE s \in 1 .. Len(M) /\ Past(f[s], s, M)
    BY DEF Pasts
  <2>1. s \in 1 .. Len(L) /\ Past(f[s], s, L)
    BY DEF Pasts
  <2> QED
    BY <1>1, <1>2, <1>3, <2>1 DEF Past
<1>5. ASSUME NEW s \in 1 .. Len(L), NEW since \in Int, since <= now - Margin, Fresh(f, s, since, L)
      PROVE  Fresh(f, s, since, M)
  <2>1. M[s].at <= since => M[s] = L[s]
    BY <1>1, <1>2, <1>5
  <2> QED
    BY <1>5, <2>1 DEF Fresh
<1> QED
  BY <1>4, <1>5

LEMMA ServerFresh ==
  ASSUME CursorInv, ViewFresh(view, cache, log, clock), log' \in Seq(Row), Later(log, log', clock),
         clock' \in Int, clock <= clock'
  PROVE  ViewFresh(view, cache, log', clock')
<1> DEFINE L == log
           M == log'
           t == view.tl
<1>1. /\ L \in Seq(Row) /\ M \in Seq(Row) /\ clock \in Int /\ clock' \in Int /\ clock <= clock'
      /\ Len(L) \in Nat /\ Len(M) \in Nat /\ Len(L) <= Len(M) /\ Margin \in Nat
  BY Facts, Constants DEF Later
<1>2. /\ \A s \in 1 .. Len(L) : M[s] = L[s] \/ (L[s].at < M[s].at /\ M[s].at > clock - Margin)
      /\ \A s \in Len(L) + 1 .. Len(M) : M[s].at > clock - Margin
      /\ \A s \in 1 .. Len(M) : M[s].at \in Int
      /\ \A s \in 1 .. Len(L) : L[s].at \in Int
  <2>1. \A s \in 1 .. Len(M) : M[s] \in Row
    BY <1>1
  <2>2. \A s \in 1 .. Len(M) : M[s].at \in Int
    BY <2>1 DEF Row
  <2> QED
    BY <2>2, Copied DEF Later
<1>3. ASSUME NEW f \in Copies, Pasts(f, L)
      PROVE  /\ Pasts(f, M)
             /\ \A s \in 1 .. Len(L) : \A since \in Int : since <= clock - Margin /\ Fresh(f, s, since, L) => Fresh(f, s, since, M)
  BY <1>1, <1>3, PastLater
<1> HIDE DEF L, M
<1>4. /\ view.held \in Copies /\ cache.page \in Copies /\ t.synced \in Int /\ t.shown \subseteq 1 .. Len(L)
      /\ \A r \in view.reqs : r.page \in Copies /\ r.at \in Int /\ r.last \in 0 .. MaxSeq
                              /\ r.min \in Int /\ r.since \in Int /\ r.from \in 0 .. MaxSeq + 1
  BY Copied DEF L
<1>5. /\ Pasts(view.held, L) /\ Pasts(cache.page, L) /\ TlFresh(t, view.held, L, clock)
      /\ \A r \in view.reqs : Pasts(r.page, L) /\ ReqFresh(r, t, L, clock)
  BY DEF ViewFresh, L
<1>6. Pasts(view.held, M) /\ Pasts(cache.page, M)
  BY <1>3, <1>4, <1>5
<1>7. TlFresh(t, view.held, M, clock')
  <2>1. 0 <= t.synced /\ t.synced <= clock' /\ t.synced - Margin <= clock - Margin /\ t.synced - Margin \in Int
    BY <1>1, <1>4, <1>5 DEF TlFresh
  <2>2. t.synced > 0 => \A s \in t.shown : Fresh(view.held, s, t.synced - Margin, M)
    BY <1>3, <1>4, <1>5, <2>1 DEF TlFresh
  <2> QED
    BY <1>5, <2>1, <2>2 DEF TlFresh
<1>8. ASSUME NEW r \in view.reqs
      PROVE  Pasts(r.page, M) /\ ReqFresh(r, t, M, clock')
  <2>1. Pasts(r.page, M) /\ ReqFresh(r, t, L, clock) /\ r.page \in Copies /\ Pasts(r.page, L)
    BY <1>3, <1>4, <1>5
  <2>2. r.kind # "paint" => 1 <= r.at /\ r.at <= clock' /\ r.at <= clock
    BY <1>1, <1>4, <2>1 DEF ReqFresh
  <2>3. ASSUME r.kind # "paint", Snapshot(r, L) PROVE Snapshot(r, M)
    <3>1. r.at - Margin <= clock - Margin /\ r.at - Margin \in Int /\ r.at \in Int
      BY <1>1, <1>4, <2>2, <2>3
    <3>2. \A s \in DOMAIN r.page : s \in 1 .. Len(L) /\ Fresh(r.page, s, r.at - Margin, L)
      BY <2>1, <2>3 DEF Snapshot, Pasts
    <3>3. \A s \in DOMAIN r.page : Fresh(r.page, s, r.at - Margin, M)
      BY <1>3, <2>1, <3>1, <3>2
    <3>4. \A s \in r.last + 1 .. Len(M) : M[s].at > r.at - Margin
      <4> SUFFICES ASSUME NEW s \in r.last + 1 .. Len(M) PROVE M[s].at > r.at - Margin
        OBVIOUS
      <4>1. r.last \in Nat /\ s \in 1 .. Len(M) /\ s > r.last
        BY <1>1, <1>4
      <4>2. CASE s \in 1 .. Len(L)
        <5>1. L[s].at > r.at - Margin
          BY <1>1, <2>3, <4>1, <4>2 DEF Snapshot
        <5>2. M[s] = L[s] \/ M[s].at > clock - Margin
          BY <1>2, <4>2
        <5>3. M[s].at \in Int
          BY <1>2, <4>1
        <5> QED
          BY <1>1, <3>1, <5>1, <5>2, <5>3
      <4>3. CASE s \in Len(L) + 1 .. Len(M)
        BY <1>1, <1>2, <3>1, <4>1, <4>3
      <4> QED
        BY <1>1, <4>1, <4>2, <4>3
    <3> QED
      BY <3>3, <3>4 DEF Snapshot
  <2>4. ASSUME r.kind # "paint", r.live, r.kind = "heal", HealFresh(r, t, L) PROVE HealFresh(r, t, M)
    <3>1. r.at - Margin <= clock - Margin /\ r.at - Margin \in Int /\ r.since \in Int
      BY <1>1, <1>4, <2>2, <2>4
    <3>2. \A s \in t.shown : s < r.min => M[s].at > r.at - Margin
      <4> SUFFICES ASSUME NEW s \in t.shown, s < r.min PROVE M[s].at > r.at - Margin
        OBVIOUS
      <4>1. s \in 1 .. Len(L) /\ s \in 1 .. Len(M) /\ L[s].at > r.at - Margin
        BY <1>1, <1>4, <2>4 DEF HealFresh
      <4> QED
        BY <1>1, <1>2, <3>1, <4>1
    <3>3. ASSUME r.step = "answered", ~r.beyond, NEW s \in 1 .. r.from, r.min <= s, r.since < M[s].at, M[s].at <= r.at - Margin
          PROVE  s \in DOMAIN r.page
      <4>1. s \in 1 .. Len(L)
        <5>1. r.from \in 1 .. t.last /\ t.last \in 0 .. Len(L)
          BY <2>4, Facts DEF ReqOK, HealOK, TlOK, L
        <5> QED
          BY <1>1, <3>3, <5>1
      <4>2. M[s] = L[s]
        BY <1>1, <1>2, <3>1, <3>3, <4>1
      <4> QED
        BY <2>4, <3>3, <4>2 DEF HealFresh
    <3> QED
      BY <2>4, <3>2, <3>3 DEF HealFresh
  <2>5. (r.live /\ r.step = "answered" /\ r.kind # "drop") => r.kind # "paint"
    BY Facts DEF ReqOK
  <2> QED
    BY <2>1, <2>2, <2>3, <2>4, <2>5 DEF ReqFresh
<1> QED
  BY <1>6, <1>7, <1>8 DEF ViewFresh, M

\* What a row becomes: one step of the server, whatever is told of it.
LEMMA SameLater ==
  ASSUME NEW L, NEW now, Len(L) \in Nat
  PROVE  Later(L, L, now)
BY DEF Later

LEMMA TimeFresh ==
  ASSUME SyncHypothesis, CursorInv, SyncInv, Tick \/ BeginChange
  PROVE  SyncInv'
<1>1. /\ log' = log /\ clock' = clock + 1 /\ view' = view /\ cache' = cache /\ events' = events /\ InTime
  BY DEF Tick, BeginChange, server
<1>2. /\ changing \subseteq changing'
      /\ \A c \in changing' : \/ c \in changing
                              \/ /\ c.at = clock' /\ c.seq \in Seqs /\ (\A d \in changing : d.seq # c.seq)
                                 /\ \A d \in changing' : d \in changing \/ d = c
  <2>1. CASE Tick
    BY <2>1 DEF Tick, server
  <2>2. CASE BeginChange
    <3>1. PICK s \in Seqs, gone \in BOOLEAN :
            /\ "overlap" \in May \/ \A c \in changing : c.seq # s
            /\ changing' = changing \union {[seq |-> s, at |-> clock', gone |-> gone]}
      BY <2>2 DEF BeginChange
    <3>2. \A c \in changing : c.seq # s
      BY <3>1 DEF SyncHypothesis
    <3> QED
      BY <3>1, <3>2
  <2> QED
    BY <2>1, <2>2
<1>3. /\ clock \in Int /\ Len(log) \in Nat /\ log \in Seq(Row) /\ Margin \in Nat /\ Margin >= 1
      /\ \A s \in 1 .. Len(log) : log[s].at \in Int
      /\ \A c \in changing : c.at \in Int /\ c.seq \in 1 .. Len(log)
      /\ \A e \in events : e.copy.at \in Int
  <2>1. changing \in SUBSET Change /\ \A c \in changing : c.seq <= Len(log)
    BY DEF CursorInv, Types
  <2>2. \A c \in changing : c.at \in Int /\ c.seq \in 1 .. Len(log)
    BY <2>1, Facts, Constants DEF Change
  <2>3. \A e \in events : e.copy.at \in Int
    BY Facts DEF Event, Row
  <2> QED
    BY <2>2, <2>3, Facts, Constants, Copied
<1>4. /\ clock >= 1 /\ \A s \in 1 .. Len(log) : log[s].at <= clock
      /\ \A c \in changing : c.at <= clock /\ clock < c.at + Margin /\ log[c.seq].at < c.at
      /\ \A c, d \in changing : c.seq = d.seq => c = d
      /\ \A e \in events : Past(e.copy, e.seq, log) /\ clock < e.copy.at + Margin
  BY DEF SyncInv, Stamps
<1>5. /\ \A c \in changing : clock + 1 < c.at + Margin
      /\ \A e \in events : clock + 1 < e.copy.at + Margin
  BY <1>1 DEF InTime, SyncHypothesis, CursorHypothesis
<1>6. Stamps'
  <2>1. \A c \in changing' : c.at <= clock' /\ clock' < c.at + Margin /\ log'[c.seq].at < c.at
    <3> SUFFICES ASSUME NEW c \in changing' PROVE c.at <= clock' /\ clock' < c.at + Margin /\ log'[c.seq].at < c.at
      OBVIOUS
    <3>1. CASE c \in changing
      BY <1>1, <1>3, <1>4, <1>5, <3>1
    <3>2. CASE c.at = clock' /\ c.seq \in Seqs
      <4>1. c.seq \in 1 .. Len(log)
        BY <3>2 DEF Seqs
      <4> QED
        BY <1>1, <1>3, <1>4, <3>2, <4>1
    <3> QED
      BY <1>2, <3>1, <3>2
  <2>2. \A c, d \in changing' : c.seq = d.seq => c = d
    BY <1>2, <1>4
  <2>3. clock' >= 1 /\ \A s \in 1 .. Len(log') : log'[s].at <= clock'
    BY <1>1, <1>3, <1>4
  <2>4. \A e \in events' : Past(e.copy, e.seq, log') /\ clock' < e.copy.at + Margin
    BY <1>1, <1>4, <1>5
  <2> QED
    BY <2>1, <2>2, <2>3, <2>4 DEF Stamps
<1>7. ViewFresh(view, cache, log', clock')
  <2>1. Later(log, log', clock) /\ log' \in Seq(Row) /\ clock' \in Int /\ clock <= clock'
    BY <1>1, <1>3, SameLater
  <2> QED
    BY <2>1, ServerFresh DEF SyncInv
<1> QED
  BY <1>1, <1>6, <1>7 DEF SyncInv

LEMMA CommitFresh ==
  ASSUME SyncHypothesis, CursorInv, SyncInv, CommitChange
  PROVE  SyncInv'
<1>1. PICK c \in changing :
        /\ changing' = changing \ {c}
        /\ IF log[c.seq].gone THEN UNCHANGED <<log, events>>
           ELSE LET row == [ver |-> log[c.seq].ver + 1, at |-> c.at, gone |-> c.gone]
                IN log' = [log EXCEPT ![c.seq] = row] /\ Tell([kind |-> "upd", seq |-> c.seq, copy |-> row])
        /\ UNCHANGED <<clock, online, view, cache, bounds>>
  BY DEF CommitChange
<1>2. clock' = clock /\ view' = view /\ cache' = cache
  BY <1>1
<1>3. /\ clock \in Int /\ Len(log) \in Nat /\ log \in Seq(Row) /\ Margin \in Nat
      /\ \A s \in 1 .. Len(log) : log[s] \in Row /\ log[s].at \in Int
      /\ changing \in SUBSET Change
      /\ \A d \in changing : d.at \in Int /\ d.seq \in 1 .. Len(log)
      /\ \A e \in events : e.copy.at \in Int /\ e.seq \in 1 .. Len(log)
  <2>1. changing \in SUBSET Change /\ \A d \in changing : d.seq <= Len(log)
    BY DEF CursorInv, Types
  <2>2. \A d \in changing : d.at \in Int /\ d.seq \in 1 .. Len(log)
    BY <2>1, Facts, Constants DEF Change
  <2>3. \A e \in events : e.copy.at \in Int /\ e.seq \in 1 .. Len(log)
    BY Facts DEF Event, Row, CursorInv, EventOK
  <2> QED
    BY <2>1, <2>2, <2>3, Facts, Constants, Copied
<1>4. /\ clock >= 1 /\ \A s \in 1 .. Len(log) : log[s].at <= clock
      /\ \A d \in changing : d.at <= clock /\ clock < d.at + Margin /\ log[d.seq].at < d.at
      /\ \A d, b \in changing : d.seq = b.seq => d = b
      /\ \A e \in events : Past(e.copy, e.seq, log) /\ clock < e.copy.at + Margin
  BY DEF SyncInv, Stamps
<1>5. CASE log[c.seq].gone
  <2>1. log' = log /\ events' = events
    BY <1>1, <1>5
  <2>2. Stamps'
    BY <1>1, <1>2, <1>4, <2>1 DEF Stamps
  <2> QED
    BY <1>2, <2>1, <2>2 DEF SyncInv
<1>6. CASE ~log[c.seq].gone
  <2> DEFINE row == [ver |-> log[c.seq].ver + 1, at |-> c.at, gone |-> c.gone]
             e0 == [kind |-> "upd", seq |-> c.seq, copy |-> row]
  <2>1. log' = [log EXCEPT ![c.seq] = row] /\ events' \in SUBSET (events \union {e0})
    BY <1>1, <1>6 DEF Tell
  <2>2. row \in Row /\ row.at = c.at
    BY <1>3 DEF Row, Change
  <2>3. e0.seq = c.seq /\ e0.copy = row
    OBVIOUS
  <2> HIDE DEF row, e0
  <2>4. /\ log' \in Seq(Row) /\ Len(log') = Len(log)
        /\ \A s \in 1 .. Len(log) : log'[s] = IF s = c.seq THEN row ELSE log[s]
    BY <1>3, <2>1, <2>2
  <2>5. Later(log, log', clock)
    <3>1. \A s \in 1 .. Len(log) : log'[s] = log[s] \/ (log[s].at < log'[s].at /\ log'[s].at > clock - Margin)
      <4> SUFFICES ASSUME NEW s \in 1 .. Len(log), s = c.seq PROVE log[s].at < log'[s].at /\ log'[s].at > clock - Margin
        BY <2>4
      <4>1. log'[s].at = c.at /\ log[s].at < c.at /\ clock < c.at + Margin /\ c.at \in Int
        BY <1>3, <1>4, <2>2, <2>4
      <4> QED
        BY <1>3, <4>1
    <3>2. Len(log) <= Len(log') /\ \A s \in Len(log) + 1 .. Len(log') : FALSE
      BY <1>3, <2>4
    <3> QED
      BY <3>1, <3>2 DEF Later
  <2>6. \A d \in changing' : d.at <= clock' /\ clock' < d.at + Margin /\ log'[d.seq].at < d.at
    <3>1. \A d \in changing' : d \in changing /\ d.seq # c.seq
      BY <1>1, <1>4
    <3> QED
      BY <1>2, <1>3, <1>4, <2>4, <3>1
  <2>7. \A e \in events' : Past(e.copy, e.seq, log') /\ clock' < e.copy.at + Margin
    <3> SUFFICES ASSUME NEW e \in events' PROVE Past(e.copy, e.seq, log') /\ clock' < e.copy.at + Margin
      OBVIOUS
    <3>1. CASE e = e0
      BY <1>2, <1>3, <1>4, <2>2, <2>3, <2>4, <3>1 DEF Past
    <3>2. CASE e \in events
      <4>1. Past(e.copy, e.seq, log) /\ clock < e.copy.at + Margin /\ e.copy.at \in Int /\ e.seq \in 1 .. Len(log)
        BY <1>3, <1>4, <3>2
      <4>2. log'[e.seq] = log[e.seq] \/ (log[e.seq].at < log'[e.seq].at /\ log'[e.seq].at \in Int)
        BY <1>3, <1>4, <2>2, <2>4, <4>1
      <4> QED
        BY <1>2, <1>3, <4>1, <4>2 DEF Past
    <3> QED
      BY <2>1, <3>1, <3>2
  <2>8. \A d, b \in changing' : d.seq = b.seq => d = b
    BY <1>1, <1>4
  <2>9. clock' >= 1 /\ \A s \in 1 .. Len(log') : log'[s].at <= clock'
    BY <1>2, <1>3, <1>4, <2>2, <2>4
  <2>10. ViewFresh(view, cache, log', clock')
    <3>1. clock' \in Int /\ clock <= clock'
      BY <1>2, <1>3
    <3> QED
      BY <2>4, <2>5, <3>1, ServerFresh DEF SyncInv
  <2> QED
    BY <1>2, <2>6, <2>7, <2>8, <2>9, <2>10 DEF SyncInv, Stamps
<1> QED
  BY <1>5, <1>6

LEMMA PostFresh ==
  ASSUME SyncHypothesis, CursorInv, SyncInv, Post
  PROVE  SyncInv'
<1> DEFINE row == [ver |-> 0, at |-> clock', gone |-> FALSE]
           e0 == [kind |-> "new", seq |-> Len(log'), copy |-> row]
<1>1. /\ changing' = changing /\ clock' = clock + 1 /\ view' = view /\ cache' = cache /\ InTime
      /\ log' = Append(log, row) /\ events' \in SUBSET (events \union {e0})
  BY DEF Post, Tell
<1>2. /\ clock \in Int /\ Len(log) \in Nat /\ log \in Seq(Row) /\ Margin \in Nat /\ Margin >= 1
      /\ \A s \in 1 .. Len(log) : log[s].at \in Int
      /\ \A d \in changing : d.at \in Int /\ d.seq \in 1 .. Len(log)
      /\ \A e \in events : e.copy.at \in Int /\ e.seq \in 1 .. Len(log)
  <2>1. changing \in SUBSET Change /\ \A d \in changing : d.seq <= Len(log)
    BY DEF CursorInv, Types
  <2>2. \A d \in changing : d.at \in Int /\ d.seq \in 1 .. Len(log)
    BY <2>1, Facts, Constants DEF Change
  <2>3. \A e \in events : e.copy.at \in Int /\ e.seq \in 1 .. Len(log)
    BY Facts DEF Event, Row, CursorInv, EventOK
  <2> QED
    BY <2>1, <2>2, <2>3, Facts, Constants, Copied
<1>3. row \in Row /\ row.at = clock' /\ e0.seq = Len(log') /\ e0.copy = row
  BY <1>1, <1>2 DEF Row
<1> HIDE DEF row, e0
<1>4. /\ log' \in Seq(Row) /\ Len(log') = Len(log) + 1 /\ log'[Len(log) + 1] = row
      /\ \A s \in 1 .. Len(log) : log'[s] = log[s]
  BY <1>1, <1>2, <1>3
<1>5. /\ clock >= 1 /\ \A s \in 1 .. Len(log) : log[s].at <= clock
      /\ \A d \in changing : d.at <= clock /\ clock < d.at + Margin /\ log[d.seq].at < d.at
      /\ \A d, b \in changing : d.seq = b.seq => d = b
      /\ \A e \in events : Past(e.copy, e.seq, log) /\ clock < e.copy.at + Margin
  BY DEF SyncInv, Stamps
<1>6. /\ \A d \in changing : clock + 1 < d.at + Margin
      /\ \A e \in events : clock + 1 < e.copy.at + Margin
  BY <1>1 DEF InTime, SyncHypothesis, CursorHypothesis
<1>7. Later(log, log', clock)
  <2>1. \A s \in Len(log) + 1 .. Len(log') : s = Len(log) + 1
    BY <1>2, <1>4
  <2> QED
    BY <1>1, <1>2, <1>3, <1>4, <2>1 DEF Later
<1>8. ViewFresh(view, cache, log', clock')
  <2>1. clock' \in Int /\ clock <= clock'
    BY <1>1, <1>2
  <2> QED
    BY <1>4, <1>7, <2>1, ServerFresh DEF SyncInv
<1>9. \A e \in events' : Past(e.copy, e.seq, log') /\ clock' < e.copy.at + Margin
  <2> SUFFICES ASSUME NEW e \in events' PROVE Past(e.copy, e.seq, log') /\ clock' < e.copy.at + Margin
    OBVIOUS
  <2>1. CASE e = e0
    BY <1>1, <1>2, <1>3, <1>4, <2>1 DEF Past
  <2>2. CASE e \in events
    BY <1>1, <1>2, <1>4, <1>5, <1>6, <2>2 DEF Past
  <2> QED
    BY <1>1, <2>1, <2>2
<1>10. \A d \in changing' : d.at <= clock' /\ clock' < d.at + Margin /\ log'[d.seq].at < d.at
  BY <1>1, <1>2, <1>4, <1>5, <1>6
<1>11. clock' >= 1 /\ \A s \in 1 .. Len(log') : log'[s].at <= clock'
  <2>1. \A s \in 1 .. Len(log') : s \in 1 .. Len(log) \/ s = Len(log) + 1
    BY <1>2, <1>4
  <2> QED
    BY <1>1, <1>2, <1>3, <1>4, <1>5, <2>1
<1> QED
  BY <1>1, <1>5, <1>8, <1>9, <1>10, <1>11 DEF SyncInv, Stamps

\* The client's side moves.
LEMMA NewFresh ==
  ASSUME CursorInv, SyncInv, UNCHANGED <<server, clock>>, events' \in SUBSET events,
         ViewFresh(view', cache', log, clock)
  PROVE  SyncInv'
<1>1. log' = log /\ changing' = changing /\ clock' = clock
  BY DEF server
<1>2. Stamps'
  BY <1>1 DEF SyncInv, Stamps
<1> QED
  BY <1>1, <1>2 DEF SyncInv

\* Whatever else of the client changes.
LEMMA StaysFresh ==
  ASSUME NEW v, NEW w, NEW c, NEW L, NEW now, ViewFresh(v, c, L, now),
         w.held = v.held, w.reqs \subseteq v.reqs, w.tl.shown = v.tl.shown, w.tl.synced = v.tl.synced,
         w.tl.last = v.tl.last, w.tl.status = "ready" => v.tl.status = "ready"
  PROVE  ViewFresh(w, c, L, now)
<1>1. TlFresh(w.tl, w.held, L, now)
  BY DEF ViewFresh, TlFresh
<1>2. ASSUME NEW r \in w.reqs PROVE Pasts(r.page, L) /\ ReqFresh(r, w.tl, L, now)
  <2>1. Pasts(r.page, L) /\ ReqFresh(r, v.tl, L, now)
    BY DEF ViewFresh
  <2>2. HealFresh(r, v.tl, L) => HealFresh(r, w.tl, L)
    BY DEF HealFresh
  <2> QED
    BY <2>1, <2>2 DEF ReqFresh
<1> QED
  BY <1>1, <1>2 DEF ViewFresh

LEMMA AsksFresh ==
  ASSUME NEW v, NEW w, NEW c, NEW L, NEW now, ViewFresh(v, c, L, now), NEW a,
         w.held = v.held, w.reqs \subseteq v.reqs \union {a}, w.tl = v.tl,
         a.page = NoRows, ReqFresh(a, v.tl, L, now)
  PROVE  ViewFresh(w, c, L, now)
<1>1. Pasts(a.page, L)
  BY Nothing DEF Pasts
<1> QED
  BY <1>1 DEF ViewFresh

LEMMA BumpFresh ==
  ASSUME NEW v \in View, NEW c, NEW L, NEW now, ViewFresh(v, c, L, now)
  PROVE  ViewFresh(Bump(v), c, L, now)
<1>1. Bump(v).tl = v.tl /\ Bump(v).reqs = Bumped(v.reqs)
  BY BumpIs
<1>2. Bump(v).held = v.held
  BY DEF Bump, View
<1>3. ASSUME NEW x \in Bumped(v.reqs) PROVE Pasts(x.page, L) /\ ReqFresh(x, v.tl, L, now)
  <2>1. PICK r \in v.reqs : x = [r EXCEPT !.live = FALSE] /\ r \in Req
    BY <1>3 DEF Bumped, View
  <2>2. ~x.live /\ x.kind = r.kind /\ x.at = r.at /\ x.page = r.page
    BY <2>1 DEF Req
  <2>3. Pasts(r.page, L) /\ ReqFresh(r, v.tl, L, now)
    BY DEF ViewFresh
  <2> QED
    BY <2>2, <2>3 DEF ReqFresh
<1> QED
  BY <1>1, <1>2, <1>3 DEF ViewFresh

LEMMA NewestFresh ==
  ASSUME NEW v \in View, NEW c, NEW L, clock \in Int, clock >= 1, ViewFresh(v, c, L, clock)
  PROVE  ViewFresh(AskNewest(v), c, L, clock)
<1> DEFINE w == [v EXCEPT !.tl.status = "loading"]
           a == NewestAsked
<1>1. AskNewest(v).tl = LoadingTl(v.tl) /\ AskNewest(v).reqs = v.reqs \union {a}
  BY AskNewestIs
<1>2. /\ w.held = v.held /\ w.reqs = v.reqs /\ w.tl = LoadingTl(v.tl)
      /\ AskNewest(v).held = v.held
  BY DEF AskNewest, Ask, View, LoadingTl
<1>3. /\ LoadingTl(v.tl).shown = v.tl.shown /\ LoadingTl(v.tl).synced = v.tl.synced
      /\ LoadingTl(v.tl).last = v.tl.last /\ LoadingTl(v.tl).status = "loading"
  BY DEF View, Tl, LoadingTl
<1> HIDE DEF w
<1>4. ViewFresh(w, c, L, clock)
  BY <1>2, <1>3, StaysFresh
<1>5. a.page = NoRows /\ a.kind = "newest" /\ a.at = clock /\ a.step = "asked"
  BY DEF NewestAsked, Asked
<1>6. ReqFresh(a, w.tl, L, clock)
  BY <1>5 DEF ReqFresh
<1> QED
  BY <1>1, <1>2, <1>4, <1>5, <1>6, AsksFresh

LEMMA HealsFresh ==
  ASSUME NEW v \in View, NEW c, clock \in Int, clock >= 1, ViewFresh(v, c, log, clock),
         TlOK(v.tl, log, events)
  PROVE  ViewFresh(HealChannel(v), c, log, clock)
<1> DEFINE a == HealAsked(v)
<1>1. /\ HealChannel(v).tl = v.tl
      /\ HealChannel(v).reqs = v.reqs \union (IF CanHeal(v) THEN {a} ELSE {})
  BY HealChannelIs
<1>2. HealChannel(v).held = v.held
  BY DEF HealChannel, Ask
<1>3. CASE ~CanHeal(v)
  <2>1. HealChannel(v).reqs \subseteq v.reqs
    BY <1>1, <1>3
  <2> QED
    BY <1>1, <1>2, <2>1, StaysFresh
<1>4. CASE CanHeal(v)
  <2>1. /\ a.page = NoRows /\ a.kind = "heal" /\ a.at = clock /\ a.step = "asked"
        /\ a.since = (IF v.tl.synced > 0 THEN v.tl.synced ELSE clock) - Margin
        /\ a.min = IF v.tl.shown = {} THEN v.tl.last ELSE Min(v.tl.shown)
    BY DEF HealAsked, Asked
  <2>2. v.tl.synced > 0
    <3>1. /\ v.tl.status \notin {"none", "loading"} /\ v.tl.last > 0 /\ TlFresh(v.tl, v.held, log, clock)
          /\ v.tl.last \in Int /\ v.tl.synced \in Int
      BY <1>4 DEF CanHeal, ViewFresh, View, Tl
    <3>2. CASE "fail" \in May
      BY <3>1, <3>2 DEF TlFresh
    <3>3. CASE "fail" \notin May
      BY <3>1, <3>3 DEF TlFresh, TlOK
    <3> QED
      BY <3>2, <3>3
  <2>3. \A s \in v.tl.shown : ~ (s < a.min)
    <3>1. v.tl.shown \in SUBSET Nat
      BY DEF View, Tl
    <3>2. v.tl.shown # {} => a.min \in v.tl.shown /\ \A s \in v.tl.shown : a.min <= s
      BY <2>1, <3>1, MinIs
    <3> QED
      BY <3>1, <3>2
  <2>4. HealFresh(a, v.tl, log)
    BY <2>1, <2>2, <2>3 DEF HealFresh
  <2> HIDE DEF a
  <2>5. ReqFresh(a, v.tl, log, clock)
    BY <2>1, <2>4 DEF ReqFresh
  <2> QED
    BY <1>1, <1>2, <1>4, <2>1, <2>5, AsksFresh
<1> QED
  BY <1>3, <1>4

LEMMA Now ==
  ASSUME CursorInv, SyncInv
  PROVE  clock \in Int /\ clock >= 1 /\ ViewFresh(view, cache, log, clock) /\ view \in View
BY Facts DEF SyncInv, Stamps

LEMMA OpenFresh ==
  ASSUME CursorInv, SyncInv, OpenChannel
  PROVE  SyncInv'
<1> DEFINE t == view.tl
           u == [t EXCEPT !.older = Idle(@), !.newer = Idle(@)]
           b == Bump(view)
           v == [SettleSubLoad(b) EXCEPT !.open = TRUE]
<1>1. /\ cache' = cache /\ events' = events /\ UNCHANGED <<server, clock>>
      /\ \/ view' = IF Warm(v.tl) THEN HealChannel(v)
                    ELSE IF v.tl.shown = {} THEN Ask(v, "paint", 0, 0, 0, 0)
                    ELSE AskNewest(v)
         \/ \E s \in Target \cap Seqs :
              view' = Ask([v EXCEPT !.tl.status = "loading"], "around", s, 0, 0, clock)
  BY DEF OpenChannel, Client
<1>2. b \in View /\ b.tl = t /\ ViewFresh(b, cache, log, clock)
  BY Now, BumpFresh, BumpIs
<1>3. /\ u \in Tl /\ u.shown = t.shown /\ u.last = t.last /\ u.after = t.after /\ u.synced = t.synced
      /\ u.status = t.status /\ u.before = t.before /\ u.cached = t.cached
  BY Facts DEF Tl, Idle
<1>4. v \in View /\ v.tl = u /\ v.reqs = b.reqs /\ v.held = b.held
  <2>1. SettleSubLoad(b) = [b EXCEPT !.tl = u]
    BY <1>2 DEF SettleSubLoad, View
  <2> HIDE DEF u, b
  <2> QED
    BY <1>2, <1>3, <2>1 DEF View
<1> HIDE DEF b, v
<1>5. ViewFresh(v, cache, log, clock) /\ TlOK(v.tl, log, events)
  <2>1. ViewFresh(v, cache, log, clock)
    <3> HIDE DEF u
    <3> QED
      BY <1>2, <1>3, <1>4, StaysFresh
  <2> QED
    BY <1>3, <1>4, <2>1, Facts DEF TlOK
<1> HIDE DEF u
<1>6. ViewFresh(HealChannel(v), cache, log, clock) /\ ViewFresh(AskNewest(v), cache, log, clock)
  BY <1>4, <1>5, Now, HealsFresh, NewestFresh
<1>7. ViewFresh(Ask(v, "paint", 0, 0, 0, 0), cache, log, clock)
  <2> DEFINE a == Asked("paint", 0, 0, 0, 0)
             w == Ask(v, "paint", 0, 0, 0, 0)
  <2>1. w.tl = v.tl /\ w.reqs = v.reqs \union {a} /\ w.held = v.held
    BY <1>4 DEF Ask, Asked, View
  <2>2. a.page = NoRows /\ a.kind = "paint" /\ a.step = "asked"
    BY DEF Asked
  <2>3. ReqFresh(a, v.tl, log, clock)
    BY <2>2 DEF ReqFresh
  <2> HIDE DEF a, w
  <2>4. ViewFresh(w, cache, log, clock)
    BY <1>5, <2>1, <2>2, <2>3, AsksFresh
  <2> QED
    BY <2>4 DEF w
<1>8. ASSUME NEW s
      PROVE  ViewFresh(Ask([v EXCEPT !.tl.status = "loading"], "around", s, 0, 0, clock), cache, log, clock)
  <2> DEFINE x == [v EXCEPT !.tl.status = "loading"]
             a == Asked("around", s, 0, 0, clock)
             w == Ask(x, "around", s, 0, 0, clock)
  <2>1. w.tl = x.tl /\ w.reqs = x.reqs \union {a} /\ w.held = x.held
    BY <1>4 DEF Ask, Asked, View
  <2>2. a.page = NoRows /\ a.kind = "around" /\ a.step = "asked" /\ a.at = clock
    BY DEF Asked
  <2>3. /\ x.held = v.held /\ x.reqs = v.reqs /\ x.tl.shown = v.tl.shown /\ x.tl.synced = v.tl.synced
        /\ x.tl.last = v.tl.last /\ x.tl.status = "loading"
    BY <1>4 DEF View, Tl
  <2> HIDE DEF x, a, w
  <2>4. ViewFresh(x, cache, log, clock)
    BY <1>5, <2>3, StaysFresh
  <2>5. ReqFresh(a, x.tl, log, clock)
    BY <2>2, Now DEF ReqFresh
  <2>6. ViewFresh(w, cache, log, clock)
    BY <2>1, <2>2, <2>4, <2>5, AsksFresh
  <2> QED
    BY <2>6 DEF w, x
<1>9. ViewFresh(view', cache', log, clock)
  BY <1>1, <1>6, <1>7, <1>8
<1> QED
  BY <1>1, <1>9, NewFresh

LEMMA CloseFresh ==
  ASSUME CursorInv, SyncInv, CloseChannel
  PROVE  SyncInv'
<1> DEFINE v == [view EXCEPT !.open = FALSE, !.save = TRUE]
<1>1. view' = v /\ UNCHANGED <<server, clock>> /\ events' = events /\ cache' = cache
  BY DEF CloseChannel, Client
<1>2. v.tl = view.tl /\ v.reqs = view.reqs /\ v.held = view.held
  BY Facts DEF View
<1> HIDE DEF v
<1>3. ViewFresh(v, cache, log, clock)
  BY <1>2, Now, StaysFresh
<1> QED
  BY <1>1, <1>3, NewFresh

LEMMA GapFresh ==
  ASSUME CursorInv, SyncInv, GapTimer
  PROVE  SyncInv'
<1> DEFINE v == [view EXCEPT !.gap = 0]
<1>1. /\ view' = IF view.tl.last < view.gap THEN HealChannel(v) ELSE v
      /\ UNCHANGED <<server, clock>> /\ events' = events /\ cache' = cache
  BY DEF GapTimer, Client
<1>2. v \in View /\ v.tl = view.tl /\ v.reqs = view.reqs /\ v.held = view.held
  <2>1. 0 \in 0 .. MaxSeq
    BY Constants
  <2> QED
    BY <2>1, Facts DEF View
<1> HIDE DEF v
<1>3. ViewFresh(v, cache, log, clock)
  BY <1>2, Now, StaysFresh
<1>4. ViewFresh(HealChannel(v), cache, log, clock)
  BY <1>2, <1>3, Now, Facts, HealsFresh
<1>5. ViewFresh(view', cache', log, clock)
  BY <1>1, <1>3, <1>4
<1> QED
  BY <1>1, <1>5, NewFresh

LEMMA ReconnectFresh ==
  ASSUME CursorInv, SyncInv, Reconnect
  PROVE  SyncInv'
<1>1. /\ view' = IF ~view.open THEN view
                 ELSE IF view.tl.last = 0 THEN ReloadChannel(view) ELSE HealChannel(view)
      /\ UNCHANGED <<server, clock>> /\ events' = events /\ cache' = cache
  BY DEF Reconnect
<1>2. ViewFresh(HealChannel(view), cache, log, clock)
  BY Now, Facts, HealsFresh
<1>3. ViewFresh(ReloadChannel(view), cache, log, clock)
  <2>1. Bump(view) \in View /\ ViewFresh(Bump(view), cache, log, clock)
    BY Now, BumpIs, BumpFresh
  <2>2. ViewFresh(AskNewest(Bump(view)), cache, log, clock)
    BY <2>1, Now, NewestFresh
  <2> QED
    BY <2>2 DEF ReloadChannel
<1>4. ViewFresh(view', cache', log, clock)
  BY <1>1, <1>2, <1>3, Now
<1> QED
  BY <1>1, <1>4, NewFresh

LEMMA FirstFresh ==
  ASSUME NEW n, NEW c, NEW L, NEW now \in Int, now >= 0, Pasts(c.page, L)
  PROVE  ViewFresh(FirstView(n), c, L, now)
<1> DEFINE v == FirstView(n)
<1>1. /\ v.tl.synced = 0 /\ v.tl.shown = {} /\ v.tl.status = "none" /\ v.tl.last = 0
      /\ v.held = NoRows /\ v.reqs = {}
  BY DEF FirstView, EmptyTimeline
<1> HIDE DEF v
<1>2. Pasts(v.held, L)
  BY <1>1, Nothing DEF Pasts
<1>3. TlFresh(v.tl, v.held, L, now)
  BY <1>1 DEF TlFresh
<1> QED
  BY <1>1, <1>2, <1>3 DEF ViewFresh, v

LEMMA RestartFresh ==
  ASSUME CursorInv, SyncInv, Restart
  PROVE  SyncInv'
<1>1. view' = FirstView(Len(log)) /\ UNCHANGED <<server, clock>> /\ events' = {} /\ cache' = cache
  BY DEF Restart
<1>2. Pasts(cache.page, log) /\ clock >= 0 /\ clock \in Int
  BY Now DEF ViewFresh
<1>3. ViewFresh(FirstView(Len(log)), cache, log, clock)
  BY <1>2, FirstFresh
<1>4. events' \in SUBSET events
  BY <1>1
<1> QED
  BY <1>1, <1>3, <1>4, NewFresh

LEMMA WriteFresh ==
  ASSUME CursorInv, SyncInv, WriteCache
  PROVE  SyncInv'
<1> DEFINE v == [view EXCEPT !.save = FALSE]
           H == Highest(view.tl.shown, CacheSize)
<1>1. /\ view' = v /\ UNCHANGED <<server, clock>> /\ events' = events
      /\ cache' = cache \/ cache' = [page |-> Restrict(view.held, H), last |-> view.tl.last]
  BY DEF WriteCache, Client
<1>2. v.tl = view.tl /\ v.reqs = view.reqs /\ v.held = view.held
  BY Facts DEF View
<1>3. Pasts(view.held, log) /\ Pasts(cache.page, log)
  BY Now DEF ViewFresh
<1>4. Pasts(cache'.page, log)
  <2>1. H \subseteq DOMAIN view.held
    BY Facts DEF Highest
  <2>2. DOMAIN Restrict(view.held, H) = H /\ \A s \in H : Restrict(view.held, H)[s] = view.held[s]
    BY DEF Restrict
  <2> HIDE DEF H
  <2>3. Pasts(Restrict(view.held, H), log)
    BY <1>3, <2>1, <2>2 DEF Pasts
  <2> QED
    BY <1>1, <1>3, <2>3
<1> HIDE DEF v, H
<1>5. ViewFresh(v, cache, log, clock)
  BY <1>2, Now, StaysFresh
<1>6. ViewFresh(v, cache', log, clock)
  BY <1>4, <1>5 DEF ViewFresh
<1> QED
  BY <1>1, <1>6, NewFresh

\* Events go.
LEMMA GoneFresh ==
  ASSUME CursorInv, SyncInv, Lose \/ GoAway
  PROVE  SyncInv'
<1>1. view' = view /\ cache' = cache /\ UNCHANGED <<server, clock>> /\ events' \in SUBSET events
  BY DEF Lose, GoAway
<1> QED
  BY <1>1, Now, NewFresh

LEMMA FailFresh ==
  ASSUME CursorInv, SyncInv, Fail
  PROVE  SyncInv'
<1>1. PICK r \in view.reqs :
        view' = CASE r.kind = "older" -> [Without(r) EXCEPT !.tl.older = "error"]
                  [] r.kind = "newer" -> [Without(r) EXCEPT !.tl.newer = "error"]
                  [] r.kind = "heal" -> Without(r)
                  [] OTHER -> [Without(r) EXCEPT !.tl.status = "error"]
  BY DEF Fail, Client
<1>2. UNCHANGED <<server, clock>> /\ events' = events /\ cache' = cache
  BY DEF Fail, Client
<1>3. Without(r) \in View /\ Without(r).tl = view.tl /\ Without(r).reqs = view.reqs \ {r}
      /\ Without(r).held = view.held
  BY WithoutIs
<1>4. view' \in {Without(r), [Without(r) EXCEPT !.tl.older = "error"],
                 [Without(r) EXCEPT !.tl.newer = "error"], [Without(r) EXCEPT !.tl.status = "error"]}
  BY <1>1
<1>5. /\ view'.held = view.held /\ view'.reqs \subseteq view.reqs /\ view'.tl.shown = view.tl.shown
      /\ view'.tl.synced = view.tl.synced /\ view'.tl.last = view.tl.last
      /\ view'.tl.status = "ready" => view.tl.status = "ready"
  BY <1>3, <1>4, Facts DEF View, Tl
<1>6. ViewFresh(view', cache', log, clock)
  BY <1>2, <1>5, Now, StaysFresh
<1> QED
  BY <1>2, <1>6, NewFresh

\* An event tells of a row that is younger than the margin.
LEMMA YoungEvent ==
  ASSUME CursorInv, SyncInv, NEW e \in events
  PROVE  /\ e.seq \in 1 .. Len(log) /\ e.copy \in Row /\ e.copy.at \in Int
         /\ Past(e.copy, e.seq, log) /\ log[e.seq].at >= e.copy.at /\ log[e.seq].at > clock - Margin
<1>1. e.seq \in 1 .. Len(log) /\ e.copy \in Row /\ e.copy.at \in Int
  BY Facts DEF Event, Row, CursorInv, EventOK
<1>2. Past(e.copy, e.seq, log) /\ clock < e.copy.at + Margin
  BY DEF SyncInv, Stamps
<1>3. log[e.seq].at \in Int /\ clock \in Int /\ Margin \in Int
  BY <1>1, Copied, Facts, Constants
<1> QED
  BY <1>1, <1>2, <1>3 DEF Past

LEMMA ArrivalFresh ==
  ASSUME CursorInv, SyncInv, NEW s \in 1 .. Len(log), log[s].at > clock - Margin, NEW w,
         Pasts(w.held, log),
         \A x \in 1 .. Len(log) : \A since \in Int : Fresh(view.held, x, since, log) => Fresh(w.held, x, since, log),
         w.reqs = view.reqs, w.tl.shown \subseteq view.tl.shown \union {s}, w.tl.synced = view.tl.synced,
         w.tl.status = view.tl.status, ("fail" \in May /\ view.tl.last = 0) => w.tl.last = 0
  PROVE  ViewFresh(w, cache, log, clock)
<1> DEFINE t == view.tl
<1>1. /\ clock \in Int /\ Margin \in Nat /\ t.synced \in Int /\ t.shown \subseteq 1 .. Len(log) /\ log[s].at \in Int
      /\ t.synced - Margin \in Int
  BY Facts, Constants, Copied
<1>2. ViewFresh(view, cache, log, clock) /\ TlFresh(t, view.held, log, clock)
  BY Now DEF ViewFresh
<1>3. TlFresh(w.tl, w.held, log, clock)
  <2>1. ASSUME t.synced > 0, NEW x \in w.tl.shown PROVE Fresh(w.held, x, t.synced - Margin, log)
    <3>1. CASE x \in t.shown
      <4>1. Fresh(view.held, x, t.synced - Margin, log)
        BY <1>2, <2>1, <3>1 DEF TlFresh
      <4> QED
        BY <1>1, <3>1, <4>1
    <3>2. CASE x = s
      <4>1. ~ (log[s].at <= t.synced - Margin)
        BY <1>1, <1>2 DEF TlFresh
      <4> QED
        BY <3>2, <4>1 DEF Fresh
    <3> QED
      BY <3>1, <3>2
  <2> QED
    BY <1>2, <2>1 DEF TlFresh
<1>4. ASSUME NEW r \in view.reqs PROVE Pasts(r.page, log) /\ ReqFresh(r, w.tl, log, clock)
  <2>1. Pasts(r.page, log) /\ ReqFresh(r, t, log, clock) /\ r.at \in Int
    BY <1>2, Copied DEF ViewFresh
  <2>2. ASSUME r.live, r.kind = "heal" PROVE HealFresh(r, w.tl, log)
    <3>1. HealFresh(r, t, log) /\ r.at <= clock
      BY <2>1, <2>2 DEF ReqFresh
    <3>2. log[s].at > r.at - Margin
      BY <1>1, <2>1, <3>1
    <3>3. \A x \in w.tl.shown : x < r.min => log[x].at > r.at - Margin
      BY <3>1, <3>2 DEF HealFresh
    <3> QED
      BY <3>1, <3>3 DEF HealFresh
  <2> QED
    BY <2>1, <2>2 DEF ReqFresh
<1> QED
  BY <1>2, <1>3, <1>4 DEF ViewFresh

LEMMA NewMessageFresh ==
  ASSUME CursorHypothesis, CursorInv, SyncInv, NEW e \in events, e.kind = "new"
  PROVE  ViewFresh(NewMessage(e.seq, e.copy), cache, log, clock)
<1> DEFINE t == view.tl
           s == e.seq
           one == [x \in {s} |-> e.copy]
           exists == t.status # "none"
           h == IF exists \/ s \in DOMAIN view.held THEN Merge(view.held, one) ELSE view.held
           v == [view EXCEPT !.held = h, !.known = Max({@, s}), !.save = @ \/ exists]
           w == [v EXCEPT !.tl.shown = IF s \in Reply THEN @ ELSE @ \union {s},
                          !.tl.last = IF s = t.last + 1 THEN s ELSE @]
           m == NewMessage(s, e.copy)
<1>1. m = IF ~exists \/ t.after THEN v ELSE IF s > t.last + 1 THEN NoteGap(w, s) ELSE w
  BY DEF NewMessage
<1>2. s \in 1 .. Len(log) /\ log[s].at > clock - Margin /\ e.copy \in Row /\ Past(e.copy, s, log) /\ s > Start
  BY YoungEvent, Facts DEF CursorInv, EventOK
<1>3. view.held \in Copies /\ Pasts(view.held, log) /\ log \in Seq(Row)
  BY Copied, Facts, Now DEF ViewFresh
<1>4. one \in Copies /\ Pasts(one, log)
  <2>1. {s} \in SUBSET (1 .. MaxSeq) /\ one \in [{s} -> Row] /\ DOMAIN one = {s} /\ one[s] = e.copy
    BY <1>2, Facts DEF Event
  <2> HIDE DEF one, s
  <2>2. one \in Copies
    BY <2>1, AreCopies
  <2> QED
    BY <1>2, <2>1, <2>2 DEF Pasts
<1> HIDE DEF one
<1>5. /\ Pasts(h, log)
      /\ \A x \in 1 .. Len(log) : \A since \in Int : Fresh(view.held, x, since, log) => Fresh(h, x, since, log)
  <2>1. /\ Pasts(Merge(view.held, one), log)
        /\ \A x \in 1 .. Len(log) : \A since \in Int :
             Fresh(view.held, x, since, log) => Fresh(Merge(view.held, one), x, since, log)
    BY <1>3, <1>4, MergeFresh
  <2> QED
    BY <1>3, <2>1
<1> HIDE DEF h
<1>6. /\ v.held = h /\ v.reqs = view.reqs /\ v.tl = t
      /\ w.held = h /\ w.reqs = view.reqs /\ w.tl.shown \subseteq t.shown \union {s}
      /\ w.tl.synced = t.synced /\ w.tl.status = t.status
      /\ w.tl.last = IF s = t.last + 1 THEN s ELSE t.last
  BY Facts DEF View, Tl
<1> HIDE DEF v, w
<1>7. NoteGap(w, s).held = w.held /\ NoteGap(w, s).reqs = w.reqs /\ NoteGap(w, s).tl = w.tl
  BY DEF NoteGap
<1>8. t.last = 0 => w.tl.last = 0
  <2>1. Start >= 1 /\ Start \in Nat
    BY Constants DEF CursorHypothesis
  <2> QED
    BY <1>2, <1>6, <2>1
<1>9. /\ m.held = h /\ m.reqs = view.reqs /\ m.tl.shown \subseteq t.shown \union {s}
      /\ m.tl.synced = t.synced /\ m.tl.status = t.status /\ (t.last = 0 => m.tl.last = 0)
  BY <1>1, <1>6, <1>7, <1>8
<1> HIDE DEF m
<1>10. ViewFresh(m, cache, log, clock)
  <2> HIDE DEF s
  <2> QED
    BY <1>2, <1>5, <1>9, ArrivalFresh
<1> QED
  BY <1>10 DEF m

LEMMA UpdatedFresh ==
  ASSUME CursorInv, SyncInv, NEW e \in events
  PROVE  ViewFresh(UpdatedMessage(e.seq, e.copy), cache, log, clock)
<1> DEFINE t == view.tl
           s == e.seq
           back == /\ t.status # "none" /\ ~t.after /\ s \notin Reply
                   /\ t.shown # {} /\ s > Min(t.shown)
           h == [view.held EXCEPT ![s] = e.copy]
           v == [view EXCEPT !.held[s] = e.copy, !.save = TRUE,
                             !.tl.shown = IF back THEN @ \union {s} ELSE @]
<1>1. \/ UpdatedMessage(s, e.copy) = view
      \/ s \in DOMAIN view.held /\ ~ (e.copy.at < view.held[s].at) /\ UpdatedMessage(s, e.copy) = v
  BY DEF UpdatedMessage
<1>2. s \in 1 .. Len(log) /\ log[s].at > clock - Margin /\ e.copy.at \in Int /\ Past(e.copy, s, log) /\ log[s].at \in Int
  BY YoungEvent, Copied
<1>3. CASE s \in DOMAIN view.held /\ ~ (e.copy.at < view.held[s].at) /\ UpdatedMessage(s, e.copy) = v
  <2>1. Pasts(view.held, log) /\ view.held \in Copies
    BY Copied, Now DEF ViewFresh
  <2>2. DOMAIN h = DOMAIN view.held /\ h[s] = e.copy /\ \A x \in DOMAIN view.held : x # s => h[x] = view.held[x]
    BY <1>3, <2>1, CopiesAre
  <2>3. Pasts(h, log)
    <3> HIDE DEF h
    <3> QED
      BY <1>2, <2>1, <2>2 DEF Pasts
  <2>4. ASSUME NEW x \in 1 .. Len(log), NEW since \in Int, Fresh(view.held, x, since, log) PROVE Fresh(h, x, since, log)
    <3> HIDE DEF h
    <3>1. CASE x = s
      <4>1. ASSUME log[s].at <= since PROVE h[s] = log[s]
        <5>1. view.held[s] = log[s]
          BY <2>4, <3>1, <4>1 DEF Fresh
        <5> QED
          BY <1>2, <1>3, <2>2, <5>1 DEF Past
      <4> QED
        BY <1>3, <2>2, <3>1, <4>1 DEF Fresh
    <3>2. CASE x # s
      BY <2>2, <2>4, <3>2 DEF Fresh
    <3> QED
      BY <3>1, <3>2
  <2>5. /\ v.held = h /\ v.reqs = view.reqs /\ v.tl.shown \subseteq t.shown \union {s}
        /\ v.tl.synced = t.synced /\ v.tl.status = t.status /\ v.tl.last = t.last
    BY Facts DEF View, Tl
  <2> HIDE DEF h, v
  <2>6. ViewFresh(v, cache, log, clock)
    <3> HIDE DEF s
    <3> QED
      BY <1>2, <2>3, <2>4, <2>5, ArrivalFresh
  <2> QED
    BY <1>3, <2>6
<1> QED
  BY <1>1, <1>3, Now

LEMMA EventFresh ==
  ASSUME CursorHypothesis, CursorInv, SyncInv, HandleEvent
  PROVE  SyncInv'
<1>1. PICK e \in events :
        /\ events' = events \ {e}
        /\ view' = IF e.kind = "new" THEN NewMessage(e.seq, e.copy) ELSE UpdatedMessage(e.seq, e.copy)
        /\ UNCHANGED <<server, clock, online, cache, bounds>>
  BY DEF HandleEvent
<1>2. ViewFresh(view', cache', log, clock)
  BY <1>1, NewMessageFresh, UpdatedFresh
<1> QED
  BY <1>1, <1>2, NewFresh

\* An answer is a snapshot.
LEMMA RowsOf ==
  ASSUME CursorInv, NEW r \in Req, NEW S \in SUBSET (1 .. Len(log)), NEW b, NEW y, NEW a, a = Answer(r, S, b, y)
  PROVE  /\ a.kind = r.kind /\ a.live = r.live /\ a.at = r.at /\ a.since = r.since /\ a.min = r.min
         /\ a.from = r.from /\ a.beyond = y /\ DOMAIN a.page = S
         /\ Pasts(a.page, log) /\ Snapshot(a, log)
<1> DEFINE x == [r EXCEPT !.step = "answered", !.page = Rows(S), !.last = Len(log), !.before = b, !.beyond = y]
<1>1. a = x
  BY DEF Answer
<1>2. /\ x.kind = r.kind /\ x.live = r.live /\ x.at = r.at /\ x.since = r.since /\ x.min = r.min
      /\ x.from = r.from /\ x.beyond = y /\ x.page = Rows(S) /\ x.last = Len(log)
  BY DEF Req
<1> HIDE DEF x
<1>3. DOMAIN Rows(S) = S /\ \A s \in S : Rows(S)[s] = log[s]
  BY DEF Rows
<1>4. Pasts(a.page, log) /\ \A s \in DOMAIN a.page : Fresh(a.page, s, a.at - Margin, log)
  BY <1>1, <1>2, <1>3 DEF Pasts, Past, Fresh
<1>5. \A s \in a.last + 1 .. Len(log) : FALSE
  <2>1. Len(log) \in Nat /\ a.last = Len(log)
    BY <1>1, <1>2, Facts
  <2> QED
    BY <2>1
<1> QED
  BY <1>1, <1>2, <1>3, <1>4, <1>5 DEF Snapshot

LEMMA HealAnswered ==
  ASSUME CursorInv, NEW r \in Req, r.kind = "heal", r.from \in 0 .. Len(log), HealFresh(r, view.tl, log),
         NEW a, a = SyncChannel(r)
  PROVE  /\ a.kind = r.kind /\ a.at = r.at /\ Pasts(a.page, log) /\ Snapshot(a, log)
         /\ HealFresh(a, view.tl, log)
<1> DEFINE N == {s \in Seqs : s > r.from}
           C == {s \in Seqs : s >= r.min /\ s <= r.from /\ log[s].at > r.since}
           P == Lowest(N, SyncMax) \union Lowest(C, SyncMax)
           beyond == Cardinality(N) > SyncMax \/ Cardinality(C) > SyncMax
<1>1. a = Answer(r, P, FALSE, beyond)
  BY DEF SyncChannel
<1>2. C \in SUBSET (1 .. Len(log)) /\ N \in SUBSET (1 .. Len(log))
  BY DEF Seqs
<1>3. P \in SUBSET (1 .. Len(log))
  BY <1>2 DEF Lowest
<1>4. ~beyond => Lowest(C, SyncMax) = C
  <2>1. Cardinality(C) > SyncMax => beyond
    OBVIOUS
  <2> HIDE DEF C, beyond
  <2>2. SyncMax \in Nat /\ SyncMax \in Int /\ Len(log) \in Nat
    BY Constants, Facts
  <2>3. Cardinality(C) \in Nat
    BY <1>2, <2>2, Finite
  <2>4. Cardinality(C) <= SyncMax => Lowest(C, SyncMax) = C
    BY <1>2, <2>2, AllOfThem
  <2> QED
    BY <2>1, <2>2, <2>3, <2>4
<1>5. \A s \in 1 .. r.from : r.min <= s /\ r.since < log[s].at => s \in C
  <2>1. \A s \in 1 .. r.from : s \in 1 .. Len(log) /\ s <= r.from /\ log[s].at \in Int
    <3>1. Len(log) \in Nat /\ r.from \in 0 .. Len(log)
      BY Facts
    <3>2. \A s \in 1 .. r.from : s \in 1 .. Len(log) /\ s <= r.from
      BY <3>1
    <3> QED
      BY <3>2, Copied
  <2>2. r.min \in Int /\ r.since \in Int
    BY DEF Req
  <2> QED
    BY <2>1, <2>2 DEF Seqs
<1>6. C \in SUBSET (1 .. Len(log)) /\ Lowest(C, SyncMax) \subseteq P
  BY <1>2
<1> HIDE DEF N, C, P, beyond
<1>7. /\ a.kind = r.kind /\ a.at = r.at /\ a.since = r.since /\ a.min = r.min
      /\ a.from = r.from /\ a.beyond = beyond /\ DOMAIN a.page = P
      /\ Pasts(a.page, log) /\ Snapshot(a, log)
  <2> DEFINE no == FALSE
  <2>1. a = Answer(r, P, no, beyond)
    BY <1>1
  <2> HIDE DEF no
  <2> QED
    BY <1>3, <2>1, RowsOf
<1>8. ~a.beyond => \A s \in 1 .. a.from : a.min <= s /\ a.since < log[s].at => s \in DOMAIN a.page
  BY <1>4, <1>5, <1>6, <1>7
<1> QED
  BY <1>7, <1>8 DEF HealFresh

LEMMA ServeFresh ==
  ASSUME CursorInv, SyncInv, Serve
  PROVE  SyncInv'
<1>1. PICK r \in view.reqs :
    /\ r.live /\ r.kind \notin {"paint", "drop"}
    /\ LET a == CASE r.kind \in {"newest", "reload", "older"} -> ListMessages(r)
                  [] r.kind = "around" -> ListMessagesAround(r)
                  [] r.kind \in {"newer", "heal"} -> SyncChannel(r)
       IN view' = [view EXCEPT !.reqs = (@ \ {r}) \union {a}]
  BY DEF Serve, Client
<1>2. UNCHANGED <<server, clock>> /\ events' = events /\ cache' = cache
  BY DEF Serve, Client
<1> DEFINE a == CASE r.kind \in {"newest", "reload", "older"} -> ListMessages(r)
                  [] r.kind = "around" -> ListMessagesAround(r)
                  [] r.kind \in {"newer", "heal"} -> SyncChannel(r)
<1>3. /\ view'.reqs \subseteq view.reqs \union {a} /\ view'.tl = view.tl /\ view'.held = view.held
  BY <1>1, Facts DEF View
<1>4. /\ r \in Req /\ ReqFresh(r, view.tl, log, clock) /\ ReqOK(r, view.tl, view.reqs, log, events)
      /\ r.kind \in {"newest", "around", "reload", "heal"}
  <2>1. r \in Req /\ ReqFresh(r, view.tl, log, clock)
    BY Facts, Now DEF ViewFresh
  <2> QED
    BY <1>1, <2>1, Facts DEF ReqFresh, Req, Kinds
<1>5. /\ a.kind = r.kind /\ a.at = r.at /\ Pasts(a.page, log) /\ Snapshot(a, log)
      /\ a.kind = "heal" => HealFresh(a, view.tl, log)
  <2>1. CASE r.kind \in {"newest", "reload"}
    <3> DEFINE S == {s \in Seqs : Shows(s) /\ s < r.from}
               H == Highest(S, Page)
               b == Cardinality(S) > Page
               no == FALSE
    <3>1. a = Answer(r, H, b, no)
      BY <2>1 DEF ListMessages
    <3>2. H \in SUBSET (1 .. Len(log))
      BY DEF Highest, Seqs
    <3> HIDE DEF H, b, no, a
    <3> QED
      BY <1>4, <2>1, <3>1, <3>2, RowsOf
  <2>2. CASE r.kind = "around"
    <3> DEFINE B == {s \in Seqs : Shows(s) /\ s < r.from}
               A == {s \in Seqs : Shows(s) /\ s >= r.from}
               nb == Page \div 2
               na == Page - nb
               P == Highest(B, nb) \union Lowest(A, na)
               b == Cardinality(B) > nb
               y == Cardinality(A) > na
    <3>1. a = Answer(r, P, b, y)
      BY <2>2 DEF ListMessagesAround
    <3>2. P \in SUBSET (1 .. Len(log))
      BY DEF Highest, Lowest, Seqs
    <3> HIDE DEF P, b, y, a
    <3> QED
      BY <1>4, <2>2, <3>1, <3>2, RowsOf
  <2>3. CASE r.kind = "heal"
    <3>1. a = SyncChannel(r)
      BY <2>3
    <3>2. r.from \in 0 .. Len(log) /\ HealFresh(r, view.tl, log)
      <4>1. r.from \in 1 .. view.tl.last /\ view.tl.last \in 0 .. Len(log) /\ Len(log) \in Nat
        BY <1>1, <1>4, <2>3, Facts DEF ReqOK, HealOK, TlOK
      <4>2. HealFresh(r, view.tl, log)
        BY <1>1, <1>4, <2>3 DEF ReqFresh
      <4> QED
        BY <4>1, <4>2
    <3> HIDE DEF a
    <3> QED
      BY <1>4, <2>3, <3>1, <3>2, HealAnswered
  <2> QED
    BY <1>4, <2>1, <2>2, <2>3
<1> HIDE DEF a
<1>6. ReqFresh(a, view.tl, log, clock)
  BY <1>4, <1>5 DEF ReqFresh
<1>7. ViewFresh(view', cache', log, clock)
  <2>1. Pasts(view.held, log) /\ Pasts(cache.page, log) /\ TlFresh(view.tl, view.held, log, clock)
    BY Now DEF ViewFresh
  <2>2. \A q \in view'.reqs : Pasts(q.page, log) /\ ReqFresh(q, view.tl, log, clock)
    BY <1>3, <1>5, <1>6, Now DEF ViewFresh
  <2> QED
    BY <1>2, <1>3, <2>1, <2>2 DEF ViewFresh
<1> QED
  BY <1>2, <1>7, NewFresh

\* Without a heal under way, the timeline may be replaced.
LEMMA OtherFresh ==
  ASSUME NEW v, NEW w, NEW c, NEW L, NEW now, ViewFresh(v, c, L, now),
         w.reqs \subseteq v.reqs, \A q \in w.reqs : ~ (q.live /\ q.kind = "heal"),
         Pasts(w.held, L), TlFresh(w.tl, w.held, L, now)
  PROVE  ViewFresh(w, c, L, now)
<1>1. ASSUME NEW r \in w.reqs PROVE Pasts(r.page, L) /\ ReqFresh(r, w.tl, L, now)
  <2>1. Pasts(r.page, L) /\ ReqFresh(r, v.tl, L, now)
    BY DEF ViewFresh
  <2> QED
    BY <2>1 DEF ReqFresh
<1> QED
  BY <1>1 DEF ViewFresh

LEMMA PaintFresh ==
  ASSUME CursorInv, SyncInv, NEW r \in view.reqs, r.kind = "paint"
  PROVE  ViewFresh(PaintFromCache(r), cache, log, clock)
<1> DEFINE v == Without(r)
           u == [EmptyTimeline EXCEPT !.shown = DOMAIN cache.page, !.last = cache.last, !.cached = TRUE]
           p == [v EXCEPT !.held = Merge(@, cache.page), !.tl = u]
           R == view.reqs \ {r}
<1>1. v \in View /\ v.tl = view.tl /\ v.reqs = R /\ v.held = view.held
  BY WithoutIs
<1>2. PaintFromCache(r) = AskNewest(IF cache # NoCache /\ v.tl.shown = {} THEN p ELSE v)
  BY DEF PaintFromCache
<1>3. ViewFresh(v, cache, log, clock)
  <2> HIDE DEF v
  <2> QED
    BY <1>1, Now, StaysFresh
<1>4. CASE cache # NoCache /\ v.tl.shown = {}
  <2>1. "fail" \notin May
    BY <1>4 DEF CursorInv, FirstOK
  <2>2. cache.page \in Copies /\ cache.last \in 1 .. Len(log) /\ Len(log) \in Nat /\ Len(log) <= MaxSeq
    BY <1>4, Facts DEF CacheOK
  <2>3. DOMAIN cache.page \in SUBSET (1 .. MaxSeq) /\ cache.last \in 0 .. MaxSeq
    <3>1. cache.last \in 0 .. MaxSeq
      BY <2>2, Constants
    <3> QED
      BY <2>2, <3>1, CopiesAre
  <2>4. u \in Tl /\ u.synced = 0 /\ u.status = "idle"
    BY <2>3, Nothing DEF EmptyTimeline, Tl
  <2>5. view.held \in Copies /\ log \in Seq(Row) /\ Pasts(view.held, log) /\ Pasts(cache.page, log)
    BY Copied, Facts, Now DEF ViewFresh
  <2>6. Merge(view.held, cache.page) \in Copies /\ Pasts(Merge(view.held, cache.page), log)
    BY <2>2, <2>5, MergeIs, MergeFresh
  <2>7. p \in View /\ p.tl = u /\ p.reqs = R /\ p.held = Merge(view.held, cache.page)
    <3> HIDE DEF u, v, R
    <3> QED
      BY <1>1, <2>4, <2>6 DEF View
  <2>8. \A q \in R : ~q.live
    <3>1. r.live /\ r.kind \in PageKinds
      BY Facts DEF ReqOK, PageKinds
    <3> QED
      BY <3>1, Alone
  <2> HIDE DEF u, p
  <2>9. TlFresh(p.tl, p.held, log, clock)
    BY <2>1, <2>4, <2>7, Now DEF TlFresh
  <2>10. ViewFresh(p, cache, log, clock)
    BY <2>6, <2>7, <2>8, <2>9, Now, OtherFresh
  <2>11. ViewFresh(AskNewest(p), cache, log, clock)
    BY <2>7, <2>10, Now, NewestFresh
  <2> QED
    BY <1>2, <1>4, <2>11
<1>5. CASE ~ (cache # NoCache /\ v.tl.shown = {})
  <2> HIDE DEF v, p
  <2>1. ViewFresh(AskNewest(v), cache, log, clock)
    BY <1>1, <1>3, Now, NewestFresh
  <2> QED
    BY <1>2, <1>5, <2>1
<1> QED
  BY <1>4, <1>5

\* A page from the server is as fresh as its question.
LEMMA PageFresh ==
  ASSUME CursorInv, SyncInv, NEW r \in view.reqs, r.live, r.step = "answered",
         r.kind \in {"newest", "around", "reload"},
         NEW x, x.reqs = view.reqs \ {r}, x.held = Merge(view.held, r.page), x.tl.synced = r.at,
         x.tl.shown \subseteq DOMAIN r.page \union {s \in view.tl.shown : s > r.last}
  PROVE  ViewFresh(x, cache, log, clock) /\ ViewFresh(HealIfBehind(x), cache, log, clock)
<1>1. /\ r.page \in Copies /\ view.held \in Copies /\ log \in Seq(Row) /\ r.at \in Int /\ r.last \in 0 .. MaxSeq
      /\ view.tl.shown \subseteq 1 .. Len(log) /\ Margin \in Nat /\ clock \in Int /\ Len(log) \in Nat
  BY Copied, Facts, Constants
<1>2. Pasts(view.held, log) /\ Pasts(r.page, log) /\ Snapshot(r, log) /\ 1 <= r.at /\ r.at <= clock
  BY Now DEF ViewFresh, ReqFresh
<1>3. /\ Pasts(x.held, log)
      /\ \A s \in 1 .. Len(log) : \A since \in Int : Fresh(r.page, s, since, log) => Fresh(x.held, s, since, log)
  BY <1>1, <1>2, MergeFresh
<1>4. ASSUME NEW s \in x.tl.shown PROVE Fresh(x.held, s, r.at - Margin, log)
  <2>1. CASE s \in DOMAIN r.page
    <3>1. s \in 1 .. Len(log) /\ Fresh(r.page, s, r.at - Margin, log) /\ r.at - Margin \in Int
      BY <1>1, <1>2, <2>1 DEF Pasts, Snapshot
    <3> QED
      BY <1>3, <3>1
  <2>2. CASE s \in view.tl.shown /\ s > r.last
    <3>1. s \in 1 .. Len(log) /\ s \in r.last + 1 .. Len(log)
      BY <1>1, <2>2
    <3>2. log[s].at > r.at - Margin /\ log[s].at \in Int
      BY <1>2, <3>1, Copied DEF Snapshot
    <3> QED
      BY <1>1, <3>2 DEF Fresh
  <2> QED
    BY <2>1, <2>2
<1>5. TlFresh(x.tl, x.held, log, clock)
  BY <1>1, <1>2, <1>4 DEF TlFresh
<1>6. \A q \in x.reqs : ~q.live
  <2>1. r.kind \in PageKinds
    BY DEF PageKinds
  <2> QED
    BY <2>1, Alone
<1>7. ViewFresh(x, cache, log, clock)
  BY <1>3, <1>5, <1>6, Now, OtherFresh
<1>8. HealIfBehind(x).tl = x.tl /\ HealIfBehind(x).held = x.held /\ HealIfBehind(x).reqs = x.reqs
  BY DEF HealIfBehind, NoteGap
<1> QED
  BY <1>7, <1>8, StaysFresh

LEMMA LoadFresh ==
  ASSUME CursorInv, SyncInv, NEW r \in view.reqs, r.live, r.step = "answered"
  PROVE  /\ r.kind \in {"newest", "reload"} => ViewFresh(LoadNewest(r), cache, log, clock)
         /\ r.kind = "around" => ViewFresh(LoadAround(r), cache, log, clock)
<1> DEFINE v == Without(r)
           h == Merge(view.held, r.page)
<1>1. v \in View /\ v.tl = view.tl /\ v.reqs = view.reqs \ {r} /\ v.held = view.held
  BY WithoutIs
<1>2. ASSUME r.kind \in {"newest", "reload"} PROVE ViewFresh(LoadNewest(r), cache, log, clock)
  <2> DEFINE u == [EmptyTimeline EXCEPT !.shown = DOMAIN r.page \union {s \in view.tl.shown : s > r.last},
                                        !.before = r.before, !.status = "ready",
                                        !.last = r.last, !.synced = r.at]
             x == [v EXCEPT !.held = h, !.save = TRUE, !.tl = u]
  <2>1. LoadNewest(r) = HealIfBehind(x)
    BY <1>1 DEF LoadNewest
  <2>2. u.synced = r.at /\ u.shown = DOMAIN r.page \union {s \in view.tl.shown : s > r.last}
    BY DEF EmptyTimeline
  <2> HIDE DEF u, v, h
  <2>3. x.reqs = view.reqs \ {r} /\ x.held = h /\ x.tl = u
    BY <1>1 DEF View
  <2> HIDE DEF x
  <2>4. ViewFresh(HealIfBehind(x), cache, log, clock)
    BY <1>2, <2>2, <2>3, PageFresh DEF h
  <2> QED
    BY <2>1, <2>4
<1>3. ASSUME r.kind = "around" PROVE ViewFresh(LoadAround(r), cache, log, clock)
  <2> DEFINE u == [EmptyTimeline EXCEPT !.shown = DOMAIN r.page, !.before = r.before,
                        !.after = r.beyond, !.status = "ready", !.synced = r.at,
                        !.last = IF ~r.beyond THEN r.last
                                 ELSE IF DOMAIN r.page = {} THEN r.from ELSE Max(DOMAIN r.page)]
             x == [v EXCEPT !.held = h, !.tl = u]
             y == [x EXCEPT !.save = TRUE]
  <2>1. LoadAround(r) = IF r.beyond THEN x ELSE HealIfBehind(y)
    BY <1>1 DEF LoadAround
  <2>2. u.synced = r.at /\ u.shown = DOMAIN r.page
    BY DEF EmptyTimeline
  <2> HIDE DEF u, v, h
  <2>3. x.reqs = view.reqs \ {r} /\ x.held = h /\ x.tl = u
    BY <1>1 DEF View
  <2>4. y.reqs = view.reqs \ {r} /\ y.held = h /\ y.tl = u
    BY <1>1 DEF View
  <2> HIDE DEF x, y
  <2>5. ViewFresh(x, cache, log, clock)
    BY <1>3, <2>2, <2>3, PageFresh DEF h
  <2>6. ViewFresh(HealIfBehind(y), cache, log, clock)
    BY <1>3, <2>2, <2>4, PageFresh DEF h
  <2> QED
    BY <2>1, <2>5, <2>6
<1> QED
  BY <1>2, <1>3

\* A heal: what it brings is fresh, and what it leaves out has not changed since the last one.
LEMMA SyncFresh ==
  ASSUME CursorInv, SyncInv, NEW r \in view.reqs, r.live, r.step = "answered",
         r.kind = "heal", ~r.beyond
  PROVE  ViewFresh(ApplySync(r), cache, log, clock)
<1> DEFINE t == view.tl
           x == ApplySync(r)
<1>1. /\ x.reqs = view.reqs \ {r} /\ x.held = Merge(view.held, r.page) /\ x.tl.synced = r.at
      /\ x.tl.shown = t.shown \union {s \in DOMAIN r.page : s > r.from /\ s \notin Reply}
  <2>1. Without(r) \in View /\ Without(r).tl = t /\ Without(r).reqs = view.reqs \ {r} /\ Without(r).held = view.held
    BY WithoutIs
  <2>2. PICK v \in View : v = Without(r) /\ v.tl = t /\ v.reqs = view.reqs \ {r} /\ v.held = view.held
    BY <2>1
  <2> DEFINE S == t.shown \union {s \in DOMAIN r.page : s > r.from /\ s \notin Reply}
             h == Merge(view.held, r.page)
             last == Max({t.last, r.last})
             known == Max({v.known, r.last})
             u == [t EXCEPT !.shown = S, !.last = last, !.synced = r.at, !.status = "ready", !.cached = FALSE]
  <2>3. x = [v EXCEPT !.held = h, !.save = TRUE, !.known = known, !.tl = u]
    BY <2>2 DEF ApplySync, View, Tl
  <2> HIDE DEF x, h, last, known, S
  <2>4. u.shown = S /\ u.synced = r.at
    BY Facts DEF Tl
  <2> HIDE DEF u
  <2>5. x.reqs = view.reqs \ {r} /\ x.held = h /\ x.tl = u
    BY <2>2, <2>3 DEF View
  <2> QED
    BY <2>4, <2>5 DEF h, S
<1> HIDE DEF x
<1>2. /\ r.page \in Copies /\ view.held \in Copies /\ log \in Seq(Row) /\ r.at \in Int /\ r.last \in 0 .. MaxSeq
      /\ r.min \in Int /\ r.since \in Int /\ t.synced \in Int /\ r.from \in Int
      /\ t.shown \subseteq 1 .. Len(log) /\ Margin \in Nat /\ clock \in Int /\ Len(log) \in Nat
  BY Copied, Facts, Constants
<1>3. /\ Pasts(view.held, log) /\ Pasts(r.page, log) /\ Snapshot(r, log) /\ 1 <= r.at /\ r.at <= clock
      /\ HealFresh(r, t, log) /\ TlFresh(t, view.held, log, clock)
  BY Now DEF ViewFresh, ReqFresh
<1>4. /\ Pasts(x.held, log)
      /\ \A s \in 1 .. Len(log) : \A since \in Int :
           Fresh(view.held, s, since, log) \/ Fresh(r.page, s, since, log) => Fresh(x.held, s, since, log)
  BY <1>1, <1>2, <1>3, MergeFresh
<1>5. \A s \in r.from + 1 .. r.last : s \in DOMAIN r.page
  BY Facts DEF ReqOK, HealOK, SyncOK
<1>6. ASSUME NEW s \in DOMAIN r.page PROVE Fresh(x.held, s, r.at - Margin, log)
  <2>1. s \in 1 .. Len(log) /\ Fresh(r.page, s, r.at - Margin, log) /\ r.at - Margin \in Int
    BY <1>2, <1>3 DEF Pasts, Snapshot
  <2> QED
    BY <1>4, <2>1
<1>7. ASSUME NEW s \in t.shown, s \notin DOMAIN r.page, log[s].at <= r.at - Margin
      PROVE  s \in DOMAIN x.held /\ x.held[s] = log[s]
  <2>1. s \in 1 .. Len(log) /\ log[s].at \in Int /\ s \in Int
    BY <1>2, Copied
  <2>2. ~ (s < r.min)
    BY <1>2, <1>3, <1>7, <2>1 DEF HealFresh
  <2>3. ~ (s > r.last)
    <3>1. s > r.last => s \in r.last + 1 .. Len(log)
      BY <1>2, <2>1
    <3> QED
      BY <1>2, <1>3, <1>7, <2>1, <3>1 DEF Snapshot
  <2>4. ~ (s > r.from)
    <3>1. s > r.from => s \in r.from + 1 .. r.last
      BY <1>2, <2>1, <2>3
    <3> QED
      BY <1>5, <1>7, <3>1
  <2>5. s \in 1 .. r.from /\ r.min <= s
    BY <1>2, <2>1, <2>2, <2>4
  <2>6. ~ (r.since < log[s].at)
    BY <1>3, <1>7, <2>5 DEF HealFresh
  <2>7. log[s].at <= t.synced - Margin /\ t.synced > 0
    BY <1>2, <1>3, <2>1, <2>6 DEF HealFresh
  <2>8. Fresh(view.held, s, t.synced - Margin, log) /\ t.synced - Margin \in Int
    BY <1>2, <1>3, <2>7 DEF TlFresh
  <2>9. Fresh(x.held, s, t.synced - Margin, log)
    BY <1>4, <2>1, <2>8
  <2> QED
    BY <2>7, <2>9 DEF Fresh
<1>8. \A s \in x.tl.shown : Fresh(x.held, s, r.at - Margin, log)
  <2>1. \A s \in x.tl.shown : s \in DOMAIN r.page \/ s \in t.shown
    BY <1>1
  <2> QED
    BY <1>6, <1>7, <2>1 DEF Fresh
<1>9. TlFresh(x.tl, x.held, log, clock)
  BY <1>1, <1>2, <1>3, <1>8 DEF TlFresh
<1>10. \A q \in x.reqs : ~ (q.live /\ q.kind = "heal")
  <2>1. \A q \in view.reqs \ {r} : q.kind \notin HealKinds
    BY BesideHeal
  <2> QED
    BY <1>1, <2>1 DEF HealKinds
<1>11. ViewFresh(x, cache, log, clock)
  BY <1>1, <1>4, <1>9, <1>10, Now, OtherFresh
<1> QED
  BY <1>11 DEF x

LEMMA DropFresh ==
  ASSUME CursorInv, SyncInv, NEW r \in view.reqs, r.kind = "heal"
  PROVE  ViewFresh(DropCache(r), cache, log, clock)
<1> DEFINE d == [r EXCEPT !.kind = "drop", !.page = NoRows]
           x == DropCache(r)
<1>1. Without(r) \in View /\ Without(r).tl = view.tl /\ Without(r).reqs = view.reqs \ {r} /\ Without(r).held = view.held
  BY WithoutIs
<1>2. x.tl = view.tl /\ x.held = view.held /\ x.reqs \subseteq view.reqs \union {d}
  BY <1>1 DEF DropCache, View
<1>3. d.page = NoRows /\ d.kind = "drop" /\ d.at = r.at
  BY Facts DEF Req
<1> HIDE DEF d, x
<1>4. ReqFresh(d, view.tl, log, clock)
  <2>1. ReqFresh(r, view.tl, log, clock)
    BY Now DEF ViewFresh
  <2> QED
    BY <1>3, <2>1 DEF ReqFresh
<1>5. ViewFresh(x, cache, log, clock)
  BY <1>2, <1>3, <1>4, Now, AsksFresh
<1> QED
  BY <1>5 DEF x

LEMMA OverFresh ==
  ASSUME CursorInv, SyncInv, NEW r \in view.reqs, r.kind = "drop"
  PROVE  ViewFresh(StartOver(r), NoCache, log, clock)
<1> DEFINE u == [EmptyTimeline EXCEPT !.status = "loading"]
           v == [Without(r) EXCEPT !.tl = u]
           a == Asked("reload", MaxSeq + 1, 0, 0, clock)
           x == Ask(Bump(v), "reload", MaxSeq + 1, 0, 0, clock)
<1>1. Without(r) \in View /\ Without(r).reqs = view.reqs \ {r} /\ Without(r).held = view.held
  BY WithoutIs
<1>2. u \in Tl /\ u.shown = {} /\ u.last = 0 /\ u.synced = 0 /\ u.status = "loading"
  BY Nothing DEF EmptyTimeline, Tl
<1>3. StartOver(r) = x
  BY DEF StartOver
<1> HIDE DEF u
<1>4. v \in View /\ v.tl = u /\ v.reqs = view.reqs \ {r} /\ v.held = view.held
  BY <1>1, <1>2 DEF View
<1> HIDE DEF v
<1>5. ViewFresh(v, cache, log, clock)
  <2>1. Pasts(v.held, log)
    BY <1>4, Now DEF ViewFresh
  <2>2. TlFresh(v.tl, v.held, log, clock)
    BY <1>2, <1>4, Now DEF TlFresh
  <2>3. \A q \in v.reqs : ~ (q.live /\ q.kind = "heal")
    <3>1. ASSUME NEW q \in view.reqs, q.kind = "heal" PROVE q = r
      BY <3>1, Facts DEF ReqOK, HealKinds
    <3> QED
      BY <1>4, <3>1
  <2> QED
    BY <1>4, <2>1, <2>2, <2>3, Now, OtherFresh
<1>6. ViewFresh(Bump(v), cache, log, clock) /\ Bump(v) \in View
  BY <1>4, <1>5, BumpFresh, BumpIs
<1>7. x.tl = Bump(v).tl /\ x.held = Bump(v).held /\ x.reqs = Bump(v).reqs \union {a}
  <2>1. PICK b \in View : b = Bump(v)
    BY <1>6
  <2> QED
    BY <2>1 DEF Ask, Asked, View
<1>8. a.page = NoRows /\ a.kind = "reload" /\ a.step = "asked" /\ a.at = clock
  BY DEF Asked
<1> HIDE DEF x, a
<1>9. ReqFresh(a, Bump(v).tl, log, clock)
  BY <1>8, Now DEF ReqFresh
<1>10. ViewFresh(x, cache, log, clock)
  BY <1>6, <1>7, <1>8, <1>9, AsksFresh
<1>11. Pasts(NoCache.page, log)
  BY Nothing DEF NoCache, Pasts
<1> QED
  BY <1>3, <1>10, <1>11 DEF ViewFresh

LEMMA ReceiveFresh ==
  ASSUME CursorInv, SyncInv, Receive
  PROVE  SyncInv'
<1>1. PICK r \in view.reqs :
        \/ r.kind = "paint" /\ view' = PaintFromCache(r) /\ cache' = cache
        \/ r.kind = "drop" /\ view' = StartOver(r) /\ cache' = NoCache
        \/ /\ ~r.live /\ cache' = cache
           /\ view' = CASE r.kind = "older" -> [Without(r) EXCEPT !.tl.older = Idle(@)]
                        [] r.kind = "newer" -> [Without(r) EXCEPT !.tl.newer = Idle(@)]
                        [] OTHER -> Without(r)
        \/ /\ r.live /\ r.step = "answered" /\ r.kind # "drop" /\ cache' = cache
           /\ view' = CASE r.kind \in {"newest", "reload"} -> LoadNewest(r)
                        [] r.kind = "around" -> LoadAround(r)
                        [] r.kind = "older" -> TakeOlder(r)
                        [] r.kind = "newer" -> TakeNewer(r)
                        [] r.kind = "heal" -> IF r.beyond THEN DropCache(r) ELSE ApplySync(r)
  BY DEF Receive, Client
<1>2. UNCHANGED <<server, clock>> /\ events' = events
  BY DEF Receive, Client
<1>3. r.kind \in Kinds \ {"older", "newer"}
  <2>1. r \in Req /\ ReqFresh(r, view.tl, log, clock)
    BY Facts, Now DEF ViewFresh
  <2> QED
    BY <2>1 DEF Req, ReqFresh
<1>4. CASE r.kind = "paint" /\ view' = PaintFromCache(r) /\ cache' = cache
  BY <1>2, <1>4, PaintFresh, NewFresh
<1>5. CASE r.kind = "drop" /\ view' = StartOver(r) /\ cache' = NoCache
  BY <1>2, <1>5, OverFresh, NewFresh
<1>6. CASE ~r.live /\ cache' = cache /\ view' = Without(r)
  <2>1. /\ Without(r).tl = view.tl /\ Without(r).reqs \subseteq view.reqs /\ Without(r).held = view.held
    BY WithoutIs
  <2>2. ViewFresh(Without(r), cache, log, clock)
    BY <2>1, Now, StaysFresh
  <2> QED
    BY <1>2, <1>6, <2>2, NewFresh
<1>7. CASE r.live /\ r.step = "answered" /\ cache' = cache /\ r.kind \in {"newest", "reload"} /\ view' = LoadNewest(r)
  BY <1>2, <1>7, LoadFresh, NewFresh
<1>8. CASE r.live /\ r.step = "answered" /\ cache' = cache /\ r.kind = "around" /\ view' = LoadAround(r)
  BY <1>2, <1>8, LoadFresh, NewFresh
<1>9. CASE r.kind = "heal" /\ cache' = cache /\ view' = DropCache(r)
  BY <1>2, <1>9, DropFresh, NewFresh
<1>10. CASE r.live /\ r.step = "answered" /\ cache' = cache /\ r.kind = "heal" /\ ~r.beyond /\ view' = ApplySync(r)
  BY <1>2, <1>10, SyncFresh, NewFresh
<1>11. ASSUME ~r.live,
              view' = CASE r.kind = "older" -> [Without(r) EXCEPT !.tl.older = Idle(@)]
                        [] r.kind = "newer" -> [Without(r) EXCEPT !.tl.newer = Idle(@)]
                        [] OTHER -> Without(r)
       PROVE  view' = Without(r)
  BY <1>3, <1>11
<1>12. ASSUME r.live, r.step = "answered", r.kind # "drop",
              view' = CASE r.kind \in {"newest", "reload"} -> LoadNewest(r)
                        [] r.kind = "around" -> LoadAround(r)
                        [] r.kind = "older" -> TakeOlder(r)
                        [] r.kind = "newer" -> TakeNewer(r)
                        [] r.kind = "heal" -> IF r.beyond THEN DropCache(r) ELSE ApplySync(r)
       PROVE  \/ r.kind \in {"newest", "reload"} /\ view' = LoadNewest(r)
              \/ r.kind = "around" /\ view' = LoadAround(r)
              \/ r.kind = "heal" /\ r.beyond /\ view' = DropCache(r)
              \/ r.kind = "heal" /\ ~r.beyond /\ view' = ApplySync(r)
  <2>1. r.kind # "paint"
    BY <1>12, Facts DEF ReqOK
  <2>2. r.kind \in {"newest", "reload", "around", "heal"}
    BY <1>3, <1>12, <2>1 DEF Kinds
  <2> QED
    BY <1>12, <2>2
<1> QED
  BY <1>1, <1>4, <1>5, <1>6, <1>7, <1>8, <1>9, <1>10, <1>11, <1>12

LEMMA SyncInit == CursorHypothesis /\ Init => SyncInv
<1> SUFFICES ASSUME CursorHypothesis, Init PROVE SyncInv
  OBVIOUS
<1>1. /\ log = [s \in 1 .. Start |-> [ver |-> 0, at |-> 0, gone |-> FALSE]] /\ changing = {} /\ clock = Margin
      /\ events = {} /\ view = FirstView(Start) /\ cache = NoCache
  BY DEF Init
<1>2. Start \in Nat /\ Margin \in Nat /\ Margin >= 1
  BY Constants
<1>3. Len(log) = Start /\ \A s \in 1 .. Start : log[s].at = 0
  BY <1>1, <1>2
<1>4. Stamps
  BY <1>1, <1>2, <1>3 DEF Stamps
<1>5. Pasts(cache.page, log)
  BY <1>1, Nothing DEF NoCache, Pasts
<1>6. ViewFresh(FirstView(Start), cache, log, clock)
  BY <1>1, <1>2, <1>5, FirstFresh
<1> QED
  BY <1>1, <1>4, <1>6 DEF SyncInv

LEMMA SyncStep == SyncHypothesis /\ CursorInv /\ SyncInv /\ [Next]_vars => SyncInv'
<1> SUFFICES ASSUME SyncHypothesis, CursorInv, SyncInv, [Next]_vars PROVE SyncInv'
  OBVIOUS
<1>1. CASE OpenChannel
  BY <1>1, OpenFresh
<1>2. CASE CloseChannel
  BY <1>2, CloseFresh
<1>3. CASE LoadOlder \/ LoadNewer
  BY <1>3 DEF LoadOlder, LoadNewer, SyncHypothesis
<1>4. CASE Serve
  BY <1>4, ServeFresh
<1>5. CASE Receive
  BY <1>5, ReceiveFresh
<1>6. CASE HandleEvent
  BY <1>6, EventFresh DEF SyncHypothesis
<1>7. CASE GapTimer
  BY <1>7, GapFresh
<1>8. CASE Reconnect
  BY <1>8, ReconnectFresh
<1>9. CASE WriteCache
  BY <1>9, WriteFresh
<1>10. CASE CommitChange
  BY <1>10, CommitFresh
<1>11. CASE Fail
  BY <1>11, FailFresh
<1>12. CASE Lose \/ GoAway
  BY <1>12, GoneFresh
<1>13. CASE Restart
  BY <1>13, RestartFresh
<1>14. CASE Post
  BY <1>14, PostFresh
<1>15. CASE BeginChange \/ Tick
  BY <1>15, TimeFresh
<1>16. CASE UNCHANGED vars
  <2>1. view' = view /\ cache' = cache /\ UNCHANGED <<server, clock>> /\ events' = events
    BY <1>16 DEF vars
  <2> QED
    BY <2>1, Now, NewFresh
<1> QED
  BY <1>1, <1>2, <1>3, <1>4, <1>5, <1>6, <1>7, <1>8, <1>9, <1>10, <1>11, <1>12, <1>13, <1>14, <1>15,
     <1>16 DEF Next, Running

\* No change is missed (applySync, CHANGED_MARGIN_MS): what a loaded timeline shows is the
\* row, unless the row has changed since the margin before syncedAt, from where the next sync
\* asks for changes; however events are lost and whichever way the timeline was loaded.
THEOREM SyncedAlwaysHonest ==
  ASSUME SyncHypothesis
  PROVE  Spec => []SyncedHonest
<1>1. CursorHypothesis
  BY DEF SyncHypothesis
<1>2. Init => CursorInv /\ SyncInv
  BY <1>1, CursorInit, SyncInit
<1>3. CursorInv /\ SyncInv /\ [Next]_vars => (CursorInv /\ SyncInv)'
  BY <1>1, CursorStep, SyncStep
<1>4. ASSUME CursorInv, SyncInv PROVE SyncedHonest
  <2>1. TlFresh(view.tl, view.held, log, clock)
    BY <1>4 DEF SyncInv, ViewFresh
  <2> QED
    BY <2>1 DEF TlFresh, Fresh, SyncedHonest
<1>5. CursorInv /\ SyncInv => SyncedHonest
  BY <1>4
<1> QED
  BY <1>2, <1>3, <1>5, PTL DEF Spec
=============================================================================
