------------------------------ MODULE Timeline ------------------------------
(***************************************************************************)
(* One client's copy of one conversation: apps/web/src/sync/channels.ts    *)
(* with the reducers of msg.new and msg.upd (reducers.ts), over the        *)
(* committed rows of the server, realtime events that may be reordered or  *)
(* lost, and requests whose answer is a snapshot taken some time between   *)
(* the question and the answer (list_messages, list_messages_around and    *)
(* sync_channel of 0210_messages.sql, each one STABLE function).           *)
(*                                                                         *)
(* A message is its seq.  JavaScript runs a handler to its first await, so *)
(* one action is one such run.  A request belongs to the generation of its *)
(* channel (loadGen); an opening bumps it, which here makes the requests   *)
(* that are out "dead".                                                    *)
(***************************************************************************)
EXTENDS Integers, FiniteSets, FiniteSetsExt, Sequences, Functions

CONSTANTS Start,     \* messages that were there before the client started
          MaxSeq,    \* bound: messages posted
          Reply,     \* the messages that are replies, not shown in the channel
          Page, SyncMax, CacheSize,  \* page size, limit of sync_channel, size of a cached page
          Margin,    \* CHANGED_MARGIN_MS on the clock; a transaction is shorter
          MaxClock,  \* bound: transactions and ticks
          MaxOpens, MaxFaults, \* bounds: openings; faults (lost, failed, away, restarted)
          Target,    \* bound: messages that links point at
          May        \* bound: what the person, the writers and the network do besides

ASSUME TimelineAssumption ==
  /\ {Start, MaxSeq, MaxClock, MaxOpens, MaxFaults} \subseteq Nat
  /\ {Page, SyncMax, CacheSize, Margin} \subseteq Nat \ {0}
  /\ Start <= MaxSeq /\ Reply \subseteq 1 .. MaxSeq /\ Target \subseteq 1 .. MaxSeq
  /\ May \subseteq {"older", "newer", "close", "change", "delete", "overlap",
                    "early", "late", "lose", "fail", "away", "restart"}

VARIABLES
  log,      \* log[s]: the committed row of message s
  changing, \* transactions that are open: the message, now() of the start, a deletion or not
  clock,
  events,   \* realtime events on their way
  online,   \* the realtime topics are joined
  view,     \* the client: timeline, messages held, known last_seq, gap timer, requests out
  cache,    \* the page of this channel in IndexedDB
  opens, faults

server == <<log, changing>>
bounds == <<opens, faults>>
vars == <<server, clock, events, online, view, cache, bounds>>

-----------------------------------------------------------------------------
(* The server's answers *)

NoRows == [s \in {} |-> 0]
Rows(S) == [s \in S |-> log[s]]
Seqs == 1 .. Len(log)
Shows(s) == s \notin Reply /\ ~log[s].gone
Lowest(S, n)  == {s \in S : Cardinality({t \in S : t < s}) < n}
Highest(S, n) == {s \in S : Cardinality({t \in S : t > s}) < n}

Answer(r, S, before, beyond) ==
  [r EXCEPT !.step = "answered", !.page = Rows(S), !.last = Len(log), !.before = before, !.beyond = beyond]

ListMessages(r) ==
  LET S == {s \in Seqs : Shows(s) /\ s < r.from}
  IN Answer(r, Highest(S, Page), Cardinality(S) > Page, FALSE)

ListMessagesAround(r) ==
  LET B == {s \in Seqs : Shows(s) /\ s < r.from}
      A == {s \in Seqs : Shows(s) /\ s >= r.from}
      nb == Page \div 2
      na == Page - nb
  IN Answer(r, Highest(B, nb) \union Lowest(A, na), Cardinality(B) > nb, Cardinality(A) > na)

SyncChannel(r) ==
  LET new == {s \in Seqs : s > r.from}
      chg == {s \in Seqs : s >= r.min /\ s <= r.from /\ log[s].at > r.since}
  IN Answer(r, Lowest(new, SyncMax) \union Lowest(chg, SyncMax), FALSE,
            Cardinality(new) > SyncMax \/ Cardinality(chg) > SyncMax)

-----------------------------------------------------------------------------
(* The client's state.  No timeline in the store is status "none". *)

EmptyTimeline ==
  [shown |-> {}, before |-> TRUE, after |-> FALSE, status |-> "idle", last |-> 0,
   synced |-> 0, cached |-> FALSE, older |-> "idle", newer |-> "idle"]
NoCache == [page |-> NoRows, last |-> -1]
FirstView(known) ==
  [tl |-> [EmptyTimeline EXCEPT !.status = "none"], held |-> NoRows, known |-> known,
   gap |-> 0, reqs |-> {}, save |-> FALSE, open |-> FALSE]

Init ==
  /\ log = [s \in 1 .. Start |-> [ver |-> 0, at |-> 0, gone |-> FALSE]]
  /\ changing = {} /\ clock = Margin /\ events = {} /\ online = TRUE
  /\ view = FirstView(Start) /\ cache = NoCache
  /\ opens = 0 /\ faults = 0

\* mergeMessages: a copy replaces an older one, by updated_at.
Merge(held, page) ==
  [s \in DOMAIN held \union DOMAIN page |->
     IF s \in DOMAIN page /\ (s \in DOMAIN held => page[s].at >= held[s].at) THEN page[s] ELSE held[s]]

HealKinds == {"heal", "drop", "reload"}
Healing(v) == \E r \in v.reqs : r.kind \in HealKinds

Ask(v, kind, from, since, min, at) ==
  [v EXCEPT !.reqs = @ \union
     {[kind |-> kind, live |-> TRUE, step |-> "asked", from |-> from, since |-> since, min |-> min,
       at |-> at, page |-> NoRows, last |-> 0, before |-> FALSE, beyond |-> FALSE]}]

\* A new generation.  A dead page is dropped when it comes; a dead older or newer
\* page and a heal still have something to put away.
Bump(v) ==
  [v EXCEPT !.reqs = {[r EXCEPT !.live = FALSE] :
                        r \in {q \in v.reqs : q.kind \in {"older", "newer"} \union HealKinds}}]

Idle(status) == IF status = "loading" THEN "idle" ELSE status
SettleSubLoad(v) == [v EXCEPT !.tl.older = Idle(@), !.tl.newer = Idle(@)]

NoteGap(v, s) == IF v.gap = 0 THEN [v EXCEPT !.gap = s] ELSE v

\* Slip: what arrived while the page was loading is not looked at.
HealIfBehind_Blind(v) == v

HealIfBehind(v) ==
  LET ahead == Max({v.known} \union v.tl.shown)
  IN IF ~v.tl.after /\ ahead > v.tl.last THEN NoteGap(v, ahead) ELSE v

CanHeal(v) == ~Healing(v) /\ ~v.tl.after /\ v.tl.status \notin {"none", "loading"} /\ v.tl.last > 0

\* Slip: a change still in its transaction at the last load is not asked for again.
HealChannel_NoMargin(v) ==
  IF CanHeal(v)
  THEN Ask(v, "heal", v.tl.last, IF v.tl.synced > 0 THEN v.tl.synced ELSE clock,
           IF v.tl.shown = {} THEN v.tl.last ELSE Min(v.tl.shown), clock)
  ELSE v

HealChannel(v) ==
  IF CanHeal(v)
  THEN Ask(v, "heal", v.tl.last, (IF v.tl.synced > 0 THEN v.tl.synced ELSE clock) - Margin,
           IF v.tl.shown = {} THEN v.tl.last ELSE Min(v.tl.shown), clock)
  ELSE v

AskNewest(v) == Ask([v EXCEPT !.tl.status = "loading"], "newest", MaxSeq + 1, 0, 0, clock)
ReloadChannel(v) == AskNewest(Bump(v))

-----------------------------------------------------------------------------
(* What the person does *)

Client(v) == view' = v /\ UNCHANGED <<server, clock, events, online>>

\* A live timeline still in memory.
Warm(t) == t.status = "ready" /\ ~t.after /\ ~t.cached /\ t.last > 0

OpenChannel ==
  /\ opens < MaxOpens /\ opens' = opens + 1
  /\ LET v == [SettleSubLoad(Bump(view)) EXCEPT !.open = TRUE]
         t == v.tl
     IN \/ Client(IF Warm(t) THEN HealChannel(v)
                  ELSE IF t.shown = {} THEN Ask(v, "paint", 0, 0, 0, 0)
                  ELSE AskNewest(v))
        \/ \E s \in Target \cap Seqs :
             Client(Ask([v EXCEPT !.tl.status = "loading"], "around", s, 0, 0, clock))
  /\ UNCHANGED <<cache, faults>>

CloseChannel ==
  /\ "close" \in May /\ view.open
  /\ Client([view EXCEPT !.open = FALSE, !.save = TRUE]) /\ UNCHANGED <<cache, bounds>>

\* The list is drawn, and pages as it scrolls, while its page is still loading: "early".
PageKinds == {"paint", "newest", "around", "reload"}
Loading(v) == \E r \in v.reqs : r.live /\ r.kind \in PageKinds
Scrolls == Loading(view) => "early" \in May

LoadOlder ==
  /\ "older" \in May /\ Scrolls /\ view.tl.before /\ view.tl.older # "loading" /\ view.tl.shown # {}
  /\ Client(Ask([view EXCEPT !.tl.older = "loading"], "older", Min(view.tl.shown), 0, 0, 0))
  /\ UNCHANGED <<cache, bounds>>

LoadNewer ==
  /\ "newer" \in May /\ Scrolls /\ view.tl.after /\ view.tl.newer # "loading" /\ view.tl.shown # {}
  /\ LET from == Max({view.tl.last} \union view.tl.shown)
     IN Client(Ask([view EXCEPT !.tl.newer = "loading"], "newer", from, MaxClock, from, clock))
  /\ UNCHANGED <<cache, bounds>>

-----------------------------------------------------------------------------
(* What answers do *)

\* The server takes its snapshot.
Serve ==
  \E r \in view.reqs :
    /\ r.live /\ r.step = "asked" /\ r.kind \notin {"paint", "drop"}
    /\ LET a == CASE r.kind \in {"newest", "reload", "older"} -> ListMessages(r)
                  [] r.kind = "around" -> ListMessagesAround(r)
                  [] r.kind \in {"newer", "heal"} -> SyncChannel(r)
       IN Client([view EXCEPT !.reqs = (@ \ {r}) \union {a}])
    /\ UNCHANGED <<cache, bounds>>

Without(r) == [view EXCEPT !.reqs = @ \ {r}]

\* paintFromCache, and the load that openChannel starts after it.
PaintFromCache(r) ==
  LET v == Without(r)
      painted == [v EXCEPT !.held = Merge(@, cache.page),
                           !.tl = [EmptyTimeline EXCEPT !.shown = DOMAIN cache.page, !.last = cache.last,
                                                        !.cached = TRUE]]
  IN AskNewest(IF cache # NoCache /\ v.tl.shown = {} THEN painted ELSE v)

\* withLiveArrivals: a message past the page that arrived meanwhile stays.
LoadNewest(r) ==
  LET v == Without(r)
      live == {s \in v.tl.shown : s > r.last}
  IN HealIfBehind([v EXCEPT !.held = Merge(@, r.page), !.save = TRUE,
                            !.tl = [EmptyTimeline EXCEPT !.shown = DOMAIN r.page \union live,
                                      !.before = r.before, !.status = "ready",
                                      !.last = r.last, !.synced = r.at]])

LoadAround(r) ==
  LET v == [Without(r) EXCEPT
              !.held = Merge(@, r.page),
              !.tl = [EmptyTimeline EXCEPT !.shown = DOMAIN r.page, !.before = r.before,
                        !.after = r.beyond, !.status = "ready", !.synced = r.at,
                        !.last = IF ~r.beyond THEN r.last
                                 ELSE IF DOMAIN r.page = {} THEN r.from ELSE Max(DOMAIN r.page)]]
  IN IF r.beyond THEN v ELSE HealIfBehind([v EXCEPT !.save = TRUE])

TakeOlder(r) ==
  [Without(r) EXCEPT !.held = Merge(@, r.page), !.tl.shown = @ \union DOMAIN r.page,
                     !.tl.before = r.before, !.tl.older = "idle"]

\* Slip: the cursor goes to the end of the channel although the answer was cut.
TakeNewer_JumpsAhead(r) ==
  [Without(r) EXCEPT
     !.held = Merge(@, r.page), !.tl.shown = @ \union (DOMAIN r.page \ Reply),
     !.tl.after = r.beyond, !.tl.newer = "idle",
     !.tl.synced = IF r.beyond THEN @ ELSE r.at, !.tl.last = Max({r.last, r.from})]

TakeNewer(r) ==
  LET v == [Without(r) EXCEPT
              !.held = Merge(@, r.page), !.tl.shown = @ \union (DOMAIN r.page \ Reply),
              !.tl.after = r.beyond, !.tl.newer = "idle",
              !.tl.synced = IF r.beyond THEN @ ELSE r.at,
              !.tl.last = IF ~r.beyond THEN Max({r.last, r.from})
                          ELSE IF DOMAIN r.page = {} THEN r.from ELSE Max(DOMAIN r.page)]
  IN IF r.beyond THEN v ELSE HealIfBehind([v EXCEPT !.save = TRUE])

\* A successful heal; the timeline is there, since eviction is not modelled.
ApplySync(r) ==
  [Without(r) EXCEPT
     !.held = Merge(@, r.page), !.save = TRUE, !.known = Max({@, r.last}),
     !.tl.shown = @ \union {s \in DOMAIN r.page : s > r.from /\ s \notin Reply},
     !.tl.last = Max({@, r.last}), !.tl.synced = r.at,
     !.tl.status = "ready", !.tl.cached = FALSE]

\* Too much happened: first the cache goes, and nobody looks at the generation after that.
DropCache(r) == [Without(r) EXCEPT !.save = FALSE, !.reqs = @ \union {[r EXCEPT !.kind = "drop", !.page = NoRows]}]
StartOver(r) ==
  Ask(Bump([Without(r) EXCEPT !.tl = [EmptyTimeline EXCEPT !.status = "loading"]]),
      "reload", MaxSeq + 1, 0, 0, clock)

Receive ==
  \E r \in view.reqs :
    \/ /\ r.kind = "paint"
       /\ Client(PaintFromCache(r)) /\ UNCHANGED <<cache, bounds>>
    \/ /\ r.kind = "drop"
       /\ Client(StartOver(r)) /\ cache' = NoCache /\ UNCHANGED bounds
    \/ /\ ~r.live /\ r.kind # "drop"
       /\ Client(CASE r.kind = "older" -> [Without(r) EXCEPT !.tl.older = Idle(@)]
                   [] r.kind = "newer" -> [Without(r) EXCEPT !.tl.newer = Idle(@)]
                   [] OTHER -> Without(r))
       /\ UNCHANGED <<cache, bounds>>
    \/ /\ r.live /\ r.step = "answered" /\ r.kind # "drop"
       /\ Client(CASE r.kind \in {"newest", "reload"} -> LoadNewest(r)
                   [] r.kind = "around" -> LoadAround(r)
                   [] r.kind = "older" -> TakeOlder(r)
                   [] r.kind = "newer" -> TakeNewer(r)
                   [] r.kind = "heal" -> IF r.beyond THEN DropCache(r) ELSE ApplySync(r))
       /\ UNCHANGED <<cache, bounds>>

\* The request fails.  A failed reload does not look at the generation.
Fail ==
  /\ "fail" \in May /\ faults < MaxFaults /\ faults' = faults + 1
  /\ \E r \in view.reqs :
       /\ r.kind \notin {"paint", "drop"}
       /\ r.live \/ r.kind = "reload"
       /\ Client(CASE r.kind = "older" -> [Without(r) EXCEPT !.tl.older = "error"]
                   [] r.kind = "newer" -> [Without(r) EXCEPT !.tl.newer = "error"]
                   [] r.kind = "heal" -> Without(r)
                   [] OTHER -> [Without(r) EXCEPT !.tl.status = "error"])
  /\ UNCHANGED <<cache, opens>>

-----------------------------------------------------------------------------
(* Realtime events *)

\* applyNewMessage and noteGap.
NewMessage(s, copy) ==
  LET t == view.tl
      exists == t.status # "none"
      next == s = t.last + 1
      v == [view EXCEPT !.held = IF exists \/ s \in DOMAIN @ THEN Merge(@, [x \in {s} |-> copy]) ELSE @,
                        !.known = Max({@, s}), !.save = @ \/ exists]
      w == [v EXCEPT !.tl.shown = IF s \in Reply THEN @ ELSE @ \union {s},
                     !.tl.last = IF next THEN s ELSE @]
  IN IF ~exists \/ t.after THEN v
     ELSE IF s > t.last + 1 THEN NoteGap(w, s) ELSE w

\* applyUpdatedMessage: a message nobody holds is ignored.
UpdatedMessage(s, copy) ==
  LET t == view.tl
      back == /\ t.status # "none" /\ ~t.after /\ s \notin Reply
              /\ t.shown # {} /\ s > Min(t.shown)
  IN IF s \notin DOMAIN view.held \/ copy.at < view.held[s].at THEN view
     ELSE [view EXCEPT !.held[s] = copy, !.save = TRUE,
                       !.tl.shown = IF back THEN @ \union {s} ELSE @]

HandleEvent ==
  \E e \in events :
    /\ events' = events \ {e}
    /\ view' = IF e.kind = "new" THEN NewMessage(e.seq, e.copy) ELSE UpdatedMessage(e.seq, e.copy)
    /\ UNCHANGED <<server, clock, online, cache, bounds>>

GapTimer ==
  /\ view.gap > 0
  /\ LET v == [view EXCEPT !.gap = 0]
     IN Client(IF view.tl.last < view.gap THEN HealChannel(v) ELSE v)
  /\ UNCHANGED <<cache, bounds>>

Lose ==
  /\ "lose" \in May /\ faults < MaxFaults /\ faults' = faults + 1
  /\ \E e \in events : events' = events \ {e}
  /\ UNCHANGED <<server, clock, online, view, cache, opens>>

GoAway ==
  /\ "away" \in May /\ online /\ faults < MaxFaults
  /\ online' = FALSE /\ events' = {} /\ faults' = faults + 1
  /\ UNCHANGED <<server, clock, view, cache, opens>>

\* The topics are joined again: healOpenChannels.
Reconnect ==
  /\ ~online /\ online' = TRUE
  /\ view' = IF ~view.open THEN view
             ELSE IF view.tl.last = 0 THEN ReloadChannel(view) ELSE HealChannel(view)
  /\ UNCHANGED <<server, clock, events, cache, bounds>>

\* The page is killed and the app started again.
Restart ==
  /\ "restart" \in May /\ faults < MaxFaults /\ faults' = faults + 1
  /\ view' = FirstView(Len(log)) /\ events' = {} /\ online' = FALSE
  /\ UNCHANGED <<server, clock, cache, opens>>

WriteCache ==
  /\ view.save
  /\ Client([view EXCEPT !.save = FALSE])
  /\ cache' = IF view.tl.status = "ready" /\ ~view.tl.after /\ ~view.tl.cached
              THEN [page |-> Restrict(view.held, Highest(view.tl.shown, CacheSize)), last |-> view.tl.last]
              ELSE cache
  /\ UNCHANGED bounds

-----------------------------------------------------------------------------
(* The writers *)

Tell(e) == events' = IF online THEN events \union {e} ELSE events

\* Time passes; no transaction is open, and no event on its way, for as long as the margin.
InTime ==
  /\ \A c \in changing : clock + 1 < c.at + Margin
  /\ "late" \in May \/ \A e \in events : clock + 1 < e.copy.at + Margin

Post ==
  /\ Len(log) < MaxSeq /\ clock < MaxClock /\ InTime
  /\ clock' = clock + 1
  /\ LET row == [ver |-> 0, at |-> clock', gone |-> FALSE]
     IN log' = Append(log, row) /\ Tell([kind |-> "new", seq |-> Len(log'), copy |-> row])
  /\ UNCHANGED <<changing, online, view, cache, bounds>>

BeginChange ==
  /\ clock < MaxClock /\ InTime /\ clock' = clock + 1
  /\ \E s \in Seqs, gone \in {g \in BOOLEAN : (IF g THEN "delete" ELSE "change") \in May} :
       /\ ~log[s].gone
       /\ "overlap" \in May \/ \A c \in changing : c.seq # s
       /\ changing' = changing \union {[seq |-> s, at |-> clock', gone |-> gone]}
  /\ UNCHANGED <<log, events, online, view, cache, bounds>>

\* The row is locked, looked at again, written with now() of the start, and told.
CommitChange ==
  \E c \in changing :
    /\ changing' = changing \ {c}
    /\ IF log[c.seq].gone THEN UNCHANGED <<log, events>>
       ELSE LET row == [ver |-> log[c.seq].ver + 1, at |-> c.at, gone |-> c.gone]
            IN log' = [log EXCEPT ![c.seq] = row] /\ Tell([kind |-> "upd", seq |-> c.seq, copy |-> row])
    /\ UNCHANGED <<clock, online, view, cache, bounds>>

Tick ==
  /\ clock < MaxClock /\ InTime /\ clock' = clock + 1
  /\ UNCHANGED <<server, events, online, view, cache, bounds>>

-----------------------------------------------------------------------------
Running == Serve \/ Receive \/ HandleEvent \/ GapTimer \/ Reconnect \/ WriteCache \/ CommitChange
Next == \/ OpenChannel \/ CloseChannel \/ LoadOlder \/ LoadNewer
        \/ Running \/ Fail \/ Lose \/ GoAway \/ Restart
        \/ Post \/ BeginChange \/ Tick

Spec == Init /\ [][Next]_vars
FairSpec == Spec /\ WF_vars(Running)

-----------------------------------------------------------------------------
(* Properties *)

\* The cursor is honest: from where the timeline begins to the cursor, every
\* message that the channel shows is in the timeline.  The next sync asks only for
\* what is past the cursor, so a hole below it would stay (loadNewest,
\* loadOlder, loadNewer, applySync, applyNewMessage).
Floor(t) == IF ~t.before THEN 1 ELSE IF t.shown = {} THEN t.last + 1 ELSE Min(t.shown)
CursorHonest ==
  \A s \in Floor(view.tl) .. view.tl.last : Shows(s) => s \in view.tl.shown

\* The same for changes: a change that the next sync will not ask for, because it is older
\* than the margin before syncedAt, is in the copy that is held.
SyncedHonest ==
  (view.tl.status = "ready" /\ view.tl.synced > 0) =>
    \A s \in view.tl.shown : log[s].at <= view.tl.synced - Margin => view.held[s] = log[s]

\* Newer wins: a copy that is held is never replaced by an earlier version
\* (newer, mergeMessages, applyUpdatedMessage), whatever the order of arrival.
VersionsForward ==
  [][\A s \in DOMAIN view.held \intersect DOMAIN view'.held : view'.held[s].ver >= view.held[s].ver]_vars

\* A hole is filled: once a message is shown in a live timeline, every message
\* of the channel before it comes to be shown too (noteGap, healChannel), unless the
\* timeline is replaced by a window or fails to load.
Live == view.open /\ view.tl.status = "ready" /\ ~view.tl.after
Whole == \A s \in Floor(view.tl) .. Max({0} \union view.tl.shown) : Shows(s) => s \in view.tl.shown
HolesFill == []<>(Live => Whole)

\* Not kept by the code: a client that was away catches up, that is, once the topics are
\* joined again an open timeline comes to show every message there was while it was away
\* (healOpenChannels).
CatchUp ==
  \A n \in 1 .. MaxSeq :
    <>(~online /\ Len(log) = n)
    => []<>(Live /\ online => \A s \in (Floor(view.tl) .. n) \cap Seqs : Shows(s) => s \in view.tl.shown)

\* Not kept by the code: what is shown becomes what the server has, since a change reaches
\* an open timeline by its event or by a heal.
ChangesArrive == []<>(Live => \A s \in view.tl.shown : view.held[s] = log[s])
=============================================================================
