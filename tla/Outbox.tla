------------------------------- MODULE Outbox -------------------------------
(***************************************************************************)
(* The durable outbox (apps/web/src/sync/outbox.ts) of ONE person, run by  *)
(* several browser tabs over one shared storage, against a network that    *)
(* loses requests and answers and a server that takes each client_id once. *)
(*                                                                         *)
(* JavaScript runs a handler to its first await without interruption, so   *)
(* one action here is one such run: an event handler, a storage write that *)
(* completes, an answer that arrives, one row of a load.  The synchronous  *)
(* calls inside a handler (forget, unstore, pump) are operators from the   *)
(* page's state to the page's state and are applied within the action.     *)
(*                                                                         *)
(* "retrying" means: the backoff of the record is still running.  A record *)
(* whose backoff is over is "pending" here; the code tells the two apart   *)
(* only in the label it shows.  What is only shown (the 900 ms reveal, the *)
(* error text) is left out.                                                *)
(***************************************************************************)
EXTENDS Integers, Sequences, FiniteSets

CONSTANTS Tab,          \* page loads: each has its own tabId, and never comes back
          Msg,          \* client ids (numbers: byAge breaks a tie by client id)
          Channel,
          Clock,        \* what Date.now() may read
          NoTab, NoMsg,
          WebLocks,     \* does the browser have navigator.locks (runtime.ts isTabAlive)
          MaxOpen,      \* bound: tabs open at once
          MaxKicks,     \* bound: times the connection comes back, over all tabs
          MaxFaults,    \* bound: lost and refused answers, over all tabs
          MayClose,     \* bound: may a tab be closed or killed
          MayDiscard,   \* bound: does the person delete unsent messages
          MayRevoke,    \* bound: may access to a channel be lost
          MayRegrant    \* bound: may it be given back

ASSUME OutboxAssumption ==
  /\ Msg \subseteq Nat /\ Clock \subseteq Nat
  /\ NoMsg \notin Msg /\ NoTab \notin Tab
  /\ {MaxOpen, MaxKicks, MaxFaults} \subseteq Nat
  /\ {WebLocks, MayClose, MayDiscard, MayRevoke, MayRegrant} \subseteq BOOLEAN

VARIABLES
  page,      \* page[t]: the memory of tab t
  disk,      \* disk[m]: the stored row of m (IndexedDB or localStorage), shared by the tabs
  made,      \* made[m], for every m typed so far: its tab, channel and createdAt
  log,       \* the server: the committed messages of each channel
  late,      \* requests the client gave up on that may still reach the server
  access,    \* access[ch]: "granted", "revoked" or "regranted" to the person
  kicks, faults, \* how much of the bounds MaxKicks and MaxFaults is used up
  kept,      \* history: sends that were once written to storage
  withdrawn, \* history: sends the person deleted, or lost with a revoked channel
  refused    \* history: sends that once ended as failed

bounds == <<kicks, faults>>
vars == <<page, disk, made, log, late, access, bounds, kept, withdrawn, refused>>

Server == INSTANCE ChannelLog

None   == [status |-> "none", owner |-> NoTab]
Rec    == [status : {"pending", "retrying", "failed"}, owner : Tab]
Row    == Rec \cup {None}

\* One queued storage operation: write this row (None: remove it), then pump or not.
Op     == [row : Row, pump : BOOLEAN]

Blank == [life    |-> "new",
          recs    |-> [m \in Msg |-> None],
          writing |-> [m \in Msg |-> <<>>], issued |-> <<>>,
          flight  |-> [ch \in Channel |-> [id |-> NoMsg, answer |-> "none"]],
          timer   |-> {},
          discardAfterFlight |-> {}, settledInFlight |-> {}, accessDropped |-> {},
          droppedChannels    |-> {}, accepted |-> {},
          lastCreatedAt |-> 0,
          load    |-> "idle", rows |-> [m \in Msg |-> None], touched |-> {},
          kicked  |-> FALSE, todo |-> {}]

Init == /\ page = [t \in Tab |-> Blank]
        /\ disk = [m \in Msg |-> None]
        /\ made = [m \in {} |-> [tab |-> NoTab]]
        /\ Server!Init
        /\ late = {}
        /\ access = [ch \in Channel |-> "granted"]
        /\ kicks = 0 /\ faults = 0
        /\ kept = {} /\ withdrawn = {} /\ refused = {}

-----------------------------------------------------------------------------
(* Helpers over one page.                                                  *)

HasAccess(ch)  == access[ch] # "revoked"
Posted(m)      == Server!Posted(m)
IsOpen(t)      == page[t].life = "open"
\* Slip: a page does not hold the lock that others ask for it by.
TabAlive_NoLock(t) == FALSE

TabAlive(t)    == WebLocks /\ IsOpen(t)
Known(p)       == {m \in Msg : p.recs[m] # None}
InFlight(p, m) == \E ch \in Channel : p.flight[ch].id = m
Older(a, b)    == \/ made[a].at < made[b].at
                  \/ made[a].at = made[b].at /\ a < b
Oldest(S)      == CHOOSE m \in S : \A n \in S \ {m} : Older(m, n)
Later(a, b)    == IF a > b THEN a ELSE b

\* The sequences that hold each element of S once.
Orders(S)      == {s \in [1 .. Cardinality(S) -> S] : \A i, j \in DOMAIN s : s[i] = s[j] => i = j}

\* forget: out of memory, and out of the marks a request in flight may carry.
Forget(p, m) == [p EXCEPT !.recs[m] = None,
                          !.discardAfterFlight = @ \ {m},
                          !.settledInFlight    = @ \ {m}]

\* chain: the operations on one record run one after the other.  What is issued goes
\* to IndexedDB, which runs the transactions of one page in the order they were created:
\* "issued" holds the records whose first operation is there (NoMsg: the read of a load).
Chain(p, m, row, pump) ==
  [p EXCEPT !.writing[m] = Append(@, [row |-> row, pump |-> pump]),
            !.issued     = IF p.writing[m] = <<>> THEN Append(@, m) ELSE @]
Persist(p, m)          == Chain(p, m, p.recs[m], FALSE)
PersistThenPump(p, m)  == Chain(p, m, p.recs[m], TRUE)
Unstore(p, m)          == Chain(p, m, None, FALSE)

\* Slip: forgotten in memory, left in the storage.
Drop_KeepsRow(p, m) == Forget(p, m)

Drop(p, m)             == Unstore(Forget(p, m), m)

\* The records of ch that tab t may send; a failed one is out of the line.
Line(t, p, ch) == {m \in Known(p) : /\ made[m].ch = ch
                                    /\ p.recs[m].status # "failed"
                                    /\ p.recs[m].owner = t}

\* Slip: the network before the storage.
Pump_BeforeSaved(t, p, ch) ==
  IF p.flight[ch].id # NoMsg \/ Line(t, p, ch) = {} THEN p
  ELSE [p EXCEPT !.flight[ch].id = Oldest(Line(t, p, ch))]

\* pump: start the head of the line, or see to it that pump runs again.
Pump(t, p, ch) ==
  IF p.flight[ch].id # NoMsg \/ Line(t, p, ch) = {} THEN p
  ELSE LET m == Oldest(Line(t, p, ch)) IN
       IF p.writing[m] # <<>>
         THEN [p EXCEPT !.writing[m][Len(p.writing[m])].pump = TRUE]
       ELSE IF p.recs[m].status = "retrying"
         THEN [p EXCEPT !.timer = @ \cup {ch}]
       ELSE [p EXCEPT !.flight[ch] = [id |-> m, answer |-> "none"]]

\* Different channels do not meet in Pump, so pumping several is pointwise.
PumpAll(t, p, chs) ==
  [p EXCEPT !.flight  = [ch \in Channel |-> IF ch \in chs THEN Pump(t, p, ch).flight[ch] ELSE @[ch]],
            !.timer   = @ \cup {ch \in chs : ch \in Pump(t, p, ch).timer},
            !.writing = [m \in Msg |-> IF m \in DOMAIN made /\ made[m].ch \in chs
                                       THEN Pump(t, p, made[m].ch).writing[m] ELSE @[m]]]

-----------------------------------------------------------------------------
(* Tabs, the person and the storage.                                       *)

\* The page of t becomes p; in the second, the handler ends by calling pump(ch).  (\E over
\* a singleton makes TLC compute p once.)
Become(t, p)         == \E q \in {p} : page' = [page EXCEPT ![t] = q]
BecomePumped(t, p, ch) == \E q \in {p} : Become(t, Pump(t, q, ch))

\* A page load: a new tabId, an empty outbox, and its first load().
Open(t) ==
  /\ page[t].life = "new"
  /\ Cardinality({u \in Tab : IsOpen(u)}) < MaxOpen
  /\ Become(t, [Blank EXCEPT !.life = "open", !.load = "read", !.issued = <<NoMsg>>])
  /\ UNCHANGED <<disk, made, log, late, access, kept, withdrawn, refused, bounds>>

\* The tab is closed, reloaded or killed: its memory and its queued writes are
\* gone; a request it sent may still reach the server.
Close(t) ==
  /\ MayClose /\ IsOpen(t)
  /\ \E u \in Tab \ {t} : page[u].life # "gone"      \* bound: someone is left
  /\ Become(t, [Blank EXCEPT !.life = "gone"])
  /\ late' = late \cup {page[t].flight[ch].id : ch \in
                         {c \in Channel : /\ page[t].flight[c].id # NoMsg
                                          /\ page[t].flight[c].answer = "none"}}
  /\ UNCHANGED <<disk, made, log, access, kept, withdrawn, refused, bounds>>

\* Slip: the bare clock; two sends of one millisecond tie.
Stamp_BareClock(p, now) == now

\* createdAt: two sends in the same millisecond keep the order they were typed in.
Stamp(p, now) == Later(now, p.lastCreatedAt + 1)

\* enqueue: in memory, then to storage, and only then to the network.
Enqueue(t, m, ch, now) ==
  /\ IsOpen(t) /\ m \notin DOMAIN made
  /\ HasAccess(ch) \/ ch \notin page[t].droppedChannels
  /\ LET at == Stamp(page[t], now)
         p  == [page[t] EXCEPT !.lastCreatedAt = at,
                               !.recs[m] = [status |-> "pending", owner |-> t]]
     IN /\ made' = [n \in DOMAIN made \cup {m} |->
                      IF n = m THEN [tab |-> t, ch |-> ch, at |-> at] ELSE made[n]]
        /\ Become(t, PersistThenPump(p, m))
  /\ withdrawn' = IF HasAccess(ch) THEN withdrawn ELSE withdrawn \cup {m}
  /\ UNCHANGED <<disk, log, late, access, kept, refused, bounds>>

\* The next issued write lands and its promise resolves; an operation chained behind it
\* is issued now.
DiskWrite(t) ==
  /\ IsOpen(t) /\ page[t].issued # <<>> /\ Head(page[t].issued) # NoMsg
  /\ LET m    == Head(page[t].issued)
         op   == Head(page[t].writing[m])
         rest == Tail(page[t].writing[m])
         p    == [page[t] EXCEPT !.writing[m] = rest,
                                 !.issued = IF rest = <<>> THEN Tail(@) ELSE Append(Tail(@), m)]
     IN /\ disk' = [disk EXCEPT ![m] = op.row]
        /\ kept' = IF op.row = None THEN kept ELSE kept \cup {m}
        /\ IF op.pump THEN BecomePumped(t, p, made[m].ch) ELSE Become(t, p)
  /\ UNCHANGED <<made, log, late, access, withdrawn, refused, bounds>>

\* Try again on a failed message (the tab that shows it need not be its owner).
Retry(t, m) ==
  /\ IsOpen(t) /\ page[t].recs[m].status = "failed" /\ ~ InFlight(page[t], m)
  /\ Become(t, PersistThenPump([page[t] EXCEPT !.recs[m] = [status |-> "pending", owner |-> t]], m))
  /\ UNCHANGED <<disk, made, log, late, access, kept, withdrawn, refused, bounds>>

\* Delete. On the wire it can only be marked; otherwise it goes now.
Discard(t, m) ==
  /\ MayDiscard /\ IsOpen(t) /\ page[t].recs[m] # None
  /\ IF InFlight(page[t], m)
       THEN Become(t, [page[t] EXCEPT !.discardAfterFlight = @ \cup {m}])
       ELSE BecomePumped(t, Drop(page[t], m), made[m].ch)
  /\ withdrawn' = withdrawn \cup {m}
  /\ UNCHANGED <<disk, made, log, late, access, kept, refused, bounds>>

\* A realtime msg.new, or a heal, shows the message: it was accepted.
Settle(t, m) ==
  /\ IsOpen(t) /\ Posted(m) /\ page[t].recs[m] # None
  /\ IF InFlight(page[t], m)
       THEN Become(t, [page[t] EXCEPT !.settledInFlight = @ \cup {m}])
       ELSE BecomePumped(t, Drop(page[t], m), made[m].ch)
  /\ UNCHANGED <<disk, made, log, late, access, kept, withdrawn, refused, bounds>>

-----------------------------------------------------------------------------
(* Sending.                                                                *)

Out(t, ch) == IsOpen(t) /\ page[t].flight[ch].id # NoMsg

\* The transaction of api.send_message on m: a new row, or the one an earlier copy made.
Commit(m, ch) == IF Posted(m) THEN UNCHANGED log ELSE Server!Post(m, ch)

\* api.send_message commits (or finds the row of an earlier copy) and answers.
Accept(t, ch) ==
  /\ Out(t, ch) /\ page[t].flight[ch].answer = "none" /\ HasAccess(ch)
  /\ Commit(page[t].flight[ch].id, ch)
  /\ Become(t, [page[t] EXCEPT !.flight[ch].answer = "ok"])
  /\ UNCHANGED <<disk, made, late, access, kept, withdrawn, refused, bounds>>

\* api.send_message refuses: no access, archived, blocked, invalid.
Refuse(t, ch) ==
  /\ Out(t, ch) /\ page[t].flight[ch].answer = "none"
  /\ Posted(page[t].flight[ch].id) => ~ HasAccess(ch)
  /\ faults < MaxFaults /\ faults' = faults + 1
  /\ Become(t, [page[t] EXCEPT !.flight[ch].answer = "final"])
  /\ UNCHANGED <<disk, made, log, late, access, kept, withdrawn, refused, kicks>>

\* A request the client gave up on, or the dead tab's last one, arrives after all.
LateArrival(m) ==
  /\ m \in late /\ late' = late \ {m}
  /\ IF HasAccess(made[m].ch) THEN Commit(m, made[m].ch) ELSE UNCHANGED log
  /\ UNCHANGED <<page, disk, made, access, kept, withdrawn, refused, bounds>>

\* attempt, once the answer is here: nothing is in flight on the channel any more.
Landed(p, ch) == [p EXCEPT !.flight[ch] = [id |-> NoMsg, answer |-> "none"],
                           !.accessDropped = @ \ {p.flight[ch].id}]

AnswerOk(t, ch) ==
  /\ Out(t, ch) /\ page[t].flight[ch].answer = "ok"
  /\ LET m == page[t].flight[ch].id
         p == IF m \in page[t].accessDropped THEN page[t] ELSE [page[t] EXCEPT !.accepted = @ \cup {m}]
     IN BecomePumped(t, Drop(Landed(p, ch), m), ch)
  /\ UNCHANGED <<disk, made, log, late, access, kept, withdrawn, refused, bounds>>

\* The catch branch: the record takes the new status, unless it is gone or marked.
AfterError(t, ch, status) ==
  LET m == page[t].flight[ch].id
      p == Landed(page[t], ch)
  IN BecomePumped(t, IF p.recs[m] = None THEN p
                     ELSE IF m \in p.discardAfterFlight \cup p.settledInFlight THEN Drop(p, m)
                     ELSE Persist([p EXCEPT !.recs[m].status = status], m), ch)

AnswerRefused(t, ch) ==
  /\ Out(t, ch) /\ page[t].flight[ch].answer = "final"
  /\ AfterError(t, ch, "failed")
  /\ refused' = refused \cup {page[t].flight[ch].id}
  /\ UNCHANGED <<disk, made, log, late, access, kept, withdrawn, bounds>>

\* Network error, timeout, 5xx, 429, expired session: the answer, or the whole
\* request, is lost; the request may still be on its way to the server.
AnswerLost(t, ch) ==
  /\ Out(t, ch) /\ faults < MaxFaults /\ faults' = faults + 1
  /\ AfterError(t, ch, "retrying")
  /\ late' = IF page[t].flight[ch].answer = "none" THEN late \cup {page[t].flight[ch].id} ELSE late
  /\ UNCHANGED <<disk, made, log, access, kept, withdrawn, refused, kicks>>

\* The backoff timer of the channel fires.
Wake(t, ch) ==
  /\ IsOpen(t) /\ ch \in page[t].timer
  /\ LET line == Line(t, page[t], ch)
         due  == {m \in line : m = Oldest(line) /\ page[t].recs[m].status = "retrying"}
         p    == [page[t] EXCEPT !.timer = @ \ {ch},
                                 !.recs  = [m \in Msg |-> IF m \in due THEN [@[m] EXCEPT !.status = "pending"] ELSE @[m]]]
     IN BecomePumped(t, p, ch)
  /\ UNCHANGED <<disk, made, log, late, access, kept, withdrawn, refused, bounds>>

-----------------------------------------------------------------------------
(* Reading the storage, and adopting what closed tabs left.                *)

Rest(p) == {m \in Msg : p.rows[m] # None}

StartLoad(p) == IF p.load = "idle" THEN [p EXCEPT !.load = "read", !.issued = Append(@, NoMsg)] ELSE p

\* The channels whose lines a finished kick pumps: those of every record.
Lines(p) == {made[m].ch : m \in Known(p)}

\* Slip: nothing is pumped after a load.
Loaded_NoPump(t, p) ==
  [p EXCEPT !.load = "idle", !.touched = {}, !.kicked = FALSE,
            !.todo = IF p.kicked THEN @ \cup {m \in Known(p) : p.recs[m].owner # t} ELSE @]

\* The last row is done: pump; a kick goes on with adoptOrphans and pumps again.
Loaded(t, p) ==
  LET q       == [PumpAll(t, p, p.touched) EXCEPT !.load = "idle", !.touched = {}]
      foreign == {m \in Known(p) : p.recs[m].owner # t}
  IN IF ~ p.kicked THEN q
     ELSE IF foreign # {} THEN [q EXCEPT !.kicked = FALSE, !.todo = @ \cup foreign]
     ELSE [PumpAll(t, q, Lines(q)) EXCEPT !.kicked = FALSE]

FinishLoad(t, p) == \E q \in {p} : Become(t, IF Rest(q) = {} THEN Loaded(t, q) ELSE q)

\* storage.load(): from here on the load works on this copy of the rows.
LoadRead(t) ==
  /\ IsOpen(t) /\ page[t].issued # <<>> /\ Head(page[t].issued) = NoMsg
  /\ LET p == [page[t] EXCEPT !.load = "rows", !.rows = disk, !.issued = Tail(@)]
     IN FinishLoad(t, p)
  /\ UNCHANGED <<disk, made, log, late, access, kept, withdrawn, refused, bounds>>

\* The body of the loop for one row: known already, of a channel this tab dropped,
\* ours or an orphan's (adopted and written back), or another open tab's.
TakeRow(t, p, m) ==
  LET owner  == p.rows[m].owner
      orphan == owner # t /\ ~ TabAlive(owner)
      rec    == [status |-> IF p.rows[m].status = "failed" THEN "failed" ELSE "pending",
                 owner  |-> IF orphan THEN t ELSE owner]
      q      == [p EXCEPT !.rows[m] = None]
      r      == [q EXCEPT !.recs[m] = rec,
                          !.touched = @ \cup {made[m].ch},
                          !.lastCreatedAt = Later(@, made[m].at)]
  IN IF p.recs[m] # None THEN q
     ELSE IF made[m].ch \in p.droppedChannels THEN Unstore(q, m)
     ELSE IF orphan THEN Persist(r, m) ELSE r

LoadRow(t) ==
  /\ IsOpen(t) /\ page[t].load = "rows"
  /\ LET p == TakeRow(t, page[t], Oldest(Rest(page[t])))
     IN FinishLoad(t, p)
  /\ UNCHANGED <<disk, made, log, late, access, kept, withdrawn, refused, bounds>>

\* adoptOrphans, one record: the owner is asked for again after every await.
AdoptRow(t) ==
  /\ IsOpen(t) /\ page[t].todo # {}
  /\ LET m == Oldest(page[t].todo)
         p == [page[t] EXCEPT !.todo = @ \ {m}]
         q == IF p.recs[m] = None \/ p.recs[m].owner = t \/ TabAlive(p.recs[m].owner) THEN p
              ELSE Persist([p EXCEPT !.recs[m].owner = t], m)
     IN \E r \in {q} : Become(t, IF r.todo = {} THEN PumpAll(t, r, Lines(r)) ELSE r)
  /\ UNCHANGED <<disk, made, log, late, access, kept, withdrawn, refused, bounds>>

\* kick: the connection is back.  No backoff is waited out, and the storage is
\* read again.
Kick(t) ==
  /\ IsOpen(t) /\ kicks < MaxKicks /\ kicks' = kicks + 1
  /\ LET p == page[t] IN
     Become(t, StartLoad([p EXCEPT
       !.recs   = [m \in Msg |-> IF @[m].status = "retrying" /\ ~ InFlight(p, m)
                                   THEN [@[m] EXCEPT !.status = "pending"] ELSE @[m]],
       !.timer  = {},
       !.kicked = TRUE]))
  /\ UNCHANGED <<disk, made, log, late, access, kept, withdrawn, refused, faults>>

-----------------------------------------------------------------------------
(* Access to a channel is lost, and may come back.                         *)

Revoke(ch) ==
  /\ MayRevoke /\ access[ch] = "granted"
  /\ access' = [access EXCEPT ![ch] = "revoked"]
  /\ withdrawn' = withdrawn \cup {m \in DOMAIN made : made[m].ch = ch}
  /\ UNCHANGED <<page, disk, made, log, late, kept, refused, bounds>>

Regrant(ch) ==
  /\ MayRegrant /\ access[ch] = "revoked"
  /\ access' = [access EXCEPT ![ch] = "regranted"]
  /\ UNCHANGED <<page, disk, made, log, late, kept, withdrawn, refused, bounds>>

\* Slip: requests that are out are not marked.
DropChannel_Unmarked(t, ch) ==
  /\ IsOpen(t) /\ ~ HasAccess(ch) /\ ch \notin page[t].droppedChannels
  /\ LET gone == {m \in Known(page[t]) : made[m].ch = ch}
     IN Become(t, [page[t] EXCEPT !.droppedChannels = @ \cup {ch},
                                  !.recs = [m \in Msg |-> IF m \in gone THEN None ELSE @[m]]])
  /\ UNCHANGED <<disk, made, log, late, access, kept, withdrawn, refused, bounds>>

\* dropChannels, when the tab learns of the loss (access.revoked, or a bootstrap).  The
\* records go in the order in which they came into memory, which may be any.
DropChannel(t, ch) ==
  /\ IsOpen(t) /\ ~ HasAccess(ch) /\ ch \notin page[t].droppedChannels
  /\ LET p    == page[t]
         gone == {m \in Known(p) : made[m].ch = ch}
     IN \E order \in Orders({m \in gone : p.writing[m] = <<>>}) : Become(t, [p EXCEPT
          !.droppedChannels    = @ \cup {ch},
          !.accessDropped      = @ \cup {m \in gone : InFlight(p, m)},
          !.recs               = [m \in Msg |-> IF m \in gone THEN None ELSE @[m]],
          !.discardAfterFlight = @ \ gone,
          !.settledInFlight    = @ \ gone,
          !.writing            = [m \in Msg |-> IF m \in gone THEN Unstore(p, m).writing[m] ELSE @[m]],
          !.issued             = @ \o order])
  /\ UNCHANGED <<disk, made, log, late, access, kept, withdrawn, refused, bounds>>

-----------------------------------------------------------------------------

Next ==
  \/ \E t \in Tab : Open(t) \/ Close(t) \/ Kick(t) \/ DiskWrite(t) \/ LoadRead(t) \/ LoadRow(t) \/ AdoptRow(t)
  \/ \E t \in Tab, m \in Msg :
       \/ \E ch \in Channel, now \in Clock : Enqueue(t, m, ch, now)
       \/ Retry(t, m) \/ Discard(t, m) \/ Settle(t, m)
  \/ \E t \in Tab, ch \in Channel :
       \/ Accept(t, ch) \/ Refuse(t, ch)
       \/ AnswerOk(t, ch) \/ AnswerRefused(t, ch) \/ AnswerLost(t, ch)
       \/ Wake(t, ch) \/ DropChannel(t, ch)
  \/ \E m \in Msg : LateArrival(m)
  \/ \E ch \in Channel : Revoke(ch) \/ Regrant(ch)

Spec == Init /\ [][Next]_vars

-----------------------------------------------------------------------------
(* Properties.                                                             *)

\* "Durable first, network second": nothing reaches the network, let alone the
\* server, before the storage has held it once.
SentWasStored ==
  /\ late \subseteq kept
  /\ \A m \in Msg : Posted(m) => m \in kept
  /\ \A t \in Tab, ch \in Channel : page[t].flight[ch].id \in kept \cup {NoMsg}

\* And a send that was once written to storage is there until it is posted, the person
\* deletes it or the channel is lost: no reload, killed tab or lost answer drops it.
Durable ==
  /\ SentWasStored
  /\ \A m \in kept : Posted(m) \/ m \in withdrawn \/ disk[m] # None

\* No copy of m is left that could still be sent.
Nowhere(m) == /\ disk[m] = None /\ m \notin late
              /\ \A t \in Tab : /\ page[t].recs[m] = None /\ page[t].writing[m] = <<>>
                                /\ page[t].rows[m] = None /\ ~ InFlight(page[t], m)

\* Messages of one channel typed in one tab are posted in the order they were typed.
\* A later one may pass an earlier one only if that one was refused (the person
\* decides about it), deleted, or lost with its tab before it was ever stored.
SendOrder ==
  \A m, n \in DOMAIN made :
    /\ made[m].tab = made[n].tab /\ made[m].ch = made[n].ch /\ Older(m, n)
    /\ Posted(n) /\ m \notin refused \cup withdrawn
    => \/ m \notin kept /\ Nowhere(m)
       \/ \E i, j \in DOMAIN log[made[m].ch] :
            i < j /\ log[made[m].ch][i] = m /\ log[made[m].ch][j] = n

\* A tab with something to send is always going to look at it again: a request is out
\* (its end pumps), a backoff timer is set, a queued write will pump, or a load or an
\* adoption that ends by pumping this channel is under way.  kick() clears every timer
\* and relies on the last of these.
NoLostWakeup ==
  \A t \in Tab, ch \in Channel :
    IsOpen(t) /\ Line(t, page[t], ch) # {}
    => \/ page[t].flight[ch].id # NoMsg
       \/ ch \in page[t].timer
       \/ \E m \in DOMAIN made : /\ made[m].ch = ch
                                 /\ \E i \in DOMAIN page[t].writing[m] : page[t].writing[m][i].pump
       \/ page[t].load # "idle" /\ (page[t].kicked \/ ch \in page[t].touched)
       \/ page[t].todo # {}

\* The late success of a request that was out when its channel was lost is never
\* shown by the tab that dropped the channel, not even after access came back.
RevokedStaysHidden ==
  [][\A t \in Tab, m \in withdrawn :
       /\ made[m].ch \in page[t].droppedChannels /\ IsOpen(t)
       /\ m \notin page[t].discardAfterFlight
       => m \notin page'[t].accepted \ page[t].accepted]_vars

\* "two open tabs never both retry the same message" (outbox.ts, header).
OneSender ==
  \A t, u \in Tab : \A m \in Msg :
    InFlight(page[t], m) /\ InFlight(page[u], m) => t = u

\* "Records belong to the tab that wrote them" (outbox.ts, header): while that tab is open
\* no other tab has the message on the wire, whatever it read of it, adopted or was kicked
\* for, unless the message had failed and a person tried it again there.  It takes a browser
\* that can tell which tabs are open.
OwnerSends ==
  WebLocks => \A t \in Tab, m \in DOMAIN made :
    InFlight(page[t], m) /\ t # made[m].tab /\ IsOpen(made[m].tab) => m \in refused

\* "never resurrects the record" (outbox.test.ts): a message the person deleted does
\* not come back into the outbox of the tab that deleted it.
DeletedStaysDeleted ==
  [][\A t \in Tab, m \in withdrawn :
       IsOpen(t) /\ page[t].recs[m] = None => page'[t].recs[m] = None]_vars

\* What the event loop, the storage, the timers and the network do on their own.  One
\* weak fairness condition is enough: the bounds leave finitely many steps of each kind,
\* so none of them can go on for ever in the place of another.
Running(t) ==
  \/ Open(t) \/ DiskWrite(t) \/ LoadRead(t) \/ LoadRow(t) \/ AdoptRow(t)
  \/ \E ch \in Channel : Wake(t, ch) \/ Accept(t, ch) \/ AnswerOk(t, ch) \/ AnswerRefused(t, ch)

Fairness == WF_vars(\E t \in Tab : Running(t))

FairSpec == Spec /\ Fairness

\* A stored message never waits for ever: it is posted, or refused (shown as failed,
\* with Retry and Delete), or the person gave it up.  No wake-up of pump is lost.
Delivery == \A m \in Msg : m \in kept ~> Posted(m) \/ m \in refused \cup withdrawn

\* A posted message does not stay in the storage, where every page load would send
\* it again (unless it was shown as failed before a lost request of its own landed:
\* then the row waits for the person, or for the realtime message, to take it away).
Cleanup == \A m \in Msg : Posted(m) ~> disk[m] = None \/ m \in refused
=============================================================================
