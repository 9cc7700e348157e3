----------------------------- MODULE ReadState -----------------------------
(* How far a person has read one channel: one ReadTracker per device
   (sync/read.ts), and the position on the server (0220_read_state.sql). Marking
   is shown at once and sent once per window; the server's answers, its `read`
   events and fresh copies of the channel list are applied over it.

   Left out: a request the server refuses for good (access is gone, and the
   channel with it), the end of a session, and the unread counters. *)
EXTENDS Naturals, Sequences, FiniteSets, FiniteSetsExt

CONSTANTS Device, MaxSeq,
          MaxAsks,     \* bound: marks, unmarks and refreshes by people
          MaxTimeouts, \* bound: requests that fail before or after the server saw them
          MayFail,     \* the kinds of requests that do
          InOrder      \* what the server says reaches a device in the order it was said

ASSUME ReadAssumption == MaxSeq \in Nat /\ InOrder \in BOOLEAN

VARIABLES last,       \* channel_state.last_seq
          position,   \* channel_members.last_read_seq
          shown,      \* [Device -> Nat]: channels[id].last_read_seq in the store
          want, inflight, timer,   \* the tracker of each device (0: no entry)
          calls,      \* requests on their way to the server
          back,       \* [Device -> Seq]: answers and events on their way back
          asks, timeouts,
          unmarked    \* somebody marked unread (for properties)

readVars == <<last, position, shown, want, inflight, timer, calls, back, asks, timeouts, unmarked>>

Larger(a, b) == Max({a, b})
Floor(d) == Larger(want[d], inflight[d])

ReadInit ==
  /\ last \in 1..MaxSeq /\ position = 0
  /\ shown = [d \in Device |-> 0]
  /\ want = [d \in Device |-> 0] /\ inflight = [d \in Device |-> 0]
  /\ timer = [d \in Device |-> FALSE]
  /\ calls = {} /\ back = [d \in Device |-> <<>>]
  /\ asks = 0 /\ timeouts = 0 /\ unmarked = FALSE

Ask == asks < MaxAsks /\ asks' = asks + 1 /\ UNCHANGED <<last, position, back, timeouts>>
Call(d, k, s) == [dev |-> d, kind |-> k, seq |-> s, no |-> asks]

(* markRead: ReadTracker.mark. *)
Mark(d, s) ==
  /\ Ask
  /\ s \in 1..last /\ s > Larger(shown[d], Floor(d))
  /\ want' = [want EXCEPT ![d] = s]
  /\ shown' = [shown EXCEPT ![d] = s]
  /\ timer' = [timer EXCEPT ![d] = TRUE]
  /\ UNCHANGED <<inflight, calls, unmarked>>

(* flush, by the window's timer, by a reconnect or when the page is hidden. *)
Flush(d) ==
  /\ want[d] # 0
  /\ calls' = calls \cup {Call(d, "read", want[d])}
  /\ inflight' = [inflight EXCEPT ![d] = Larger(@, want[d])]
  /\ want' = [want EXCEPT ![d] = 0]
  /\ timer' = [timer EXCEPT ![d] = FALSE]
  /\ UNCHANGED <<last, position, shown, back, asks, timeouts, unmarked>>

(* markUnread: forget what was asked, then tell the server. *)
MarkUnread(d, s) ==
  /\ Ask
  /\ s \in 1..last
  /\ unmarked' = TRUE
  /\ want' = [want EXCEPT ![d] = 0] /\ inflight' = [inflight EXCEPT ![d] = 0]
  /\ timer' = [timer EXCEPT ![d] = FALSE]
  /\ calls' = calls \cup {Call(d, "unread", s)}
  /\ UNCHANGED shown

(* refreshBootstrap asks for the channel list. *)
Refresh(d) ==
  /\ Ask
  /\ calls' = calls \cup {Call(d, "bootstrap", 0)}
  /\ UNCHANGED <<shown, want, inflight, timer, unmarked>>

Post == /\ last < MaxSeq /\ last' = last + 1
        /\ UNCHANGED <<position, shown, want, inflight, timer, calls, back, asks, timeouts, unmarked>>

(* api.mark_read never moves back, api.mark_unread may, bootstrap only looks. A
   change is told to every device of the person. *)
NewPosition(c) ==
  CASE c.kind = "read" -> Larger(position, c.seq)
    [] c.kind = "unread" -> c.seq - 1
    [] OTHER -> position

Serve(c, answered) ==
  /\ calls' = calls \ {c}
  /\ position' = NewPosition(c)
  /\ answered \/ (c.kind \in MayFail /\ timeouts < MaxTimeouts)
  /\ timeouts' = IF answered THEN timeouts ELSE timeouts + 1
  /\ LET told == IF position' # position THEN <<[kind |-> "event", of |-> "none", pos |-> position']>> ELSE <<>>
         answer == IF answered THEN [kind |-> "answer", of |-> c.kind, seq |-> c.seq, pos |-> position']
                               ELSE [kind |-> "failed", of |-> c.kind, seq |-> c.seq]
     IN back' = [d \in Device |-> back[d] \o told \o (IF d = c.dev THEN <<answer>> ELSE <<>>)]
  /\ UNCHANGED <<last, shown, want, inflight, timer, asks, unmarked>>

(* The request never reached the server. *)
LoseCall(c) ==
  /\ c.kind \in MayFail /\ timeouts < MaxTimeouts /\ timeouts' = timeouts + 1
  /\ calls' = calls \ {c}
  /\ back' = [back EXCEPT ![c.dev] =
                Append(@, [kind |-> "failed", of |-> c.kind, seq |-> c.seq])]
  /\ UNCHANGED <<last, position, shown, want, inflight, timer, asks, unmarked>>

\* Slips: the server's position as it comes; a position that only goes forward; a
\* failed request that waits for the next mark.
TakesTheServers(d, pos, floor) == shown' = [shown EXCEPT ![d] = pos]
OnlyForward(d, pos, floor) == shown' = [shown EXCEPT ![d] = Max({@, pos, floor})]
WaitsForAnother(d, s) == want' = [want EXCEPT ![d] = Larger(@, s)] /\ UNCHANGED timer

(* applyRead: the server's position, but no lower than what this device asked for
   and the server has not confirmed. *)
ApplyRead(d, pos, floor) == shown' = [shown EXCEPT ![d] = Larger(pos, floor)]

(* A mark_read that failed is asked for again. *)
AskAgain(d, s) ==
  /\ want' = [want EXCEPT ![d] = Larger(@, s)]
  /\ timer' = [timer EXCEPT ![d] = TRUE]

(* The rest of flush, of markUnread and of loadBootstrap, and the `read` event. *)
Hear(d, i) ==
  /\ i \in DOMAIN back[d] /\ (InOrder => i = 1)
  /\ back' = [back EXCEPT ![d] = SubSeq(@, 1, i - 1) \o SubSeq(@, i + 1, Len(@))]
  /\ LET m == back[d][i]
         mine == m.of = "read"
         left == IF mine /\ inflight[d] <= m.seq THEN 0 ELSE inflight[d]
     IN /\ inflight' = [inflight EXCEPT ![d] = left]
        /\ IF m.kind = "failed"
           THEN /\ IF mine THEN AskAgain(d, m.seq) ELSE UNCHANGED <<want, timer>>
                /\ UNCHANGED shown
           ELSE /\ ApplyRead(d, m.pos, Larger(want[d], left))
                /\ UNCHANGED <<want, timer>>
  /\ UNCHANGED <<last, position, calls, asks, timeouts, unmarked>>

ReadNext ==
  \/ Post
  \/ \E d \in Device : \/ Flush(d) \/ Refresh(d)
                       \/ \E s \in 1..MaxSeq : Mark(d, s) \/ MarkUnread(d, s)
                       \/ \E i \in DOMAIN back[d] : Hear(d, i)
  \/ \E c \in calls : LoseCall(c) \/ \E a \in BOOLEAN : Serve(c, a)

(* The window's timer and the retry's fire; requests and answers arrive. *)
ReadFairness ==
  /\ \A d \in Device : /\ WF_readVars(timer[d] /\ Flush(d))
                        /\ WF_readVars(\E i \in DOMAIN back[d] : Hear(d, i))
  /\ WF_readVars(\E c \in calls : Serve(c, TRUE))

ReadSpec == ReadInit /\ [][ReadNext]_readVars /\ ReadFairness

------------------------------------------------------------------------------
(* What a person read here and the server has not confirmed is never shown as
   unread again by an older event, answer or copy, as long as nobody marks unread. *)
UnconfirmedKept == \A d \in Device : shown[d] < Floor(d) => unmarked

(* What a person read reaches the server, whatever fails on the way, unless
   somebody marks unread (read.ts, "Keep the read and try again later"). *)
ReadArrives == []<>(unmarked \/ \A d \in Device : shown[d] <= position)

(* Not kept by the code: marking unread forgets what this device had asked for, and
   nothing it asked for before comes back (read.ts:101). *)
ForgottenStays == \A d \in Device : want[d] <= shown[d]

(* Once nothing is on its way any more, every device of the person shows the
   server's position: tabs and phones reconcile. *)
DevicesAgree ==
  (calls = {} /\ \A d \in Device : back[d] = <<>> /\ Floor(d) = 0)
    => \A d \in Device : shown[d] = position
=============================================================================
