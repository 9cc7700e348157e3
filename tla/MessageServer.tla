---------------------------- MODULE MessageServer ----------------------------
(***************************************************************************)
(* The transactions that write messages (supabase/migrations/              *)
(* 0210_messages.sql, with edit_message of 0921_mention_notifications.sql  *)
(* and soft_delete_message of 0900_integration.sql), as PostgreSQL runs    *)
(* them at READ COMMITTED: each statement reads what is committed; a row,  *)
(* an advisory key or a counter that is locked stays locked to the end of  *)
(* its transaction; and now() is the time the transaction STARTED.         *)
(*                                                                         *)
(* One action is what a transaction does from one wait for a lock to the   *)
(* next.  Its writes are its own ("work") until Commit publishes them.     *)
(* Access rules are not modelled; a body is a number, and there is one     *)
(* emoji.                                                                  *)
(***************************************************************************)
EXTENDS Integers, FiniteSets, Sequences, Functions

CONSTANTS Call,        \* transactions: one RPC each
          Msg,         \* sends: one client_id each
          Channel, User, File,
          Body,        \* what a message may say (0 is the empty body of a deleted one)
          Author,      \* Author[m]: whose client_id m is
          NoMsg,       \* no message: not a reply, a file nobody claimed
          NoUser,
          Kind,        \* bound: the RPCs that are called
          Root,        \* bound: the messages that are replied to
          Mentions,    \* bound: the sets of people that a reply or an edit newly mentions
          Limit, Window, \* rate_hit: calls per window, length of a window on the clock
          MaxAborts    \* bound: transactions cut off (timeout, lost connection)

ASSUME MessageServerAssumption ==
  /\ Author \in [Msg -> User] /\ NoMsg \notin Msg
  /\ Root \subseteq Msg /\ Mentions \subseteq SUBSET User /\ File \subseteq Nat /\ Body \subseteq Nat \ {0}
  /\ Kind \subseteq {"send", "edit", "delete", "react"}
  /\ Limit \in Nat /\ Window \in Nat \ {0} /\ MaxAborts \in Nat

VARIABLES
  call,      \* call[c]: the request of c and how far its transaction is
  held,      \* held[c]: the locks of c
  work,      \* work[c]: the rows c has written and not committed
  rows,      \* rows[m]: dek.messages, as committed
  lastSeq,   \* channel_state.last_seq
  reactors,  \* reactors[m]: dek.reactions, who reacted to m
  claimed,   \* claimed[f]: attachments.message_id
  follows,   \* follows[m]: dek.thread_follows, who has a row for the thread under m
  clock, aborts

table == <<rows, lastSeq, reactors, claimed, follows>>
vars == <<call, held, work, table, clock, aborts>>

NoRow == [ch |-> "none", seq |-> 0]
IsRow(m) == rows[m] # NoRow

Idle == [pc |-> "idle", answer |-> "none", start |-> 0, kind |-> "none", by |-> NoUser, id |-> NoMsg,
         ch |-> "none", root |-> NoMsg, files |-> {}, mentions |-> {}, body |-> 0, on |-> FALSE]

\* The committed log of a channel, in seq order.
LogOf(ch) == [i \in 1 .. lastSeq[ch] |-> CHOOSE m \in Msg : IsRow(m) /\ rows[m].ch = ch /\ rows[m].seq = i]
Log == INSTANCE ChannelLog WITH log <- [ch \in Channel |-> LogOf(ch)]

Init ==
  /\ call = [c \in Call |-> Idle] /\ held = [c \in Call |-> {}]
  /\ work = [c \in Call |-> [m \in {} |-> NoRow]]
  /\ rows = [m \in Msg |-> NoRow] /\ lastSeq = [ch \in Channel |-> 0]
  /\ reactors = [m \in Msg |-> {}] /\ claimed = [f \in File |-> NoMsg]
  /\ follows = [m \in Msg |-> {}]
  /\ clock = 0 /\ aborts = 0

-----------------------------------------------------------------------------
(* Locks and the ends of a transaction.                                    *)

RateKey(c)  == <<"rate", call[c].by, call[c].kind, call[c].start \div Window>>
ClientKey(m) == <<"client", m>>
RowKey(m)   == <<"row", m>>
FileKey(f)  == <<"file", f>>
StateKey(ch) == <<"state", ch>>
FollowKey(m, u) == <<"follow", m, u>>

At(c, pc)  == call[c].pc = pc
Free(c, k) == \A d \in Call \ {c} : k \notin held[d]
Take(c, k) == Free(c, k) /\ held' = [held EXCEPT ![c] = @ \cup {k}]
Goto(c, pc) == call' = [call EXCEPT ![c].pc = pc]

\* The transaction is over: its locks go, and what it answers is what the caller gets.
End(c, answer) ==
  /\ call' = [call EXCEPT ![c].pc = "done", ![c].answer = answer]
  /\ held' = [held EXCEPT ![c] = {}]
  /\ work' = [work EXCEPT ![c] = [m \in {} |-> NoRow]]

\* dek.err: everything is rolled back, the hit of rate_hit too.
Fail(c, code) == End(c, code) /\ UNCHANGED <<table, clock, aborts>>

\* It ends well without having written a message.
Return(c) == End(c, "ok") /\ UNCHANGED <<table, clock, aborts>>

\* The server process is cut off in the middle: statement timeout, lost connection.
Abort(c) ==
  /\ call[c].pc \notin {"idle", "done"} /\ aborts < MaxAborts
  /\ End(c, "lost") /\ aborts' = aborts + 1
  /\ UNCHANGED <<table, clock>>

-----------------------------------------------------------------------------
(* The start of the four RPCs.                                             *)

Begin(c, request) ==
  /\ At(c, "idle") /\ request.kind \in Kind
  /\ call' = [call EXCEPT ![c] = [request EXCEPT !.pc = IF request.kind = "delete" THEN "read" ELSE "rate",
                                                 !.start = clock]]
  /\ clock' = clock + 1
  /\ UNCHANGED <<held, work, table, aborts>>

BeginSend(c, m, ch, root, files, mentions) ==
  Begin(c, [Idle EXCEPT !.kind = "send", !.by = Author[m], !.id = m, !.ch = ch, !.root = root, !.files = files,
                        !.mentions = mentions])
BeginEdit(c, m, body, mentions) ==
  Begin(c, [Idle EXCEPT !.kind = "edit", !.by = Author[m], !.id = m, !.body = body, !.mentions = mentions])
\* By the author or a moderator; which of them it is changes nothing here.
BeginDelete(c, m)     == Begin(c, [Idle EXCEPT !.kind = "delete", !.by = Author[m], !.id = m])
BeginReact(c, u, m, on) == Begin(c, [Idle EXCEPT !.kind = "react", !.by = u, !.id = m, !.on = on])

\* rate_buckets.hits: the calls of one key that committed.
Hits(key) == {d \in Call : call[d].answer = "ok" /\ call[d].kind # "delete" /\ RateKey(d) = key}

\* rate_hit: the bucket row is locked by the upsert, so the calls of one person in one
\* window go one after the other.
RateHit(c) ==
  /\ At(c, "rate") /\ Free(c, RateKey(c))
  /\ IF Cardinality(Hits(RateKey(c))) + 1 > Limit
       THEN Fail(c, "rate_limited")
       ELSE /\ Take(c, RateKey(c))
            /\ Goto(c, IF call[c].kind = "send" THEN "client" ELSE "read")
            /\ UNCHANGED <<work, table, clock, aborts>>

-----------------------------------------------------------------------------
(* api.send_message.                                                       *)

\* The row of an earlier copy of this send, in this conversation or another one; else the
\* root of a reply has to be a first message of this conversation.
Look(c) ==
  LET m == call[c].id  root == call[c].root IN
  IF IsRow(m) THEN (IF rows[m].ch = call[c].ch THEN Return(c) ELSE Fail(c, "conflict"))
  ELSE IF root # NoMsg /\ (~ IsRow(root) \/ rows[root].ch # call[c].ch \/ rows[root].root # NoMsg)
    THEN Fail(c, "not_found")
  ELSE /\ Take(c, ClientKey(m))
       /\ Goto(c, IF root = NoMsg THEN "files" ELSE "root")
       /\ UNCHANGED <<work, table, clock, aborts>>

\* Slip: no advisory lock; two copies look at the same time.
SendLook_Unlocked(c) ==
  /\ At(c, "client")
  /\ IF IsRow(call[c].id) THEN Look(c)
     ELSE /\ call[c].root # NoMsg => IsRow(call[c].root) /\ rows[call[c].root].root = NoMsg
          /\ Goto(c, IF call[c].root = NoMsg THEN "files" ELSE "root")
          /\ UNCHANGED <<held, work, table, clock, aborts>>

\* "Idempotency first": copies of one send queue on the client_id.
SendLook(c) == At(c, "client") /\ Free(c, ClientKey(call[c].id)) /\ Look(c)

\* The root is locked before the sequence, and looked at again.
SendLockRoot(c) ==
  /\ At(c, "root") /\ Free(c, RowKey(call[c].root))
  /\ IF rows[call[c].root].deleted THEN Fail(c, "conflict")
     ELSE /\ Take(c, RowKey(call[c].root)) /\ Goto(c, "files")
          /\ UNCHANGED <<work, table, clock, aborts>>

ToLock(c) == {f \in call[c].files : FileKey(f) \notin held[c]}

\* Slip: the files are locked in the order the caller named them.
NextFile_AnyOrder(c, f) == f \in ToLock(c)

\* Which file is locked next: "in id order".
NextFile(c, f) == f \in ToLock(c) /\ \A g \in ToLock(c) : f <= g

SendLockFile(c) ==
  /\ At(c, "files")
  /\ \E f \in ToLock(c) : NextFile(c, f) /\ Take(c, FileKey(f))
  /\ UNCHANGED <<call, work, table, clock, aborts>>

\* Files that are not free any more fail the send.
SendFilesTaken(c) ==
  /\ At(c, "files") /\ ToLock(c) = {}
  /\ \E f \in call[c].files : claimed[f] # NoMsg
  /\ Fail(c, "invalid_input")

\* allocate_seq and the insert; a reply counts itself on its root, whose row is ours.
\* The unique index on (author_id, client_id) is behind all this.
NewRow(c, seq) ==
  [ch |-> call[c].ch, seq |-> seq, root |-> call[c].root, body |-> 1, deleted |-> FALSE,
   replies |-> 0, reactions |-> {}, files |-> call[c].files, updated |-> call[c].start]

Counted(c, root, n) == [rows[root] EXCEPT !.replies = n, !.updated = call[c].start]

\* Slip: the next number is read without locking the counter.
Insert_Unlocked(c) ==
  /\ work' = [work EXCEPT ![c] = [n \in {call[c].id} |-> NewRow(c, lastSeq[call[c].ch] + 1)]]
  /\ Goto(c, "commit")
  /\ UNCHANGED <<held, table, clock, aborts>>

Insert(c) ==
  LET m == call[c].id  root == call[c].root
      replied == IF root = NoMsg THEN {} ELSE {root}
  IN /\ Take(c, StateKey(call[c].ch))
     /\ work' = [work EXCEPT ![c] = [n \in {m} \cup replied |->
                   IF n = m THEN NewRow(c, lastSeq[call[c].ch] + 1)
                   ELSE Counted(c, root, rows[root].replies + 1)]]
     /\ Goto(c, "commit")
     /\ UNCHANGED <<table, clock, aborts>>

\* Slip: whether the files are free was looked at before their locks were waited for.
SendInsert_StaleFiles(c) == At(c, "files") /\ ToLock(c) = {} /\ ~ IsRow(call[c].id) /\ Insert(c)

SendInsert(c) ==
  /\ At(c, "files") /\ ToLock(c) = {}
  /\ \A f \in call[c].files : claimed[f] = NoMsg
  /\ \A d \in Call \ {c} : ~ (call[d].kind = "send" /\ call[d].id = call[c].id /\ At(d, "commit"))
  /\ IF IsRow(call[c].id) THEN Fail(c, "duplicate_key") ELSE Insert(c)

-----------------------------------------------------------------------------
(* api.edit_message, api.delete_message, api.toggle_reaction.              *)

\* msg_get, and what is decided on that first look.
ChangeRead(c) ==
  LET m == call[c].id  k == call[c].kind IN
  /\ At(c, "read")
  /\ IF ~ IsRow(m) THEN Fail(c, "not_found")
     ELSE IF k = "delete" /\ rows[m].deleted THEN Return(c)
     ELSE IF k = "edit" /\ rows[m].deleted THEN Fail(c, "conflict")
     ELSE IF k = "edit" /\ rows[m].body = call[c].body THEN Return(c)
     ELSE Goto(c, "row") /\ UNCHANGED <<held, work, table, clock, aborts>>

\* The people shown under m once the toggle of c is in.
Toggled(c) == IF call[c].on THEN reactors[call[c].id] \cup {call[c].by} ELSE reactors[call[c].id] \ {call[c].by}

\* The row that c writes.
Changed(c) ==
  LET old == [rows[call[c].id] EXCEPT !.updated = call[c].start] IN
  CASE call[c].kind = "edit"   -> [old EXCEPT !.body = call[c].body]
    [] call[c].kind = "delete" -> [old EXCEPT !.deleted = TRUE, !.body = 0, !.reactions = {}]
    [] call[c].kind = "react"  -> [old EXCEPT !.reactions = Toggled(c)]

\* Slip: a change does not look again once it has the row.
Change_NoSecondLook(c) ==
  /\ Take(c, RowKey(call[c].id))
  /\ work' = [work EXCEPT ![c] = [n \in {call[c].id} |-> Changed(c)]]
  /\ Goto(c, IF call[c].kind = "delete" /\ rows[call[c].id].root # NoMsg THEN "count" ELSE "commit")
  /\ UNCHANGED <<table, clock, aborts>>

\* The row is locked and read again; it may have been deleted in between.
Change(c) ==
  LET m == call[c].id  k == call[c].kind  r == rows[m] IN
  IF r.deleted THEN (IF k = "delete" THEN Return(c) ELSE Fail(c, "conflict"))
  ELSE IF k = "react" /\ Toggled(c) = reactors[m] THEN Return(c)
  ELSE /\ Take(c, RowKey(m))
       /\ work' = [work EXCEPT ![c] = [n \in {m} |-> Changed(c)]]
       /\ Goto(c, IF k = "delete" /\ r.root # NoMsg THEN "count" ELSE "commit")
       /\ UNCHANGED <<table, clock, aborts>>

\* Slip: the row is not locked, so two maps are built from one snapshot.
ChangeRow_Unlocked(c) ==
  /\ At(c, "row") /\ ~ rows[call[c].id].deleted
  /\ work' = [work EXCEPT ![c] = [n \in {call[c].id} |-> Changed(c)]]
  /\ Goto(c, IF call[c].kind = "delete" /\ rows[call[c].id].root # NoMsg THEN "count" ELSE "commit")
  /\ UNCHANGED <<held, table, clock, aborts>>

ChangeRow(c) == At(c, "row") /\ Free(c, RowKey(call[c].id)) /\ Change(c)

\* Slip: the counter is read without waiting for the root.
DeleteCount_Unlocked(c) ==
  LET root == rows[call[c].id].root IN
  /\ At(c, "count")
  /\ work' = [work EXCEPT ![c] = [n2 \in {call[c].id, root} |->
                IF n2 = root THEN Counted(c, root, rows[root].replies - 1) ELSE work[c][n2]]]
  /\ Goto(c, "commit")
  /\ UNCHANGED <<held, table, clock, aborts>>

\* soft_delete_message of a reply: one reply less on its root.
DeleteCount(c) ==
  LET root == rows[call[c].id].root
      n == rows[root].replies IN
  /\ At(c, "count") /\ Take(c, RowKey(root))
  /\ work' = [work EXCEPT ![c] = [n2 \in {call[c].id, root} |->
                IF n2 = root THEN Counted(c, root, IF n > 0 THEN n - 1 ELSE 0) ELSE work[c][n2]]]
  /\ Goto(c, "commit")
  /\ UNCHANGED <<table, clock, aborts>>

-----------------------------------------------------------------------------
(* Who follows a thread, and the commit.                                   *)

\* The thread that a reply, or an edit of one, brings people into.
Thread(c) == IF call[c].kind = "send" THEN call[c].root ELSE rows[call[c].id].root

\* Whose row of dek.thread_follows c writes next.  A reply locks or makes its author's, and
\* then, like an edit, makes those that are missing: of the root's author and of the people
\* mentioned.  A row that another transaction is making is waited for.
ToFollow(c) ==
  LET root    == Thread(c)
      named   == IF call[c].kind = "send" THEN call[c].mentions \cup {Author[root]} ELSE call[c].mentions
      missing == named \ (follows[root] \cup {call[c].by})
  IN IF call[c].kind \notin {"send", "edit"} \/ root = NoMsg THEN {}
     ELSE IF call[c].kind = "send" /\ FollowKey(root, call[c].by) \notin held[c] THEN {call[c].by}
     ELSE {u \in missing : FollowKey(root, u) \notin held[c]}

Follow(c) ==
  /\ At(c, "commit")
  /\ \E u \in ToFollow(c) : Take(c, FollowKey(Thread(c), u))
  /\ UNCHANGED <<call, work, table, clock, aborts>>

Commit(c) ==
  LET m == call[c].id IN
  /\ At(c, "commit") /\ ToFollow(c) = {}
  /\ End(c, "ok")
  /\ rows' = [n \in Msg |-> IF n \in DOMAIN work[c] THEN work[c][n] ELSE rows[n]]
  /\ lastSeq' = IF call[c].kind = "send" THEN [lastSeq EXCEPT ![call[c].ch] = work[c][m].seq] ELSE lastSeq
  /\ claimed' = [f \in File |-> IF call[c].kind = "send" /\ f \in call[c].files THEN m ELSE claimed[f]]
  /\ reactors' = [reactors EXCEPT ![m] = IF call[c].kind = "delete" THEN {}
                                         ELSE IF call[c].kind = "react" THEN Toggled(c) ELSE @]
  /\ follows' = [n \in Msg |-> follows[n] \cup {u \in User : FollowKey(n, u) \in held[c]}]
  /\ UNCHANGED <<clock, aborts>>

Step(c) ==
  \/ RateHit(c) \/ SendLook(c) \/ SendLockRoot(c) \/ SendLockFile(c) \/ SendFilesTaken(c) \/ SendInsert(c)
  \/ ChangeRead(c) \/ ChangeRow(c) \/ DeleteCount(c)
  \/ Follow(c) \/ Commit(c) \/ Abort(c)

Start(c) ==
  \E m \in Msg :
    \/ \E ch \in Channel, root \in (Root \ {m}) \cup {NoMsg}, files \in SUBSET File, mentions \in Mentions \cup {{}} :
         (root = NoMsg => mentions = {}) /\ BeginSend(c, m, ch, root, files, mentions)
    \/ \E body \in Body, mentions \in Mentions : BeginEdit(c, m, body, mentions)
    \/ BeginDelete(c, m)
    \/ \E u \in User, on \in BOOLEAN : BeginReact(c, u, m, on)

Next == \E c \in Call : Start(c) \/ Step(c)

Spec == Init /\ [][Next]_vars

-----------------------------------------------------------------------------
(* Properties.                                                             *)

RowType == [ch : Channel, seq : Nat \ {0}, root : Msg \cup {NoMsg}, body : Body \cup {0, 1}, deleted : BOOLEAN,
            replies : Nat, reactions : SUBSET User, files : SUBSET File, updated : Nat]

CallType == [pc : {"idle", "rate", "client", "root", "files", "read", "row", "count", "commit", "done"},
             answer : {"none", "ok", "lost", "rate_limited", "conflict", "not_found", "invalid_input", "duplicate_key"},
             start : Nat, kind : Kind \cup {"none"}, by : User \cup {NoUser}, id : Msg \cup {NoMsg},
             ch : Channel \cup {"none"}, root : Msg \cup {NoMsg}, files : SUBSET File, mentions : SUBSET User,
             body : Body \cup {0}, on : BOOLEAN]

\* Every variable has its type, and the locks are only held by transactions under way.
TypeOK ==
  /\ call \in [Call -> CallType]
  /\ DOMAIN held = Call /\ DOMAIN work = Call
  /\ \A c \in Call : DOMAIN work[c] \subseteq Msg /\ \A m \in DOMAIN work[c] : work[c][m] \in RowType
  /\ \A c \in Call : At(c, "idle") \/ At(c, "done") => held[c] = {}
  /\ rows \in [Msg -> RowType \cup {NoRow}]
  /\ lastSeq \in [Channel -> Nat]
  /\ reactors \in [Msg -> SUBSET User]
  /\ claimed \in [File -> Msg \cup {NoMsg}]
  /\ follows \in [Msg -> SUBSET User]
  /\ clock \in Nat /\ aborts \in Nat

\* "gapless, ordered": the committed messages of a channel have the numbers 1 to
\* last_seq, each one once, whatever was rolled back.
Gapless ==
  /\ \A m \in Msg : IsRow(m) => rows[m].seq \in 1 .. lastSeq[rows[m].ch]
  /\ \A m, n \in Msg : IsRow(m) /\ IsRow(n) /\ rows[m].ch = rows[n].ch /\ rows[m].seq = rows[n].seq => m = n
  /\ \A ch \in Channel : \A i \in 1 .. lastSeq[ch] : \E m \in Msg : IsRow(m) /\ rows[m].ch = ch /\ rows[m].seq = i

\* What a reader can see of a channel only grows, at the end: a message with a lower
\* number never appears behind a higher one, and a replay adds nothing (ChannelLog).
LogSpec == Log!Spec

\* A replay is answered with the message ("without an error and without burning a
\* seq"): the unique index behind the look-up never has to refuse one, and a send that is
\* answered well, the first or a later copy, has its message in that conversation.
ReplayIsAnswered ==
  \A c \in Call :
    /\ call[c].answer # "duplicate_key"
    /\ call[c].kind = "send" /\ call[c].answer = "ok" =>
         IsRow(call[c].id) /\ rows[call[c].id].ch = call[c].ch

\* The counter under a thread's root is the number of its replies that are not deleted.
RepliesCounted ==
  \A r \in Msg : IsRow(r) =>
    rows[r].replies = Cardinality({m \in Msg : IsRow(m) /\ rows[m].root = r /\ ~ rows[m].deleted})

\* "no lost update between two people": the map on the message is what the reactions
\* table says.
ReactionsShown == \A m \in Msg : IsRow(m) => rows[m].reactions = reactors[m]

\* A file belongs to the one message that counts it.
FilesClaimedOnce == \A m \in Msg, f \in File : IsRow(m) => (f \in rows[m].files <=> claimed[f] = m)

\* The locks of which c needs one next.
Wants(c) ==
  CASE At(c, "rate")   -> {RateKey(c)}
    [] At(c, "client") -> {ClientKey(call[c].id)}
    [] At(c, "root")   -> {RowKey(call[c].root)}
    [] At(c, "files")  -> IF ToLock(c) = {} THEN {StateKey(call[c].ch)}
                          ELSE {FileKey(f) : f \in {g \in ToLock(c) : NextFile(c, g)}}
    [] At(c, "row")    -> {RowKey(call[c].id)}
    [] At(c, "count")  -> {RowKey(rows[call[c].id].root)}
    [] At(c, "commit") -> {FollowKey(Thread(c), u) : u \in ToFollow(c)}
    [] OTHER           -> {}

\* An edit that still has people to bring into a thread: it takes their rows in the order
\* in which it mentions them.
BringsIn(c) == At(c, "commit") /\ call[c].kind = "edit" /\ ToFollow(c) # {}

\* c waits for nobody else in S, whichever lock it takes next.
Goes(c, S) == \A k \in Wants(c), d \in S \ {c} : k \notin held[d]

\* The orders in which the transactions take their locks never close a circle, but for the
\* edits that bring people into a thread: each circle of waits goes through one of these.
NoWaitCycle ==
  \A S \in (SUBSET {c \in Call : ~ BringsIn(c)}) \ {{}} : \E c \in S : Goes(c, S)

\* What one would like instead, and what does not hold: an edit and a reply, or two edits,
\* that bring the same people into one thread can take them in opposite orders.
NeverStuck == \A S \in (SUBSET Call) \ {{}} : \E c \in S : Goes(c, S)

\* Deletion is final: no edit, toggle or reply that was under way brings anything back.
DeletedIsFinal ==
  [][\A m \in Msg : IsRow(m) /\ rows[m].deleted =>
       /\ rows'[m].deleted /\ rows'[m].body = 0 /\ rows'[m].reactions = {}
       /\ rows'[m].replies <= rows[m].replies]_vars
=============================================================================
