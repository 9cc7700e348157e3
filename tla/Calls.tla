------------------------------- MODULE Calls -------------------------------
(* The calls of one conversation: the database's rows (0410_calls.sql, 0914_sfu.sql),
   the store's copies of them, and the call engine of each device (engine.ts). Every
   RPC holds the call's row lock, so it is one step; what surrounds it (requests on
   their way, answers that come late or never, events out of order) is not.

   Left out: media, the microphone's await (it is part of a request's way), the links
   between devices, SFU tracks, rooms that are full, whether a sheet was sent away. *)
EXTENDS Naturals, Sequences

CONSTANTS Person, Device,
          Owners,    \* what is followed of [Device -> Person]: who is signed in where
          MaxCalls, MaxMoves,   \* bounds: calls; what people do and what goes wrong
          MaxLost, MaxReaped    \* bounds: of that, what gets lost, what the reaper does

VARIABLES kind,      \* "direct" or "room", of the conversation
          owner,     \* [Device -> Person], of Owners
          calls,     \* dek.calls with its participants, in the order they were made
          copy,      \* [Device -> [1..MaxCalls -> snapshot]]: store.calls
          events,    \* [Device -> set of snapshots]: call.ring and call.upd, none of which must arrive
          eng,       \* [Device -> engine]
          rpcs,      \* requests, and the answers to them, on their way
          fresh,     \* the last session id given out
          moves, lost, reaped,
          excused    \* people left joined in a way the code does not prevent

bounds_ == <<kind, owner, moves, lost, reaped>>
vars == <<calls, copy, events, eng, rpcs, fresh, bounds_, excused>>

NoCall == [id |-> 0, ended |-> TRUE]
Row(st, s) == [st |-> st, sess |-> s]
IdleEngine == [call |-> 0, sess |-> 0, known |-> NoCall, live |-> FALSE, final |-> FALSE,
               dismiss |-> FALSE, rings |-> FALSE, cool |-> FALSE]

Init ==
  /\ kind \in {"direct", "room"} /\ owner \in Owners
  /\ calls = <<>>
  /\ copy = [d \in Device |-> [c \in 1..MaxCalls |-> NoCall]]
  /\ events = [d \in Device |-> {}]
  /\ eng = [d \in Device |-> IdleEngine]
  /\ rpcs = {} /\ fresh = 0
  /\ moves = 0 /\ lost = 0 /\ reaped = 0 /\ excused = {}

Requests(d) == {q \in rpcs : q.dev = d}
Spend == moves + lost + reaped < MaxMoves

In(v, st) == {p \in Person : v.part[p].st = st}
Active == {c \in DOMAIN calls : ~calls[c].ended}

------------------------------------------------------------------------------
(* media_settle_call: a room ends when nobody is joined, a direct call when nobody is
   (its phones stop ringing) or nobody rings and at most one person is. *)
Over(v) ==
  \/ In(v, "joined") = {}
  \/ kind = "direct" /\ In(v, "ringing") = {} /\ \E p \in Person : In(v, "joined") = {p}
Closed(row) == [row EXCEPT !.st = CASE @ = "joined" -> "left" [] @ = "ringing" -> "missed" [] OTHER -> @]
Settled(v) ==
  IF Over(v) THEN [v EXCEPT !.ended = TRUE, !.part = [p \in Person |-> Closed(v.part[p])]] ELSE v

(* media_emit_call: a new version, told to every participant, and a room's to all. *)
Publish(v) ==
  LET w == [v EXCEPT !.rev = @ + 1] IN
  /\ calls' = IF v.id > Len(calls) THEN Append(calls, w) ELSE [calls EXCEPT ![v.id] = w]
  /\ events' = [d \in Device |->
       IF kind = "room" \/ v.part[owner[d]].st # "out" THEN events[d] \cup {w} ELSE events[d]]

\* Nothing waits for the answer to a decline or a bye, or is there to when the page is gone.
Reply(q, ok, v) ==
  rpcs' = (rpcs \ {q}) \cup (IF q.kind \in {"decline", "bye"} \/ q.live = "gone" THEN {}
                             ELSE {[q EXCEPT !.at = "answered", !.ok = ok, !.call = v]})
Change(q, v) == Publish(v) /\ Reply(q, TRUE, calls'[v.id])
AsItIs(q, c) == Reply(q, TRUE, calls[c]) /\ UNCHANGED <<calls, events>>
Refuse(q) == Reply(q, FALSE, NoCall) /\ UNCHANGED <<calls, events>>
With(v, p, row) == [v EXCEPT !.part[p] = row]

Opened(p, s, others) ==
  [id |-> Len(calls) + 1, by |-> p, rev |-> 0, ended |-> FALSE,
   part |-> [q \in Person |-> IF q = p THEN Row("joined", s) ELSE Row(others, 0)]]

(* start_call: the call that goes on, or a new one that rings for the others. *)
StartCall(q, p) ==
  IF Active # {} THEN (\E c \in Active : AsItIs(q, c)) /\ UNCHANGED fresh
  ELSE /\ Change(q, Opened(p, fresh + 1, "ringing")) /\ Len(calls) < MaxCalls
       /\ fresh' = fresh + 1

(* answer_call. *)
AnswerCall(q, p, c) ==
  IF c \notin DOMAIN calls \/ calls[c].ended THEN Refuse(q)
  ELSE IF calls[c].part[p] = Row("joined", q.sess) THEN AsItIs(q, c)
  ELSE Change(q, With(calls[c], p, Row("joined", q.sess)))

(* media_join_room. *)
JoinRoom(q, p) ==
  IF Active = {} THEN Change(q, Opened(p, q.sess, "out")) /\ Len(calls) < MaxCalls
  ELSE \E c \in Active : IF calls[c].part[p] = Row("joined", q.sess) THEN AsItIs(q, c)
                         ELSE Change(q, With(calls[c], p, Row("joined", q.sess)))

DeclineCall(q, p, c) ==
  IF c \notin DOMAIN calls \/ (calls[c].part[p].st = "joined" /\ ~calls[c].ended) THEN Refuse(q)
  ELSE IF calls[c].ended \/ calls[c].part[p].st # "ringing" THEN AsItIs(q, c)
  ELSE Change(q, Settled([calls[c] EXCEPT !.part[p].st = "declined"]))

LeaveCall(q, p, c) ==
  LET st == calls[c].part[p].st IN
  IF c \notin DOMAIN calls \/ st = "out" THEN Refuse(q)
  ELSE IF calls[c].ended \/ st \notin {"joined", "ringing"} THEN AsItIs(q, c)
  ELSE Change(q, Settled([calls[c] EXCEPT !.part[p].st = IF st = "ringing" THEN "declined" ELSE "left"]))

Serve(q) ==
  /\ q.at = "asked"
  /\ LET p == owner[q.dev] IN
     \/ q.kind = "start" /\ StartCall(q, p)
     \/ /\ UNCHANGED fresh
        /\ \/ q.kind \in {"answer", "rejoin"} /\ kind = "direct" /\ AnswerCall(q, p, q.of)
           \/ q.kind \in {"answer", "rejoin", "join"} /\ kind = "room"
              /\ IF q.kind = "answer" /\ calls[q.of].ended THEN Refuse(q) ELSE JoinRoom(q, p)
           \/ q.kind = "decline" /\ DeclineCall(q, p, q.of)
           \/ q.kind \in {"leave", "bye"} /\ LeaveCall(q, p, q.of)
           \/ q.kind = "get" /\ AsItIs(q, q.of)
  /\ UNCHANGED <<copy, eng, bounds_, excused>>

------------------------------------------------------------------------------
(* The device that is in a call for a person, with the session the server knows. *)
Attends(d, c, s) == eng[d].call = c /\ eng[d].sess = s
Ghost(p, c) == /\ ~calls[c].ended /\ calls[c].part[p].st = "joined"
               /\ \A d \in Device : owner[d] = p => ~Attends(d, c, calls[c].part[p].sess)

(* media_reap_calls: what rang for 45 s is missed, who was silent for 90 s has left. *)
Reap(c, quiet, missed) ==
  /\ c \in Active /\ \A p \in quiet : calls[c].part[p].st = "joined"
  /\ missed => In(calls[c], "ringing") # {}
  /\ quiet # {} \/ missed
  /\ reaped < MaxReaped /\ Spend /\ reaped' = reaped + 1
  /\ Publish(Settled([calls[c] EXCEPT !.part = [p \in Person |->
       LET row == calls[c].part[p] IN
       CASE p \in quiet -> Row("left", row.sess)
         [] missed /\ row.st = "ringing" -> Row("missed", row.sess)
         [] OTHER -> row]]))
  /\ UNCHANGED <<kind, owner, copy, eng, rpcs, fresh, moves, lost, excused>>

------------------------------------------------------------------------------
(* The engine. What a piece of it does is the engine after it, what it asks the
   server for, and whether it raised the generation (`dies`). *)
Ask(d, k, c, s) == [dev |-> d, kind |-> k, of |-> c, sess |-> s, next |-> 0, live |-> "live",
                    at |-> "asked", ok |-> FALSE, call |-> NoCall]
Outcome(e, asks, dies) == [eng |-> e, asks |-> asks, dies |-> dies]

Torn(e) == [e EXCEPT !.call = 0, !.sess = 0, !.rings = FALSE]
Final(e) == [e EXCEPT !.live = FALSE, !.final = TRUE, !.dismiss = TRUE]
Reset(e) == [Torn(e) EXCEPT !.live = FALSE, !.final = FALSE]
Begun(e) == [e EXCEPT !.known = NoCall, !.live = TRUE, !.final = FALSE, !.dismiss = FALSE]
EndHere(e) == Outcome(Final(Torn(e)), {}, TRUE)
Begin(d, e, k, c) == Outcome(Begun(e), {Ask(d, k, c, IF k = "start" THEN 0 ELSE fresh + 1)}, TRUE)

OthersRing(v, p) == /\ kind = "direct" /\ \A q \in Person \ {p} : v.part[q].st # "joined"
                    /\ \E q \in Person \ {p} : v.part[q].st = "ringing"
Older(v, w) == v.id = w.id /\ v.rev < w.rev

(* rejoin, up to its await. *)
Rejoin(d, e) ==
  IF e.cool THEN EndHere(e)
  ELSE Outcome([e EXCEPT !.cool = TRUE], {Ask(d, "rejoin", e.call, e.sess)}, FALSE)

(* applyCall. *)
ApplyCall(d, e, v) ==
  LET me == v.part[owner[d]]
      k == [e EXCEPT !.known = v]
  IN CASE \/ e.call = 0 \/ v.id # e.call
          \/ e.known.id = v.id /\ e.known.ended /\ ~v.ended
          \/ Older(v, e.known)                       -> Outcome(e, {}, FALSE)
       [] OTHER ->
     IF v.ended THEN EndHere(k) ELSE
     CASE me.st \in {"out", "declined", "missed"}            -> EndHere(k)
       [] me.st = "joined" /\ me.sess # e.sess               -> EndHere(k)
       [] me.st = "left"                                     -> Rejoin(d, k)
       [] me.st = "ringing"                                  -> Outcome(k, {}, FALSE)
       [] OTHER -> Outcome([k EXCEPT !.rings = @ /\ OthersRing(v, owner[d])], {}, FALSE)

(* enter, with the newer one of the answer and what the store has seen. *)
Enter(d, e, v, s) ==
  LET seen == copy[d][v.id]
      shows == /\ seen.id # 0
               /\ seen.ended \/ seen.part[owner[d]] = Row("joined", s)
  IN ApplyCall(d, [e EXCEPT !.call = v.id, !.sess = s, !.live = TRUE,
                            !.rings = kind = "direct" /\ v.by = owner[d]],
               IF shows THEN seen ELSE v)

(* leave, up to its await; answer may go on with another call after it. *)
Leave(d, e, next) ==
  IF e.call = 0 THEN Outcome(Reset(e), {}, TRUE)
  ELSE Outcome(Torn(e), {[Ask(d, "leave", e.call, 0) EXCEPT !.next = next]}, TRUE)

Die(d, qs) == {IF q.dev = d /\ q.live = "live" THEN [q EXCEPT !.live = "dead"] ELSE q : q \in qs}
Becomes(d, o, qs) == /\ eng' = [eng EXCEPT ![d] = o.eng]
                     /\ rpcs' = (IF o.dies THEN Die(d, qs) ELSE qs) \cup o.asks

------------------------------------------------------------------------------
Joins == {"start", "answer", "join", "rejoin"}

(* What people do. *)
Move == Spend /\ moves' = moves + 1 /\ UNCHANGED <<kind, owner, calls, copy, events, lost, reaped, excused>>
Seen(d) == {c \in 1..MaxCalls : copy[d][c].id # 0 /\ ~copy[d][c].ended}

(* startDirect, or joinRoom. *)
Start(d) ==
  /\ ~eng[d].live /\ Move
  /\ IF kind = "direct" /\ Seen(d) = {}
     THEN Becomes(d, Begin(d, eng[d], "start", 0), rpcs) /\ UNCHANGED fresh
     ELSE /\ \/ kind = "room" /\ Becomes(d, Begin(d, eng[d], "join", 0), rpcs)
             \/ kind = "direct" /\ \E c \in Seen(d) : Becomes(d, Begin(d, eng[d], "answer", c), rpcs)
          /\ fresh' = fresh + 1

(* answer, from the sheet of a ringing call. *)
Answer(d, c) ==
  /\ c \in Seen(d) /\ c # eng[d].call /\ copy[d][c].part[owner[d]].st = "ringing" /\ Move
  /\ IF eng[d].live /\ eng[d].call # 0
     THEN Becomes(d, Leave(d, eng[d], c), rpcs) /\ UNCHANGED fresh
     ELSE /\ Becomes(d, Begin(d, IF eng[d].live THEN Reset(eng[d]) ELSE eng[d], "answer", c), rpcs)
          /\ fresh' = fresh + 1

Decline(d, c) ==
  /\ c \in Seen(d) /\ copy[d][c].part[owner[d]].st = "ringing" /\ Move
  /\ rpcs' = rpcs \cup {Ask(d, "decline", c, 0)}
  /\ UNCHANGED <<eng, fresh>>

HangUp(d) ==
  /\ eng[d].live /\ Move
  /\ Becomes(d, Leave(d, eng[d], 0), rpcs)
  /\ UNCHANGED fresh

(* The page goes, and with it the store: with a call, it leaves by a request that
   outlives it. The next page knows of no calls. *)
Hide(d) ==
  /\ eng[d].live /\ Spend /\ moves' = moves + 1
  /\ eng' = [eng EXCEPT ![d] = IdleEngine]
  /\ LET mine == Requests(d) IN
     /\ rpcs' = (rpcs \ mine) \cup {[q EXCEPT !.live = "gone"] : q \in {r \in mine : r.at = "asked"}} \cup
                (IF eng[d].call # 0 THEN {[Ask(d, "bye", eng[d].call, 0) EXCEPT !.live = "gone"]} ELSE {})
     /\ excused' = IF \E q \in mine : q.kind \in Joins THEN excused \cup {owner[d]} ELSE excused
  /\ copy' = [copy EXCEPT ![d] = [c \in 1..MaxCalls |-> NoCall]]
  /\ events' = [events EXCEPT ![d] = {}]
  /\ UNCHANGED <<kind, owner, calls, fresh, lost, reaped>>

------------------------------------------------------------------------------
(* The engine's timers. *)
Timer(d, o, qs) == Becomes(d, o, qs) /\ UNCHANGED <<calls, copy, events, fresh, bounds_>>

RingTimer(d) ==
  /\ eng[d].rings /\ OthersRing(eng[d].known, owner[d])
  /\ Timer(d, Leave(d, [eng[d] EXCEPT !.rings = FALSE], 0), rpcs)
  /\ UNCHANGED excused

(* The end of a call is shown for 6 s. *)
Dismiss(d) ==
  /\ eng[d].dismiss
  /\ LET e == [eng[d] EXCEPT !.dismiss = FALSE] IN
     Timer(d, IF e.final THEN Outcome(Reset(e), {}, TRUE) ELSE Outcome(e, {}, FALSE), rpcs)
  /\ excused' = IF eng[d].final /\ eng[d].call # 0 THEN excused \cup {owner[d]} ELSE excused

(* The cooldown of 60 s, and the 30 s between heartbeats, are longer than the 15 s
   that a request may take (api/client.ts:123). *)
Asked(d, k) == \E q \in Requests(d) : q.kind = k

Cool(d) ==
  /\ eng[d].cool /\ ~Asked(d, "rejoin") /\ Timer(d, Outcome([eng[d] EXCEPT !.cool = FALSE], {}, FALSE), rpcs)
  /\ UNCHANGED excused

\* A slip: the server accepts the heartbeat of a session that was replaced.
AnySession(d) ==
  LET e == eng[d] IN
  /\ ~Asked(d, "get")
  /\ e.call # 0 /\ (calls[e.call].ended \/ calls[e.call].part[owner[d]].st # "joined")
  /\ Timer(d, Outcome(e, {Ask(d, "get", e.call, 0)}, FALSE), rpcs)
  /\ UNCHANGED excused

(* beat: a heartbeat that the server refuses makes the engine read the call. *)
Beat(d) ==
  LET e == eng[d] IN
  /\ ~Asked(d, "get")
  /\ e.call # 0 /\ (calls[e.call].ended \/ calls[e.call].part[owner[d]] # Row("joined", e.sess))
  /\ Timer(d, Outcome(e, {Ask(d, "get", e.call, 0)}, FALSE), rpcs)
  /\ UNCHANGED excused

------------------------------------------------------------------------------
(* Events reach the store (isOlderCall), and from there the engine. *)
Deliver(d, v) ==
  /\ v \in events[d]
  /\ IF Older(v, copy[d][v.id])
     THEN events' = [events EXCEPT ![d] = @ \ {v}] /\ UNCHANGED <<copy, eng, rpcs>>
     ELSE /\ copy' = [copy EXCEPT ![d][v.id] = v]
          /\ events' = [events EXCEPT ![d] = {w \in @ : ~Older(w, v)} \ {v}]  \* older ones will change nothing
          /\ Becomes(d, ApplyCall(d, eng[d], v), rpcs)
  /\ UNCHANGED <<calls, fresh, bounds_, excused>>

(* A request never arrives, or its answer does not. *)
Fail(q) ==
  /\ q.at = "answered" => q.ok
  /\ lost < MaxLost /\ Spend /\ lost' = lost + 1
  /\ Reply(q, FALSE, NoCall)
  /\ excused' = IF q.kind \in (IF q.at = "answered" THEN Joins ELSE {"leave", "bye"})
                THEN excused \cup {owner[q.dev]} ELSE excused
  /\ UNCHANGED <<kind, owner, calls, copy, events, eng, fresh, moves, reaped>>

(* What follows the await of a request. *)
Bye(q) == Outcome(eng[q.dev], {[Ask(q.dev, "bye", q.call.id, 0) EXCEPT !.live = "dead"]}, FALSE)
Quietly(q) == Outcome(eng[q.dev], {}, FALSE)

AfterStart(q) ==
  LET d == q.dev
      mine == q.call.part[owner[d]]
  IN IF mine.st = "joined" /\ q.call.by = owner[d] /\ ~q.call.ended
     THEN Enter(d, eng[d], q.call, mine.sess)
     ELSE Outcome(eng[d], {Ask(d, "answer", q.call.id, fresh + 1)}, FALSE)

AfterLeave(q) ==
  LET e == Final(eng[q.dev]) IN
  IF q.next = 0 THEN Outcome(e, {}, FALSE) ELSE Begin(q.dev, e, "answer", q.next)

\* A slip: an answer that comes too late is dropped.
TooLateIsDropped(q) ==
  IF q.kind = "leave" THEN AfterLeave(q)
  ELSE IF q.live = "dead" THEN Quietly(q)
  ELSE IF q.kind \in {"start", "answer", "join", "rejoin"} /\ ~q.ok THEN EndHere(eng[q.dev])
  ELSE CASE q.kind = "start" -> AfterStart(q)
         [] q.kind \in {"answer", "join"} -> Enter(q.dev, eng[q.dev], q.call, q.sess)
         [] q.kind \in {"rejoin", "get"} /\ q.ok -> ApplyCall(q.dev, eng[q.dev], q.call)
         [] OTHER -> Quietly(q)

After(q) ==
  IF q.kind = "leave" THEN AfterLeave(q)
  ELSE IF q.live = "dead" THEN IF q.ok /\ q.kind \in {"start", "answer", "join"} THEN Bye(q) ELSE Quietly(q)
  ELSE IF q.kind \in {"start", "answer", "join", "rejoin"} /\ ~q.ok THEN EndHere(eng[q.dev])
  ELSE CASE q.kind = "start" -> AfterStart(q)
         [] q.kind \in {"answer", "join"} -> Enter(q.dev, eng[q.dev], q.call, q.sess)
         [] q.kind \in {"rejoin", "get"} /\ q.ok -> ApplyCall(q.dev, eng[q.dev], q.call)
         [] OTHER -> Quietly(q)

(* A rejoin whose call was left meanwhile, or whose answer names another call than the
   engine's: the server may keep this person joined with nobody there. *)
Unheard(q) == q.kind = "rejoin" /\ q.ok /\ (q.live = "dead" \/ q.call.id # q.of)

Hear(q) ==
  /\ q \in rpcs /\ q.at = "answered"
  /\ LET o == After(q) IN
     /\ Becomes(q.dev, o, rpcs \ {q})
     /\ fresh' = IF \E r \in o.asks : r.sess > fresh THEN fresh + 1 ELSE fresh
  /\ excused' = IF Unheard(q) THEN excused \cup {owner[q.dev]} ELSE excused
  /\ UNCHANGED <<calls, copy, events, bounds_>>

------------------------------------------------------------------------------
Next ==
  \/ \E d \in Device :
       \/ Start(d) \/ HangUp(d) \/ Hide(d) \/ RingTimer(d) \/ Dismiss(d) \/ Cool(d) \/ Beat(d)
       \/ \E c \in 1..MaxCalls : Answer(d, c) \/ Decline(d, c)
       \/ \E v \in events[d] : Deliver(d, v)
       \/ \E q \in Requests(d) : Serve(q) \/ Fail(q) \/ Hear(q)
  \/ \E c \in DOMAIN calls, quiet \in SUBSET Person, missed \in BOOLEAN : Reap(c, quiet, missed)

(* The heartbeat runs every 30 s while a call is on, requests end by their timeout. *)
Fairness ==
  \A d \in Device : /\ WF_vars(Beat(d))
                     /\ \A k \in {"get", "rejoin"} :
                          WF_vars(\E q \in Requests(d) : q.kind = k /\ (Serve(q) \/ Hear(q)))
Spec == Init /\ [][Next]_vars /\ Fairness

------------------------------------------------------------------------------
(* Who has hung up, or whose answer came too late, is not kept joined: "leave, or the
   server keeps this person joined" (engine.ts:441-444). *)
NobodyLeftBehind == rpcs = {} => \A c \in Active, p \in Person : Ghost(p, c) => p \in excused

(* A device whose call is over for the server, or goes on without it, learns that,
   whatever events it missed: its heartbeat is refused, and it reads the call. *)
InItForTheServer(d) ==
  LET e == eng[d] IN
  e.call # 0 => ~calls[e.call].ended /\ calls[e.call].part[owner[d]] = Row("joined", e.sess)
LearnsItIsOut == []<>(\A d \in Device : InItForTheServer(d))
=============================================================================
