-------------------------------- MODULE Hub --------------------------------
(* The realtime hub (realtime/hub.ts): the tabs of one browser elect a leader
   with a Web Lock; the leader keeps one channel per topic that any tab wants,
   relays the events it hears to the other tabs, rejoins what breaks, and tells
   every tab to heal by cursor once a broken topic is back.

   A leader's life with one topic is `link[x]`:
     none       not joined            waiting    the old channel is still leaving
     joining    subscribe is out      joined     events arrive
     backoff    a retry timer runs    rejoining  rejoin awaits removal and token
     parked     rejoin found the browser offline
     torn       forceReconnect took it down and will connect it
     deaf       it was handed a channel that is leaving: nobody will call back
   The generation numbers of the code are not kept: an action that raises one
   takes the topic out of the phase whose late callback the number refuses. *)
EXTENDS Naturals, Sequences, FiniteSets, SequencesExt

CONSTANTS Tab, Topic,
          MaxMoves,      \* bound: what people do (open, close, kill, want, wake)
          MaxFaults,     \* bound: refusals, closed channels, losses of the network
          MaxEvents,     \* bound: server events
          QuickLeaves    \* a channel that is leaving is gone before a reset is over

ASSUME HubAssumption == IsFiniteSet(Tab)

VARIABLES role,      \* [Tab -> {"stopped", "follower", "leader"}]
          queue,     \* the tabs that asked for the lock, in order
          mine,      \* [Tab -> SUBSET Topic]: base topics, views and calls of a tab
          inbox,     \* [Tab -> Seq(bus message)]: BroadcastChannel
          wants,     \* the leader's map of what each tab asked for
          link, heal,    \* the leader's TopicState: phase, and whether a heal is owed
          leaving,   \* topics whose old channel is not gone yet (removals)
          wave,      \* this soon after taking over (waveUntil)
          healing,   \* healTimer runs
          resetting, awaited,  \* forceReconnect is under way; the removals it awaits
          cooling, deferred,   \* RESET_COOLDOWN_MS, deferredReset
          online,    \* navigator.onLine
          moves, faults, events,
          got,       \* [Tab -> SUBSET Topic]: topics a tab has heard on (for properties)
          behind     \* [Tab -> set of <<topic, number>>]: events it has not got

leader_ == <<wants, link, heal, leaving, wave, healing, resetting, awaited, cooling, deferred>>
tabs_ == <<role, queue, mine>>
page_ == <<got, behind>>
bounds_ == <<moves, faults, events>>
vars == <<tabs_, inbox, leader_, online, bounds_, page_>>

Leader == {t \in Tab : role[t] = "leader"}
Live == {t \in Tab : role[t] # "stopped"}
HasChannel == {x \in Topic : link[x] \in {"joining", "joined", "deaf"}}

Init ==
  /\ role = [t \in Tab |-> "stopped"] /\ queue = <<>>
  /\ mine = [t \in Tab |-> {}] /\ inbox = [t \in Tab |-> <<>>]
  /\ wants = [t \in Tab |-> {}]
  /\ link = [x \in Topic |-> "none"] /\ heal = [x \in Topic |-> FALSE]
  /\ leaving = {} /\ wave = FALSE /\ healing = FALSE
  /\ resetting = FALSE /\ awaited = {} /\ cooling = FALSE /\ deferred = FALSE
  /\ online = TRUE
  /\ moves = 0 /\ faults = 0 /\ events = 0
  /\ got = [t \in Tab |-> {}] /\ behind = [t \in Tab |-> {}]

Move == moves < MaxMoves /\ moves' = moves + 1 /\ UNCHANGED <<faults, events>>
Fault == faults < MaxFaults /\ faults' = faults + 1 /\ UNCHANGED <<moves, events>>

(* post: every other tab that listens gets each of the messages. *)
Posted(box, from, ms) ==
  [t \in Tab |-> IF t # from /\ role[t] # "stopped" THEN box[t] \o ms ELSE box[t]]
Want(t, S) == [k |-> "want", tab |-> t, topics |-> S]
Note(k, t) == [k |-> k, tab |-> t]

(* reconcile with the wants `w` and the links and removals as they are: join
   what is new, drop what nobody wants any more. *)
Reconcile(w) ==
  LET wanted == UNION {w[t] : t \in Tab}
      fresh == {x \in wanted : link[x] = "none"}
      dropped == {x \in Topic \ wanted : link[x] # "none"}
  IN /\ wants' = w
     /\ link' = [x \in Topic |->
          CASE x \in dropped -> "none"
            [] x \in fresh -> IF x \in leaving THEN "waiting" ELSE "joining"
            [] OTHER -> link[x]]
     /\ heal' = [x \in Topic |->
          IF x \in fresh THEN wave ELSE x \notin dropped /\ heal[x]]
     /\ leaving' = leaving \cup (dropped \cap HasChannel)
     /\ got' = [t \in Tab |-> got[t] \ dropped]
     /\ behind' = [t \in Tab |-> {e \in behind[t] : e[1] \notin dropped}]

------------------------------------------------------------------------------
(* start: listen, announce (hello only makes the leader ask for what the want
   next to it says), ask for the lock. *)
Start(t, S) ==
  /\ role[t] = "stopped" /\ S # {} /\ Move
  /\ role' = [role EXCEPT ![t] = "follower"]
  /\ mine' = [mine EXCEPT ![t] = S]
  /\ queue' = Append(queue, t)
  /\ inbox' = Posted(inbox, t, <<Want(t, S)>>)
  /\ UNCHANGED <<leader_, online, page_>>

(* The lock is granted: becomeLeader. *)
BecomeLeader ==
  /\ queue # <<>> /\ Leader = {}
  /\ LET t == Head(queue) IN
     /\ queue' = Tail(queue)
     /\ role' = [role EXCEPT ![t] = "leader"]
     /\ wave' = TRUE
     /\ wants' = [u \in Tab |-> IF u = t THEN mine[t] ELSE {}]
     /\ link' = [x \in Topic |-> IF x \in mine[t] THEN "joining" ELSE "none"]
     /\ heal' = [x \in Topic |-> x \in mine[t]]
     /\ inbox' = Posted(inbox, t, <<Note("leader", t)>>)
  /\ leaving' = {} /\ healing' = FALSE
  /\ resetting' = FALSE /\ awaited' = {} /\ cooling' = FALSE /\ deferred' = FALSE
  /\ UNCHANGED <<mine, online, bounds_, page_>>

(* wantsChanged: setTopics, joinView, leaveView, joinCall, leaveCall. *)
SetTopics(t, S) ==
  /\ t \in Live /\ S # mine[t] /\ Move
  /\ mine' = [mine EXCEPT ![t] = S]
  /\ IF role[t] = "leader"
     THEN /\ Reconcile([wants EXCEPT ![t] = S])
          /\ UNCHANGED <<inbox, wave, healing, resetting, awaited, cooling, deferred>>
     ELSE /\ inbox' = Posted(inbox, t, <<Want(t, S)>>)
          /\ got' = [got EXCEPT ![t] = @ \cap S]
          /\ behind' = [behind EXCEPT ![t] = {e \in @ : e[1] \in S}]
          /\ UNCHANGED leader_
  /\ UNCHANGED <<role, queue, online>>

(* wantTimer of a follower. *)
Announce(t) ==
  /\ role[t] = "follower"
  /\ \A u \in Tab : \A i \in DOMAIN inbox[u] : inbox[u][i].tab # t
  /\ Leader # {} /\ wants[t] # mine[t]   \* a repetition changes nothing
  /\ inbox' = Posted(inbox, t, <<Want(t, mine[t])>>)
  /\ UNCHANGED <<tabs_, leader_, online, bounds_, page_>>

\* Its request for the lock goes with it.
Without(q, t) ==
  IF \E i \in DOMAIN q : q[i] = t THEN RemoveAt(q, CHOOSE i \in DOMAIN q : q[i] = t) ELSE q

Gone(t) ==
  /\ role' = [role EXCEPT ![t] = "stopped"]
  /\ queue' = Without(queue, t)
  /\ mine' = [mine EXCEPT ![t] = {}]
  /\ got' = [got EXCEPT ![t] = {}] /\ behind' = [behind EXCEPT ![t] = {}]
  /\ IF role[t] = "leader"
     THEN /\ link' = [x \in Topic |-> "none"] /\ heal' = [x \in Topic |-> FALSE]
          /\ wants' = [u \in Tab |-> {}] /\ leaving' = {} /\ wave' = FALSE
          /\ healing' = FALSE /\ resetting' = FALSE /\ awaited' = {}
          /\ cooling' = FALSE /\ deferred' = FALSE
     ELSE UNCHANGED leader_

(* stop, or pagehide of a page that goes: bye, and the lock is released. *)
Stop(t) ==
  /\ t \in Live /\ Move /\ Gone(t)
  /\ inbox' = [Posted(inbox, t, <<Note("bye", t)>>) EXCEPT ![t] = <<>>]
  /\ UNCHANGED online

(* The tab is killed: the browser frees its lock, nobody says bye. *)
Kill(t) ==
  /\ t \in Live /\ Move /\ Gone(t)
  /\ inbox' = [inbox EXCEPT ![t] = <<>>]
  /\ UNCHANGED online

(* desired: the leader forgets a tab that stopped announcing (WANT_TTL_MS). *)
Expire(t) ==
  /\ Leader # {} /\ role[t] = "stopped" /\ wants[t] # {}
  /\ Reconcile([wants EXCEPT ![t] = {}])
  /\ UNCHANGED <<tabs_, inbox, wave, healing, resetting, awaited, cooling, deferred, online, bounds_>>

(* WAVE_MS after taking over. The other tabs have answered by then. *)
WaveEnds ==
  /\ wave /\ wave' = FALSE
  /\ \A t \in Tab : \A i \in DOMAIN inbox[t] : inbox[t][i].k \notin {"leader", "want"}
  /\ UNCHANGED <<tabs_, inbox, wants, link, heal, leaving, healing, resetting, awaited, cooling, deferred,
                 online, bounds_, page_>>

------------------------------------------------------------------------------
(* A reset: every topic comes down and a heal is owed for it; only the removals
   it starts itself are awaited. *)
TearDown ==
  /\ resetting' = TRUE /\ awaited' = HasChannel /\ cooling' = TRUE
  /\ leaving' = leaving \cup HasChannel
  /\ link' = [x \in Topic |-> IF link[x] = "none" THEN "none" ELSE "torn"]
  /\ heal' = [x \in Topic |-> link[x] # "none"]

\* A slip: a request during a reset or its cooldown is dropped.
ForceReconnectForgets ==
  IF resetting \/ cooling THEN UNCHANGED <<link, heal, leaving, resetting, awaited, cooling, deferred>>
  ELSE TearDown /\ UNCHANGED deferred

(* forceReconnect. During a reset and its cooldown the request is put off. *)
ForceReconnect ==
  IF resetting \/ cooling
  THEN deferred' = TRUE /\ UNCHANGED <<link, heal, leaving, resetting, awaited, cooling>>
  ELSE TearDown /\ UNCHANGED deferred

(* ... and once they are gone and the socket is new: connect what is neither
   connected nor waiting for a timer. *)
ResetDone ==
  /\ resetting /\ awaited \cap leaving = {}
  /\ QuickLeaves => leaving = {}
  /\ resetting' = FALSE /\ awaited' = {}
  /\ link' = [x \in Topic |-> IF link[x] \notin {"torn", "parked", "rejoining"} THEN link[x]
                              ELSE IF x \in leaving THEN "deaf" ELSE "joining"]
  /\ UNCHANGED <<tabs_, inbox, wants, heal, leaving, wave, healing, cooling, deferred,
                 online, bounds_, page_>>

CooledDown ==
  /\ cooling /\ cooling' = FALSE
  /\ UNCHANGED <<tabs_, inbox, wants, link, heal, leaving, wave, healing, resetting, awaited, deferred,
                 online, bounds_, page_>>

DeferredReset ==
  /\ deferred /\ ~resetting /\ ~cooling
  /\ TearDown /\ deferred' = FALSE
  /\ UNCHANGED <<tabs_, inbox, wants, wave, healing, online, bounds_, page_>>

(* A tab comes back on screen after a long sleep, or its token was refreshed. *)
Wake(t) ==
  /\ t \in Live /\ online /\ Move
  /\ IF role[t] = "leader"
     THEN ForceReconnect /\ UNCHANGED <<inbox, wants, wave, healing>>
     ELSE inbox' = Posted(inbox, t, <<Note("poke", t)>>) /\ UNCHANGED leader_
  /\ UNCHANGED <<tabs_, online, page_>>

GoOffline ==
  /\ online /\ Fault
  /\ online' = FALSE
  /\ UNCHANGED <<tabs_, inbox, leader_, page_>>

(* The online event: the leader resets, every follower pokes it. *)
GoOnline ==
  /\ ~online /\ online' = TRUE
  /\ IF Leader # {} THEN ForceReconnect
     ELSE UNCHANGED <<link, heal, leaving, resetting, awaited, cooling, deferred>>
  /\ inbox' = [t \in Tab |-> IF role[t] # "leader" THEN inbox[t]
       ELSE inbox[t] \o [i \in 1..Cardinality(Live \ Leader) |-> Note("poke", t)]]
  /\ UNCHANGED <<tabs_, wants, wave, healing, bounds_, page_>>

------------------------------------------------------------------------------
(* onSubscribe(SUBSCRIBED). *)
Subscribed(x) ==
  /\ link[x] = "joining" /\ online
  /\ link' = [link EXCEPT ![x] = "joined"]
  /\ healing' = (healing \/ heal[x])
  /\ heal' = [heal EXCEPT ![x] = FALSE]
  /\ got' = [t \in Tab |-> IF x \in mine[t] THEN got[t] \cup {x} ELSE got[t]]
  /\ UNCHANGED <<tabs_, inbox, wants, leaving, wave, resetting, awaited, cooling, deferred, online,
                 bounds_, behind>>

\* A slip: a heal is owed only for a channel that broke while it was joining.
BrokenOwesNothing(x) ==
  /\ link[x] \in {"joining", "joined"}
  /\ IF online THEN Fault ELSE UNCHANGED bounds_
  /\ link' = [link EXCEPT ![x] = "backoff"]
  /\ heal' = [heal EXCEPT ![x] = @ \/ link[x] = "joining"]
  /\ leaving' = leaving \cup {x}
  /\ UNCHANGED <<tabs_, inbox, wants, wave, healing, resetting, awaited, cooling, deferred, online, page_>>

(* onSubscribe(CHANNEL_ERROR, TIMED_OUT or CLOSED): retry. Offline it is certain
   to come; online it is a fault. *)
Broken(x) ==
  /\ link[x] \in {"joining", "joined"}
  /\ IF online THEN Fault ELSE UNCHANGED bounds_
  /\ link' = [link EXCEPT ![x] = "backoff"]
  /\ heal' = [heal EXCEPT ![x] = TRUE]
  /\ leaving' = leaving \cup {x}
  /\ UNCHANGED <<tabs_, inbox, wants, wave, healing, resetting, awaited, cooling, deferred, online, page_>>

(* The removal of a channel is over; a topic that waited for it connects. *)
Removed(x) ==
  /\ x \in leaving /\ leaving' = leaving \ {x}
  /\ link' = [link EXCEPT ![x] = IF @ = "waiting" THEN "joining" ELSE @]
  /\ UNCHANGED <<tabs_, inbox, wants, heal, wave, healing, resetting, awaited, cooling, deferred, online,
                 bounds_, page_>>

(* The retry timer: rejoin, unless the browser is offline. *)
RetryTimer(x) ==
  /\ link[x] = "backoff"
  /\ link' = [link EXCEPT ![x] = IF online THEN "rejoining" ELSE "parked"]
  /\ UNCHANGED <<tabs_, inbox, wants, heal, leaving, wave, healing, resetting, awaited, cooling, deferred,
                 online, bounds_, page_>>

(* rejoin after its awaits: the removal, then a fresh token. *)
Rejoin(x) ==
  /\ link[x] = "rejoining" /\ x \notin leaving
  /\ link' = [link EXCEPT ![x] = "joining"]
  /\ UNCHANGED <<tabs_, inbox, wants, heal, leaving, wave, healing, resetting, awaited, cooling, deferred,
                 online, bounds_, page_>>

(* queueHeal's timer: onReconnected here, and by the bus in the other tabs. *)
FireReconnected ==
  /\ healing /\ healing' = FALSE
  /\ \E t \in Leader :
       /\ behind' = [behind EXCEPT ![t] = {}]
       /\ inbox' = Posted(inbox, t, <<Note("reconnected", t)>>)
  /\ UNCHANGED <<tabs_, wants, link, heal, leaving, wave, resetting, awaited, cooling, deferred, online,
                 bounds_, got>>

------------------------------------------------------------------------------
(* The server broadcasts on a topic. Who listens there has missed it until it is
   handed over: at once to the leader, by the bus to the others. *)
Emit(x) ==
  LET e == <<x, events + 1>>
      heard == IF link[x] = "joined" /\ online THEN Leader ELSE {}
  IN /\ events < MaxEvents /\ events' = events + 1 /\ UNCHANGED <<moves, faults>>
     /\ behind' = [t \in Tab |-> IF x \in got[t] /\ t \notin heard
                                THEN behind[t] \cup {e} ELSE behind[t]]
     /\ IF heard = {} THEN UNCHANGED inbox
        ELSE \E t \in heard : inbox' = Posted(inbox, t, <<[k |-> "event", tab |-> t, e |-> e]>>)
     /\ UNCHANGED <<tabs_, leader_, online, got>>

(* onBus. A message meant for the other role is dropped. *)
OnBus(t) ==
  /\ t \in Live /\ inbox[t] # <<>>
  /\ LET m == Head(inbox[t])
         rest == [inbox EXCEPT ![t] = Tail(@)]
     IN
     \/ /\ role[t] = "leader" /\ m.k \in {"want", "bye"}
        /\ inbox' = rest
        /\ Reconcile([wants EXCEPT ![m.tab] = IF m.k = "want" THEN m.topics ELSE {}])
        /\ UNCHANGED <<wave, healing, resetting, awaited, cooling, deferred>>
     \/ /\ role[t] = "leader" /\ m.k = "poke"
        /\ inbox' = rest
        /\ IF online THEN ForceReconnect
           ELSE UNCHANGED <<link, heal, leaving, resetting, awaited, cooling, deferred>>
        /\ UNCHANGED <<wants, wave, healing, page_>>
     \/ /\ role[t] = "follower" /\ m.k = "leader"
        /\ inbox' = Posted(rest, t, <<Want(t, mine[t])>>)
        /\ UNCHANGED <<leader_, page_>>
     \/ /\ role[t] = "follower" /\ m.k = "reconnected"
        /\ inbox' = rest
        /\ behind' = [behind EXCEPT ![t] = {}]
        /\ UNCHANGED <<leader_, got>>
     \/ /\ m.k = "event"
        /\ inbox' = rest
        /\ behind' = IF role[t] = "leader" THEN behind
                     ELSE [behind EXCEPT ![t] = @ \ {m.e}]
        /\ UNCHANGED <<leader_, got>>
     \/ /\ \/ role[t] = "leader" /\ m.k \in {"leader", "reconnected"}
           \/ role[t] = "follower" /\ m.k \in {"want", "bye", "poke"}
        /\ inbox' = rest
        /\ UNCHANGED <<leader_, page_>>
  /\ UNCHANGED <<tabs_, online, bounds_>>

------------------------------------------------------------------------------
Next ==
  \/ BecomeLeader \/ WaveEnds \/ ResetDone \/ CooledDown \/ DeferredReset
  \/ GoOffline \/ GoOnline \/ FireReconnected
  \/ \E t \in Tab : \/ Announce(t) \/ Stop(t) \/ Kill(t) \/ Expire(t)
                    \/ Wake(t) \/ OnBus(t)
                    \/ \E S \in SUBSET Topic : Start(t, S) \/ SetTopics(t, S)
  \/ \E x \in Topic : Subscribed(x) \/ Broken(x) \/ Removed(x) \/ RetryTimer(x)
                      \/ Rejoin(x) \/ Emit(x)

(* Timers fire, locks are granted, the bus and the socket answer, and the
   network comes back. *)
Fairness ==
  /\ WF_vars(BecomeLeader) /\ WF_vars(ResetDone) /\ WF_vars(CooledDown)
  /\ WF_vars(DeferredReset) /\ WF_vars(GoOnline) /\ WF_vars(FireReconnected)
  /\ \A t \in Tab : WF_vars(OnBus(t)) /\ WF_vars(Expire(t)) /\ WF_vars(Announce(t))
  /\ \A x \in Topic : /\ WF_vars(Subscribed(x)) /\ WF_vars(Removed(x))
                      /\ WF_vars(RetryTimer(x)) /\ WF_vars(Rejoin(x))
                      /\ WF_vars(Broken(x) /\ ~online)

Spec == Init /\ [][Next]_vars /\ Fairness

------------------------------------------------------------------------------
(* A topic the leader has for someone is joined, or something is under way that
   will join it: a removal, a reset, the network, a request put off (hub.ts: "a
   fresh join never races its own leave", retries and cooldowns). *)
NoTopicForgotten ==
  \A x \in Topic :
    /\ link[x] = "waiting" => x \in leaving
    /\ link[x] = "torn" => resetting
    /\ link[x] = "parked" => ~online \/ deferred \/ resetting

(* Not kept by the code: no topic is handed the channel that is leaving, nobody would
   call it back (hub.ts:134-135, "a fresh join waits for its own leave"). *)
NeverTheLeavingChannel == \A x \in Topic : link[x] # "deaf"

(* An event a listening tab missed (the socket was down, the leader went, the
   tab changed its role) is followed by onReconnected in that tab. *)
MissedIsHealed ==
  \A t \in Tab : (behind[t] # {}) ~> (behind[t] = {})
=============================================================================
