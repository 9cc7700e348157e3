------------------------------ MODULE Hub_proofs ------------------------------
(* Proofs about Hub, for any number of tabs and topics, any moves, faults and events. *)
EXTENDS Hub, FiniteSetTheorems, SequenceTheorems, TLAPS

Phase == {"none", "waiting", "joining", "joined", "backoff", "rejoining", "parked", "torn", "deaf"}
Bus ==
  [k : {"want"}, tab : Tab, topics : SUBSET Topic]
  \cup [k : {"leader", "poke", "reconnected", "bye"}, tab : Tab]
  \cup [k : {"event"}, tab : Tab, e : Topic \X Nat]

TabsOK ==
  /\ role \in [Tab -> {"stopped", "follower", "leader"}] /\ queue \in Seq(Tab)
  /\ mine \in [Tab -> SUBSET Topic] /\ inbox \in [Tab -> Seq(Bus)]
PageOK == got \in [Tab -> SUBSET Topic] /\ behind \in [Tab -> SUBSET (Topic \X Nat)]
ResetOK ==
  /\ link \in [Topic -> Phase] /\ heal \in [Topic -> BOOLEAN] /\ leaving \subseteq Topic
  /\ resetting \in BOOLEAN /\ awaited \subseteq Topic /\ cooling \in BOOLEAN /\ deferred \in BOOLEAN
HubTypeOK ==
  /\ TabsOK /\ PageOK /\ ResetOK
  /\ wants \in [Tab -> SUBSET Topic] /\ wave \in BOOLEAN /\ healing \in BOOLEAN /\ online \in BOOLEAN
  /\ moves \in Nat /\ faults \in Nat /\ events \in Nat

\* The Web Lock has one holder, and only the holder has channels.
OneLeader == \A t, u \in Leader : t = u
LeaderHasChannels == Leader = {} => \A x \in Topic : link[x] = "none"

HubInv == HubTypeOK /\ OneLeader /\ LeaderHasChannels /\ NoTopicForgotten

-----------------------------------------------------------------------------
(* The helpers                                                               *)

LEMMA PostedOK ==
  ASSUME NEW box \in [Tab -> Seq(Bus)], NEW from, NEW ms \in Seq(Bus)
  PROVE  Posted(box, from, ms) \in [Tab -> Seq(Bus)]
BY DEF Posted

LEMMA NoteOK ==
  ASSUME NEW t \in Tab, NEW k \in {"leader", "poke", "reconnected", "bye"}
  PROVE  <<Note(k, t)>> \in Seq(Bus) /\ Note(k, t) \in Bus
BY DEF Note, Bus

LEMMA RepeatOK ==
  ASSUME NEW n \in Nat, NEW m \in Bus
  PROVE  [i \in 1 .. n |-> m] \in Seq(Bus)
OBVIOUS

LEMMA WantOK ==
  ASSUME NEW t \in Tab, NEW S \in SUBSET Topic
  PROVE  <<Want(t, S)>> \in Seq(Bus)
BY DEF Want, Bus

LEMMA EventOK ==
  ASSUME NEW t \in Tab, NEW e \in Topic \X Nat
  PROVE  <<[k |-> "event", tab |-> t, e |-> e]>> \in Seq(Bus)
BY DEF Bus

LEMMA BusFacts ==
  ASSUME NEW m \in Bus
  PROVE  m.tab \in Tab /\ (m.k = "want" => m.topics \in SUBSET Topic)
<1>1. CASE m \in [k : {"want"}, tab : Tab, topics : SUBSET Topic]
  BY <1>1
<1>2. CASE m \in [k : {"leader", "poke", "reconnected", "bye"}, tab : Tab]
  BY <1>2
<1>3. CASE m \in [k : {"event"}, tab : Tab, e : Topic \X Nat]
  BY <1>3
<1> QED
  BY <1>1, <1>2, <1>3 DEF Bus

LEMMA WithoutOK ==
  ASSUME NEW q \in Seq(Tab), NEW t
  PROVE  Without(q, t) \in Seq(Tab)
<1>1. ASSUME NEW i \in DOMAIN q PROVE RemoveAt(q, i) \in Seq(Tab)
  <2>1. DOMAIN q = 1 .. Len(q) /\ Len(q) \in Nat
    OBVIOUS
  <2>2. SubSeq(q, 1, i - 1) \in Seq(Tab) /\ SubSeq(q, i + 1, Len(q)) \in Seq(Tab)
    BY <2>1
  <2> QED
    BY <2>2 DEF RemoveAt
<1> QED
  BY <1>1 DEF Without

\* A line that reconcile does not touch is as it was.
LEMMA Reconciled ==
  ASSUME HubInv, NEW w \in [Tab -> SUBSET Topic], Reconcile(w)
  PROVE  /\ wants' \in [Tab -> SUBSET Topic] /\ PageOK'
         /\ link' \in [Topic -> Phase] /\ heal' \in [Topic -> BOOLEAN] /\ leaving' \subseteq Topic
         /\ \A x \in Topic : /\ link'[x] = "waiting" => x \in leaving'
                             /\ link'[x] \in {"torn", "parked"} => link[x] = link'[x]
<1> DEFINE wanted == UNION {w[t] : t \in Tab}
           fresh == {x \in wanted : link[x] = "none"}
           dropped == {x \in Topic \ wanted : link[x] # "none"}
<1>1. wanted \subseteq Topic /\ fresh \subseteq Topic /\ dropped \subseteq Topic
  OBVIOUS
<1>2. HubTypeOK /\ NoTopicForgotten
  BY DEF HubInv
<1>3. /\ wants' = w
      /\ link' = [x \in Topic |-> CASE x \in dropped -> "none"
                                    [] x \in fresh -> IF x \in leaving THEN "waiting" ELSE "joining"
                                    [] OTHER -> link[x]]
      /\ heal' = [x \in Topic |-> IF x \in fresh THEN wave ELSE x \notin dropped /\ heal[x]]
      /\ leaving' = leaving \cup (dropped \cap HasChannel)
      /\ got' = [t \in Tab |-> got[t] \ dropped]
      /\ behind' = [t \in Tab |-> {e \in behind[t] : e[1] \notin dropped}]
  BY DEF Reconcile
<1>4. \A x \in dropped : x \notin fresh
  OBVIOUS
<1> HIDE DEF wanted, fresh, dropped
<1>5. ASSUME NEW x \in Topic
      PROVE  \/ x \in dropped /\ link'[x] = "none"
             \/ x \in fresh /\ link'[x] = IF x \in leaving THEN "waiting" ELSE "joining"
             \/ link'[x] = link[x]
  <2>1. CASE x \in dropped
    BY <1>3, <1>4, <2>1
  <2>2. CASE x \in fresh
    BY <1>3, <1>4, <2>2
  <2>3. CASE x \notin dropped /\ x \notin fresh
    BY <1>3, <2>3
  <2> QED
    BY <2>1, <2>2, <2>3
<1>6. link' = [x \in Topic |-> link'[x]]
  BY <1>3
<1>7. \A x \in Topic : link'[x] \in Phase
  BY <1>2, <1>5 DEF Phase, HubTypeOK, ResetOK
<1>8. link' \in [Topic -> Phase]
  BY <1>6, <1>7
<1>9. heal' \in [Topic -> BOOLEAN]
  BY <1>2, <1>3 DEF HubTypeOK, ResetOK
<1>10. leaving \subseteq leaving' /\ leaving' \subseteq Topic
  BY <1>1, <1>2, <1>3 DEF HubTypeOK, ResetOK
<1>11. PageOK'
  BY <1>2, <1>3 DEF HubTypeOK, PageOK
<1>12. ASSUME NEW x \in Topic
       PROVE  /\ link'[x] = "waiting" => x \in leaving'
              /\ link'[x] \in {"torn", "parked"} => link[x] = link'[x]
  BY <1>2, <1>5, <1>10 DEF NoTopicForgotten
<1> QED
  BY <1>3, <1>8, <1>9, <1>10, <1>11, <1>12

\* A reset takes every topic down, and is under way.
LEMMA TornDown ==
  ASSUME HubInv, TearDown
  PROVE  /\ link' \in [Topic -> Phase] /\ heal' \in [Topic -> BOOLEAN] /\ leaving' \subseteq Topic
         /\ resetting' = TRUE /\ awaited' \subseteq Topic /\ cooling' = TRUE
         /\ \A x \in Topic : link'[x] = IF link[x] = "none" THEN "none" ELSE "torn"
<1>1. HasChannel \subseteq Topic /\ leaving \subseteq Topic
  BY DEF HasChannel, HubInv, HubTypeOK, ResetOK
<1> QED
  BY <1>1 DEF TearDown, Phase

\* A request for a reset starts one, or is put off while one is under way or was just done.
LEMMA Forced ==
  ASSUME HubInv, ForceReconnect
  PROVE  /\ ResetOK'
         /\ \/ deferred' /\ UNCHANGED <<link, leaving, resetting>>
            \/ resetting' /\ \A x \in Topic : link'[x] = IF link[x] = "none" THEN "none" ELSE "torn"
<1>1. ResetOK
  BY DEF HubInv, HubTypeOK
<1>2. CASE resetting \/ cooling
  <2>1. deferred' = TRUE /\ UNCHANGED <<link, heal, leaving, resetting, awaited, cooling>>
    BY <1>2 DEF ForceReconnect
  <2> QED
    BY <1>1, <2>1 DEF ResetOK
<1>3. CASE ~ (resetting \/ cooling)
  <2>1. TearDown /\ deferred' = deferred
    BY <1>3 DEF ForceReconnect
  <2>2. /\ link' \in [Topic -> Phase] /\ heal' \in [Topic -> BOOLEAN] /\ leaving' \subseteq Topic
        /\ resetting' = TRUE /\ awaited' \subseteq Topic /\ cooling' = TRUE
        /\ \A x \in Topic : link'[x] = IF link[x] = "none" THEN "none" ELSE "torn"
    BY <2>1, TornDown
  <2> QED
    BY <1>1, <2>1, <2>2 DEF ResetOK
<1> QED
  BY <1>2, <1>3

\* A reset keeps what is to be shown of every topic.
LEMMA ForcedKeeps ==
  ASSUME HubInv, ForceReconnect
  PROVE  NoTopicForgotten' /\ \A x \in Topic : link[x] = "none" => link'[x] = "none"
<1>1. NoTopicForgotten
  BY DEF HubInv
<1>2. CASE deferred' /\ UNCHANGED <<link, leaving, resetting>>
  BY <1>1, <1>2 DEF NoTopicForgotten
<1>3. CASE resetting' /\ \A x \in Topic : link'[x] = IF link[x] = "none" THEN "none" ELSE "torn"
  BY <1>3 DEF NoTopicForgotten
<1> QED
  BY <1>2, <1>3, Forced

\* The roles stay.
LEMMA SameRoles ==
  ASSUME HubInv, UNCHANGED role, HubTypeOK', NoTopicForgotten',
         Leader = {} => \A x \in Topic : link'[x] = "none"
  PROVE  HubInv'
<1>1. Leader' = Leader
  BY DEF Leader
<1> QED
  BY <1>1 DEF HubInv, OneLeader, LeaderHasChannels

LEMMA SameLinks ==
  ASSUME HubInv, UNCHANGED role, HubTypeOK',
         UNCHANGED <<link, leaving, resetting, online>>, deferred => deferred'
  PROVE  HubInv'
<1>1. NoTopicForgotten'
  BY DEF HubInv, NoTopicForgotten
<1>2. Leader = {} => \A x \in Topic : link'[x] = "none"
  BY DEF HubInv, LeaderHasChannels
<1> QED
  BY <1>1, <1>2, SameRoles

-----------------------------------------------------------------------------
(* The tabs                                                                  *)

LEMMA BecomeLeaderStep ==
  ASSUME HubInv, BecomeLeader
  PROVE  HubInv'
<1> DEFINE t == Head(queue)
<1>1. HubTypeOK /\ TabsOK /\ ResetOK /\ PageOK
  BY DEF HubInv, HubTypeOK
<1>2. t \in Tab /\ Tail(queue) \in Seq(Tab) /\ mine[t] \in SUBSET Topic /\ Leader = {}
  BY <1>1 DEF TabsOK, BecomeLeader
<1>3. /\ queue' = Tail(queue) /\ role' = [role EXCEPT ![t] = "leader"] /\ wave' = TRUE
      /\ wants' = [u \in Tab |-> IF u = t THEN mine[t] ELSE {}]
      /\ link' = [x \in Topic |-> IF x \in mine[t] THEN "joining" ELSE "none"]
      /\ heal' = [x \in Topic |-> x \in mine[t]]
      /\ inbox' = Posted(inbox, t, <<Note("leader", t)>>)
      /\ leaving' = {} /\ healing' = FALSE
      /\ resetting' = FALSE /\ awaited' = {} /\ cooling' = FALSE /\ deferred' = FALSE
      /\ UNCHANGED <<mine, online, moves, faults, events, got, behind>>
  BY DEF BecomeLeader, bounds_, page_
<1> HIDE DEF t
<1>4. inbox' \in [Tab -> Seq(Bus)]
  BY <1>1, <1>2, <1>3, NoteOK, PostedOK DEF TabsOK
<1>5. TabsOK'
  BY <1>1, <1>2, <1>3, <1>4 DEF TabsOK
<1>6. ResetOK'
  <2>1. link' \in [Topic -> Phase]
    BY <1>3 DEF Phase
  <2>2. heal' \in [Topic -> BOOLEAN]
    <3>1. \A x \in Topic : (x \in mine[t]) \in BOOLEAN
      OBVIOUS
    <3> QED
      BY <1>3, <3>1
  <2> QED
    BY <1>3, <2>1, <2>2 DEF ResetOK
<1>7. HubTypeOK'
  BY <1>1, <1>2, <1>3, <1>5, <1>6 DEF HubTypeOK, PageOK
<1>8. Leader' = {t}
  BY <1>1, <1>2, <1>3 DEF Leader, TabsOK
<1>9. NoTopicForgotten'
  BY <1>3 DEF NoTopicForgotten
<1> QED
  BY <1>7, <1>8, <1>9 DEF HubInv, OneLeader, LeaderHasChannels

LEMMA StartStep ==
  ASSUME HubInv, NEW t \in Tab, NEW S \in SUBSET Topic, Start(t, S)
  PROVE  HubInv'
<1>1. HubTypeOK /\ TabsOK
  BY DEF HubInv, HubTypeOK
<1>2. /\ role[t] = "stopped" /\ moves' = moves + 1
      /\ role' = [role EXCEPT ![t] = "follower"] /\ mine' = [mine EXCEPT ![t] = S]
      /\ queue' = Append(queue, t) /\ inbox' = Posted(inbox, t, <<Want(t, S)>>)
      /\ UNCHANGED <<wants, link, heal, leaving, wave, healing, resetting, awaited, cooling, deferred, online,
                     faults, events, got, behind>>
  BY DEF Start, Move, leader_, page_
<1>3. inbox' \in [Tab -> Seq(Bus)]
  BY <1>1, <1>2, WantOK, PostedOK DEF TabsOK
<1>4. TabsOK'
  <2>1. role' \in [Tab -> {"stopped", "follower", "leader"}]
    BY <1>1, <1>2 DEF TabsOK
  <2>2. queue' \in Seq(Tab) /\ mine' \in [Tab -> SUBSET Topic]
    BY <1>1, <1>2 DEF TabsOK
  <2> QED
    BY <1>3, <2>1, <2>2 DEF TabsOK
<1>5. HubTypeOK'
  BY <1>1, <1>2, <1>4 DEF HubTypeOK, PageOK, ResetOK
<1>6. Leader' = Leader
  BY <1>1, <1>2 DEF Leader, TabsOK
<1>7. NoTopicForgotten'
  BY <1>2 DEF HubInv, NoTopicForgotten
<1> QED
  BY <1>2, <1>5, <1>6, <1>7 DEF HubInv, OneLeader, LeaderHasChannels

LEMMA SetTopicsStep ==
  ASSUME HubInv, NEW t \in Tab, NEW S \in SUBSET Topic, SetTopics(t, S)
  PROVE  HubInv'
<1>1. HubTypeOK /\ TabsOK /\ PageOK /\ ResetOK
  BY DEF HubInv, HubTypeOK
<1>2. /\ t \in Live /\ moves' = moves + 1 /\ mine' = [mine EXCEPT ![t] = S]
      /\ UNCHANGED <<role, queue, online, faults, events>>
  BY DEF SetTopics, Move
<1>3. CASE role[t] = "leader"
  <2>1. /\ Reconcile([wants EXCEPT ![t] = S])
        /\ UNCHANGED <<inbox, wave, healing, resetting, awaited, cooling, deferred>>
    BY <1>3 DEF SetTopics
  <2>2. [wants EXCEPT ![t] = S] \in [Tab -> SUBSET Topic]
    BY <1>1 DEF HubTypeOK
  <2>3. /\ wants' \in [Tab -> SUBSET Topic] /\ PageOK'
        /\ link' \in [Topic -> Phase] /\ heal' \in [Topic -> BOOLEAN] /\ leaving' \subseteq Topic
        /\ \A x \in Topic : /\ link'[x] = "waiting" => x \in leaving'
                            /\ link'[x] \in {"torn", "parked"} => link[x] = link'[x]
    BY <2>1, <2>2, Reconciled
  <2>4. TabsOK' /\ ResetOK'
    BY <1>1, <1>2, <2>1, <2>3 DEF TabsOK, ResetOK
  <2>5. HubTypeOK'
    BY <1>1, <1>2, <2>1, <2>3, <2>4 DEF HubTypeOK
  <2>6. NoTopicForgotten'
    BY <1>2, <2>1, <2>3 DEF HubInv, NoTopicForgotten
  <2>7. Leader # {}
    BY <1>3 DEF Leader
  <2> QED
    BY <1>2, <2>5, <2>6, <2>7, SameRoles
<1>4. CASE role[t] # "leader"
  <2>1. /\ inbox' = Posted(inbox, t, <<Want(t, S)>>)
        /\ got' = [got EXCEPT ![t] = got[t] \cap S]
        /\ behind' = [behind EXCEPT ![t] = {e \in behind[t] : e[1] \in S}]
        /\ UNCHANGED <<wants, link, heal, leaving, wave, healing, resetting, awaited, cooling, deferred>>
    BY <1>4 DEF SetTopics, leader_
  <2>2. inbox' \in [Tab -> Seq(Bus)]
    BY <1>1, <2>1, WantOK, PostedOK DEF TabsOK
  <2>3. TabsOK' /\ PageOK' /\ ResetOK'
    BY <1>1, <1>2, <2>1, <2>2 DEF TabsOK, PageOK, ResetOK
  <2>4. HubTypeOK'
    BY <1>1, <1>2, <2>1, <2>3 DEF HubTypeOK
  <2> QED
    BY <1>2, <2>1, <2>4, SameLinks
<1> QED
  BY <1>3, <1>4

LEMMA AnnounceStep ==
  ASSUME HubInv, NEW t \in Tab, Announce(t)
  PROVE  HubInv'
<1>1. HubTypeOK /\ TabsOK
  BY DEF HubInv, HubTypeOK
<1>2. /\ inbox' = Posted(inbox, t, <<Want(t, mine[t])>>)
      /\ UNCHANGED <<role, queue, mine, wants, link, heal, leaving, wave, healing, resetting, awaited, cooling,
                     deferred, online, moves, faults, events, got, behind>>
  BY DEF Announce, tabs_, leader_, bounds_, page_
<1>3. mine[t] \in SUBSET Topic
  BY <1>1 DEF TabsOK
<1>4. inbox' \in [Tab -> Seq(Bus)]
  BY <1>1, <1>2, <1>3, WantOK, PostedOK DEF TabsOK
<1>5. HubTypeOK'
  BY <1>1, <1>2, <1>4 DEF HubTypeOK, TabsOK, PageOK, ResetOK
<1> QED
  BY <1>2, <1>5, SameLinks

\* A tab that goes takes its channels with it if it led.
LEMMA GoneStep ==
  ASSUME HubInv, NEW t \in Tab, Gone(t), inbox' \in [Tab -> Seq(Bus)], UNCHANGED <<online, faults, events>>,
         moves' = moves + 1
  PROVE  HubInv'
<1>1. HubTypeOK /\ TabsOK /\ PageOK /\ ResetOK
  BY DEF HubInv, HubTypeOK
<1>2. /\ role' = [role EXCEPT ![t] = "stopped"] /\ queue' = Without(queue, t) /\ mine' = [mine EXCEPT ![t] = {}]
      /\ got' = [got EXCEPT ![t] = {}] /\ behind' = [behind EXCEPT ![t] = {}]
  BY DEF Gone
<1>3. TabsOK' /\ PageOK'
  BY <1>1, <1>2, WithoutOK DEF TabsOK, PageOK
<1>4. Leader' = Leader \ {t}
  BY <1>1, <1>2 DEF Leader, TabsOK
<1>5. CASE role[t] = "leader"
  <2>1. /\ link' = [x \in Topic |-> "none"] /\ heal' = [x \in Topic |-> FALSE]
        /\ wants' = [u \in Tab |-> {}] /\ leaving' = {} /\ wave' = FALSE
        /\ healing' = FALSE /\ resetting' = FALSE /\ awaited' = {}
        /\ cooling' = FALSE /\ deferred' = FALSE
    BY <1>5 DEF Gone
  <2>2. ResetOK'
    BY <2>1 DEF ResetOK, Phase
  <2>3. HubTypeOK'
    <3>1. wants' \in [Tab -> SUBSET Topic]
      BY <2>1
    <3>2. moves' \in Nat /\ faults' \in Nat /\ events' \in Nat /\ online' \in BOOLEAN
      BY <1>1 DEF HubTypeOK
    <3> QED
      BY <1>3, <2>1, <2>2, <3>1, <3>2 DEF HubTypeOK
  <2>4. NoTopicForgotten' /\ LeaderHasChannels'
    BY <2>1 DEF NoTopicForgotten, LeaderHasChannels
  <2> QED
    BY <1>4, <2>3, <2>4 DEF HubInv, OneLeader
<1>6. CASE role[t] # "leader"
  <2>1. UNCHANGED <<wants, link, heal, leaving, wave, healing, resetting, awaited, cooling, deferred>>
    BY <1>6 DEF Gone, leader_
  <2>2. HubTypeOK'
    BY <1>1, <1>3, <2>1 DEF HubTypeOK, ResetOK
  <2>3. Leader' = Leader
    BY <1>4, <1>6 DEF Leader
  <2>4. NoTopicForgotten'
    BY <2>1 DEF HubInv, NoTopicForgotten
  <2> QED
    BY <2>1, <2>2, <2>3, <2>4 DEF HubInv, OneLeader, LeaderHasChannels
<1> QED
  BY <1>5, <1>6

LEMMA StopStep ==
  ASSUME HubInv, NEW t \in Tab, Stop(t)
  PROVE  HubInv'
<1>1. inbox \in [Tab -> Seq(Bus)]
  BY DEF HubInv, HubTypeOK, TabsOK
<1> DEFINE box == Posted(inbox, t, <<Note("bye", t)>>)
<1>2. box \in [Tab -> Seq(Bus)]
  BY <1>1, NoteOK, PostedOK
<1>3. inbox' = [box EXCEPT ![t] = <<>>] /\ Gone(t) /\ moves' = moves + 1 /\ UNCHANGED <<online, faults, events>>
  BY DEF Stop, Move
<1> HIDE DEF box
<1>4. inbox' \in [Tab -> Seq(Bus)]
  BY <1>2, <1>3
<1> QED
  BY <1>3, <1>4, GoneStep

LEMMA KillStep ==
  ASSUME HubInv, NEW t \in Tab, Kill(t)
  PROVE  HubInv'
<1>1. inbox \in [Tab -> Seq(Bus)]
  BY DEF HubInv, HubTypeOK, TabsOK
<1>2. inbox' = [inbox EXCEPT ![t] = <<>>] /\ Gone(t) /\ moves' = moves + 1 /\ UNCHANGED <<online, faults, events>>
  BY DEF Kill, Move
<1>3. inbox' \in [Tab -> Seq(Bus)]
  BY <1>1, <1>2
<1> QED
  BY <1>2, <1>3, GoneStep

LEMMA ExpireStep ==
  ASSUME HubInv, NEW t \in Tab, Expire(t)
  PROVE  HubInv'
<1>1. HubTypeOK /\ TabsOK /\ ResetOK
  BY DEF HubInv, HubTypeOK
<1>2. /\ Leader # {} /\ Reconcile([wants EXCEPT ![t] = {}])
      /\ UNCHANGED <<role, queue, mine, inbox, wave, healing, resetting, awaited, cooling, deferred, online,
                     moves, faults, events>>
  BY DEF Expire, tabs_, bounds_
<1>3. [wants EXCEPT ![t] = {}] \in [Tab -> SUBSET Topic]
  BY <1>1 DEF HubTypeOK
<1>4. /\ wants' \in [Tab -> SUBSET Topic] /\ PageOK'
      /\ link' \in [Topic -> Phase] /\ heal' \in [Topic -> BOOLEAN] /\ leaving' \subseteq Topic
      /\ \A x \in Topic : /\ link'[x] = "waiting" => x \in leaving'
                          /\ link'[x] \in {"torn", "parked"} => link[x] = link'[x]
  BY <1>2, <1>3, Reconciled
<1>5. TabsOK' /\ ResetOK'
  BY <1>1, <1>2, <1>4 DEF TabsOK, ResetOK
<1>6. HubTypeOK'
  BY <1>1, <1>2, <1>4, <1>5 DEF HubTypeOK
<1>7. NoTopicForgotten'
  BY <1>2, <1>4 DEF HubInv, NoTopicForgotten
<1> QED
  BY <1>2, <1>6, <1>7, SameRoles

LEMMA WaveEndsStep ==
  ASSUME HubInv, WaveEnds
  PROVE  HubInv'
<1>1. /\ wave' = FALSE
      /\ UNCHANGED <<role, queue, mine, inbox, wants, link, heal, leaving, healing, resetting, awaited, cooling,
                     deferred, online, moves, faults, events, got, behind>>
  BY DEF WaveEnds, tabs_, bounds_, page_
<1>2. HubTypeOK'
  BY <1>1 DEF HubInv, HubTypeOK, TabsOK, PageOK, ResetOK
<1> QED
  BY <1>1, <1>2, SameLinks

LEMMA EmitStep ==
  ASSUME HubInv, NEW x \in Topic, Emit(x)
  PROVE  HubInv'
<1> DEFINE e == <<x, events + 1>>
           heard == IF link[x] = "joined" /\ online THEN Leader ELSE {}
<1>1. HubTypeOK /\ TabsOK /\ PageOK
  BY DEF HubInv, HubTypeOK
<1>2. e \in Topic \X Nat /\ heard \subseteq Tab
  BY <1>1 DEF HubTypeOK, Leader
<1>3. /\ events' = events + 1
      /\ behind' = [t \in Tab |-> IF x \in got[t] /\ t \notin heard THEN behind[t] \cup {e} ELSE behind[t]]
      /\ IF heard = {} THEN UNCHANGED inbox
         ELSE \E t \in heard : inbox' = Posted(inbox, t, <<[k |-> "event", tab |-> t, e |-> e]>>)
      /\ UNCHANGED <<role, queue, mine, wants, link, heal, leaving, wave, healing, resetting, awaited, cooling,
                     deferred, online, moves, faults, got>>
  BY DEF Emit, tabs_, leader_
<1> HIDE DEF e, heard
<1>4. inbox' \in [Tab -> Seq(Bus)]
  <2>1. CASE heard = {}
    BY <1>1, <1>3, <2>1 DEF TabsOK
  <2>2. CASE heard # {}
    <3>1. PICK t \in heard : inbox' = Posted(inbox, t, <<[k |-> "event", tab |-> t, e |-> e]>>)
      BY <1>3, <2>2
    <3>2. <<[k |-> "event", tab |-> t, e |-> e]>> \in Seq(Bus)
      BY <1>2, EventOK
    <3> QED
      BY <1>1, <3>1, <3>2, PostedOK DEF TabsOK
  <2> QED
    BY <2>1, <2>2
<1>5. behind' \in [Tab -> SUBSET (Topic \X Nat)]
  BY <1>1, <1>2, <1>3 DEF PageOK
<1>6. HubTypeOK'
  BY <1>1, <1>3, <1>4, <1>5 DEF HubTypeOK, TabsOK, PageOK, ResetOK
<1> QED
  BY <1>3, <1>6, SameLinks

-----------------------------------------------------------------------------
(* Resets and the network                                                    *)

LEMMA ResetDoneStep ==
  ASSUME HubInv, ResetDone
  PROVE  HubInv'
<1>1. HubTypeOK /\ ResetOK
  BY DEF HubInv, HubTypeOK
<1>2. /\ resetting' = FALSE /\ awaited' = {}
      /\ link' = [x \in Topic |-> IF link[x] \notin {"torn", "parked", "rejoining"} THEN link[x]
                                  ELSE IF x \in leaving THEN "deaf" ELSE "joining"]
      /\ UNCHANGED <<role, queue, mine, inbox, wants, heal, leaving, wave, healing, cooling, deferred, online,
                     moves, faults, events, got, behind>>
  BY DEF ResetDone, tabs_, bounds_, page_
<1>3. link' \in [Topic -> Phase]
  BY <1>1, <1>2 DEF ResetOK, Phase
<1>4. HubTypeOK'
  BY <1>1, <1>2, <1>3 DEF HubTypeOK, TabsOK, PageOK, ResetOK
<1>5. NoTopicForgotten'
  BY <1>2 DEF HubInv, NoTopicForgotten
<1>6. Leader = {} => \A x \in Topic : link'[x] = "none"
  BY <1>2 DEF HubInv, LeaderHasChannels
<1> QED
  BY <1>2, <1>4, <1>5, <1>6, SameRoles

LEMMA CooledDownStep ==
  ASSUME HubInv, CooledDown
  PROVE  HubInv'
<1>1. /\ cooling' = FALSE
      /\ UNCHANGED <<role, queue, mine, inbox, wants, link, heal, leaving, wave, healing, resetting, awaited,
                     deferred, online, moves, faults, events, got, behind>>
  BY DEF CooledDown, tabs_, bounds_, page_
<1>2. HubTypeOK'
  BY <1>1 DEF HubInv, HubTypeOK, TabsOK, PageOK, ResetOK
<1> QED
  BY <1>1, <1>2, SameLinks

LEMMA DeferredResetStep ==
  ASSUME HubInv, DeferredReset
  PROVE  HubInv'
<1>1. HubTypeOK
  BY DEF HubInv
<1>2. /\ TearDown /\ deferred' = FALSE
      /\ UNCHANGED <<role, queue, mine, inbox, wants, wave, healing, online, moves, faults, events, got, behind>>
  BY DEF DeferredReset, tabs_, bounds_, page_
<1>3. /\ link' \in [Topic -> Phase] /\ heal' \in [Topic -> BOOLEAN] /\ leaving' \subseteq Topic
      /\ resetting' = TRUE /\ awaited' \subseteq Topic /\ cooling' = TRUE
      /\ \A x \in Topic : link'[x] = IF link[x] = "none" THEN "none" ELSE "torn"
  BY <1>2, TornDown
<1>4. HubTypeOK'
  BY <1>1, <1>2, <1>3 DEF HubTypeOK, TabsOK, PageOK, ResetOK
<1>5. NoTopicForgotten'
  BY <1>3 DEF NoTopicForgotten
<1>6. Leader = {} => \A x \in Topic : link'[x] = "none"
  BY <1>3 DEF HubInv, LeaderHasChannels
<1> QED
  BY <1>2, <1>4, <1>5, <1>6, SameRoles

\* A reset that is asked for.
LEMMA ForceStep ==
  ASSUME HubInv, ForceReconnect, UNCHANGED <<role, wants, wave, healing>>, TabsOK', PageOK',
         online' \in BOOLEAN, moves' \in Nat, faults' \in Nat, events' \in Nat
  PROVE  HubInv'
<1>1. ResetOK' /\ NoTopicForgotten' /\ \A x \in Topic : link[x] = "none" => link'[x] = "none"
  BY Forced, ForcedKeeps
<1>2. HubTypeOK'
  BY <1>1 DEF HubInv, HubTypeOK
<1>3. Leader = {} => \A x \in Topic : link'[x] = "none"
  BY <1>1 DEF HubInv, LeaderHasChannels
<1> QED
  BY <1>1, <1>2, <1>3, SameRoles

LEMMA WakeStep ==
  ASSUME HubInv, NEW t \in Tab, Wake(t)
  PROVE  HubInv'
<1>1. HubTypeOK /\ TabsOK /\ PageOK
  BY DEF HubInv, HubTypeOK
<1>2. moves' = moves + 1 /\ UNCHANGED <<role, queue, mine, online, faults, events, got, behind>>
  BY DEF Wake, Move, tabs_, page_
<1>3. CASE role[t] = "leader"
  <2>1. ForceReconnect /\ UNCHANGED <<inbox, wants, wave, healing>>
    BY <1>3 DEF Wake
  <2>2. TabsOK' /\ PageOK'
    BY <1>1, <1>2, <2>1 DEF TabsOK, PageOK
  <2>3. online' \in BOOLEAN /\ moves' \in Nat /\ faults' \in Nat /\ events' \in Nat
    BY <1>1, <1>2 DEF HubTypeOK
  <2> QED
    BY <1>2, <2>1, <2>2, <2>3, ForceStep
<1>4. CASE role[t] # "leader"
  <2>1. /\ inbox' = Posted(inbox, t, <<Note("poke", t)>>)
        /\ UNCHANGED <<wants, link, heal, leaving, wave, healing, resetting, awaited, cooling, deferred>>
    BY <1>4 DEF Wake, leader_
  <2>2. inbox' \in [Tab -> Seq(Bus)]
    BY <1>1, <2>1, NoteOK, PostedOK DEF TabsOK
  <2>3. HubTypeOK'
    BY <1>1, <1>2, <2>1, <2>2 DEF HubTypeOK, TabsOK, PageOK, ResetOK
  <2> QED
    BY <1>2, <2>1, <2>3, SameLinks
<1> QED
  BY <1>3, <1>4

LEMMA GoOfflineStep ==
  ASSUME HubInv, GoOffline
  PROVE  HubInv'
<1>1. /\ online' = FALSE /\ faults' = faults + 1
      /\ UNCHANGED <<role, queue, mine, inbox, wants, link, heal, leaving, wave, healing, resetting, awaited,
                     cooling, deferred, moves, events, got, behind>>
  BY DEF GoOffline, Fault, tabs_, leader_, page_
<1>2. HubTypeOK'
  <2>1. HubTypeOK /\ online' \in BOOLEAN
    BY <1>1 DEF HubInv
  <2>2. faults' \in Nat
    BY <1>1, <2>1 DEF HubTypeOK
  <2> QED
    BY <1>1, <2>1, <2>2 DEF HubTypeOK, TabsOK, PageOK, ResetOK
<1>3. NoTopicForgotten'
  BY <1>1 DEF HubInv, NoTopicForgotten
<1>4. Leader = {} => \A x \in Topic : link'[x] = "none"
  BY <1>1 DEF HubInv, LeaderHasChannels
<1> QED
  BY <1>1, <1>2, <1>3, <1>4, SameRoles

LEMMA GoOnlineStep ==
  ASSUME HubInv, GoOnline
  PROVE  HubInv'
<1> DEFINE pokes(t) == [i \in 1 .. Cardinality(Live \ Leader) |-> Note("poke", t)]
<1>1. HubTypeOK /\ TabsOK /\ PageOK
  BY DEF HubInv, HubTypeOK
<1>2. /\ online' = TRUE
      /\ IF Leader # {} THEN ForceReconnect
         ELSE UNCHANGED <<link, heal, leaving, resetting, awaited, cooling, deferred>>
      /\ inbox' = [t \in Tab |-> IF role[t] # "leader" THEN inbox[t] ELSE inbox[t] \o pokes(t)]
      /\ UNCHANGED <<role, queue, mine, wants, wave, healing, moves, faults, events, got, behind>>
  BY DEF GoOnline, tabs_, bounds_, page_
<1>3. inbox' \in [Tab -> Seq(Bus)]
  <2> SUFFICES ASSUME NEW t \in Tab, role[t] = "leader" PROVE inbox[t] \o pokes(t) \in Seq(Bus)
    BY <1>1, <1>2 DEF TabsOK
  <2>1. pokes(t) \in Seq(Bus)
    <3>1. Note("poke", t) \in Bus
      BY NoteOK
    <3>2. Cardinality(Live \ Leader) \in Nat
      <4>1. Live \ Leader \subseteq Tab
        BY DEF Live
      <4> QED
        BY <4>1, HubAssumption, FS_Subset, FS_CardinalityType
    <3> QED
      BY <3>1, <3>2, RepeatOK
  <2> HIDE DEF pokes
  <2> QED
    BY <1>1, <2>1 DEF TabsOK
<1> HIDE DEF pokes
<1>4. TabsOK' /\ PageOK'
  BY <1>1, <1>2, <1>3 DEF TabsOK, PageOK
<1>5. CASE Leader # {}
  <2>1. online' \in BOOLEAN /\ moves' \in Nat /\ faults' \in Nat /\ events' \in Nat
    BY <1>1, <1>2 DEF HubTypeOK
  <2> QED
    BY <1>2, <1>4, <1>5, <2>1, ForceStep
<1>6. CASE Leader = {}
  <2>1. UNCHANGED <<link, heal, leaving, resetting, awaited, cooling, deferred>>
    BY <1>2, <1>6
  <2>2. HubTypeOK'
    BY <1>1, <1>2, <1>4, <2>1 DEF HubTypeOK, ResetOK
  <2>3. \A x \in Topic : link'[x] = "none"
    BY <1>6, <2>1 DEF HubInv, LeaderHasChannels
  <2>4. NoTopicForgotten'
    BY <2>3 DEF NoTopicForgotten
  <2> QED
    BY <1>2, <2>2, <2>3, <2>4, SameRoles
<1> QED
  BY <1>5, <1>6

-----------------------------------------------------------------------------
(* One topic                                                                 *)

\* What a topic's timers and callbacks do to the leader's state.
LEMMA TopicStep ==
  ASSUME HubInv, NEW x \in Topic, NEW phase \in Phase, link' = [link EXCEPT ![x] = phase],
         link[x] # "none", leaving \ {x} \subseteq leaving', leaving' \subseteq Topic,
         phase = "waiting" => x \in leaving', phase # "torn", phase = "parked" => ~online,
         heal' \in [Topic -> BOOLEAN], healing' \in BOOLEAN, PageOK', faults' \in Nat,
         UNCHANGED <<role, queue, mine, inbox, wants, wave, resetting, awaited, cooling, deferred, online,
                     moves, events>>
  PROVE  HubInv'
<1>1. HubTypeOK /\ ResetOK /\ TabsOK
  BY DEF HubInv, HubTypeOK
<1>2. HubTypeOK'
  BY <1>1 DEF HubTypeOK, TabsOK, ResetOK
<1>3. \A y \in Topic : link'[y] = IF y = x THEN phase ELSE link[y]
  BY <1>1 DEF ResetOK
<1>4. NoTopicForgotten'
  BY <1>3 DEF HubInv, NoTopicForgotten
<1>5. Leader # {}
  BY DEF HubInv, LeaderHasChannels
<1> QED
  BY <1>2, <1>4, <1>5, SameRoles

LEMMA SubscribedStep ==
  ASSUME HubInv, NEW x \in Topic, Subscribed(x)
  PROVE  HubInv'
<1>1. HubTypeOK /\ ResetOK /\ PageOK
  BY DEF HubInv, HubTypeOK
<1>2. /\ link[x] = "joining" /\ link' = [link EXCEPT ![x] = "joined"]
      /\ healing' = (healing \/ heal[x]) /\ heal' = [heal EXCEPT ![x] = FALSE]
      /\ got' = [t \in Tab |-> IF x \in mine[t] THEN got[t] \cup {x} ELSE got[t]]
      /\ UNCHANGED <<role, queue, mine, inbox, wants, leaving, wave, resetting, awaited, cooling, deferred, online,
                     moves, faults, events, behind>>
  BY DEF Subscribed, tabs_, bounds_
<1>3. PageOK'
  BY <1>1, <1>2 DEF PageOK
<1>4. heal' \in [Topic -> BOOLEAN] /\ healing' \in BOOLEAN /\ faults' \in Nat /\ leaving' \subseteq Topic
  BY <1>1, <1>2 DEF HubTypeOK, ResetOK
<1>5. "joined" \in Phase
  BY DEF Phase
<1> QED
  BY <1>2, <1>3, <1>4, <1>5, TopicStep

LEMMA BrokenStep ==
  ASSUME HubInv, NEW x \in Topic, Broken(x)
  PROVE  HubInv'
<1>1. HubTypeOK /\ ResetOK /\ PageOK
  BY DEF HubInv, HubTypeOK
<1>2. /\ link[x] # "none" /\ link' = [link EXCEPT ![x] = "backoff"] /\ heal' = [heal EXCEPT ![x] = TRUE]
      /\ leaving' = leaving \cup {x}
      /\ UNCHANGED <<role, queue, mine, inbox, wants, wave, healing, resetting, awaited, cooling, deferred, online,
                     moves, events, got, behind>>
  BY DEF Broken, Fault, tabs_, bounds_, page_
<1>3. faults' \in Nat
  BY <1>1 DEF Broken, Fault, bounds_, HubTypeOK
<1>4. PageOK'
  BY <1>1, <1>2 DEF PageOK
<1>5. heal' \in [Topic -> BOOLEAN] /\ healing' \in BOOLEAN /\ leaving' \subseteq Topic
  BY <1>1, <1>2 DEF HubTypeOK, ResetOK
<1>6. "backoff" \in Phase
  BY DEF Phase
<1> QED
  BY <1>2, <1>3, <1>4, <1>5, <1>6, TopicStep

LEMMA RemovedStep ==
  ASSUME HubInv, NEW x \in Topic, Removed(x)
  PROVE  HubInv'
<1>1. HubTypeOK /\ ResetOK /\ PageOK
  BY DEF HubInv, HubTypeOK
<1> DEFINE phase == IF link[x] = "waiting" THEN "joining" ELSE link[x]
<1>2. /\ x \in leaving /\ leaving' = leaving \ {x} /\ link' = [link EXCEPT ![x] = phase]
      /\ UNCHANGED <<role, queue, mine, inbox, wants, heal, wave, healing, resetting, awaited, cooling, deferred,
                     online, moves, faults, events, got, behind>>
  BY DEF Removed, tabs_, bounds_, page_
<1>3. HubTypeOK'
  <2>1. link' \in [Topic -> Phase]
    BY <1>1, <1>2 DEF ResetOK, Phase
  <2> QED
    BY <1>1, <1>2, <2>1 DEF HubTypeOK, TabsOK, PageOK, ResetOK
<1>4. \A y \in Topic : link'[y] = (IF y = x THEN phase ELSE link[y])
  BY <1>1, <1>2 DEF ResetOK
<1>5. NoTopicForgotten'
  BY <1>2, <1>4 DEF HubInv, NoTopicForgotten
<1>6. Leader = {} => \A y \in Topic : link'[y] = "none"
  BY <1>4 DEF HubInv, LeaderHasChannels
<1> QED
  BY <1>2, <1>3, <1>5, <1>6, SameRoles

LEMMA RetryTimerStep ==
  ASSUME HubInv, NEW x \in Topic, RetryTimer(x)
  PROVE  HubInv'
<1>1. HubTypeOK /\ ResetOK /\ PageOK
  BY DEF HubInv, HubTypeOK
<1> DEFINE phase == IF online THEN "rejoining" ELSE "parked"
<1>2. /\ link[x] = "backoff" /\ link' = [link EXCEPT ![x] = phase]
      /\ UNCHANGED <<role, queue, mine, inbox, wants, heal, leaving, wave, healing, resetting, awaited, cooling,
                     deferred, online, moves, faults, events, got, behind>>
  BY DEF RetryTimer, tabs_, bounds_, page_
<1>3. PageOK' /\ heal' \in [Topic -> BOOLEAN] /\ healing' \in BOOLEAN /\ faults' \in Nat /\ leaving' \subseteq Topic
  BY <1>1, <1>2 DEF HubTypeOK, ResetOK, PageOK
<1>4. phase \in Phase /\ phase # "waiting" /\ phase # "torn" /\ (phase = "parked" => ~online)
  BY DEF Phase
<1> HIDE DEF phase
<1> QED
  BY <1>2, <1>3, <1>4, TopicStep

LEMMA RejoinStep ==
  ASSUME HubInv, NEW x \in Topic, Rejoin(x)
  PROVE  HubInv'
<1>1. HubTypeOK /\ ResetOK /\ PageOK
  BY DEF HubInv, HubTypeOK
<1>2. /\ link[x] = "rejoining" /\ link' = [link EXCEPT ![x] = "joining"]
      /\ UNCHANGED <<role, queue, mine, inbox, wants, heal, leaving, wave, healing, resetting, awaited, cooling,
                     deferred, online, moves, faults, events, got, behind>>
  BY DEF Rejoin, tabs_, bounds_, page_
<1>3. PageOK' /\ heal' \in [Topic -> BOOLEAN] /\ healing' \in BOOLEAN /\ faults' \in Nat /\ leaving' \subseteq Topic
  BY <1>1, <1>2 DEF HubTypeOK, ResetOK, PageOK
<1>4. "joining" \in Phase
  BY DEF Phase
<1> QED
  BY <1>2, <1>3, <1>4, TopicStep

LEMMA FireReconnectedStep ==
  ASSUME HubInv, FireReconnected
  PROVE  HubInv'
<1>1. HubTypeOK /\ TabsOK /\ PageOK
  BY DEF HubInv, HubTypeOK
<1>2. PICK t \in Leader : behind' = [behind EXCEPT ![t] = {}] /\ inbox' = Posted(inbox, t, <<Note("reconnected", t)>>)
  BY DEF FireReconnected
<1>3. /\ healing' = FALSE
      /\ UNCHANGED <<role, queue, mine, wants, link, heal, leaving, wave, resetting, awaited, cooling, deferred,
                     online, moves, faults, events, got>>
  BY DEF FireReconnected, tabs_, bounds_
<1>4. inbox' \in [Tab -> Seq(Bus)]
  <2>1. t \in Tab
    BY DEF Leader
  <2> QED
    BY <1>1, <1>2, <2>1, NoteOK, PostedOK DEF TabsOK
<1>5. behind' \in [Tab -> SUBSET (Topic \X Nat)]
  BY <1>1, <1>2 DEF PageOK
<1>6. HubTypeOK'
  BY <1>1, <1>3, <1>4, <1>5 DEF HubTypeOK, TabsOK, PageOK, ResetOK
<1> QED
  BY <1>3, <1>6, SameLinks

-----------------------------------------------------------------------------
(* The bus                                                                   *)

LEMMA OnBusStep ==
  ASSUME HubInv, NEW t \in Tab, OnBus(t)
  PROVE  HubInv'
<1> DEFINE m == Head(inbox[t])
           rest == [inbox EXCEPT ![t] = Tail(inbox[t])]
<1>1. HubTypeOK /\ TabsOK /\ PageOK /\ ResetOK
  BY DEF HubInv, HubTypeOK
<1>2. /\ inbox[t] # <<>>
      /\ UNCHANGED <<role, queue, mine, online, moves, faults, events>>
  BY DEF OnBus, tabs_, bounds_
<1>3. m \in Bus /\ rest \in [Tab -> Seq(Bus)]
  <2>1. inbox[t] \in Seq(Bus)
    BY <1>1 DEF TabsOK
  <2>2. Head(inbox[t]) \in Bus /\ Tail(inbox[t]) \in Seq(Bus)
    BY <1>2, <2>1
  <2> QED
    BY <1>1, <2>2 DEF TabsOK
<1>4. \/ /\ role[t] = "leader" /\ m.k \in {"want", "bye"} /\ inbox' = rest
         /\ Reconcile([wants EXCEPT ![m.tab] = IF m.k = "want" THEN m.topics ELSE {}])
         /\ UNCHANGED <<wave, healing, resetting, awaited, cooling, deferred>>
      \/ /\ role[t] = "leader" /\ inbox' = rest
         /\ IF online THEN ForceReconnect
            ELSE UNCHANGED <<link, heal, leaving, resetting, awaited, cooling, deferred>>
         /\ UNCHANGED <<wants, wave, healing, got, behind>>
      \/ /\ inbox' = Posted(rest, t, <<Want(t, mine[t])>>)
         /\ UNCHANGED <<wants, link, heal, leaving, wave, healing, resetting, awaited, cooling, deferred, got, behind>>
      \/ /\ inbox' = rest /\ behind' \in [Tab -> SUBSET (Topic \X Nat)]
         /\ UNCHANGED <<wants, link, heal, leaving, wave, healing, resetting, awaited, cooling, deferred, got>>
  <2>1. [behind EXCEPT ![t] = {}] \in [Tab -> SUBSET (Topic \X Nat)]
    BY <1>1 DEF PageOK
  <2>2. behind \in [Tab -> SUBSET (Topic \X Nat)]
    BY <1>1 DEF PageOK
  <2>3. \A e : [behind EXCEPT ![t] = behind[t] \ {e}] \in [Tab -> SUBSET (Topic \X Nat)]
    BY <2>2
  <2> QED
    BY <2>1, <2>2, <2>3 DEF OnBus, leader_, page_
<1> HIDE DEF m, rest
<1>5. CASE /\ role[t] = "leader" /\ m.k \in {"want", "bye"} /\ inbox' = rest
           /\ Reconcile([wants EXCEPT ![m.tab] = IF m.k = "want" THEN m.topics ELSE {}])
           /\ UNCHANGED <<wave, healing, resetting, awaited, cooling, deferred>>
  <2> DEFINE S == IF m.k = "want" THEN m.topics ELSE {}
  <2>1. m.tab \in Tab /\ S \in SUBSET Topic
    BY <1>3, BusFacts
  <2> HIDE DEF S
  <2>2. [wants EXCEPT ![m.tab] = S] \in [Tab -> SUBSET Topic]
    BY <1>1, <2>1 DEF HubTypeOK
  <2>3. Reconcile([wants EXCEPT ![m.tab] = S])
    BY <1>5 DEF S
  <2>4. /\ wants' \in [Tab -> SUBSET Topic] /\ PageOK'
        /\ link' \in [Topic -> Phase] /\ heal' \in [Topic -> BOOLEAN] /\ leaving' \subseteq Topic
        /\ \A x \in Topic : /\ link'[x] = "waiting" => x \in leaving'
                            /\ link'[x] \in {"torn", "parked"} => link[x] = link'[x]
    BY <2>2, <2>3, Reconciled
  <2>5. TabsOK' /\ ResetOK'
    BY <1>1, <1>2, <1>3, <1>5, <2>4 DEF TabsOK, ResetOK
  <2>6. HubTypeOK'
    BY <1>1, <1>2, <1>5, <2>4, <2>5 DEF HubTypeOK
  <2>7. NoTopicForgotten'
    BY <1>2, <1>5, <2>4 DEF HubInv, NoTopicForgotten
  <2>8. Leader # {}
    BY <1>5 DEF Leader
  <2> QED
    BY <1>2, <2>6, <2>7, <2>8, SameRoles
<1>6. CASE /\ role[t] = "leader" /\ inbox' = rest
           /\ IF online THEN ForceReconnect
              ELSE UNCHANGED <<link, heal, leaving, resetting, awaited, cooling, deferred>>
           /\ UNCHANGED <<wants, wave, healing, got, behind>>
  <2>1. TabsOK' /\ PageOK'
    BY <1>1, <1>2, <1>3, <1>6 DEF TabsOK, PageOK
  <2>2. online' \in BOOLEAN /\ moves' \in Nat /\ faults' \in Nat /\ events' \in Nat
    BY <1>1, <1>2 DEF HubTypeOK
  <2>3. CASE online
    BY <1>2, <1>6, <2>1, <2>2, <2>3, ForceStep
  <2>4. CASE ~online
    <3>1. UNCHANGED <<link, heal, leaving, resetting, awaited, cooling, deferred>>
      BY <1>6, <2>4
    <3>2. HubTypeOK'
      BY <1>1, <1>2, <1>6, <2>1, <3>1 DEF HubTypeOK, ResetOK
    <3> QED
      BY <1>2, <3>1, <3>2, SameLinks
  <2> QED
    BY <2>3, <2>4
<1>7. CASE /\ inbox' = Posted(rest, t, <<Want(t, mine[t])>>)
           /\ UNCHANGED <<wants, link, heal, leaving, wave, healing, resetting, awaited, cooling, deferred, got, behind>>
  <2>1. mine[t] \in SUBSET Topic
    BY <1>1 DEF TabsOK
  <2>2. inbox' \in [Tab -> Seq(Bus)]
    BY <1>3, <1>7, <2>1, WantOK, PostedOK
  <2>3. HubTypeOK'
    BY <1>1, <1>2, <1>7, <2>2 DEF HubTypeOK, TabsOK, PageOK, ResetOK
  <2> QED
    BY <1>2, <1>7, <2>3, SameLinks
<1>8. CASE /\ inbox' = rest /\ behind' \in [Tab -> SUBSET (Topic \X Nat)]
           /\ UNCHANGED <<wants, link, heal, leaving, wave, healing, resetting, awaited, cooling, deferred, got>>
  <2>1. HubTypeOK'
    BY <1>1, <1>2, <1>3, <1>8 DEF HubTypeOK, TabsOK, PageOK, ResetOK
  <2> QED
    BY <1>2, <1>8, <2>1, SameLinks
<1> QED
  BY <1>4, <1>5, <1>6, <1>7, <1>8

-----------------------------------------------------------------------------
LEMMA HubStart ==
  ASSUME Init
  PROVE  HubInv
<1>1. /\ role = [t \in Tab |-> "stopped"] /\ queue = <<>>
      /\ mine = [t \in Tab |-> {}] /\ inbox = [t \in Tab |-> <<>>]
      /\ wants = [t \in Tab |-> {}]
      /\ link = [x \in Topic |-> "none"] /\ heal = [x \in Topic |-> FALSE]
      /\ leaving = {} /\ wave = FALSE /\ healing = FALSE
      /\ resetting = FALSE /\ awaited = {} /\ cooling = FALSE /\ deferred = FALSE
      /\ online = TRUE /\ moves = 0 /\ faults = 0 /\ events = 0
      /\ got = [t \in Tab |-> {}] /\ behind = [t \in Tab |-> {}]
  BY DEF Init
<1>2. TabsOK
  <2>1. <<>> \in Seq(Bus) /\ <<>> \in Seq(Tab)
    OBVIOUS
  <2> QED
    BY <1>1, <2>1 DEF TabsOK
<1>3. ResetOK
  BY <1>1 DEF ResetOK, Phase
<1>4. PageOK /\ wants \in [Tab -> SUBSET Topic]
  BY <1>1 DEF PageOK
<1>5. HubTypeOK
  BY <1>1, <1>2, <1>3, <1>4 DEF HubTypeOK
<1> QED
  BY <1>1, <1>5 DEF HubInv, OneLeader, LeaderHasChannels, NoTopicForgotten, Leader

LEMMA HubStep ==
  ASSUME HubInv, [Next]_vars
  PROVE  HubInv'
<1>1. CASE Next
  <2>1. CASE BecomeLeader \/ WaveEnds \/ ResetDone \/ CooledDown \/ DeferredReset
             \/ GoOffline \/ GoOnline \/ FireReconnected
    BY <2>1, BecomeLeaderStep, WaveEndsStep, ResetDoneStep, CooledDownStep, DeferredResetStep,
       GoOfflineStep, GoOnlineStep, FireReconnectedStep
  <2>2. ASSUME NEW t \in Tab, Announce(t) \/ Stop(t) \/ Kill(t) \/ Expire(t) \/ Wake(t) \/ OnBus(t)
        PROVE  HubInv'
    BY <2>2, AnnounceStep, StopStep, KillStep, ExpireStep, WakeStep, OnBusStep
  <2>3. ASSUME NEW t \in Tab, NEW S \in SUBSET Topic, Start(t, S) \/ SetTopics(t, S) PROVE HubInv'
    BY <2>3, StartStep, SetTopicsStep
  <2>4. ASSUME NEW x \in Topic, Subscribed(x) \/ Broken(x) \/ Removed(x) \/ RetryTimer(x) \/ Rejoin(x) \/ Emit(x)
        PROVE  HubInv'
    BY <2>4, SubscribedStep, BrokenStep, RemovedStep, RetryTimerStep, RejoinStep, EmitStep
  <2> QED
    BY <1>1, <2>1, <2>2, <2>3, <2>4 DEF Next
<1>2. CASE UNCHANGED vars
  <2>1. UNCHANGED <<role, queue, mine, inbox, wants, link, heal, leaving, wave, healing, resetting, awaited,
                    cooling, deferred, online, moves, faults, events, got, behind>>
    BY <1>2 DEF vars, tabs_, leader_, bounds_, page_
  <2>2. HubTypeOK'
    BY <2>1 DEF HubInv, HubTypeOK, TabsOK, PageOK, ResetOK
  <2> QED
    BY <2>1, <2>2, SameLinks
<1> QED
  BY <1>1, <1>2

-----------------------------------------------------------------------------
(* Events that were missed                                                   *)

\* The leader is new, and what t wants is going to be told to it.
Telling(t, x) ==
  /\ link[x] = "none" /\ wave
  /\ \/ role[t] = "follower" /\ \E i \in DOMAIN inbox[t] : inbox[t][i].k = "leader"
     \/ \E l \in Leader : \E i \in DOMAIN inbox[l] :
          inbox[l][i].k = "want" /\ inbox[l][i].tab = t /\ x \in inbox[l][i].topics

\* A topic that a tab listens on is joined, or a heal is owed once it is.
Covered(t, x) == link[x] = "joined" \/ heal[x] \/ Leader = {} \/ Telling(t, x)

\* It is being handed over, or a heal that reaches t is on its way.
ByBus(t, e) ==
  /\ role[t] = "follower"
  /\ \E i \in DOMAIN inbox[t] : \/ inbox[t][i].k = "reconnected"
                                \/ inbox[t][i].k = "event" /\ inbox[t][i].e = e
Coming(t, e) ==
  \/ ByBus(t, e) \/ healing \/ heal[e[1]] \/ Leader = {} \/ Telling(t, e[1])
  \/ link[e[1]] = "joined" /\ (~online \/ deferred)

MissedIsOwed == \A t \in Tab : \A e \in behind[t] : Coming(t, e)

Listening ==
  /\ \A x \in Topic : link[x] = "none" => ~heal[x]
  /\ \A t \in Tab : /\ role[t] = "stopped" => got[t] = {} /\ mine[t] = {}
                    /\ role[t] = "follower" => got[t] \subseteq mine[t]
                    /\ \A e \in behind[t] : e[1] \in got[t]
                    /\ \A x \in got[t] : Covered(t, x)

HealInv == HubInv /\ Listening /\ MissedIsOwed

LEMMA Joined ==
  ASSUME NEW s \in Seq(Bus), NEW ms \in Seq(Bus)
  PROVE  /\ \A i \in DOMAIN s : i \in DOMAIN (s \o ms) /\ (s \o ms)[i] = s[i]
         /\ \A k \in DOMAIN ms : \E i \in DOMAIN (s \o ms) : (s \o ms)[i] = ms[k]
<1>1. DOMAIN s = 1 .. Len(s) /\ DOMAIN ms = 1 .. Len(ms) /\ Len(s) \in Nat /\ Len(ms) \in Nat
      /\ DOMAIN (s \o ms) = 1 .. Len(s) + Len(ms)
  OBVIOUS
<1>2. ASSUME NEW k \in DOMAIN ms PROVE Len(s) + k \in DOMAIN (s \o ms) /\ (s \o ms)[Len(s) + k] = ms[k]
  BY <1>1
<1> QED
  BY <1>1, <1>2

\* What the heading of a line takes out is the head.
LEMMA Rest ==
  ASSUME NEW s \in Seq(Bus), s # <<>>
  PROVE  \A i \in DOMAIN s : s[i] = Head(s) \/ \E j \in DOMAIN Tail(s) : Tail(s)[j] = s[i]
<1>1. Len(s) \in Nat /\ Len(s) >= 1 /\ DOMAIN s = 1 .. Len(s) /\ DOMAIN Tail(s) = 1 .. Len(s) - 1
      /\ Head(s) = s[1] /\ \A j \in 1 .. Len(s) - 1 : Tail(s)[j] = s[j + 1]
  OBVIOUS
<1> SUFFICES ASSUME NEW i \in DOMAIN s, i # 1 PROVE \E j \in DOMAIN Tail(s) : Tail(s)[j] = s[i]
  BY <1>1
<1>2. i - 1 \in 1 .. Len(s) - 1 /\ (i - 1) + 1 = i
  BY <1>1
<1> QED
  BY <1>1, <1>2

MsgKept(u, i) == \E j \in DOMAIN inbox'[u] : inbox'[u][j] = inbox[u][i]

LEMMA Single ==
  ASSUME NEW m \in Bus
  PROVE  \E ms \in Seq(Bus) : ms = <<m>>
<1>1. <<m>> \in Seq(Bus)
  OBVIOUS
<1> QED
  BY <1>1

\* A message that is posted is there, after what was there.
LEMMA OneMoreIn ==
  ASSUME NEW u \in Tab, NEW m \in Bus, inbox[u] \in Seq(Bus), inbox'[u] = inbox[u] \o <<m>>
  PROVE  (\A i \in DOMAIN inbox[u] : MsgKept(u, i)) /\ \E j \in DOMAIN inbox'[u] : inbox'[u][j] = m
<1>1. PICK ms \in Seq(Bus) : ms = <<m>>
  BY Single
<1>2. 1 \in DOMAIN ms /\ ms[1] = m
  BY <1>1
<1>3. PICK s \in Seq(Bus) : s = inbox[u]
  OBVIOUS
<1>4. /\ \A i \in DOMAIN s : i \in DOMAIN (s \o ms) /\ (s \o ms)[i] = s[i]
      /\ \A k \in DOMAIN ms : \E i \in DOMAIN (s \o ms) : (s \o ms)[i] = ms[k]
  BY Joined
<1>5. PICK q : q = s \o ms
  OBVIOUS
<1>6. /\ \A i \in DOMAIN s : i \in DOMAIN q /\ q[i] = s[i]
      /\ \A k \in DOMAIN ms : \E i \in DOMAIN q : q[i] = ms[k]
  BY <1>4, <1>5
<1>7. \E i \in DOMAIN q : q[i] = m
  BY <1>2, <1>6
<1>8. inbox'[u] = q
  BY <1>1, <1>3, <1>5
<1> QED
  BY <1>3, <1>6, <1>7, <1>8 DEF MsgKept

\* Nobody who waits for it loses a word about who leads, or about what is wanted.
WordKept ==
  \A u \in Tab : \A i \in DOMAIN inbox[u] :
    \/ role[u] = "follower" /\ inbox[u][i].k = "leader"
    \/ role[u] = "leader" /\ inbox[u][i].k = "want"
    => MsgKept(u, i)
HealKept ==
  \A u \in Tab : \A i \in DOMAIN inbox[u] :
    role[u] = "follower" /\ inbox[u][i].k \in {"reconnected", "event"} => MsgKept(u, i)

LEMMA TellingKept ==
  ASSUME UNCHANGED <<role, wave>>, WordKept, NEW t \in Tab, NEW x \in Topic, Telling(t, x), link'[x] = "none"
  PROVE  Telling(t, x)'
<1>1. CASE role[t] = "follower" /\ \E i \in DOMAIN inbox[t] : inbox[t][i].k = "leader"
  BY <1>1 DEF Telling, WordKept, MsgKept
<1>2. CASE \E l \in Leader : \E i \in DOMAIN inbox[l] :
             inbox[l][i].k = "want" /\ inbox[l][i].tab = t /\ x \in inbox[l][i].topics
  <2>1. PICK l \in Leader : \E i \in DOMAIN inbox[l] :
             inbox[l][i].k = "want" /\ inbox[l][i].tab = t /\ x \in inbox[l][i].topics
    BY <1>2
  <2>2. PICK i \in DOMAIN inbox[l] : inbox[l][i].k = "want" /\ inbox[l][i].tab = t /\ x \in inbox[l][i].topics
    BY <2>1
  <2>3. l \in Tab /\ role[l] = "leader" /\ l \in Leader'
    BY DEF Leader
  <2>4. PICK j \in DOMAIN inbox'[l] : inbox'[l][j] = inbox[l][i]
    BY <2>2, <2>3 DEF WordKept, MsgKept
  <2> QED
    BY <2>2, <2>3, <2>4 DEF Telling
<1> QED
  BY <1>1, <1>2 DEF Telling

LEMMA ByBusKept ==
  ASSUME UNCHANGED role, HealKept, NEW t \in Tab, NEW e, ByBus(t, e)
  PROVE  ByBus(t, e)'
BY DEF ByBus, HealKept, MsgKept

\* What timers, callbacks and resets do to one topic.
LineKept(x) ==
  /\ link'[x] = "none" <=> link[x] = "none"
  /\ link[x] = "none" => ~heal'[x]
  /\ link[x] = "joined" => link'[x] = "joined" \/ heal'[x]
  /\ heal[x] => heal'[x] \/ (healing' /\ link'[x] = "joined")
  /\ link[x] = "joined" /\ (~online \/ deferred) => heal'[x] \/ (link'[x] = "joined" /\ (~online' \/ deferred'))

LEMMA CoveredStays ==
  ASSUME HubInv, UNCHANGED <<role, wave>>, WordKept, NEW t \in Tab, NEW x \in Topic, Covered(t, x),
         link'[x] = "none" <=> link[x] = "none",
         link[x] = "joined" => link'[x] = "joined" \/ heal'[x],
         heal[x] => heal'[x] \/ link'[x] = "joined"
  PROVE  Covered(t, x)'
<1>1. Leader' = Leader
  BY DEF Leader
<1>2. Telling(t, x) => link'[x] = "none"
  BY DEF Telling
<1>3. Telling(t, x) => Telling(t, x)'
  BY <1>2, TellingKept
<1> QED
  BY <1>1, <1>3 DEF Covered

LEMMA ComingStays ==
  ASSUME HubInv, UNCHANGED <<role, wave>>, WordKept, HealKept, healing => healing',
         NEW t \in Tab, NEW e \in Topic \X Nat, LineKept(e[1]), Coming(t, e)
  PROVE  Coming(t, e)'
<1>1. Leader' = Leader /\ e[1] \in Topic
  BY DEF Leader
<1>2. Telling(t, e[1]) => link'[e[1]] = "none"
  BY DEF Telling, LineKept
<1>3. Telling(t, e[1]) => Telling(t, e[1])'
  BY <1>1, <1>2, TellingKept
<1>4. ByBus(t, e) => ByBus(t, e)'
  BY ByBusKept
<1> QED
  BY <1>1, <1>3, <1>4 DEF Coming, LineKept

LEMMA QuietHeal ==
  ASSUME HealInv, HubInv', UNCHANGED <<role, mine, got, behind, wave>>, WordKept, HealKept,
         healing => healing', \A x \in Topic : LineKept(x)
  PROVE  HealInv'
<1>1. got \in [Tab -> SUBSET Topic] /\ behind \in [Tab -> SUBSET (Topic \X Nat)]
  BY DEF HealInv, HubInv, HubTypeOK, PageOK
<1>2. ASSUME NEW t \in Tab, NEW x \in got[t] PROVE Covered(t, x)'
  <2>1. x \in Topic /\ Covered(t, x)
    BY <1>1 DEF HealInv, Listening
  <2>2. /\ link'[x] = "none" <=> link[x] = "none"
        /\ link[x] = "joined" => link'[x] = "joined" \/ heal'[x]
        /\ heal[x] => heal'[x] \/ link'[x] = "joined"
    BY <2>1 DEF LineKept
  <2> QED
    BY <2>1, <2>2, CoveredStays DEF HealInv
<1>3. ASSUME NEW t \in Tab, NEW e \in behind[t] PROVE Coming(t, e)'
  <2>1. e \in Topic \X Nat /\ Coming(t, e)
    BY <1>1 DEF HealInv, MissedIsOwed
  <2>2. LineKept(e[1])
    BY <2>1
  <2> QED
    BY <2>1, <2>2, ComingStays DEF HealInv
<1>4. \A x \in Topic : link'[x] = "none" => ~heal'[x]
  BY DEF LineKept
<1>5. Listening'
  BY <1>2, <1>4 DEF HealInv, Listening
<1>6. MissedIsOwed'
  BY <1>3 DEF MissedIsOwed
<1> QED
  BY <1>5, <1>6 DEF HealInv


-----------------------------------------------------------------------------
(* Nothing missed is forgotten: the actions                                  *)

\* The bus keeps what it carries; what is posted is added.
LEMMA PostKeeps ==
  ASSUME HubInv, NEW from, NEW m \in Bus, inbox' = Posted(inbox, from, <<m>>)
  PROVE  WordKept /\ HealKept
<1>1. inbox \in [Tab -> Seq(Bus)]
  BY DEF HubInv, HubTypeOK, TabsOK
<1>2. ASSUME NEW u \in Tab, NEW i \in DOMAIN inbox[u] PROVE MsgKept(u, i)
  <2>1. inbox[u] \in Seq(Bus) /\ (inbox'[u] = inbox[u] \o <<m>> \/ inbox'[u] = inbox[u])
    BY <1>1 DEF Posted
  <2>2. CASE inbox'[u] = inbox[u]
    BY <2>2 DEF MsgKept
  <2>3. CASE inbox'[u] = inbox[u] \o <<m>>
    BY <2>1, <2>3, OneMoreIn
  <2> QED
    BY <2>1, <2>2, <2>3
<1> QED
  BY <1>2 DEF WordKept, HealKept

LEMMA PostArrives ==
  ASSUME HubInv, NEW from, NEW m \in Bus, inbox' = Posted(inbox, from, <<m>>),
         NEW u \in Tab, u # from, role[u] # "stopped"
  PROVE  \E j \in DOMAIN inbox'[u] : inbox'[u][j] = m
<1>1. inbox[u] \in Seq(Bus) /\ inbox'[u] = inbox[u] \o <<m>>
  BY DEF HubInv, HubTypeOK, TabsOK, Posted
<1> QED
  BY <1>1, OneMoreIn

LEMMA SameBox ==
  ASSUME UNCHANGED inbox
  PROVE  WordKept /\ HealKept
BY DEF WordKept, HealKept, MsgKept

\* A message that a tab of this role has no use for.
LEMMA HeadGone ==
  ASSUME HubInv, NEW t \in Tab, inbox[t] # <<>>, inbox' = [inbox EXCEPT ![t] = Tail(inbox[t])]
  PROVE  /\ \A u \in Tab : u # t => inbox'[u] = inbox[u]
         /\ \A u \in Tab : \A i \in DOMAIN inbox[u] : (u = t /\ inbox[u][i] = Head(inbox[t])) \/ MsgKept(u, i)
<1>1. inbox \in [Tab -> Seq(Bus)]
  BY DEF HubInv, HubTypeOK, TabsOK
<1>2. inbox[t] \in Seq(Bus) /\ inbox'[t] = Tail(inbox[t])
  BY <1>1
<1>3. \A i \in DOMAIN inbox[t] : inbox[t][i] = Head(inbox[t]) \/ \E j \in DOMAIN Tail(inbox[t]) : Tail(inbox[t])[j] = inbox[t][i]
  BY <1>2, Rest
<1>4. \A u \in Tab : u # t => inbox'[u] = inbox[u]
  BY <1>1
<1> QED
  BY <1>2, <1>3, <1>4 DEF MsgKept

LEMMA Types ==
  ASSUME HubInv
  PROVE  /\ role \in [Tab -> {"stopped", "follower", "leader"}] /\ mine \in [Tab -> SUBSET Topic]
         /\ inbox \in [Tab -> Seq(Bus)] /\ wants \in [Tab -> SUBSET Topic]
         /\ link \in [Topic -> Phase] /\ heal \in [Topic -> BOOLEAN]
         /\ got \in [Tab -> SUBSET Topic] /\ behind \in [Tab -> SUBSET (Topic \X Nat)] /\ queue \in Seq(Tab)
BY DEF HubInv, HubTypeOK, TabsOK, PageOK, ResetOK

\* Timers and callbacks of one topic, and resets.
LEMMA LinesQuiet ==
  ASSUME HealInv, HubInv', UNCHANGED <<tabs_, page_, wave>>, WordKept, HealKept,
         healing => healing', \A x \in Topic : LineKept(x)
  PROVE  HealInv'
BY QuietHeal DEF tabs_, page_

LEMMA Torn ==
  ASSUME HealInv, TearDown, NEW x \in Topic
  PROVE  LineKept(x)
<1>1. heal[x] => link[x] # "none"
  BY DEF HealInv, Listening
<1>2. /\ link'[x] = IF link[x] = "none" THEN "none" ELSE "torn"
      /\ heal'[x] = (link[x] # "none")
  BY DEF TearDown
<1> QED
  BY <1>1, <1>2 DEF LineKept

LEMMA SameLine ==
  ASSUME HealInv, NEW x \in Topic, link'[x] = link[x], heal'[x] = heal[x], online' = online, deferred => deferred'
  PROVE  LineKept(x)
BY DEF LineKept, HealInv, Listening

LEMMA ForcedLine ==
  ASSUME HealInv, NEW x \in Topic, online' = online,
         TearDown \/ (deferred' = TRUE /\ link' = link /\ heal' = heal)
  PROVE  LineKept(x)
BY Torn, SameLine

LEMMA ResetDoneHeal ==
  ASSUME HealInv, HubInv', ResetDone
  PROVE  HealInv'
<1> USE DEF ResetDone
<1>1. link \in [Topic -> Phase]
  BY Types DEF HealInv
<1>2. ASSUME NEW x \in Topic PROVE LineKept(x)
  <2>1. /\ link'[x] = (IF link[x] \notin {"torn", "parked", "rejoining"} THEN link[x]
                       ELSE IF x \in leaving THEN "deaf" ELSE "joining")
        /\ heal'[x] = heal[x]
    BY <1>1
  <2> QED
    BY <2>1 DEF LineKept, HealInv, Listening
<1> QED
  BY <1>2, SameBox, LinesQuiet

LEMMA CooledDownHeal ==
  ASSUME HealInv, HubInv', CooledDown
  PROVE  HealInv'
<1> USE DEF CooledDown
<1>1. \A x \in Topic : LineKept(x)
  BY SameLine
<1> QED
  BY <1>1, SameBox, LinesQuiet

LEMMA DeferredResetHeal ==
  ASSUME HealInv, HubInv', DeferredReset
  PROVE  HealInv'
<1> USE DEF DeferredReset
<1>1. \A x \in Topic : LineKept(x)
  BY Torn
<1> QED
  BY <1>1, SameBox, LinesQuiet

LEMMA WakeHeal ==
  ASSUME HealInv, HubInv', NEW t \in Tab, Wake(t)
  PROVE  HealInv'
<1> USE DEF Wake
<1>1. CASE role[t] = "leader"
  <2>1. /\ TearDown \/ (deferred' = TRUE /\ link' = link /\ heal' = heal)
        /\ online' = online /\ UNCHANGED <<inbox, wave, healing, tabs_, page_>>
    BY <1>1 DEF ForceReconnect
  <2>2. \A x \in Topic : LineKept(x)
    BY <2>1, ForcedLine
  <2> QED
    BY <2>1, <2>2, SameBox, LinesQuiet
<1>2. CASE role[t] # "leader"
  <2>1. Note("poke", t) \in Bus /\ inbox' = Posted(inbox, t, <<Note("poke", t)>>)
    BY <1>2, NoteOK
  <2>2. UNCHANGED <<link, heal, online, deferred, healing, wave>>
    BY <1>2 DEF leader_
  <2>3. \A x \in Topic : LineKept(x)
    BY <2>2, SameLine
  <2>4. WordKept /\ HealKept
    BY <2>1, PostKeeps DEF HealInv
  <2> QED
    BY <2>2, <2>3, <2>4, LinesQuiet
<1> QED
  BY <1>1, <1>2

LEMMA AnnounceHeal ==
  ASSUME HealInv, HubInv', NEW t \in Tab, Announce(t)
  PROVE  HealInv'
<1> USE DEF Announce
<1>1. Want(t, mine[t]) \in Bus
  BY Types DEF Want, Bus, HealInv
<1>2. UNCHANGED <<link, heal, online, deferred, healing, wave>>
  BY DEF leader_
<1>3. \A x \in Topic : LineKept(x)
  BY <1>2, SameLine
<1>4. WordKept /\ HealKept
  BY <1>1, PostKeeps DEF HealInv
<1> QED
  BY <1>2, <1>3, <1>4, LinesQuiet

LEMMA GoOfflineHeal ==
  ASSUME HealInv, HubInv', GoOffline
  PROVE  HealInv'
<1> USE DEF GoOffline
<1>1. UNCHANGED <<link, heal, deferred, healing, wave>> /\ ~online'
  BY DEF leader_
<1>2. \A x \in Topic : LineKept(x)
  BY <1>1 DEF LineKept, HealInv, Listening
<1> QED
  BY <1>1, <1>2, SameBox, LinesQuiet

LEMMA GoOnlineHeal ==
  ASSUME HealInv, HubInv', GoOnline
  PROVE  HealInv'
<1> USE DEF GoOnline
<1>1. ASSUME NEW x \in Topic PROVE LineKept(x)
  <2>1. CASE TearDown
    BY <2>1, Torn
  <2>2. CASE deferred' /\ UNCHANGED <<link, heal>>
    BY <2>2 DEF LineKept, HealInv, Listening
  <2>3. CASE Leader = {} /\ UNCHANGED <<link, heal>>
    <3>1. link[x] = "none"
      BY <2>3 DEF HealInv, HubInv, LeaderHasChannels
    <3> QED
      BY <2>3, <3>1 DEF LineKept, HealInv, Listening
  <2> QED
    BY <2>1, <2>2, <2>3 DEF ForceReconnect
<1>2. ASSUME NEW u \in Tab, NEW i \in DOMAIN inbox[u] PROVE MsgKept(u, i)
  <2>1. CASE role[u] # "leader"
    BY <2>1 DEF MsgKept
  <2>2. CASE role[u] = "leader"
    <3> DEFINE n == Cardinality(Live \ Leader)
    <3>1. n \in Nat
      BY FS_Subset, FS_CardinalityType, HubAssumption DEF Live
    <3>2. inbox[u] \in Seq(Bus) /\ inbox'[u] = inbox[u] \o [k \in 1 .. n |-> Note("poke", u)]
      BY <2>2, Types DEF HealInv
    <3> HIDE DEF n
    <3>3. [k \in 1 .. n |-> Note("poke", u)] \in Seq(Bus)
      BY <3>1, NoteOK, RepeatOK
    <3> DEFINE ms == [k \in 1 .. n |-> Note("poke", u)]
    <3> HIDE DEF ms
    <3>4. inbox[u] \in Seq(Bus) /\ ms \in Seq(Bus) /\ inbox'[u] = inbox[u] \o ms
      BY <3>2, <3>3 DEF ms
    <3>5. \A k \in DOMAIN inbox[u] : k \in DOMAIN (inbox[u] \o ms) /\ (inbox[u] \o ms)[k] = inbox[u][k]
      BY <3>4, Joined
    <3> QED
      BY <3>4, <3>5 DEF MsgKept
  <2> QED
    BY <2>1, <2>2
<1>3. WordKept /\ HealKept
  BY <1>2 DEF WordKept, HealKept
<1> QED
  BY <1>1, <1>3, LinesQuiet

LEMMA OneLineHeal ==
  ASSUME HealInv, HubInv', NEW x \in Topic, Broken(x) \/ Removed(x) \/ RetryTimer(x) \/ Rejoin(x)
  PROVE  HealInv'
<1>1. link \in [Topic -> Phase] /\ heal \in [Topic -> BOOLEAN]
  BY Types DEF HealInv
<1>2. UNCHANGED <<tabs_, inbox, page_, wave, healing, online, deferred>>
  BY DEF Broken, Removed, RetryTimer, Rejoin
<1>3. \A y \in Topic : y # x => link'[y] = link[y] /\ heal'[y] = heal[y]
  BY <1>1 DEF Broken, Removed, RetryTimer, Rejoin
<1>4. LineKept(x)
  <2>1. CASE Broken(x)
    <3>1. link[x] # "none" /\ link'[x] = "backoff" /\ heal'[x]
      BY <1>1, <2>1 DEF Broken
    <3> QED
      BY <3>1 DEF LineKept
  <2>2. CASE Removed(x)
    <3>1. link'[x] = (IF link[x] = "waiting" THEN "joining" ELSE link[x]) /\ heal'[x] = heal[x]
      BY <1>1, <2>2 DEF Removed
    <3> QED
      BY <1>2, <3>1 DEF LineKept, HealInv, Listening
  <2>3. CASE RetryTimer(x) \/ Rejoin(x)
    <3>1. link[x] \in {"backoff", "rejoining"} /\ link'[x] \in {"rejoining", "parked", "joining"} /\ heal'[x] = heal[x]
      BY <1>1, <2>3 DEF RetryTimer, Rejoin
    <3> QED
      BY <3>1 DEF LineKept
  <2> QED
    BY <2>1, <2>2, <2>3
<1>5. \A y \in Topic : LineKept(y)
  BY <1>2, <1>3, <1>4, SameLine
<1> QED
  BY <1>2, <1>5, SameBox, LinesQuiet

\* What is wanted anew is owed a heal while the leader is new; what nobody wants is dropped.
LEMMA ReconcileLines ==
  ASSUME HubInv, NEW w \in [Tab -> SUBSET Topic], Reconcile(w), NEW x \in Topic
  PROVE  \/ /\ link'[x] = "none" /\ ~heal'[x] /\ \A t \in Tab : x \notin got'[t]
         \/ /\ link[x] = "none" /\ link'[x] # "none" /\ heal'[x] = wave
         \/ /\ link'[x] = link[x] /\ heal'[x] = heal[x]
            /\ link[x] = "none" => \A t \in Tab : x \notin w[t]
<1> DEFINE wanted == UNION {w[t] : t \in Tab}
           fresh == {y \in wanted : link[y] = "none"}
           dropped == {y \in Topic \ wanted : link[y] # "none"}
<1>1. /\ link' = [y \in Topic |-> CASE y \in dropped -> "none"
                                    [] y \in fresh -> IF y \in leaving THEN "waiting" ELSE "joining"
                                    [] OTHER -> link[y]]
      /\ heal' = [y \in Topic |-> IF y \in fresh THEN wave ELSE y \notin dropped /\ heal[y]]
      /\ got' = [t \in Tab |-> got[t] \ dropped]
  BY DEF Reconcile
<1>2. dropped \cap fresh = {}
  OBVIOUS
<1>3. x \in fresh => link[x] = "none"
  OBVIOUS
<1>4. x \notin fresh /\ link[x] = "none" => \A t \in Tab : x \notin w[t]
  OBVIOUS
<1>5. heal[x] \in BOOLEAN /\ wave \in BOOLEAN
  BY Types DEF HubInv, HubTypeOK
<1> HIDE DEF wanted, fresh, dropped
<1>6. CASE x \in dropped
  BY <1>1, <1>2, <1>6
<1>7. CASE x \in fresh
  BY <1>1, <1>2, <1>3, <1>5, <1>7
<1>8. CASE x \notin dropped /\ x \notin fresh
  BY <1>1, <1>4, <1>5, <1>8
<1> QED
  BY <1>6, <1>7, <1>8

LEMMA ReconcilePage ==
  ASSUME HealInv, NEW w, Reconcile(w), NEW t \in Tab
  PROVE  /\ got'[t] \subseteq got[t] /\ behind'[t] \subseteq behind[t]
         /\ \A e \in behind'[t] : e[1] \in got'[t]
<1> DEFINE dropped == {y \in Topic \ UNION {w[u] : u \in Tab} : link[y] # "none"}
<1>1. got' = [u \in Tab |-> got[u] \ dropped] /\ behind' = [u \in Tab |-> {e \in behind[u] : e[1] \notin dropped}]
  BY DEF Reconcile
<1> HIDE DEF dropped
<1> QED
  BY <1>1 DEF HealInv, Listening

\* The leader reconciles: with its own topics, what it is told, or without a tab that is silent.
LEMMA ReconcileHeal ==
  ASSUME HealInv, HubInv', UNCHANGED <<role, wave, healing, online, deferred>>, Leader # {}, HealKept,
         NEW w \in [Tab -> SUBSET Topic], Reconcile(w),
         \A t \in Tab : role[t] # "leader" => mine'[t] = mine[t],
         \A t \in Tab : \A x \in Topic :
           Telling(t, x) /\ link'[x] = "none" /\ x \notin w[t] => Telling(t, x)'
  PROVE  HealInv'
<1>1. got \in [Tab -> SUBSET Topic] /\ behind \in [Tab -> SUBSET (Topic \X Nat)]
  BY Types DEF HealInv
<1>2. ASSUME NEW t \in Tab, NEW x \in Topic, x \in got'[t], Covered(t, x)
      PROVE  Covered(t, x)'
  <2>1. HubInv /\ (link[x] = "none" => ~heal[x])
    BY DEF HealInv, Listening
  <2>2. CASE link'[x] = "none" /\ ~heal'[x] /\ \A u \in Tab : x \notin got'[u]
    BY <1>2, <2>2
  <2>3. CASE link[x] = "none" /\ link'[x] # "none" /\ heal'[x] = wave
    BY <1>2, <2>1, <2>3 DEF Covered, Telling
  <2>4. CASE /\ link'[x] = link[x] /\ heal'[x] = heal[x]
             /\ link[x] = "none" => \A u \in Tab : x \notin w[u]
    <3>1. Telling(t, x) => Telling(t, x)'
      BY <2>4 DEF Telling
    <3> QED
      BY <1>2, <2>4, <3>1 DEF Covered
  <2> QED
    BY <2>1, <2>2, <2>3, <2>4, ReconcileLines
<1>3. ASSUME NEW t \in Tab, NEW e \in behind'[t]
      PROVE  Coming(t, e)'
  <2> DEFINE x == e[1]
  <2>1. e \in behind[t] /\ x \in got'[t] /\ x \in Topic
    BY <1>1, ReconcilePage
  <2>2. Coming(t, e)
    BY <2>1 DEF HealInv, MissedIsOwed
  <2>3. ByBus(t, e) => ByBus(t, e)'
    BY ByBusKept
  <2>4. HubInv /\ (link[x] = "none" => ~heal[x])
    BY <2>1 DEF HealInv, Listening
  <2>5. CASE link'[x] = "none" /\ ~heal'[x] /\ \A u \in Tab : x \notin got'[u]
    BY <2>1, <2>5
  <2>6. CASE link[x] = "none" /\ link'[x] # "none" /\ heal'[x] = wave
    BY <2>2, <2>3, <2>4, <2>6 DEF Coming, Telling
  <2>7. CASE /\ link'[x] = link[x] /\ heal'[x] = heal[x]
             /\ link[x] = "none" => \A u \in Tab : x \notin w[u]
    <3>1. Telling(t, x) => Telling(t, x)'
      BY <2>1, <2>7 DEF Telling
    <3> QED
      BY <2>2, <2>3, <2>7, <3>1 DEF Coming
  <2> HIDE DEF x
  <2>8. \/ link'[x] = "none" /\ ~heal'[x] /\ \A u \in Tab : x \notin got'[u]
        \/ link[x] = "none" /\ link'[x] # "none" /\ heal'[x] = wave
        \/ /\ link'[x] = link[x] /\ heal'[x] = heal[x]
           /\ link[x] = "none" => \A u \in Tab : x \notin w[u]
    BY <2>1, <2>4, ReconcileLines
  <2> QED
    BY <2>5, <2>6, <2>7, <2>8
<1>4. ASSUME NEW x \in Topic, link'[x] = "none" PROVE ~heal'[x]
  <2>1. HubInv /\ (link[x] = "none" => ~heal[x])
    BY DEF HealInv, Listening
  <2> QED
    BY <1>4, <2>1, ReconcileLines
<1>5. \A t \in Tab : \A x \in got'[t] : Covered(t, x)'
  <2> TAKE t \in Tab
  <2> TAKE x \in got'[t]
  <2>1. x \in got[t] /\ x \in Topic
    BY <1>1, ReconcilePage
  <2> QED
    BY <1>2, <2>1 DEF HealInv, Listening
<1>6. ASSUME NEW t \in Tab
      PROVE  /\ role'[t] = "stopped" => got'[t] = {} /\ mine'[t] = {}
             /\ role'[t] = "follower" => got'[t] \subseteq mine'[t]
             /\ \A e \in behind'[t] : e[1] \in got'[t]
  BY ReconcilePage DEF HealInv, Listening
<1>7. Listening'
  BY <1>4, <1>5, <1>6 DEF Listening
<1> QED
  BY <1>3, <1>7 DEF HealInv, MissedIsOwed

LEMMA ExpireHeal ==
  ASSUME HealInv, HubInv', NEW t \in Tab, Expire(t)
  PROVE  HealInv'
<1> DEFINE w == [wants EXCEPT ![t] = {}]
<1>1. w \in [Tab -> SUBSET Topic]
  BY Types DEF HealInv
<1>2. Reconcile(w) /\ Leader # {} /\ UNCHANGED <<role, mine, inbox, wave, healing, online, deferred>>
  BY DEF Expire, tabs_
<1> HIDE DEF w
<1>3. \A u \in Tab : \A x \in Topic : Telling(u, x) /\ link'[x] = "none" => Telling(u, x)'
  BY <1>2, SameBox, TellingKept
<1> QED
  BY <1>1, <1>2, <1>3, SameBox, ReconcileHeal

LEMMA SetTopicsHeal ==
  ASSUME HealInv, HubInv', NEW t \in Tab, NEW S \in SUBSET Topic, SetTopics(t, S)
  PROVE  HealInv'
<1>1. UNCHANGED <<role, online>> /\ mine' = [mine EXCEPT ![t] = S] /\ mine \in [Tab -> SUBSET Topic]
  BY Types DEF SetTopics, HealInv
<1>2. CASE role[t] = "leader"
  <2> DEFINE w == [wants EXCEPT ![t] = S]
  <2>1. w \in [Tab -> SUBSET Topic]
    BY Types DEF HealInv
  <2>2. Reconcile(w) /\ UNCHANGED <<inbox, wave, healing, deferred>>
    BY <1>2 DEF SetTopics
  <2>3. Leader # {} /\ \A u \in Tab : role[u] # "leader" => mine'[u] = mine[u]
    BY <1>1, <1>2 DEF Leader
  <2> HIDE DEF w
  <2>4. \A u \in Tab : \A x \in Topic : Telling(u, x) /\ link'[x] = "none" => Telling(u, x)'
    BY <1>1, <2>2, SameBox, TellingKept
  <2> QED
    BY <1>1, <2>1, <2>2, <2>3, <2>4, SameBox, ReconcileHeal
<1>3. CASE role[t] # "leader"
  <2>1. /\ inbox' = Posted(inbox, t, <<Want(t, S)>>)
        /\ got' = [got EXCEPT ![t] = got[t] \cap S]
        /\ behind' = [behind EXCEPT ![t] = {e \in behind[t] : e[1] \in S}]
        /\ UNCHANGED <<link, heal, wave, healing, deferred>>
    BY <1>3 DEF SetTopics, leader_
  <2>2. Want(t, S) \in Bus
    BY DEF Want, Bus
  <2>3. WordKept /\ HealKept
    BY <2>1, <2>2, PostKeeps DEF HealInv
  <2>4. got \in [Tab -> SUBSET Topic] /\ behind \in [Tab -> SUBSET (Topic \X Nat)]
    BY Types DEF HealInv
  <2>5. ASSUME NEW u \in Tab
        PROVE  /\ got'[u] \subseteq got[u] /\ behind'[u] \subseteq behind[u]
               /\ got'[u] = got[u] \/ (u = t /\ got'[u] = got[u] \cap S)
               /\ \A e \in behind'[u] : e[1] \in got'[u]
    BY <2>1, <2>4 DEF HealInv, Listening
  <2>6. role[t] = "follower"
    BY <1>3, Types DEF SetTopics, Live, HealInv
  <2>7. ASSUME NEW u \in Tab
        PROVE  /\ role'[u] = "stopped" => got'[u] = {} /\ mine'[u] = {}
               /\ role'[u] = "follower" => got'[u] \subseteq mine'[u]
    BY <1>1, <2>1, <2>4, <2>6 DEF HealInv, Listening
  <2>8. ASSUME NEW u \in Tab, NEW x \in got'[u] PROVE Covered(u, x)'
    <3>1. x \in Topic /\ Covered(u, x)
      BY <2>4, <2>5 DEF HealInv, Listening
    <3> QED
      BY <1>1, <2>1, <2>3, <3>1, CoveredStays DEF HealInv
  <2>9. ASSUME NEW u \in Tab, NEW e \in behind'[u] PROVE Coming(u, e)'
    <3>1. e \in Topic \X Nat /\ Coming(u, e)
      BY <2>4, <2>5 DEF HealInv, MissedIsOwed
    <3>2. LineKept(e[1])
      BY <1>1, <2>1, <3>1, SameLine
    <3> QED
      BY <1>1, <2>1, <2>3, <3>1, <3>2, ComingStays DEF HealInv
  <2>10. \A x \in Topic : link'[x] = "none" => ~heal'[x]
    BY <2>1 DEF HealInv, Listening
  <2>11. Listening'
    BY <2>5, <2>7, <2>8, <2>10 DEF Listening
  <2> QED
    BY <2>9, <2>11 DEF HealInv, MissedIsOwed
<1> QED
  BY <1>2, <1>3

\* A tab that has missed something runs.
LEMMA WhoMissed ==
  ASSUME HealInv, NEW t \in Tab, got[t] # {} \/ behind[t] # {}
  PROVE  got[t] # {} /\ role[t] \in {"follower", "leader"}
<1>1. role[t] \in {"stopped", "follower", "leader"}
  BY Types DEF HealInv
<1>2. got[t] # {}
  BY DEF HealInv, Listening
<1> QED
  BY <1>1, <1>2 DEF HealInv, Listening

LEMMA StartHeal ==
  ASSUME HealInv, HubInv', NEW t \in Tab, NEW S \in SUBSET Topic, Start(t, S)
  PROVE  HealInv'
<1>1. /\ role[t] = "stopped" /\ role' = [role EXCEPT ![t] = "follower"]
      /\ mine' = [mine EXCEPT ![t] = S] /\ inbox' = Posted(inbox, t, <<Want(t, S)>>)
      /\ UNCHANGED <<link, heal, wave, healing, online, deferred, got, behind>>
  BY DEF Start, leader_, page_
<1>2. /\ role \in [Tab -> {"stopped", "follower", "leader"}] /\ mine \in [Tab -> SUBSET Topic]
      /\ got \in [Tab -> SUBSET Topic] /\ behind \in [Tab -> SUBSET (Topic \X Nat)]
  BY Types DEF HealInv
<1>3. Leader' = Leader /\ \A u \in Tab : u # t => role'[u] = role[u] /\ mine'[u] = mine[u]
  BY <1>1, <1>2 DEF Leader
<1>4. got[t] = {} /\ behind[t] = {}
  BY <1>1, WhoMissed
<1>5. WordKept /\ HealKept
  <2>1. Want(t, S) \in Bus
    BY DEF Want, Bus
  <2> QED
    BY <1>1, <2>1, PostKeeps DEF HealInv
<1>6. ASSUME NEW u \in Tab, NEW x \in Topic, u # t, Telling(u, x) PROVE Telling(u, x)'
  <2>1. link'[x] = "none" /\ wave'
    BY <1>1, <1>6 DEF Telling
  <2>2. CASE role[u] = "follower" /\ \E i \in DOMAIN inbox[u] : inbox[u][i].k = "leader"
    BY <1>3, <1>5, <1>6, <2>1, <2>2 DEF Telling, WordKept, MsgKept
  <2>3. CASE \E l \in Leader : \E i \in DOMAIN inbox[l] :
               inbox[l][i].k = "want" /\ inbox[l][i].tab = u /\ x \in inbox[l][i].topics
    <3>1. PICK l \in Leader : \E i \in DOMAIN inbox[l] :
               inbox[l][i].k = "want" /\ inbox[l][i].tab = u /\ x \in inbox[l][i].topics
      BY <2>3
    <3>2. PICK i \in DOMAIN inbox[l] : inbox[l][i].k = "want" /\ inbox[l][i].tab = u /\ x \in inbox[l][i].topics
      BY <3>1
    <3>3. l \in Tab /\ role[l] = "leader" /\ l \in Leader'
      BY <1>3 DEF Leader
    <3>4. PICK j \in DOMAIN inbox'[l] : inbox'[l][j] = inbox[l][i]
      BY <1>5, <3>2, <3>3 DEF WordKept, MsgKept
    <3> QED
      BY <2>1, <3>2, <3>3, <3>4 DEF Telling
  <2> QED
    BY <1>6, <2>2, <2>3 DEF Telling
<1>7. ASSUME NEW u \in Tab, NEW x \in got[u] PROVE Covered(u, x)'
  <2>1. u # t /\ x \in Topic /\ Covered(u, x)
    BY <1>2, <1>4 DEF HealInv, Listening
  <2> QED
    BY <1>1, <1>3, <1>6, <2>1 DEF Covered
<1>8. ASSUME NEW u \in Tab, NEW e \in behind[u] PROVE Coming(u, e)'
  <2>1. u # t /\ e[1] \in Topic /\ Coming(u, e)
    BY <1>2, <1>4 DEF HealInv, MissedIsOwed
  <2>2. ByBus(u, e) => ByBus(u, e)'
    BY <1>3, <1>5, <2>1 DEF ByBus, HealKept, MsgKept
  <2> QED
    BY <1>1, <1>3, <1>6, <2>1, <2>2 DEF Coming
<1>9. ASSUME NEW u \in Tab
      PROVE  /\ role'[u] = "stopped" => got[u] = {} /\ mine'[u] = {}
             /\ role'[u] = "follower" => got[u] \subseteq mine'[u]
             /\ \A e \in behind[u] : e[1] \in got[u]
  <2>1. CASE u = t
    BY <1>1, <1>2, <1>4, <2>1
  <2>2. CASE u # t
    BY <1>3, <2>2 DEF HealInv, Listening
  <2> QED
    BY <2>1, <2>2
<1>10. Listening'
  BY <1>1, <1>7, <1>9 DEF Listening, HealInv
<1> QED
  BY <1>1, <1>8, <1>10 DEF HealInv, MissedIsOwed

\* A new leader owes a heal for what is its own, and asks the others what is theirs.
LEMMA BecomeLeaderHeal ==
  ASSUME HealInv, HubInv', BecomeLeader
  PROVE  HealInv'
<1> DEFINE t == Head(queue)
<1>1. /\ queue # <<>> /\ Leader = {} /\ role' = [role EXCEPT ![t] = "leader"] /\ wave' = TRUE
      /\ link' = [x \in Topic |-> IF x \in mine[t] THEN "joining" ELSE "none"]
      /\ heal' = [x \in Topic |-> x \in mine[t]]
      /\ inbox' = Posted(inbox, t, <<Note("leader", t)>>)
      /\ UNCHANGED <<mine, got, behind>>
  BY DEF BecomeLeader, page_
<1>2. /\ role \in [Tab -> {"stopped", "follower", "leader"}] /\ mine \in [Tab -> SUBSET Topic]
      /\ got \in [Tab -> SUBSET Topic] /\ behind \in [Tab -> SUBSET (Topic \X Nat)]
      /\ inbox \in [Tab -> Seq(Bus)]
  BY Types DEF HealInv
<1>3. t \in Tab
  BY <1>1, Types DEF HealInv
<1> HIDE DEF t
<1>4. ASSUME NEW u \in Tab, got[u] # {} PROVE role[u] = "follower"
  BY <1>1, <1>4, WhoMissed DEF Leader
<1>5. ASSUME NEW u \in Tab, NEW x \in got[u]
      PROVE  heal'[x] \/ Telling(u, x)'
  <2>1. x \in Topic /\ role[u] = "follower" /\ got[u] \subseteq mine[u]
    BY <1>2, <1>4 DEF HealInv, Listening
  <2>2. CASE u = t
    BY <1>1, <2>1, <2>2
  <2>3. CASE u # t /\ x \notin mine[t]
    <3>1. PICK m \in Bus : m = Note("leader", t)
      BY <1>3, NoteOK
    <3>2. m.k = "leader"
      BY <3>1 DEF Note
    <3>3. inbox' = Posted(inbox, t, <<m>>) /\ role'[u] = "follower"
      BY <1>1, <1>2, <2>1, <2>3, <3>1
    <3>4. \E j \in DOMAIN inbox'[u] : inbox'[u][j] = m
      BY <2>1, <2>3, <3>3, PostArrives DEF HealInv
    <3> QED
      BY <1>1, <2>1, <2>3, <3>2, <3>3, <3>4 DEF Telling
  <2>4. CASE x \in mine[t]
    BY <1>1, <2>1, <2>4
  <2> QED
    BY <2>2, <2>3, <2>4
<1>6. \A u \in Tab : \A e \in behind[u] : e[1] \in got[u]
  BY DEF HealInv, Listening
<1>7. MissedIsOwed'
  BY <1>1, <1>5, <1>6 DEF MissedIsOwed, Coming
<1>8. ASSUME NEW u \in Tab
      PROVE  /\ role'[u] = "stopped" => got[u] = {} /\ mine[u] = {}
             /\ role'[u] = "follower" => got[u] \subseteq mine[u]
  BY <1>1, <1>2 DEF HealInv, Listening
<1>9. Listening'
  BY <1>1, <1>5, <1>6, <1>8 DEF Listening, Covered
<1> QED
  BY <1>7, <1>9 DEF HealInv

\* Who goes takes its own with it; if it led, the next leader owes the heals.
LEMMA GoneHeal ==
  ASSUME HealInv, HubInv', NEW t \in Tab, Gone(t), online' = online,
         \A u \in Tab : u # t => inbox'[u] = inbox[u] \/ \E m \in Bus : inbox'[u] = Posted(inbox, t, <<m>>)[u]
  PROVE  HealInv'
<1>1. /\ role' = [role EXCEPT ![t] = "stopped"] /\ mine' = [mine EXCEPT ![t] = {}]
      /\ got' = [got EXCEPT ![t] = {}] /\ behind' = [behind EXCEPT ![t] = {}]
  BY DEF Gone
<1>2. /\ role \in [Tab -> {"stopped", "follower", "leader"}] /\ mine \in [Tab -> SUBSET Topic]
      /\ got \in [Tab -> SUBSET Topic] /\ behind \in [Tab -> SUBSET (Topic \X Nat)]
      /\ inbox \in [Tab -> Seq(Bus)]
  BY Types DEF HealInv
<1>3. \A u \in Tab : u # t => role'[u] = role[u] /\ mine'[u] = mine[u] /\ got'[u] = got[u] /\ behind'[u] = behind[u]
  BY <1>1, <1>2
<1>4. role'[t] = "stopped" /\ mine'[t] = {} /\ got'[t] = {} /\ behind'[t] = {}
  BY <1>1, <1>2
<1>5. ASSUME NEW u \in Tab
      PROVE  /\ role'[u] = "stopped" => got'[u] = {} /\ mine'[u] = {}
             /\ role'[u] = "follower" => got'[u] \subseteq mine'[u]
             /\ \A e \in behind'[u] : e[1] \in got'[u]
  BY <1>3, <1>4 DEF HealInv, Listening
<1>6. CASE role[t] = "leader"
  <2>1. link' = [x \in Topic |-> "none"] /\ heal' = [x \in Topic |-> FALSE]
    BY <1>6 DEF Gone
  <2>2. Leader' = {}
    BY <1>3, <1>4, <1>6 DEF Leader, HealInv, HubInv, OneLeader
  <2>3. Listening'
    BY <1>5, <2>1, <2>2 DEF Listening, Covered
  <2> QED
    BY <2>2, <2>3 DEF HealInv, MissedIsOwed, Coming
<1>7. CASE role[t] # "leader"
  <2>1. UNCHANGED <<link, heal, wave, healing, deferred>>
    BY <1>7 DEF Gone, leader_
  <2>2. Leader' = Leader /\ t \notin Leader
    BY <1>3, <1>4, <1>7 DEF Leader
  <2>3. ASSUME NEW u \in Tab, u # t, NEW i \in DOMAIN inbox[u] PROVE MsgKept(u, i)
    <3>1. CASE inbox'[u] = inbox[u]
      BY <3>1 DEF MsgKept
    <3>2. CASE \E m \in Bus : inbox'[u] = Posted(inbox, t, <<m>>)[u]
      <4>1. PICK m \in Bus : inbox'[u] = Posted(inbox, t, <<m>>)[u]
        BY <3>2
      <4>2. inbox[u] \in Seq(Bus) /\ (inbox'[u] = inbox[u] \o <<m>> \/ inbox'[u] = inbox[u])
        BY <1>2, <4>1 DEF Posted
      <4>3. CASE inbox'[u] = inbox[u]
        BY <4>3 DEF MsgKept
      <4>4. CASE inbox'[u] = inbox[u] \o <<m>>
        BY <4>2, <4>4, OneMoreIn
      <4> QED
        BY <4>2, <4>3, <4>4
    <3> QED
      BY <2>3, <3>1, <3>2
  <2>4. ASSUME NEW u \in Tab, NEW x \in Topic, u # t, Telling(u, x) PROVE Telling(u, x)'
    <3>1. link'[x] = "none" /\ wave'
      BY <2>1, <2>4 DEF Telling
    <3>2. CASE role[u] = "follower" /\ \E i \in DOMAIN inbox[u] : inbox[u][i].k = "leader"
      BY <1>3, <2>3, <2>4, <3>1, <3>2 DEF Telling, MsgKept
    <3>3. CASE \E l \in Leader : \E i \in DOMAIN inbox[l] :
                 inbox[l][i].k = "want" /\ inbox[l][i].tab = u /\ x \in inbox[l][i].topics
      <4>1. PICK l \in Leader : \E i \in DOMAIN inbox[l] :
                 inbox[l][i].k = "want" /\ inbox[l][i].tab = u /\ x \in inbox[l][i].topics
        BY <3>3
      <4>2. PICK i \in DOMAIN inbox[l] : inbox[l][i].k = "want" /\ inbox[l][i].tab = u /\ x \in inbox[l][i].topics
        BY <4>1
      <4>3. l \in Tab /\ l # t /\ l \in Leader'
        BY <2>2 DEF Leader
      <4>4. PICK j \in DOMAIN inbox'[l] : inbox'[l][j] = inbox[l][i]
        BY <2>3, <4>2, <4>3 DEF MsgKept
      <4> QED
        BY <3>1, <4>2, <4>3, <4>4 DEF Telling
    <3> QED
      BY <2>4, <3>2, <3>3 DEF Telling
  <2>5. ASSUME NEW u \in Tab, NEW x \in got'[u] PROVE Covered(u, x)'
    <3>1. u # t /\ x \in Topic /\ Covered(u, x)
      BY <1>2, <1>3, <1>4 DEF HealInv, Listening
    <3> QED
      BY <2>1, <2>2, <2>4, <3>1 DEF Covered
  <2>6. ASSUME NEW u \in Tab, NEW e \in behind'[u] PROVE Coming(u, e)'
    <3>1. u # t /\ e[1] \in Topic /\ Coming(u, e)
      BY <1>2, <1>3, <1>4 DEF HealInv, MissedIsOwed
    <3>2. ByBus(u, e) => ByBus(u, e)'
      BY <1>3, <2>3, <3>1 DEF ByBus, MsgKept
    <3> QED
      BY <2>1, <2>2, <2>4, <3>1, <3>2 DEF Coming
  <2>7. Listening'
    BY <1>5, <2>1, <2>5 DEF Listening, HealInv
  <2> QED
    BY <2>6, <2>7 DEF HealInv, MissedIsOwed
<1> QED
  BY <1>6, <1>7

LEMMA StopHeal ==
  ASSUME HealInv, HubInv', NEW t \in Tab, Stop(t) \/ Kill(t)
  PROVE  HealInv'
<1>1. inbox \in [Tab -> Seq(Bus)] /\ Gone(t) /\ online' = online
  BY Types DEF HealInv, Stop, Kill
<1>2. CASE Stop(t)
  <2>1. inbox' = [Posted(inbox, t, <<Note("bye", t)>>) EXCEPT ![t] = <<>>]
    BY <1>2 DEF Stop
  <2>2. \A u \in Tab : u # t => inbox'[u] = Posted(inbox, t, <<Note("bye", t)>>)[u]
    BY <2>1 DEF Posted
  <2>3. Note("bye", t) \in Bus
    BY NoteOK
  <2> QED
    BY <1>1, <2>2, <2>3, GoneHeal
<1>3. CASE Kill(t)
  <2>1. inbox' = [inbox EXCEPT ![t] = <<>>]
    BY <1>3 DEF Kill
  <2>2. \A u \in Tab : u # t => inbox'[u] = inbox[u]
    BY <1>1, <2>1
  <2> QED
    BY <1>1, <2>2, GoneHeal
<1> QED
  BY <1>2, <1>3

\* When the wave is over, everybody has told the leader what it wants.
LEMMA WaveEndsHeal ==
  ASSUME HealInv, HubInv', WaveEnds
  PROVE  HealInv'
<1>1. /\ \A t \in Tab : \A i \in DOMAIN inbox[t] : inbox[t][i].k \notin {"leader", "want"}
      /\ UNCHANGED <<role, mine, inbox, link, heal, healing, online, deferred, got, behind>>
  BY DEF WaveEnds, tabs_, page_
<1>2. \A t \in Tab, x \in Topic : ~Telling(t, x)
  BY <1>1 DEF Telling, Leader
<1>3. got \in [Tab -> SUBSET Topic] /\ behind \in [Tab -> SUBSET (Topic \X Nat)]
  BY Types DEF HealInv
<1>4. Leader' = Leader
  BY <1>1 DEF Leader
<1>5. ASSUME NEW t \in Tab, NEW x \in got[t] PROVE Covered(t, x)'
  <2>1. x \in Topic /\ Covered(t, x)
    BY <1>3 DEF HealInv, Listening
  <2> QED
    BY <1>1, <1>2, <1>4, <2>1 DEF Covered
<1>6. ASSUME NEW t \in Tab, NEW e \in behind[t] PROVE Coming(t, e)'
  <2>1. e[1] \in Topic /\ Coming(t, e)
    BY <1>3 DEF HealInv, MissedIsOwed
  <2>2. ByBus(t, e) => ByBus(t, e)'
    BY <1>1 DEF ByBus
  <2> QED
    BY <1>1, <1>2, <1>4, <2>1, <2>2 DEF Coming
<1>7. Listening'
  BY <1>1, <1>5 DEF Listening, HealInv
<1> QED
  BY <1>1, <1>6, <1>7 DEF HealInv, MissedIsOwed

LEMMA SubscribedHeal ==
  ASSUME HealInv, HubInv', NEW x \in Topic, Subscribed(x)
  PROVE  HealInv'
<1>1. /\ link[x] = "joining" /\ link' = [link EXCEPT ![x] = "joined"] /\ healing' = (healing \/ heal[x])
      /\ heal' = [heal EXCEPT ![x] = FALSE]
      /\ got' = [t \in Tab |-> IF x \in mine[t] THEN got[t] \cup {x} ELSE got[t]]
      /\ UNCHANGED <<role, mine, inbox, wave, online, deferred, behind>>
  BY DEF Subscribed, tabs_
<1>2. /\ link \in [Topic -> Phase] /\ heal \in [Topic -> BOOLEAN] /\ mine \in [Tab -> SUBSET Topic]
      /\ got \in [Tab -> SUBSET Topic] /\ behind \in [Tab -> SUBSET (Topic \X Nat)]
  BY Types DEF HealInv
<1>3. link'[x] = "joined" /\ \A y \in Topic : y # x => link'[y] = link[y] /\ heal'[y] = heal[y]
  BY <1>1, <1>2
<1>4. LineKept(x)
  <2>1. heal'[x] = FALSE
    BY <1>1, <1>2
  <2> QED
    BY <1>1, <1>3, <2>1 DEF LineKept
<1>5. ASSUME NEW y \in Topic PROVE LineKept(y)
  BY <1>1, <1>3, <1>4, <1>5, SameLine
<1>6. ASSUME NEW t \in Tab, NEW y \in got'[t] PROVE y \in Topic /\ Covered(t, y)'
  <2>1. CASE y = x
    BY <1>3, <2>1 DEF Covered
  <2>2. CASE y # x
    <3>1. y \in got[t] /\ y \in Topic
      BY <1>1, <1>2, <2>2
    <3>2. Covered(t, y)
      BY <3>1 DEF HealInv, Listening
    <3> QED
      BY <1>1, <1>3, <2>2, <3>1, <3>2, SameBox, CoveredStays DEF HealInv
  <2> QED
    BY <2>1, <2>2
<1>7. ASSUME NEW t \in Tab, NEW e \in behind[t] PROVE Coming(t, e)'
  <2>1. e \in Topic \X Nat /\ e[1] \in Topic /\ Coming(t, e)
    BY <1>2 DEF HealInv, MissedIsOwed
  <2> QED
    BY <1>1, <1>5, <2>1, SameBox, ComingStays DEF HealInv
<1>8. ASSUME NEW t \in Tab
      PROVE  /\ role'[t] = "stopped" => got'[t] = {} /\ mine'[t] = {}
             /\ role'[t] = "follower" => got'[t] \subseteq mine'[t]
             /\ \A e \in behind'[t] : e[1] \in got'[t]
  BY <1>1 DEF HealInv, Listening
<1>9. \A y \in Topic : link'[y] = "none" => ~heal'[y]
  BY <1>1, <1>2 DEF HealInv, Listening
<1>10. Listening'
  BY <1>6, <1>8, <1>9 DEF Listening
<1> QED
  BY <1>1, <1>7, <1>10 DEF HealInv, MissedIsOwed

\* The heal is told to every tab that may have missed something.
LEMMA FireReconnectedHeal ==
  ASSUME HealInv, HubInv', FireReconnected
  PROVE  HealInv'
<1>1. PICK t \in Leader : /\ behind' = [behind EXCEPT ![t] = {}]
                          /\ inbox' = Posted(inbox, t, <<Note("reconnected", t)>>)
  BY DEF FireReconnected
<1>2. UNCHANGED <<role, mine, link, heal, wave, online, deferred, got>>
  BY DEF FireReconnected, tabs_
<1>3. t \in Tab /\ role[t] = "leader"
  BY DEF Leader
<1>4. PICK m \in Bus : m = Note("reconnected", t)
  BY <1>3, NoteOK
<1>5. m.k = "reconnected" /\ inbox' = Posted(inbox, t, <<m>>)
  BY <1>1, <1>4 DEF Note
<1>6. WordKept
  BY <1>5, PostKeeps DEF HealInv
<1>7. /\ got \in [Tab -> SUBSET Topic] /\ behind \in [Tab -> SUBSET (Topic \X Nat)] /\ inbox \in [Tab -> Seq(Bus)]
  BY Types DEF HealInv
<1>8. ASSUME NEW u \in Tab, NEW e \in behind'[u] PROVE ByBus(u, e)' /\ e \in behind[u]
  <2>1. u # t /\ e \in behind[u]
    BY <1>1, <1>7
  <2>2. role[u] = "follower"
    BY <1>3, <2>1, WhoMissed DEF HealInv, HubInv, OneLeader, Leader
  <2>3. \E j \in DOMAIN inbox'[u] : inbox'[u][j] = m
    BY <1>5, <2>1, <2>2, PostArrives DEF HealInv
  <2> QED
    BY <1>2, <1>5, <2>1, <2>2, <2>3 DEF ByBus
<1>9. ASSUME NEW u \in Tab, NEW x \in got[u] PROVE Covered(u, x)'
  <2>1. x \in Topic /\ Covered(u, x)
    BY <1>7 DEF HealInv, Listening
  <2> QED
    BY <1>2, <1>6, <2>1, CoveredStays DEF HealInv
<1>10. Listening'
  BY <1>2, <1>8, <1>9 DEF Listening, HealInv
<1> QED
  BY <1>8, <1>10 DEF HealInv, MissedIsOwed, Coming

\* What is broadcast is handed over, or missed while a heal is owed.
LEMMA EmitHeal ==
  ASSUME HealInv, HubInv', NEW x \in Topic, Emit(x)
  PROVE  HealInv'
<1>0. PICK e : e = <<x, events + 1>>
  OBVIOUS
<1> DEFINE heard == IF link[x] = "joined" /\ online THEN Leader ELSE {}
<1>1. /\ behind' = [t \in Tab |-> IF x \in got[t] /\ t \notin heard THEN behind[t] \cup {e} ELSE behind[t]]
      /\ IF heard = {} THEN UNCHANGED inbox
         ELSE \E t \in heard : inbox' = Posted(inbox, t, <<[k |-> "event", tab |-> t, e |-> e]>>)
      /\ UNCHANGED <<role, mine, link, heal, wave, healing, online, deferred, got>>
  BY <1>0 DEF Emit, tabs_, leader_
<1>2. e \in Topic \X Nat /\ e[1] = x
  BY <1>0 DEF HealInv, HubInv, HubTypeOK
<1>3. /\ got \in [Tab -> SUBSET Topic] /\ behind \in [Tab -> SUBSET (Topic \X Nat)] /\ inbox \in [Tab -> Seq(Bus)]
  BY Types DEF HealInv
<1>4. WordKept /\ HealKept
  <2>1. CASE heard = {}
    BY <1>1, <2>1, SameBox
  <2>2. CASE heard # {}
    <3>1. PICK t \in heard : inbox' = Posted(inbox, t, <<[k |-> "event", tab |-> t, e |-> e]>>)
      BY <1>1, <2>2
    <3>2. t \in Tab
      BY <2>2 DEF Leader
    <3>3. [k |-> "event", tab |-> t, e |-> e] \in Bus
      BY <1>2, <3>2 DEF Bus
    <3> QED
      BY <3>1, <3>3, PostKeeps DEF HealInv
  <2> QED
    BY <2>1, <2>2
<1>5. ASSUME NEW u \in Tab, x \in got[u], u \notin heard PROVE Coming(u, e)'
  <2>1. Covered(u, x)
    BY <1>5 DEF HealInv, Listening
  <2>2. role[u] \in {"follower", "leader"}
    BY <1>5, WhoMissed
  <2>3. CASE heard # {}
    <3>1. PICK t \in heard : inbox' = Posted(inbox, t, <<[k |-> "event", tab |-> t, e |-> e]>>)
      BY <1>1, <2>3
    <3>2. t \in Tab /\ u # t /\ role[t] = "leader"
      BY <1>5, <2>3 DEF Leader
    <3>3. role[u] = "follower"
      BY <1>5, <2>2, <2>3 DEF Leader
    <3>4. PICK m \in Bus : m = [k |-> "event", tab |-> t, e |-> e]
      BY <1>2, <3>2 DEF Bus
    <3>5. inbox' = Posted(inbox, t, <<m>>)
      BY <3>1, <3>4
    <3>6. \E j \in DOMAIN inbox'[u] : inbox'[u][j] = m
      BY <3>2, <3>3, <3>5, PostArrives DEF HealInv
    <3>7. m.k = "event" /\ m.e = e
      BY <3>4
    <3>8. ByBus(u, e)'
      BY <1>1, <3>2, <3>3, <3>6, <3>7 DEF ByBus
    <3> QED
      BY <3>8 DEF Coming
  <2>4. CASE heard = {}
    <3>1. UNCHANGED inbox
      BY <1>1, <2>4
    <3>2. Telling(u, x) => Telling(u, x)'
      BY <1>1, <3>1 DEF Telling, Leader
    <3>3. Leader = {} => Leader' = {}
      BY <1>1 DEF Leader
    <3>4. link[x] = "joined" => ~online \/ Leader = {}
      BY <2>4
    <3> QED
      BY <1>1, <1>2, <2>1, <3>2, <3>3, <3>4 DEF Covered, Coming
  <2> QED
    BY <2>3, <2>4
<1>6. ASSUME NEW u \in Tab, NEW f \in behind[u] PROVE Coming(u, f)'
  <2>1. f \in Topic \X Nat /\ f[1] \in Topic /\ Coming(u, f)
    BY <1>3 DEF HealInv, MissedIsOwed
  <2>2. LineKept(f[1])
    BY <1>1, <2>1, SameLine
  <2> QED
    BY <1>1, <1>4, <2>1, <2>2, ComingStays DEF HealInv
<1>7. ASSUME NEW u \in Tab, NEW f \in behind'[u] PROVE Coming(u, f)' /\ f[1] \in got[u]
  <2>1. CASE f \in behind[u]
    BY <1>6, <2>1 DEF HealInv, Listening
  <2>2. CASE f \notin behind[u]
    <3>1. f = e /\ x \in got[u] /\ u \notin heard
      BY <1>1, <1>3, <2>2
    <3> QED
      BY <1>2, <1>5, <3>1
  <2> QED
    BY <2>1, <2>2
<1>8. ASSUME NEW u \in Tab, NEW y \in got[u] PROVE Covered(u, y)'
  <2>1. y \in Topic /\ Covered(u, y)
    BY <1>3 DEF HealInv, Listening
  <2> QED
    BY <1>1, <1>4, <2>1, CoveredStays DEF HealInv
<1>9. Listening'
  BY <1>1, <1>7, <1>8 DEF Listening, HealInv
<1> QED
  BY <1>7, <1>9 DEF HealInv, MissedIsOwed

\* The leader hears what a tab wants, or that it is gone.
LEMMA HearWant ==
  ASSUME HealInv, HubInv', NEW l \in Tab, NEW u \in Tab, NEW S \in SUBSET Topic, role[l] = "leader", inbox[l] # <<>>,
         Head(inbox[l]).k = "want" => Head(inbox[l]).tab = u /\ Head(inbox[l]).topics = S,
         inbox' = [inbox EXCEPT ![l] = Tail(inbox[l])], Reconcile([wants EXCEPT ![u] = S]),
         UNCHANGED <<role, mine, wave, healing, online, deferred>>
  PROVE  HealInv'
<1> DEFINE w == [wants EXCEPT ![u] = S]
<1>1. w \in [Tab -> SUBSET Topic] /\ w[u] = S
  BY Types DEF HealInv
<1>2. Reconcile(w) /\ Leader # {}
  BY DEF Leader
<1> HIDE DEF w
<1>3. \A v \in Tab : v # l => inbox'[v] = inbox[v]
  BY HeadGone DEF HealInv
<1>4. HealKept
  BY <1>3 DEF HealKept, MsgKept
<1>5. \A v \in Leader : v = l
  BY DEF HealInv, HubInv, OneLeader, Leader
<1>6. \A i \in DOMAIN inbox[l] : inbox[l][i] = Head(inbox[l]) \/ MsgKept(l, i)
  BY HeadGone DEF HealInv
<1>7. ASSUME NEW t \in Tab, NEW x \in Topic, Telling(t, x), link'[x] = "none", x \notin w[t]
      PROVE  Telling(t, x)'
  <2>1. wave'
    BY <1>7 DEF Telling
  <2>2. CASE role[t] = "follower" /\ \E i \in DOMAIN inbox[t] : inbox[t][i].k = "leader"
    <3>1. t # l
      BY <2>2
    <3> QED
      BY <1>3, <1>7, <2>1, <2>2, <3>1 DEF Telling
  <2>3. CASE \E v \in Leader : \E i \in DOMAIN inbox[v] :
               inbox[v][i].k = "want" /\ inbox[v][i].tab = t /\ x \in inbox[v][i].topics
    <3>1. \E i \in DOMAIN inbox[l] : inbox[l][i].k = "want" /\ inbox[l][i].tab = t /\ x \in inbox[l][i].topics
      BY <1>5, <2>3
    <3>2. PICK i \in DOMAIN inbox[l] : inbox[l][i].k = "want" /\ inbox[l][i].tab = t /\ x \in inbox[l][i].topics
      BY <3>1
    <3>3. inbox[l][i] # Head(inbox[l])
      BY <1>1, <1>7, <3>2
    <3>4. PICK j \in DOMAIN inbox'[l] : inbox'[l][j] = inbox[l][i]
      BY <1>6, <3>3 DEF MsgKept
    <3>5. l \in Leader'
      BY DEF Leader
    <3> QED
      BY <1>7, <2>1, <3>2, <3>4, <3>5 DEF Telling
  <2> QED
    BY <1>7, <2>2, <2>3 DEF Telling
<1> QED
  BY <1>1, <1>2, <1>4, <1>7, ReconcileHeal

\* A follower tells a new leader what it wants.
LEMMA HearLeader ==
  ASSUME HealInv, HubInv', NEW t \in Tab, role[t] = "follower", inbox[t] # <<>>,
         NEW rest, rest = [inbox EXCEPT ![t] = Tail(inbox[t])],
         inbox' = Posted(rest, t, <<Want(t, mine[t])>>), Head(inbox[t]).k = "leader",
         UNCHANGED <<role, mine, link, heal, wave, healing, online, deferred, got, behind>>
  PROVE  HealInv'
<1>1. /\ mine \in [Tab -> SUBSET Topic] /\ got \in [Tab -> SUBSET Topic] /\ behind \in [Tab -> SUBSET (Topic \X Nat)]
      /\ inbox \in [Tab -> Seq(Bus)]
  BY Types DEF HealInv
<1>2. PICK m \in Bus : m = Want(t, mine[t])
  BY <1>1 DEF Want, Bus
<1>3. m.k = "want" /\ m.tab = t /\ m.topics = mine[t]
  BY <1>2 DEF Want
<1>4. inbox[t] \in Seq(Bus) /\ inbox'[t] = Tail(inbox[t])
  BY <1>1 DEF Posted
<1>5. ASSUME NEW u \in Tab, u # t
      PROVE  /\ inbox[u] \in Seq(Bus)
             /\ inbox'[u] = inbox[u] \o <<m>> \/ inbox'[u] = inbox[u]
             /\ role[u] # "stopped" => inbox'[u] = inbox[u] \o <<m>>
  BY <1>1, <1>2, <1>5 DEF Posted
<1>6. ASSUME NEW u \in Tab, NEW i \in DOMAIN inbox[u]
      PROVE  MsgKept(u, i) \/ (u = t /\ inbox[u][i].k = "leader")
  <2>1. CASE u # t
    <3>1. inbox[u] \in Seq(Bus) /\ (inbox'[u] = inbox[u] \o <<m>> \/ inbox'[u] = inbox[u])
      BY <1>5, <2>1
    <3>2. CASE inbox'[u] = inbox[u]
      BY <3>2 DEF MsgKept
    <3>3. CASE inbox'[u] = inbox[u] \o <<m>>
      BY <3>1, <3>3, OneMoreIn
    <3> QED
      BY <3>1, <3>2, <3>3
  <2>2. CASE u = t
    <3>1. \A k \in DOMAIN inbox[t] : inbox[t][k] = Head(inbox[t]) \/ \E j \in DOMAIN Tail(inbox[t]) : Tail(inbox[t])[j] = inbox[t][k]
      BY <1>4, Rest
    <3> QED
      BY <1>4, <2>2, <3>1 DEF MsgKept
  <2> QED
    BY <2>1, <2>2
<1>7. HealKept
  BY <1>6 DEF HealKept
<1>8. Leader' = Leader
  BY DEF Leader
<1>9. got[t] \subseteq mine[t]
  BY DEF HealInv, Listening
<1>10. ASSUME NEW u \in Tab, NEW x \in got[u], Telling(u, x) PROVE Telling(u, x)' \/ Leader = {}
  <2>1. link'[x] = "none" /\ wave'
    BY <1>10 DEF Telling
  <2>2. CASE u = t /\ Leader # {}
    <3>1. PICK l \in Leader : TRUE
      BY <2>2
    <3>2. l \in Tab /\ l # t /\ role[l] = "leader" /\ l \in Leader'
      BY <1>8 DEF Leader
    <3>3. inbox[l] \in Seq(Bus) /\ inbox'[l] = inbox[l] \o <<m>>
      BY <1>5, <3>2
    <3>4. \E j \in DOMAIN inbox'[l] : inbox'[l][j] = m
      BY <3>2, <3>3, OneMoreIn
    <3>5. x \in mine[t]
      BY <1>9, <2>2
    <3>6. \E j \in DOMAIN inbox'[l] : inbox'[l][j].k = "want" /\ inbox'[l][j].tab = u /\ x \in inbox'[l][j].topics
      BY <1>3, <2>2, <3>4, <3>5
    <3> QED
      BY <2>1, <3>2, <3>6 DEF Telling
  <2>3. CASE u # t /\ role[u] = "follower" /\ \E i \in DOMAIN inbox[u] : inbox[u][i].k = "leader"
    <3>1. PICK i \in DOMAIN inbox[u] : inbox[u][i].k = "leader"
      BY <2>3
    <3>2. \E j \in DOMAIN inbox'[u] : inbox'[u][j] = inbox[u][i]
      BY <1>6, <2>3 DEF MsgKept
    <3> QED
      BY <2>1, <2>3, <3>1, <3>2 DEF Telling
  <2>4. CASE \E l \in Leader : \E i \in DOMAIN inbox[l] :
               inbox[l][i].k = "want" /\ inbox[l][i].tab = u /\ x \in inbox[l][i].topics
    <3>1. PICK l \in Leader : \E i \in DOMAIN inbox[l] :
               inbox[l][i].k = "want" /\ inbox[l][i].tab = u /\ x \in inbox[l][i].topics
      BY <2>4
    <3>2. PICK i \in DOMAIN inbox[l] : inbox[l][i].k = "want" /\ inbox[l][i].tab = u /\ x \in inbox[l][i].topics
      BY <3>1
    <3>3. l \in Tab /\ l # t /\ l \in Leader'
      BY <1>8 DEF Leader
    <3>4. PICK j \in DOMAIN inbox'[l] : inbox'[l][j] = inbox[l][i]
      BY <1>6, <3>2, <3>3 DEF MsgKept
    <3> QED
      BY <2>1, <3>2, <3>3, <3>4 DEF Telling
  <2> QED
    BY <1>10, <2>2, <2>3, <2>4 DEF Telling
<1>11. ASSUME NEW u \in Tab, NEW x \in got[u] PROVE Covered(u, x)'
  BY <1>8, <1>10, <1>11 DEF Covered, HealInv, Listening
<1>12. ASSUME NEW u \in Tab, NEW e \in behind[u] PROVE Coming(u, e)'
  <2>1. e[1] \in got[u] /\ Coming(u, e)
    BY DEF HealInv, Listening, MissedIsOwed
  <2>2. ByBus(u, e) => ByBus(u, e)'
    BY <1>7, ByBusKept
  <2> QED
    BY <1>8, <1>10, <2>1, <2>2 DEF Coming
<1>13. Listening'
  BY <1>11 DEF Listening, HealInv
<1> QED
  BY <1>12, <1>13 DEF HealInv, MissedIsOwed

\* What a follower hears takes what it hears from what it has missed.
LEMMA HearNews ==
  ASSUME HealInv, HubInv', NEW t \in Tab, role[t] = "follower", inbox[t] # <<>>,
         inbox' = [inbox EXCEPT ![t] = Tail(inbox[t])], Head(inbox[t]).k \in {"reconnected", "event"},
         \A u \in Tab : behind'[u] \subseteq behind[u],
         Head(inbox[t]).k = "reconnected" => behind'[t] = {},
         Head(inbox[t]).k = "event" => Head(inbox[t]).e \notin behind'[t],
         UNCHANGED <<role, mine, link, heal, wave, healing, online, deferred, got>>
  PROVE  HealInv'
<1>1. got \in [Tab -> SUBSET Topic] /\ behind \in [Tab -> SUBSET (Topic \X Nat)]
  BY Types DEF HealInv
<1>2. /\ \A u \in Tab : u # t => inbox'[u] = inbox[u]
      /\ \A u \in Tab : \A i \in DOMAIN inbox[u] : (u = t /\ inbox[u][i] = Head(inbox[t])) \/ MsgKept(u, i)
  BY HeadGone DEF HealInv
<1>3. WordKept
  BY <1>2 DEF WordKept
<1>4. ASSUME NEW u \in Tab, NEW x \in got[u] PROVE Covered(u, x)'
  <2>1. x \in Topic /\ Covered(u, x)
    BY <1>1 DEF HealInv, Listening
  <2> QED
    BY <1>3, <2>1, CoveredStays DEF HealInv
<1>5. ASSUME NEW u \in Tab, NEW e \in behind'[u] PROVE Coming(u, e)' /\ e[1] \in got[u]
  <2>1. e \in behind[u] /\ e[1] \in got[u] /\ e[1] \in Topic /\ Coming(u, e)
    BY <1>1 DEF HealInv, Listening, MissedIsOwed
  <2>2. ByBus(u, e) => ByBus(u, e)'
    <3>1. CASE u # t
      BY <1>2, <3>1 DEF ByBus
    <3>2. CASE u = t
      <4>1. ASSUME NEW i \in DOMAIN inbox[t],
                   inbox[t][i].k = "reconnected" \/ (inbox[t][i].k = "event" /\ inbox[t][i].e = e)
            PROVE  MsgKept(t, i)
        BY <1>2, <3>2, <4>1
      <4> QED
        BY <3>2, <4>1 DEF ByBus, MsgKept
    <3> QED
      BY <3>1, <3>2
  <2>3. Telling(u, e[1]) => Telling(u, e[1])'
    <3>1. Telling(u, e[1]) => link'[e[1]] = "none"
      BY DEF Telling
    <3> QED
      BY <1>3, <2>1, <3>1, TellingKept
  <2>4. Leader' = Leader
    BY DEF Leader
  <2> QED
    BY <2>1, <2>2, <2>3, <2>4 DEF Coming
<1>6. Listening'
  BY <1>4, <1>5 DEF Listening, HealInv
<1> QED
  BY <1>5, <1>6 DEF HealInv, MissedIsOwed

\* What is of no use here, or only makes the leader reset.
LEMMA HearOther ==
  ASSUME HealInv, HubInv', NEW t \in Tab, role[t] # "stopped", inbox[t] # <<>>,
         inbox' = [inbox EXCEPT ![t] = Tail(inbox[t])],
         role[t] = "follower" => Head(inbox[t]).k \in {"want", "bye", "poke"},
         role[t] = "leader" => Head(inbox[t]).k # "want",
         UNCHANGED <<role, mine, wave, healing, online, got, behind>>,
         \/ TearDown
         \/ deferred' = TRUE /\ link' = link /\ heal' = heal
         \/ UNCHANGED <<link, heal, deferred>>
  PROVE  HealInv'
<1>1. \A u \in Tab : \A i \in DOMAIN inbox[u] : (u = t /\ inbox[u][i] = Head(inbox[t])) \/ MsgKept(u, i)
  BY HeadGone DEF HealInv
<1>2. WordKept
  BY <1>1 DEF WordKept
<1>3. HealKept
  BY <1>1 DEF HealKept
<1>4. ASSUME NEW x \in Topic PROVE LineKept(x)
  <2>1. CASE TearDown
    BY <2>1, Torn
  <2>2. CASE deferred' = TRUE /\ link' = link /\ heal' = heal
    BY <2>2, SameLine
  <2>3. CASE UNCHANGED <<link, heal, deferred>>
    BY <2>3, SameLine
  <2> QED
    BY <2>1, <2>2, <2>3
<1> QED
  BY <1>2, <1>3, <1>4, QuietHeal

LEMMA OnBusHeal ==
  ASSUME HealInv, HubInv', NEW t \in Tab, OnBus(t)
  PROVE  HealInv'
<1> DEFINE m == Head(inbox[t])
           rest == [inbox EXCEPT ![t] = Tail(inbox[t])]
<1>1. /\ inbox[t] # <<>> /\ role[t] # "stopped"
      /\ UNCHANGED <<role, mine, online>>
  BY DEF OnBus, tabs_, Live
<1>2. m \in Bus /\ behind \in [Tab -> SUBSET (Topic \X Nat)]
  <2>1. inbox[t] \in Seq(Bus)
    BY Types DEF HealInv
  <2> QED
    BY <1>1, <2>1, Types DEF HealInv
<1>3. \/ /\ role[t] = "leader" /\ m.k \in {"want", "bye"} /\ inbox' = rest
         /\ Reconcile([wants EXCEPT ![m.tab] = IF m.k = "want" THEN m.topics ELSE {}])
         /\ UNCHANGED <<wave, healing, deferred>>
      \/ /\ role[t] = "leader" /\ m.k = "poke" /\ inbox' = rest
         /\ IF online THEN ForceReconnect ELSE UNCHANGED <<link, heal, leaving, resetting, awaited, cooling, deferred>>
         /\ UNCHANGED <<wave, healing, got, behind>>
      \/ /\ role[t] = "follower" /\ m.k = "leader"
         /\ inbox' = Posted(rest, t, <<Want(t, mine[t])>>)
         /\ UNCHANGED <<link, heal, wave, healing, deferred, got, behind>>
      \/ /\ role[t] = "follower" /\ m.k = "reconnected" /\ inbox' = rest
         /\ behind' = [behind EXCEPT ![t] = {}]
         /\ UNCHANGED <<link, heal, wave, healing, deferred, got>>
      \/ /\ m.k = "event" /\ inbox' = rest
         /\ behind' = IF role[t] = "leader" THEN behind ELSE [behind EXCEPT ![t] = behind[t] \ {m.e}]
         /\ UNCHANGED <<link, heal, wave, healing, deferred, got>>
      \/ /\ \/ role[t] = "leader" /\ m.k \in {"leader", "reconnected"}
            \/ role[t] = "follower" /\ m.k \in {"want", "bye", "poke"}
         /\ inbox' = rest
         /\ UNCHANGED <<link, heal, wave, healing, deferred, got, behind>>
  BY DEF OnBus, leader_, page_
<1> HIDE DEF m
<1>4. CASE /\ role[t] = "leader" /\ m.k \in {"want", "bye"} /\ inbox' = rest
           /\ Reconcile([wants EXCEPT ![m.tab] = IF m.k = "want" THEN m.topics ELSE {}])
           /\ UNCHANGED <<wave, healing, deferred>>
  <2>1. PICK S : S = IF m.k = "want" THEN m.topics ELSE {}
    OBVIOUS
  <2>2. PICK u : u = m.tab
    OBVIOUS
  <2>3. u \in Tab /\ S \in SUBSET Topic
    BY <1>2, <2>1, <2>2, BusFacts
  <2>4. Reconcile([wants EXCEPT ![u] = S]) /\ inbox' = [inbox EXCEPT ![t] = Tail(inbox[t])]
    BY <1>4, <2>1, <2>2
  <2>5. Head(inbox[t]).k = "want" => Head(inbox[t]).tab = u /\ Head(inbox[t]).topics = S
    BY <2>1, <2>2 DEF m
  <2> QED
    BY <1>1, <1>4, <2>3, <2>4, <2>5, HearWant
<1>5. CASE /\ role[t] = "leader" /\ m.k = "poke" /\ inbox' = rest
           /\ IF online THEN ForceReconnect ELSE UNCHANGED <<link, heal, leaving, resetting, awaited, cooling, deferred>>
           /\ UNCHANGED <<wave, healing, got, behind>>
  <2>1. \/ TearDown
        \/ deferred' = TRUE /\ link' = link /\ heal' = heal
        \/ UNCHANGED <<link, heal, deferred>>
    BY <1>5 DEF ForceReconnect
  <2> QED
    BY <1>1, <1>5, <2>1, HearOther DEF m
<1>6. CASE /\ role[t] = "follower" /\ m.k = "leader"
           /\ inbox' = Posted(rest, t, <<Want(t, mine[t])>>)
           /\ UNCHANGED <<link, heal, wave, healing, deferred, got, behind>>
  <2> HIDE DEF rest
  <2>1. PICK r : r = rest
    OBVIOUS
  <2>2. r = [inbox EXCEPT ![t] = Tail(inbox[t])] /\ inbox' = Posted(r, t, <<Want(t, mine[t])>>)
    BY <1>6, <2>1 DEF rest
  <2>3. Head(inbox[t]).k = "leader"
    BY <1>6 DEF m
  <2> QED
    BY <1>1, <1>6, <2>2, <2>3, HearLeader
<1>7. CASE /\ role[t] = "follower" /\ m.k = "reconnected" /\ inbox' = rest
           /\ behind' = [behind EXCEPT ![t] = {}]
           /\ UNCHANGED <<link, heal, wave, healing, deferred, got>>
  <2>1. behind'[t] = {} /\ \A u \in Tab : behind'[u] \subseteq behind[u]
    BY <1>2, <1>7
  <2> QED
    BY <1>1, <1>7, <2>1, HearNews DEF m
<1>8. CASE /\ m.k = "event" /\ inbox' = rest
           /\ behind' = IF role[t] = "leader" THEN behind ELSE [behind EXCEPT ![t] = behind[t] \ {m.e}]
           /\ UNCHANGED <<link, heal, wave, healing, deferred, got>>
  <2>1. CASE role[t] = "leader"
    BY <1>1, <1>8, <2>1, HearOther DEF m
  <2>2. CASE role[t] = "follower"
    <3>1. m.e \notin behind'[t] /\ \A u \in Tab : behind'[u] \subseteq behind[u]
      BY <1>2, <1>8, <2>2
    <3> QED
      BY <1>1, <1>8, <2>2, <3>1, HearNews DEF m
  <2> QED
    BY <1>1, <2>1, <2>2, Types DEF HealInv
<1>9. CASE /\ \/ role[t] = "leader" /\ m.k \in {"leader", "reconnected"}
              \/ role[t] = "follower" /\ m.k \in {"want", "bye", "poke"}
           /\ inbox' = rest
           /\ UNCHANGED <<link, heal, wave, healing, deferred, got, behind>>
  BY <1>1, <1>9, HearOther DEF m
<1> QED
  BY <1>3, <1>4, <1>5, <1>6, <1>7, <1>8, <1>9

LEMMA HealStep ==
  ASSUME HealInv, [Next]_vars
  PROVE  HealInv'
<1>1. HubInv'
  BY HubStep DEF HealInv
<1>2. CASE Next
  <2>1. CASE BecomeLeader \/ WaveEnds \/ ResetDone \/ CooledDown \/ DeferredReset
             \/ GoOffline \/ GoOnline \/ FireReconnected
    BY <1>1, <2>1, BecomeLeaderHeal, WaveEndsHeal, ResetDoneHeal, CooledDownHeal, DeferredResetHeal,
       GoOfflineHeal, GoOnlineHeal, FireReconnectedHeal
  <2>2. ASSUME NEW t \in Tab, Announce(t) \/ Stop(t) \/ Kill(t) \/ Expire(t) \/ Wake(t) \/ OnBus(t)
        PROVE  HealInv'
    BY <1>1, <2>2, AnnounceHeal, StopHeal, ExpireHeal, WakeHeal, OnBusHeal
  <2>3. ASSUME NEW t \in Tab, NEW S \in SUBSET Topic, Start(t, S) \/ SetTopics(t, S) PROVE HealInv'
    BY <1>1, <2>3, StartHeal, SetTopicsHeal
  <2>4. ASSUME NEW x \in Topic, Subscribed(x) \/ Broken(x) \/ Removed(x) \/ RetryTimer(x) \/ Rejoin(x) \/ Emit(x)
        PROVE  HealInv'
    BY <1>1, <2>4, SubscribedHeal, OneLineHeal, EmitHeal
  <2> QED
    BY <1>2, <2>1, <2>2, <2>3, <2>4 DEF Next
<1>3. CASE UNCHANGED vars
  <2>1. UNCHANGED <<tabs_, page_, inbox, wave, healing, link, heal, online, deferred>>
    BY <1>3 DEF vars, leader_
  <2>2. \A x \in Topic : LineKept(x)
    BY <2>1, SameLine
  <2> QED
    BY <1>1, <2>1, <2>2, SameBox, LinesQuiet
<1> QED
  BY <1>2, <1>3

-----------------------------------------------------------------------------
(* The lock's queue                                                          *)

\* The tabs that run and do not lead stand in it, each once.
QueueOK ==
  /\ \A i \in DOMAIN queue : role[queue[i]] = "follower"
  /\ \A i, j \in DOMAIN queue : queue[i] = queue[j] => i = j
  /\ \A t \in Tab : role[t] = "follower" => \E i \in DOMAIN queue : queue[i] = t

LEMMA BothParts ==
  ASSUME NEW a \in Seq(Tab), NEW b \in Seq(Tab), NEW r, r = a \o b
  PROVE  /\ DOMAIN r = 1 .. Len(a) + Len(b) /\ \A i \in 1 .. Len(a) : r[i] = a[i]
         /\ \A i \in 1 .. Len(b) : r[Len(a) + i] = b[i]
OBVIOUS

LEMMA FirstPart ==
  ASSUME NEW q \in Seq(Tab), NEW n \in 1 .. Len(q), NEW a, a = SubSeq(q, 1, n - 1)
  PROVE  a \in Seq(Tab) /\ Len(a) = n - 1 /\ \A i \in 1 .. n - 1 : a[i] = q[i]
OBVIOUS

LEMMA LastPart ==
  ASSUME NEW q \in Seq(Tab), NEW n \in 1 .. Len(q), NEW b, b = SubSeq(q, n + 1, Len(q))
  PROVE  b \in Seq(Tab) /\ Len(b) = Len(q) - n /\ \A i \in 1 .. Len(q) - n : b[i] = q[n + i]
<1>1. Len(q) \in Nat /\ b \in Seq(Tab) /\ Len(b) = Len(q) - n
  OBVIOUS
<1>2. ASSUME NEW i \in 1 .. Len(q) - n PROVE b[i] = q[n + i]
  <2>1. b[i] = q[(n + 1) + i - 1] /\ (n + 1) + i - 1 = n + i
    BY <1>1
  <2> QED
    BY <2>1
<1> QED
  BY <1>1, <1>2

\* Who leaves a queue in which everybody stands once leaves the others in it.
LEMMA WithoutKeeps ==
  ASSUME NEW q \in Seq(Tab), NEW t, \A i, j \in DOMAIN q : q[i] = q[j] => i = j, NEW r, r = Without(q, t)
  PROVE  /\ \A i \in DOMAIN r : r[i] # t /\ \E j \in DOMAIN q : q[j] = r[i]
         /\ \A i, j \in DOMAIN r : r[i] = r[j] => i = j
         /\ \A j \in DOMAIN q : q[j] # t => \E i \in DOMAIN r : r[i] = q[j]
<1>1. CASE ~ \E i \in DOMAIN q : q[i] = t
  BY <1>1 DEF Without
<1>2. CASE \E i \in DOMAIN q : q[i] = t
  <2>1. PICK n \in DOMAIN q : q[n] = t /\ r = RemoveAt(q, n)
    BY <1>2 DEF Without
  <2>2. Len(q) \in Nat /\ DOMAIN q = 1 .. Len(q) /\ n \in Nat /\ n >= 1 /\ n <= Len(q)
    OBVIOUS
  <2>3. /\ DOMAIN r = 1 .. Len(q) - 1
        /\ \A i \in 1 .. Len(q) - 1 : r[i] = IF i < n THEN q[i] ELSE q[i + 1]
    <3> DEFINE a == SubSeq(q, 1, n - 1)
               b == SubSeq(q, n + 1, Len(q))
    <3>1. r = a \o b
      BY <2>1 DEF RemoveAt
    <3>2. n \in 1 .. Len(q)
      BY <2>2
    <3> HIDE DEF a, b
    <3>3. a \in Seq(Tab) /\ Len(a) = n - 1 /\ \A i \in 1 .. n - 1 : a[i] = q[i]
      BY <3>2, FirstPart DEF a
    <3>4. b \in Seq(Tab) /\ Len(b) = Len(q) - n /\ \A i \in 1 .. Len(q) - n : b[i] = q[n + i]
      BY <3>2, LastPart DEF b
    <3>5. /\ DOMAIN r = 1 .. Len(a) + Len(b) /\ \A i \in 1 .. Len(a) : r[i] = a[i]
          /\ \A i \in 1 .. Len(b) : r[Len(a) + i] = b[i]
      <4>1. a \in Seq(Tab) /\ b \in Seq(Tab)
        BY <3>3, <3>4
      <4> QED
        BY <3>1, <4>1, BothParts
    <3>6. Len(q) \in Nat /\ n \in Nat /\ n >= 1 /\ n <= Len(q)
      BY <2>2
    <3>7. DOMAIN r = 1 .. Len(q) - 1
      BY <3>3, <3>4, <3>5, <3>6
    <3>8. ASSUME NEW i \in 1 .. Len(q) - 1, i < n PROVE r[i] = q[i]
      <4>1. i \in 1 .. n - 1
        BY <3>6, <3>8
      <4> QED
        BY <3>3, <3>5, <4>1
    <3>9. ASSUME NEW i \in 1 .. Len(q) - 1, i >= n PROVE r[i] = q[i + 1]
      <4>1. i - (n - 1) \in 1 .. Len(q) - n /\ n + (i - (n - 1)) = i + 1 /\ (n - 1) + (i - (n - 1)) = i
        BY <3>6, <3>9
      <4>2. r[(n - 1) + (i - (n - 1))] = b[i - (n - 1)]
        BY <3>3, <3>4, <3>5, <4>1
      <4> QED
        BY <3>4, <4>1, <4>2
    <3> QED
      BY <3>6, <3>7, <3>8, <3>9
  <2>4. ASSUME NEW i \in DOMAIN r
        PROVE  \E j \in DOMAIN q : q[j] = r[i] /\ j # n /\ j = IF i < n THEN i ELSE i + 1
    BY <2>2, <2>3
  <2>5. ASSUME NEW j \in DOMAIN q, q[j] # t PROVE \E i \in DOMAIN r : r[i] = q[j]
    <3>1. CASE j < n
      BY <2>2, <2>3, <3>1
    <3>2. CASE j > n
      <4>1. j - 1 \in DOMAIN r /\ ~ (j - 1 < n) /\ (j - 1) + 1 = j
        BY <2>2, <2>3, <3>2
      <4> QED
        BY <2>3, <4>1
    <3>3. j # n
      BY <2>1, <2>5
    <3> QED
      BY <2>2, <3>1, <3>2, <3>3
  <2>6. ASSUME NEW i \in DOMAIN r, NEW j \in DOMAIN r, r[i] = r[j] PROVE i = j
    <3>1. PICK k \in DOMAIN q : q[k] = r[i] /\ k = IF i < n THEN i ELSE i + 1
      BY <2>4
    <3>2. PICK l \in DOMAIN q : q[l] = r[j] /\ l = IF j < n THEN j ELSE j + 1
      BY <2>4
    <3>3. k = l
      BY <2>6, <3>1, <3>2
    <3> QED
      BY <2>2, <2>3, <3>1, <3>2, <3>3
  <2> QED
    BY <2>1, <2>4, <2>5, <2>6
<1> QED
  BY <1>1, <1>2

LEMMA QueueStep ==
  ASSUME HubInv, QueueOK, [Next]_vars
  PROVE  QueueOK'
<1>1. role \in [Tab -> {"stopped", "follower", "leader"}] /\ queue \in Seq(Tab)
  BY Types
<1>2. Len(queue) \in Nat /\ DOMAIN queue = 1 .. Len(queue)
  BY <1>1
<1>3. CASE UNCHANGED <<role, queue>>
  BY <1>3 DEF QueueOK
<1>4. ASSUME NEW t \in Tab, NEW S, Start(t, S) PROVE QueueOK'
  <2>1. role[t] = "stopped" /\ role' = [role EXCEPT ![t] = "follower"] /\ queue' = Append(queue, t)
    BY <1>4 DEF Start
  <2>2. /\ DOMAIN queue' = 1 .. Len(queue) + 1 /\ queue'[Len(queue) + 1] = t
        /\ \A i \in DOMAIN queue : queue'[i] = queue[i]
    BY <1>1, <1>2, <2>1
  <2>3. \A i \in DOMAIN queue : queue[i] # t /\ queue[i] \in Tab
    BY <1>1, <2>1 DEF QueueOK
  <2>4. \A i \in DOMAIN queue' : i \in DOMAIN queue \/ i = Len(queue) + 1
    BY <1>2, <2>2
  <2>5. DOMAIN queue \subseteq DOMAIN queue' /\ Len(queue) + 1 \in DOMAIN queue'
    BY <1>2, <2>2
  <2>6. \A u \in Tab : role'[u] = IF u = t THEN "follower" ELSE role[u]
    BY <1>1, <2>1
  <2>7. \A i \in DOMAIN queue' : role'[queue'[i]] = "follower"
    BY <2>2, <2>3, <2>4, <2>6 DEF QueueOK
  <2>8. \A i, j \in DOMAIN queue' : queue'[i] = queue'[j] => i = j
    BY <2>2, <2>3, <2>4 DEF QueueOK
  <2>9. \A u \in Tab : role'[u] = "follower" => \E i \in DOMAIN queue' : queue'[i] = u
    BY <2>2, <2>5, <2>6 DEF QueueOK
  <2> QED
    BY <2>7, <2>8, <2>9 DEF QueueOK
<1>5. ASSUME BecomeLeader PROVE QueueOK'
  <2> DEFINE t == Head(queue)
  <2>1. queue # <<>> /\ role' = [role EXCEPT ![t] = "leader"] /\ queue' = Tail(queue)
    BY <1>5 DEF BecomeLeader
  <2>2. /\ Len(queue) >= 1 /\ t = queue[1] /\ t \in Tab
        /\ DOMAIN queue' = 1 .. Len(queue) - 1 /\ \A i \in 1 .. Len(queue) - 1 : queue'[i] = queue[i + 1]
    BY <1>1, <1>2, <2>1
  <2> HIDE DEF t
  <2>3. \A i \in DOMAIN queue' : i + 1 \in DOMAIN queue /\ queue'[i] = queue[i + 1] /\ i + 1 # 1
    BY <1>2, <2>2
  <2>4. \A i \in DOMAIN queue : queue[i] = t \/ \E j \in DOMAIN queue' : queue'[j] = queue[i]
    <3> SUFFICES ASSUME NEW i \in DOMAIN queue, i # 1 PROVE \E j \in DOMAIN queue' : queue'[j] = queue[i]
      BY <2>2
    <3>1. i - 1 \in DOMAIN queue' /\ (i - 1) + 1 = i
      BY <1>2, <2>2
    <3> QED
      BY <2>2, <3>1
  <2>5. \A u \in Tab : role'[u] = IF u = t THEN "leader" ELSE role[u]
    BY <1>1, <2>1, <2>2
  <2>6. ASSUME NEW i \in DOMAIN queue' PROVE role'[queue'[i]] = "follower"
    <3>1. queue'[i] = queue[i + 1] /\ i + 1 \in DOMAIN queue /\ i + 1 # 1 /\ 1 \in DOMAIN queue
      BY <1>2, <2>2, <2>3
    <3>2. queue[i + 1] # t /\ queue[i + 1] \in Tab /\ role[queue[i + 1]] = "follower"
      BY <1>1, <2>2, <3>1 DEF QueueOK
    <3> QED
      BY <2>5, <3>1, <3>2
  <2>7. ASSUME NEW i \in DOMAIN queue', NEW j \in DOMAIN queue', queue'[i] = queue'[j] PROVE i = j
    <3>1. i + 1 = j + 1
      BY <2>3, <2>7 DEF QueueOK
    <3> QED
      BY <1>2, <2>2, <3>1
  <2>8. \A u \in Tab : role'[u] = "follower" => \E i \in DOMAIN queue' : queue'[i] = u
    BY <2>4, <2>5 DEF QueueOK
  <2> QED
    BY <2>6, <2>7, <2>8 DEF QueueOK
<1>6. ASSUME NEW t \in Tab, Gone(t) PROVE QueueOK'
  <2>1. role' = [role EXCEPT ![t] = "stopped"] /\ queue' = Without(queue, t)
    BY <1>6 DEF Gone
  <2>2. \A i, j \in DOMAIN queue : queue[i] = queue[j] => i = j
    BY DEF QueueOK
  <2>3. PICK r : r = Without(queue, t)
    OBVIOUS
  <2>4. /\ \A i \in DOMAIN r : r[i] # t /\ \E j \in DOMAIN queue : queue[j] = r[i]
        /\ \A i, j \in DOMAIN r : r[i] = r[j] => i = j
        /\ \A j \in DOMAIN queue : queue[j] # t => \E i \in DOMAIN r : r[i] = queue[j]
    BY <1>1, <2>2, <2>3, WithoutKeeps
  <2>5. queue' = r /\ \A u \in Tab : role'[u] = IF u = t THEN "stopped" ELSE role[u]
    BY <1>1, <2>1, <2>3
  <2>6. \A i \in DOMAIN queue : queue[i] \in Tab
    BY <1>1
  <2>7. \A i \in DOMAIN r : role'[r[i]] = "follower"
    BY <2>4, <2>5, <2>6 DEF QueueOK
  <2>8. \A u \in Tab : role'[u] = "follower" => \E i \in DOMAIN r : r[i] = u
    BY <2>4, <2>5 DEF QueueOK
  <2> QED
    BY <2>4, <2>5, <2>7, <2>8 DEF QueueOK
<1>7. CASE Next
  <2>1. CASE BecomeLeader
    BY <1>5, <2>1
  <2>2. CASE WaveEnds \/ ResetDone \/ CooledDown \/ DeferredReset \/ GoOffline \/ GoOnline \/ FireReconnected
    <3>1. UNCHANGED <<role, queue>>
      BY <2>2 DEF WaveEnds, ResetDone, CooledDown, DeferredReset, GoOffline, GoOnline, FireReconnected, tabs_
    <3> QED
      BY <1>3, <3>1
  <2>3. ASSUME NEW t \in Tab, Announce(t) \/ Expire(t) \/ Wake(t) \/ OnBus(t) PROVE QueueOK'
    <3>1. UNCHANGED <<role, queue>>
      BY <2>3 DEF Announce, Expire, Wake, OnBus, tabs_
    <3> QED
      BY <1>3, <3>1
  <2>4. ASSUME NEW t \in Tab, Stop(t) \/ Kill(t) PROVE QueueOK'
    BY <1>6, <2>4 DEF Stop, Kill
  <2>5. ASSUME NEW t \in Tab, NEW S, SetTopics(t, S) PROVE QueueOK'
    BY <1>3, <2>5 DEF SetTopics
  <2>6. ASSUME NEW x \in Topic, Subscribed(x) \/ Broken(x) \/ Removed(x) \/ RetryTimer(x) \/ Rejoin(x) \/ Emit(x)
        PROVE  QueueOK'
    <3>1. UNCHANGED <<role, queue>>
      BY <2>6 DEF Subscribed, Broken, Removed, RetryTimer, Rejoin, Emit, tabs_
    <3> QED
      BY <1>3, <3>1
  <2> QED
    BY <1>4, <1>7, <2>1, <2>2, <2>3, <2>4, <2>5, <2>6 DEF Next
<1>8. CASE UNCHANGED vars
  <2>1. UNCHANGED <<role, queue>>
    BY <1>8 DEF vars, tabs_
  <2> QED
    BY <1>3, <2>1
<1> QED
  BY <1>7, <1>8

-----------------------------------------------------------------------------
(* The theorems                                                              *)

\* The types, one leader, channels only with a leader, and no topic forgotten, together.
THEOREM HubInvariance == Spec => []HubInv
<1>1. Init => HubInv
  BY HubStart
<1>2. HubInv /\ [Next]_vars => HubInv'
  BY HubStep
<1> QED
  BY <1>1, <1>2, PTL DEF Spec

\* A topic the leader has for someone is joined, or something is under way that will join it:
\* a removal, a reset, the network, a request put off.
THEOREM NoTopicEverForgotten == Spec => []NoTopicForgotten
<1>1. HubInv => NoTopicForgotten
  BY DEF HubInv
<1> QED
  BY <1>1, HubInvariance, PTL

\* Two tabs never hold channels at once, and what no tab leads has none: the leader's state
\* begins empty with every leader (becomeLeader, teardownChannels).
THEOREM AtMostOneLeader == Spec => [](OneLeader /\ LeaderHasChannels)
<1>1. HubInv => OneLeader /\ LeaderHasChannels
  BY DEF HubInv
<1> QED
  BY <1>1, HubInvariance, PTL

\* An event that a listening tab has not got (the socket was down, the leader went, a message
\* was still on the bus) is always owed: it is on its way to the tab, or a reconnect that the
\* tab will hear of is, or there is no leader, and the next one will owe it (onReconnected).
THEOREM MissedAlwaysOwed == Spec => []MissedIsOwed
<1>1. Init => HealInv
  <2> SUFFICES ASSUME Init PROVE HealInv
    OBVIOUS
  <2>1. /\ heal = [x \in Topic |-> FALSE] /\ mine = [t \in Tab |-> {}]
        /\ got = [t \in Tab |-> {}] /\ behind = [t \in Tab |-> {}]
    BY DEF Init
  <2>2. Listening
    BY <2>1 DEF Listening
  <2> QED
    BY <2>1, <2>2, HubStart DEF HealInv, MissedIsOwed
<1>2. HealInv /\ [Next]_vars => HealInv'
  BY HealStep
<1>3. HealInv => MissedIsOwed
  BY DEF HealInv
<1> QED
  BY <1>1, <1>2, <1>3, PTL DEF Spec

\* Every tab that runs leads or waits for the lock, in one place of its queue: without a leader
\* the first of them becomes the leader (start, stop and the Web Lock).
THEOREM EveryFollowerWaits == Spec => [](QueueOK /\ (Leader = {} /\ Live # {} => queue # <<>>))
<1>1. Init => QueueOK
  BY DEF Init, QueueOK
<1>2. HubInv /\ QueueOK /\ [Next]_vars => QueueOK'
  BY QueueStep
<1>3. HubInv /\ QueueOK => (Leader = {} /\ Live # {} => queue # <<>>)
  <2> SUFFICES ASSUME HubInv, QueueOK, Leader = {}, NEW t \in Live PROVE queue # <<>>
    OBVIOUS
  <2>1. t \in Tab /\ role[t] = "follower"
    BY Types DEF Leader, Live
  <2> QED
    BY <2>1 DEF QueueOK
<1> QED
  BY <1>1, <1>2, <1>3, HubInvariance, PTL DEF Spec
=============================================================================
