------------------------------- MODULE Links -------------------------------
(* The media path of two sessions of a call without an SFU: the mesh of each (mesh.ts),
   which holds a link to the other while the roster lists it, and the link (link.ts),
   which negotiates over a broadcast that keeps nothing and may lose things.

   A link's operations run one after the other on its promise chain, so each is one
   step, and one that waits in the chain is a signal that has not arrived. The browser's
   peer connection is external: it tells when a negotiation is needed, refuses a
   description whose media sections do not fit, and connects two ends that agree.

   Left out: candidates (they are sent again with a repeated offer), tracks that are
   swapped without a negotiation, more than two sessions, bounds of held signals. *)
EXTENDS Naturals, Sequences, FiniteSets, SequencesExt

CONSTANTS Stories,     \* what people do and what goes wrong in a behaviour, and how often
          MaxDropped,     \* bound: of that, signals that are lost
          MaxRetries, MaxRestarts    \* MAX_OFFER_RETRIES, MAX_RESTARTS (5 and 3 in the code)

VARIABLES story,
          link,     \* [Side -> PeerLink, or NoLink]
          face,     \* [Side -> the shared screen: "none" yet, "on", "off"]
          listed, dropping, held,    \* the mesh: roster, grace timers, signals held
          wire,     \* [Side -> signals on their way there]
          joined, gone,   \* whom the server lists; whose mesh is closed
          trouble, dropped

net_ == <<wire, dropped>>
mesh_ == <<listed, dropping, held>>
world_ == <<story, face, joined, gone, trouble>>
linkVars == <<link, mesh_, net_, world_>>

Side == {"impolite", "polite"}
Other(s) == CHOOSE o \in Side : o # s

NoLink == [g |-> 0, fire |-> FALSE, chain |-> <<>>]
Nothing == [by |-> "nobody"]

\* A new link, and the signals that were held for it. attach() leaves something to
\* negotiate; the polite side waits a moment for the offer of the other one.
NewLink(s, g, chain) ==
  [g |-> g, chain |-> chain, offer |-> Nothing, retries |-> 0, waits |-> IF s = "polite" THEN "waiting" ELSE "off",
   fire |-> TRUE, agreed |-> <<>>, cred |-> 0, used |-> 0,
   ice |-> "off", grace |-> FALSE, restarts |-> 0, st |-> "connecting"]

LinksInit ==
  /\ story \in Stories
  /\ link = [s \in Side |-> NoLink] /\ face = [s \in Side |-> "none"]
  /\ listed = [s \in Side |-> FALSE] /\ dropping = [s \in Side |-> FALSE]
  /\ held = [s \in Side |-> <<>>] /\ wire = [s \in Side |-> <<>>]
  /\ joined = [s \in Side |-> TRUE] /\ gone = [s \in Side |-> FALSE]
  /\ trouble = 0 /\ dropped = 0

May(what) == what \in story.may
Trouble(what) == May(what) /\ trouble < story.times /\ trouble' = trouble + 1

Signal(kind) == [kind |-> kind]
Sends(s, msgs) == wire' = [wire EXCEPT ![Other(s)] = @ \o msgs] /\ UNCHANGED dropped

------------------------------------------------------------------------------
(* The peer connection. `agreed` is the last offer and answer it has finished with. *)
Part(x, a) == IF a[1].by = x THEN a[1] ELSE a[2]
Sections(a) == IF a = <<>> THEN {} ELSE a[1].sections
Wants(s, e) == e.agreed = <<>> \/ Part(s, e.agreed).face # face[s] \/ e.cred # e.used

\* Stable again: the connection looks whether there is more to negotiate.
Stable(s, e) == [e EXCEPT !.fire = Wants(s, e)]
Checks(e) == IF e.ice = "dead" THEN "off" ELSE e.ice

Offer(s, e) ==
  [kind |-> "offer", by |-> s, g |-> e.g, cred |-> e.cred, face |-> face[s],
   sections |-> Sections(e.agreed) \cup (IF face[s] = "none" THEN {} ELSE {s})]

(* negotiate: from the browser's event, or after the wait for a first offer. *)
Offering(e) == e.offer # Nothing
Negotiates(s, e) ==
  IF Offering(e) THEN link' = [link EXCEPT ![s] = e] /\ UNCHANGED net_
  ELSE /\ link' = [link EXCEPT ![s] = [e EXCEPT !.offer = Offer(s, e), !.retries = 0]]
       /\ Sends(s, <<Offer(s, e)>>)
Negotiate(s) ==
  /\ link[s].fire /\ link[s].chain = <<>>
  /\ LET e == [link[s] EXCEPT !.fire = FALSE] IN
     IF e.waits = "off" THEN Negotiates(s, e)
     ELSE link' = [link EXCEPT ![s] = [e EXCEPT !.waits = "deferred"]] /\ UNCHANGED net_
  /\ UNCHANGED <<mesh_, world_>>

\* What takes seconds: signals on their way, events of the browser and what the server says
\* of the roster come before it, unless the network is slow.
Stale(s) == ~gone[s] /\ joined[s]
            /\ (listed[s] # joined[Other(s)] \/ (joined[Other(s)] /\ link[s] = NoLink))
Busy(s) == link[s].fire \/ link[s].chain # <<>>
Slowly ==
  May("late") \/ \A s \in Side : wire[s] = <<>> /\ ~Stale(s) /\ ~Busy(s)

(* waitingFirstOffer is over. *)
WaitOver(s) ==
  /\ link[s] # NoLink /\ link[s].waits # "off" /\ Slowly
  /\ LET e == [link[s] EXCEPT !.waits = "off"] IN
     IF link[s].waits = "deferred" THEN Negotiates(s, e)
     ELSE link' = [link EXCEPT ![s] = e] /\ UNCHANGED net_
  /\ UNCHANGED <<mesh_, world_>>

(* armOfferRetry: nothing that is broadcast is kept for who comes later. *)
RetryOffer(s) ==
  /\ link[s] # NoLink /\ Offering(link[s]) /\ link[s].retries < MaxRetries /\ Slowly
  /\ link' = [link EXCEPT ![s].retries = @ + 1]
  /\ Sends(s, <<link[s].offer>>)
  /\ UNCHANGED <<mesh_, world_>>

(* handle: the link after a description, and what it sends. The connection refuses one
   that lacks sections of its own, or has others than the offer it answers. *)
Result(e, msgs) == [link |-> e, msgs |-> msgs]
TakeAnswer(s, e, m) ==
  IF ~Offering(e) \/ e.offer.sections # m.sections THEN Result(e, <<>>)
  ELSE Result(Stable(s, [e EXCEPT !.agreed = <<e.offer, m>>, !.offer = Nothing, !.waits = "off",
                                  !.used = e.offer.cred, !.ice = Checks(e)]), <<>>)

\* The other side's credentials are new: so are this side's.
Restarts(s, e, m) ==
  e.agreed # <<>> /\ LET o == Part(Other(s), e.agreed) IN <<o.g, o.cred>> # <<m.g, m.cred>>
AnswerOf(s, e, m) ==
  [kind |-> "answer", by |-> s, g |-> e.g, sections |-> m.sections,
   cred |-> IF ~Restarts(s, e, m) THEN e.used ELSE IF e.cred # e.used THEN e.cred ELSE (e.cred + 1) % 4,
   face |-> IF s \in m.sections THEN face[s] ELSE "none"]
Answered(s, e, m) ==
  LET a == AnswerOf(s, e, m)
      c == IF Restarts(s, e, m) THEN a.cred ELSE e.cred
  IN Result(Stable(s, [e EXCEPT !.agreed = <<m, a>>, !.offer = Nothing, !.waits = "off",
                                !.cred = c, !.used = a.cred, !.ice = Checks(e)]), <<a>>)
\* A slip: an offer that collides is ignored by either side.
NobodyYields(s, e, m) ==
  IF Offering(e) \/ ~(Sections(e.agreed) \subseteq m.sections) THEN Result(e, <<>>)
  ELSE Answered(s, e, m)
TakeOffer(s, e, m) ==
  LET back == [e EXCEPT !.offer = Nothing] IN
  IF Offering(e) /\ s = "impolite" THEN Result(e, <<>>)
  ELSE IF ~(Sections(e.agreed) \subseteq m.sections)
       THEN Result(IF Offering(e) THEN Stable(s, back) ELSE e, <<>>)
  ELSE Answered(s, back, m)
Take(s, e, m) == IF m.kind = "offer" THEN TakeOffer(s, e, m) ELSE TakeAnswer(s, e, m)

------------------------------------------------------------------------------
(* The mesh. *)

\* connect: a new link says hello and takes what was held for it, in order (ReleaseHeld).
Connect(s, g) ==
  /\ link' = [link EXCEPT ![s] = NewLink(s, g, held[s])]
  /\ Sends(s, <<Signal("hello")>>)
  /\ held' = [held EXCEPT ![s] = <<>>]
ReleaseHeld(s) ==
  /\ link[s].chain # <<>>
  /\ LET r == Take(s, [link[s] EXCEPT !.chain = Tail(@)], Head(link[s].chain)) IN
     link' = [link EXCEPT ![s] = r.link] /\ Sends(s, r.msgs)
  /\ UNCHANGED <<mesh_, world_>>

(* setRoster: only a session the server lists has a link, and loses it after a grace. *)
SetRoster(s) ==
  /\ Stale(s)
  /\ listed' = [listed EXCEPT ![s] = joined[Other(s)]]
  /\ dropping' = [dropping EXCEPT ![s] = link[s] # NoLink /\ ~joined[Other(s)]]
  /\ IF joined[Other(s)] /\ link[s] = NoLink THEN Connect(s, 1) ELSE UNCHANGED <<link, held, net_>>
  /\ UNCHANGED world_

DropGrace(s) ==
  /\ dropping[s] /\ Slowly
  /\ dropping' = [dropping EXCEPT ![s] = FALSE]
  /\ link' = [link EXCEPT ![s] = IF listed[s] THEN @ ELSE NoLink]
  /\ UNCHANGED <<listed, held, net_, world_>>

\* rebuild: from scratch, for who is listed. Two connections in a row are not one.
Rebuild(s) ==
  /\ IF listed[s] THEN Connect(s, 3 - link[s].g) /\ dropping' = [dropping EXCEPT ![s] = FALSE]
                  ELSE UNCHANGED <<link, held, dropping, wire, dropped>>
  /\ UNCHANGED listed

(* handle: the next signal arrives. Offers and answers that come before the roster does
   are held for the link; the refresh they ask for is SetRoster. *)
SignalArrives(s) ==
  /\ wire[s] # <<>> /\ link[s].chain = <<>>
  /\ LET m == Head(wire[s])
         rest == [wire EXCEPT ![s] = Tail(@)]
         Quiet == wire' = rest /\ UNCHANGED dropped
     IN
     CASE gone[s] -> Quiet /\ UNCHANGED <<link, mesh_>>
       [] ~gone[s] /\ m.kind = "bye" ->
            /\ Quiet /\ UNCHANGED listed
            /\ link' = [link EXCEPT ![s] = NoLink]
            /\ held' = [held EXCEPT ![s] = <<>>]
            /\ dropping' = [dropping EXCEPT ![s] = FALSE]
       [] ~gone[s] /\ m.kind = "hello" ->
            IF link[s] # NoLink /\ link[s].st = "failed" /\ listed[s]
            THEN /\ link' = [link EXCEPT ![s] = NewLink(s, 3 - link[s].g, held[s])]
                 /\ wire' = [rest EXCEPT ![Other(s)] = Append(@, Signal("hello"))]
                 /\ dropping' = [dropping EXCEPT ![s] = FALSE] /\ held' = [held EXCEPT ![s] = <<>>]
                 /\ UNCHANGED <<listed, dropped>>
            ELSE Quiet /\ UNCHANGED <<link, mesh_>>
       [] ~gone[s] /\ m.kind \in {"offer", "answer"} ->
            IF link[s] = NoLink
            THEN Quiet /\ held' = [held EXCEPT ![s] = Append(@, m)] /\ UNCHANGED <<link, listed, dropping>>
            ELSE LET r == Take(s, link[s], m) IN
                 /\ link' = [link EXCEPT ![s] = r.link]
                 /\ wire' = [rest EXCEPT ![Other(s)] = @ \o r.msgs]
                 /\ UNCHANGED <<mesh_, dropped>>
  /\ UNCHANGED world_

Lose(s) ==
  /\ dropped < MaxDropped /\ Trouble("lose")
  /\ \E i \in DOMAIN wire[s] : wire' = [wire EXCEPT ![s] = RemoveAt(@, i)]
  /\ dropped' = dropped + 1
  /\ UNCHANGED <<link, mesh_, story, face, joined, gone>>

------------------------------------------------------------------------------
(* What people and the server do: a screen is shared (shareScreen, stopScreen), a session
   that fell silent is not listed for a while (rejoin says hello), a person leaves. *)
\* A slip: a screen that is shared again only gets its track.
TrackOnly(s) ==
  /\ joined[s] /\ ~gone[s]
  /\ Trouble(IF face[s] = "none" THEN "share" ELSE "share again")
  /\ face' = [face EXCEPT ![s] = IF @ = "on" THEN "off" ELSE "on"]
  /\ link' = IF face[s] = "none" /\ link[s] # NoLink /\ ~Offering(link[s]) /\ link[s].waits # "deferred"
             THEN [link EXCEPT ![s].fire = TRUE] ELSE link
  /\ UNCHANGED <<mesh_, net_, story, joined, gone>>
Screen(s) ==
  /\ joined[s] /\ ~gone[s]
  /\ Trouble(IF face[s] = "none" THEN "share" ELSE "share again")
  /\ face' = [face EXCEPT ![s] = IF @ = "on" THEN "off" ELSE "on"]
  /\ link' = IF link[s] # NoLink /\ ~Offering(link[s]) /\ link[s].waits # "deferred"
             THEN [link EXCEPT ![s].fire = TRUE] ELSE link
  /\ UNCHANGED <<mesh_, net_, story, joined, gone>>

Silent(s) ==
  /\ joined[s] /\ ~gone[s] /\ Trouble("silent")
  /\ joined' = [joined EXCEPT ![s] = FALSE]
  /\ UNCHANGED <<link, mesh_, net_, story, face, gone>>
JoinAgain(s) ==
  /\ ~joined[s] /\ ~gone[s]
  /\ joined' = [joined EXCEPT ![s] = TRUE]
  /\ Sends(s, <<Signal("hello")>>)
  /\ UNCHANGED <<link, mesh_, story, face, gone, trouble>>

\* close(true), and then the server.
CloseMesh(s) ==
  /\ ~gone[s] /\ Trouble("leave")
  /\ gone' = [gone EXCEPT ![s] = TRUE]
  /\ Sends(s, <<Signal("bye")>>)
  /\ link' = [link EXCEPT ![s] = NoLink]
  /\ held' = [held EXCEPT ![s] = <<>>] /\ listed' = [listed EXCEPT ![s] = FALSE]
  /\ dropping' = [dropping EXCEPT ![s] = FALSE]
  /\ UNCHANGED <<story, face, joined>>
HasLeft(s) ==
  /\ gone[s] /\ joined[s]
  /\ joined' = [joined EXCEPT ![s] = FALSE]
  /\ UNCHANGED <<link, mesh_, net_, story, face, gone, trouble>>

------------------------------------------------------------------------------
(* The connection comes and goes (onPcState). It needs the same two ends, with the
   credentials they have for each other. *)
Path(e) == IF e = NoLink \/ e.agreed = <<>> THEN <<>>
           ELSE [x \in Side |-> <<Part(x, e.agreed).g, Part(x, e.agreed).cred>>]
Paired(s) == Path(link[s]) # <<>> /\ Path(link[s]) = Path(link[Other(s)])
Breaks(s) == IF Paired(s) THEN Trouble("drop") ELSE Slowly /\ UNCHANGED trouble
Link(s, e) == link' = [link EXCEPT ![s] = e]

\* restart: new credentials, and so something to negotiate; restartOrGiveUp.
Restart(e) == [e EXCEPT !.restarts = @ + 1, !.cred = (@ + 1) % 4, !.fire = @ \/ ~Offering(e)]
Restarted(s, e) == IF e.restarts >= MaxRestarts THEN [e EXCEPT !.st = "failed"]
                   ELSE [Restart(e) EXCEPT !.st = "reconnecting"]

PcConnected(s) ==
  /\ Paired(s) /\ link[s].ice \in {"off", "down"}
  /\ Link(s, [link[s] EXCEPT !.ice = "up", !.grace = FALSE, !.restarts = 0, !.st = "connected"])
  /\ UNCHANGED <<mesh_, net_, world_>>
PcDisconnected(s) ==
  /\ link[s] # NoLink /\ link[s].ice = "up" /\ Breaks(s)
  /\ Link(s, [link[s] EXCEPT !.ice = "down", !.grace = TRUE, !.st = "reconnecting"])
  /\ UNCHANGED <<mesh_, net_, story, face, joined, gone>>
GraceEnds(s) ==
  /\ link[s] # NoLink /\ link[s].grace /\ Slowly
  /\ LET e == [link[s] EXCEPT !.grace = FALSE] IN
     IF e.ice \in {"down", "dead"} THEN Breaks(s) /\ Link(s, Restarted(s, e))
                                   ELSE UNCHANGED trouble /\ Link(s, e)
  /\ UNCHANGED <<mesh_, net_, story, face, joined, gone>>
PcFailed(s) ==
  /\ link[s] # NoLink /\ link[s].agreed # <<>> /\ link[s].ice \in {"off", "down"} /\ Slowly /\ Breaks(s)
  /\ Link(s, Restarted(s, [link[s] EXCEPT !.ice = "dead", !.grace = FALSE]))
  /\ UNCHANGED <<mesh_, net_, story, face, joined, gone>>

(* onGiveUp, four seconds later, or "Try again". *)
AutoRebuild(s) ==
  /\ link[s] # NoLink /\ link[s].st = "failed" /\ listed[s] /\ Slowly
  /\ Rebuild(s)
  /\ UNCHANGED world_

------------------------------------------------------------------------------
\* What timers, the browser, the network and the roster do by themselves.
Proceeds(s) ==
  \/ Negotiate(s) \/ WaitOver(s) \/ RetryOffer(s) \/ SignalArrives(s)
  \/ SetRoster(s) \/ ReleaseHeld(s) \/ DropGrace(s) \/ JoinAgain(s) \/ HasLeft(s)
  \/ PcConnected(s) \/ GraceEnds(s) \/ AutoRebuild(s)
  \/ (~Paired(s) /\ (PcDisconnected(s) \/ PcFailed(s)))

LinksNext ==
  \E s \in Side :
    \/ Proceeds(s) \/ Lose(s) \/ Screen(s) \/ Silent(s) \/ CloseMesh(s)
    \/ PcDisconnected(s) \/ PcFailed(s)

LinksFairness == \A s \in Side : WF_linkVars(Proceeds(s))
LinksSpec == LinksInit /\ [][LinksNext]_linkVars /\ LinksFairness

------------------------------------------------------------------------------
(* Two links that have nothing to do and nothing on the way to them hold what both sides
   share now: neither glare nor repeats nor losses leave one with an older view (link.ts:4-7). *)
AtRest(s) == link[s] # NoLink /\ ~link[s].fire /\ ~Offering(link[s]) /\ link[s].agreed # <<>>
SameView ==
  (\A s \in Side : wire[s] = <<>> /\ AtRest(s)) =>
    \A s, x \in Side : Part(x, link[s].agreed).face = face[x]

\* Connected with each other; and let go of, if one has left.
Together ==
  IF \E s \in Side : gone[s] THEN \A s \in Side : link[s] = NoLink
  ELSE \A s \in Side : link[s] # NoLink /\ link[s].st = "connected"

(* Two sessions in a call come to be connected, whatever was lost, dropped or silent for a
   while; with who has left, nobody keeps a link (link.ts:12-14, mesh.ts:7-11).
   It is not so once a screen was shared and one side alone builds its connection anew: the
   other's refuses the offers that lack the screen's section, and when they have run out, the
   side that made them waits for ever and ignores every offer that comes ("share" with
   "drop" or "silent"). *)
LinksSettle == []<>Together
=============================================================================
