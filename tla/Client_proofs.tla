------------------------------ MODULE Client_proofs -------------------------
(* What two parts of a client promise, each by itself: the session of a tab (Session) and
   the read position of a device (ReadState). *)
EXTENDS Session, ReadState, SequenceTheorems, TLAPS

-----------------------------------------------------------------------------
(* What a tab keeps of its people, and what it does not, whatever the order in which auth
   events, starts, ends and sign-outs go on.

   The invariant has four parts, with the hypotheses they need.  Generations (Inv): a
   coroutine of the generation that counts belongs to the runtime there is.  One at a time
   (OneInv): there is no runtime while an end is under way, and the queue of auth events
   ends at the person whom auth-js stores, which is why a subscription registered for
   somebody else is on its way out.  Painting (PaintInv) and what is on the device
   (DiskInv) rest on these. *)

People == Person \cup {Nobody}
EventType == [ev : {"initial", "signed_in", "refreshed", "signed_out", "stored", "limit"}, who : People]
HandlerType == [at : {"idle", "begin", "switch", "end"}, who : People]
SessionType == [status : {"unknown", "signed_in", "signed_out"}, who : People]
StartType == [gen : Nat, who : Person, at : {"me", "org", "meta", "paint"},
              next : {"none", "begin", "retry"}, awaited : BOOLEAN]
EndingType == [mode : {"none", "voluntary", "involuntary"}, who : People, at : {"over", "push", "wipe", "reset"}]
SignoutType == [at : {"idle", "drain", "push", "auth", "ended"}, who : People]

SessionTypes ==
  /\ auth \in People /\ events \in Seq(EventType) /\ handler \in HandlerType
  /\ session \in SessionType /\ gen \in Nat /\ rt \in [who : People, gen : Nat]
  /\ starts \in SUBSET StartType
  /\ startDone \in BOOLEAN /\ retry \in BOOLEAN /\ hubOn \in BOOLEAN
  /\ painted \in People /\ ending \in EndingType /\ signout \in SignoutType
  /\ disk \in [Person -> SUBSET Everything]
  /\ sub \in BOOLEAN /\ owner \in People
  /\ ensures \in SUBSET [who : Person, at : {"subscribe", "register"}]

Running == rt # NoRt

\* Who counts: the runtime and the coroutines of its generation.
Generations ==
  /\ Running => rt.gen = gen /\ rt.who \in Person
  /\ \A c \in starts : /\ c.gen <= gen
                       /\ Current(c) => Running /\ c.who = rt.who
                       /\ Current(c) /\ c.at = "org" => startDone

Shapes ==
  /\ (session.status = "signed_in") <=> (session.who # Nobody)
  /\ ending.at = "over" => ending = NoEnd
  /\ handler.at = "switch" => handler.who # Nobody
  /\ \A i \in DOMAIN events : /\ events[i].ev = "initial" => session.status = "unknown" /\ i = 1
                              /\ events[i].ev \in {"signed_in", "refreshed"} => events[i].who # Nobody
                              /\ events[i].ev \in {"signed_out", "stored", "limit"} => events[i].who = Nobody
  /\ session.status = "unknown" => /\ ~Running /\ handler = Idle /\ ending = NoEnd /\ signout = Idle
                                   /\ ensures = {} /\ ~sub

Inv == SessionTypes /\ Generations /\ Shapes /\ StartGoesOn

-----------------------------------------------------------------------------
(* One at a time. *)

Alone ==
  /\ Running => ending = NoEnd /\ rt.who = session.who
  /\ ~Running /\ ending = NoEnd => session.who = Nobody
  /\ handler.at = "switch" => ~Running
  /\ outboxes \subseteq {rt} /\ (~Running => outboxes = {})

\* Whose session it is to be, once what is under way is over.
Target == IF handler.at = "switch" THEN handler.who
          ELSE IF ending # NoEnd THEN Nobody ELSE session.who

\* An event that decides whose session it is.
Decides(e) == e.who # Nobody \/ e.ev = "signed_out"

\* In the end it is the one of whom auth-js knows.
Follows ==
  \/ /\ \A i \in DOMAIN events : ~Decides(events[i])
     /\ session.status = "unknown" \/ Target = auth
  \/ \E i \in DOMAIN events : /\ Decides(events[i]) /\ events[i].who = auth
                              /\ \A k \in DOMAIN events : k > i => ~Decides(events[k])

\* An event changes whose session it is from p's.
Leaves(es, p, n) == \E i \in DOMAIN es : i > n /\ Decides(es[i]) /\ es[i].who # p

\* A subscription registered for o is o's, or somebody's session that is to end.
Passing(o) ==
  IF Target # Nobody THEN Target = o \/ Leaves(events, Target, 0)
  ELSE /\ \E i \in DOMAIN events : events[i].who = o
       /\ \A i \in DOMAIN events : events[i].who \notin {Nobody, o} =>
            \/ Leaves(events, events[i].who, i)
            \/ \E k \in DOMAIN events : k < i /\ events[k].who = o

Subscribed == sub /\ ending.at # "push" => \A o \in Person : owner = o => Passing(o)

OneInv == Alone /\ Follows /\ Subscribed

-----------------------------------------------------------------------------
(* Painting, and the device. *)

PaintInv ==
  /\ \A c \in starts : c.at = "paint" => Current(c)
  /\ hubOn => Running
  /\ painted \in {Nobody, session.who}

\* Whose data is here, and whose is to be taken away by a sign-out.
DiskInv ==
  /\ Running => disk[rt.who] = Everything
  /\ ending.mode = "involuntary" /\ ending.at \in {"push", "wipe"} /\ ending.who # Nobody =>
       "outbox" \in disk[ending.who]
  /\ IF signout.at = "idle" THEN signout = Idle ELSE signout.who # Nobody
  /\ signout.at \in {"push", "auth", "ended"} =>
       \/ disk[signout.who] = {}
       \/ Running /\ rt.who = signout.who
       \/ ending.mode = "voluntary" /\ ending.who = signout.who /\ ending.at \in {"push", "wipe"}

-----------------------------------------------------------------------------
(* The queue of events. *)

LEMMA QueueAppended ==
  ASSUME events \in Seq(EventType), NEW e \in EventType, events' = Append(events, e)
  PROVE  /\ events' \in Seq(EventType) /\ Len(events) \in Nat /\ Len(events') = Len(events) + 1
         /\ DOMAIN events = 1 .. Len(events) /\ DOMAIN events' = 1 .. Len(events) + 1
         /\ \A i \in DOMAIN events : i \in DOMAIN events' /\ events'[i] = events[i]
         /\ events'[Len(events) + 1] = e
         /\ \A i \in DOMAIN events' : i \in DOMAIN events \/ (i = Len(events) + 1 /\ events'[i] = e)
OBVIOUS

LEMMA QueueTaken ==
  ASSUME events \in Seq(EventType), events # <<>>, events' = Tail(events)
  PROVE  /\ events' \in Seq(EventType) /\ Len(events) \in Nat
         /\ Head(events) = events[1] /\ events[1] \in EventType
         /\ DOMAIN events = 1 .. Len(events) /\ 1 \in DOMAIN events
         /\ DOMAIN events' = 1 .. (Len(events) - 1)
         /\ \A i \in DOMAIN events' : i \in Nat /\ i + 1 \in DOMAIN events /\ i + 1 > 1 /\ events'[i] = events[i + 1]
         /\ \A i \in DOMAIN events : i \in Nat /\ i > 0 /\ (i # 1 => i - 1 \in DOMAIN events' /\ events'[i - 1] = events[i])
OBVIOUS

EventsShaped ==
  \A i \in DOMAIN events : /\ events[i].ev = "initial" => session.status = "unknown" /\ i = 1
                           /\ events[i].ev \in {"signed_in", "refreshed"} => events[i].who # Nobody
                           /\ events[i].ev \in {"signed_out", "stored", "limit"} => events[i].who = Nobody

LEMMA ShapedAppended ==
  ASSUME events \in Seq(EventType), NEW e \in EventType, events' = Append(events, e), EventsShaped,
         session.status' = session.status,
         e.ev \in {"signed_in", "refreshed"} => e.who # Nobody,
         e.ev \in {"signed_out", "stored", "limit"} => e.who = Nobody,
         e.ev # "initial"
  PROVE  EventsShaped'
BY QueueAppended DEF EventsShaped

LEMMA ShapedTaken ==
  ASSUME events \in Seq(EventType), events # <<>>, events' = Tail(events), EventsShaped
  PROVE  EventsShaped'
BY QueueTaken DEF EventsShaped

\* An event for whom auth-js has now.
LEMMA FollowsAppended ==
  ASSUME events \in Seq(EventType), NEW e \in EventType, events' = Append(events, e),
         Decides(e) /\ e.who = auth'
  PROVE  Follows'
<1>1. PICK n : n = Len(events) + 1
  OBVIOUS
<1>2. n \in DOMAIN events' /\ events'[n] = e /\ \A k \in DOMAIN events' : ~(k > n)
  BY <1>1, QueueAppended
<1> QED
  BY <1>2 DEF Follows, Decides

\* An event that decides nothing.
LEMMA FollowsBeside ==
  ASSUME events \in Seq(EventType), NEW e \in EventType, events' = Append(events, e),
         ~Decides(e), Follows, auth' = auth, Target' = Target, session.status' = session.status
  PROVE  Follows'
<1>1. CASE \A i \in DOMAIN events : ~Decides(events[i])
  <2>1. \A i \in DOMAIN events' : ~Decides(events'[i])
    BY <1>1, QueueAppended
  <2>2. session.status = "unknown" \/ Target = auth
    BY <1>1 DEF Follows
  <2> QED
    BY <2>1, <2>2 DEF Follows, Decides
<1>2. CASE \E i \in DOMAIN events : Decides(events[i])
  <2>1. PICK i \in DOMAIN events : /\ Decides(events[i]) /\ events[i].who = auth
                                   /\ \A k \in DOMAIN events : k > i => ~Decides(events[k])
    BY <1>2 DEF Follows
  <2>2. /\ i \in DOMAIN events' /\ events'[i] = events[i]
        /\ \A k \in DOMAIN events' : k > i => ~Decides(events'[k])
    BY <2>1, QueueAppended
  <2> QED
    BY <2>1, <2>2 DEF Follows, Decides
<1> QED
  BY <1>1, <1>2

\* The head is taken: it made whose session it is, or decided nothing.
LEMMA FollowsTaken ==
  ASSUME events \in Seq(EventType), events # <<>>, events' = Tail(events), Follows, auth' = auth,
         IF Decides(Head(events)) THEN Target' = Head(events).who
         ELSE Target' = auth \/ (Target' = Target /\ session.status' = session.status)
  PROVE  Follows'
<1>1. CASE \A i \in DOMAIN events' : ~Decides(events'[i])
  <2>1. CASE Decides(Head(events))
    <3>1. PICK i \in DOMAIN events : /\ Decides(events[i]) /\ events[i].who = auth
      BY <2>1, QueueTaken DEF Follows
    <3>2. i = 1
      BY <1>1, <3>1, QueueTaken
    <3>3. Target' = auth'
      BY <2>1, <3>1, <3>2, QueueTaken
    <3> QED
      BY <1>1, <3>3 DEF Follows, Decides
  <2>2. CASE ~Decides(Head(events))
    <3>1. \A i \in DOMAIN events : ~Decides(events[i])
      BY <1>1, <2>2, QueueTaken
    <3>2. session.status = "unknown" \/ Target = auth
      BY <3>1 DEF Follows
    <3> QED
      BY <1>1, <2>2, <3>2 DEF Follows, Decides
  <2> QED
    BY <2>1, <2>2
<1>2. CASE \E i \in DOMAIN events' : Decides(events'[i])
  <2>1. PICK j \in DOMAIN events' : Decides(events'[j])
    BY <1>2
  <2>2. j + 1 \in DOMAIN events /\ j + 1 > 1 /\ Decides(events[j + 1])
    BY <2>1, QueueTaken
  <2>3. PICK i \in DOMAIN events : /\ Decides(events[i]) /\ events[i].who = auth
                                   /\ \A k \in DOMAIN events : k > i => ~Decides(events[k])
    BY <2>2 DEF Follows
  <2>4. i # 1
    BY <2>2, <2>3
  <2>5. i - 1 \in DOMAIN events' /\ events'[i - 1] = events[i]
    BY <2>4, QueueTaken
  <2>6. ASSUME NEW k \in DOMAIN events', k > i - 1
        PROVE  ~Decides(events'[k])
    <3>1. k + 1 \in DOMAIN events /\ k + 1 > i /\ events'[k] = events[k + 1]
      BY <2>6, QueueTaken
    <3> QED
      BY <2>3, <3>1
  <2> QED
    BY <2>3, <2>5, <2>6 DEF Follows, Decides
<1> QED
  BY <1>1, <1>2

LEMMA LeavesAppended ==
  ASSUME events \in Seq(EventType), NEW e \in EventType, events' = Append(events, e),
         NEW p, NEW n, Leaves(events, p, n)
  PROVE  Leaves(events', p, n)
BY QueueAppended DEF Leaves, Decides

LEMMA PassingAppended ==
  ASSUME events \in Seq(EventType), NEW e \in EventType, events' = Append(events, e),
         Target' = Target, NEW o, Passing(o)
  PROVE  Passing(o)'
<1>1. CASE Target # Nobody
  BY <1>1, LeavesAppended DEF Passing
<1>2. CASE Target = Nobody
  <2>1. PICK i \in DOMAIN events : events[i].who = o
    BY <1>2 DEF Passing
  <2>2. i \in DOMAIN events' /\ events'[i].who = o
    BY <2>1, QueueAppended
  <2>3. ASSUME NEW k \in DOMAIN events', events'[k].who \notin {Nobody, o}
        PROVE  Leaves(events', events'[k].who, k) \/ \E l \in DOMAIN events' : l < k /\ events'[l].who = o
    <3>1. CASE k \in DOMAIN events
      <4>1. events'[k] = events[k]
        BY <3>1, QueueAppended
      <4>2. CASE Leaves(events, events[k].who, k)
        <5>1. PICK j \in DOMAIN events : j > k /\ Decides(events[j]) /\ events[j].who # events[k].who
          BY <4>2 DEF Leaves
        <5>2. j \in DOMAIN events' /\ events'[j] = events[j]
          BY QueueAppended
        <5> QED
          BY <4>1, <5>1, <5>2 DEF Leaves, Decides
      <4>3. CASE \E l \in DOMAIN events : l < k /\ events[l].who = o
        BY <4>3, QueueAppended
      <4> QED
        BY <1>2, <2>3, <3>1, <4>1, <4>2, <4>3 DEF Passing
    <3>2. CASE k \notin DOMAIN events
      <4>1. k = Len(events) + 1 /\ DOMAIN events = 1 .. Len(events) /\ Len(events) \in Nat
        BY <3>2, QueueAppended
      <4>2. i < k
        BY <4>1
      <4> QED
        BY <2>2, <4>2
    <3> QED
      BY <3>1, <3>2
  <2> QED
    BY <1>2, <2>2, <2>3 DEF Passing
<1> QED
  BY <1>1, <1>2

\* The head is taken: it decides nothing, or repeats whose session it is, or is the first
\* to say so.
LEMMA PassingTaken ==
  ASSUME events \in Seq(EventType), events # <<>>, events' = Tail(events),
         NEW o, o # Nobody, Passing(o),
         \/ Target' = Target /\ (Decides(Head(events)) => Head(events).who = Target)
         \/ Target = Nobody /\ Target' = Head(events).who
  PROVE  Passing(o)'
<1>1. CASE Target # Nobody
  <2>1. Target' = Target /\ (Decides(Head(events)) => Head(events).who = Target)
    BY <1>1
  <2>2. CASE Target = o
    BY <1>1, <2>1, <2>2 DEF Passing
  <2>3. CASE Leaves(events, Target, 0)
    <3>1. PICK i \in DOMAIN events : Decides(events[i]) /\ events[i].who # Target
      BY <2>3 DEF Leaves
    <3>2. i # 1
      BY <2>1, <3>1, QueueTaken
    <3>3. i - 1 \in DOMAIN events' /\ events'[i - 1] = events[i] /\ i - 1 > 0
      BY <3>2, QueueTaken
    <3> QED
      BY <1>1, <2>1, <3>1, <3>3 DEF Passing, Leaves, Decides
  <2> QED
    BY <1>1, <2>2, <2>3 DEF Passing
<1>2. CASE Target = Nobody /\ Head(events).who = Nobody
  <2>1. Target' = Nobody /\ events[1].who = Nobody
    BY <1>2, QueueTaken
  <2>2. PICK i \in DOMAIN events : events[i].who = o
    BY <1>2 DEF Passing
  <2>3. i - 1 \in DOMAIN events' /\ events'[i - 1].who = o
    BY <2>1, <2>2, QueueTaken
  <2>4. ASSUME NEW k \in DOMAIN events', events'[k].who \notin {Nobody, o}
        PROVE  Leaves(events', events'[k].who, k) \/ \E l \in DOMAIN events' : l < k /\ events'[l].who = o
    <3>1. PICK n \in DOMAIN events : n = k + 1 /\ events'[k] = events[n] /\ k \in Nat
      BY QueueTaken
    <3>2. CASE Leaves(events, events[n].who, n)
      <4>1. PICK j \in DOMAIN events : j > n /\ Decides(events[j]) /\ events[j].who # events[n].who
        BY <3>2 DEF Leaves
      <4>2. j \in Nat /\ j # 1
        BY <3>1, <4>1, QueueTaken
      <4>3. j - 1 \in DOMAIN events' /\ events'[j - 1] = events[j] /\ j - 1 > k
        BY <3>1, <4>1, <4>2, QueueTaken
      <4> QED
        BY <3>1, <4>1, <4>3 DEF Leaves, Decides
    <3>3. CASE \E l \in DOMAIN events : l < n /\ events[l].who = o
      <4>1. PICK l \in DOMAIN events : l < n /\ events[l].who = o
        BY <3>3
      <4>2. l # 1 /\ l \in Nat
        BY <2>1, <4>1, QueueTaken
      <4>3. l - 1 \in DOMAIN events' /\ events'[l - 1] = events[l] /\ l - 1 < k
        BY <3>1, <4>1, <4>2, QueueTaken
      <4> QED
        BY <4>1, <4>3
    <3> QED
      BY <1>2, <2>4, <3>1, <3>2, <3>3 DEF Passing
  <2> QED
    BY <2>1, <2>3, <2>4 DEF Passing
<1>3. CASE Target = Nobody /\ Head(events).who # Nobody
  <2>1. Target' = events[1].who /\ Target' # Nobody /\ 1 \in DOMAIN events
    BY <1>3, QueueTaken DEF Decides
  <2>2. CASE events[1].who = o
    BY <2>1, <2>2 DEF Passing
  <2>3. CASE events[1].who # o
    <3>1. ~ \E k \in DOMAIN events : k < 1 /\ events[k].who = o
      BY QueueTaken
    <3>2. Leaves(events, events[1].who, 1)
      BY <1>3, <2>1, <2>3, <3>1 DEF Passing
    <3>3. PICK j \in DOMAIN events : j > 1 /\ Decides(events[j]) /\ events[j].who # events[1].who
      BY <3>2 DEF Leaves
    <3>4. j - 1 \in DOMAIN events' /\ events'[j - 1] = events[j] /\ j - 1 > 0
      BY <3>3, QueueTaken
    <3> QED
      BY <2>1, <3>3, <3>4 DEF Passing, Leaves, Decides
  <2> QED
    BY <2>2, <2>3
<1> QED
  BY <1>1, <1>2, <1>3

\* Who is registered: whom auth-js has.
LEMMA RegisteredPasses ==
  ASSUME events \in Seq(EventType), Follows, session.status # "unknown", auth # Nobody
  PROVE  Passing(auth)
<1>1. CASE \A i \in DOMAIN events : ~Decides(events[i])
  BY <1>1 DEF Follows, Passing
<1>2. CASE \E i \in DOMAIN events : Decides(events[i])
  <2>1. PICK i \in DOMAIN events : /\ Decides(events[i]) /\ events[i].who = auth
                                   /\ \A k \in DOMAIN events : k > i => ~Decides(events[k])
    BY <1>2 DEF Follows
  <2>2. i > 0 /\ i \in Nat
    OBVIOUS
  <2>3. CASE Target # Nobody
    BY <2>1, <2>2, <2>3 DEF Passing, Leaves
  <2>4. CASE Target = Nobody
    <3>1. ASSUME NEW k \in DOMAIN events, events[k].who \notin {Nobody, auth}
          PROVE  Leaves(events, events[k].who, k)
      <4>1. ~(k > i) /\ k # i /\ k \in Nat
        BY <2>1, <3>1 DEF Decides
      <4> QED
        BY <2>1, <2>2, <3>1, <4>1 DEF Leaves
    <3> QED
      BY <2>1, <2>4, <3>1 DEF Passing
  <2> QED
    BY <2>3, <2>4
<1> QED
  BY <1>1, <1>2

-----------------------------------------------------------------------------
(* The branches of onAuth. *)

Turn == handler = Idle /\ events # <<>> /\ events' = Tail(events)

LEMMA Branches ==
  ASSUME OnAuth, events \in Seq(EventType)
  PROVE  /\ Turn
         /\ \E e \in EventType :
              /\ e = Head(events)
              /\ Resumes(e) \/ Switches(e) \/ Begins(e) \/ Ends(e) \/ PaintsStored(e) \/ ShowsSignIn(e) \/ NothingNew(e)
<1>1. Head(events) \in EventType
  BY DEF OnAuth
<1>2. PICK e \in EventType : e = Head(events)
  BY <1>1
<1>3. Resumes(e) \/ Switches(e) \/ Begins(e) \/ Ends(e) \/ PaintsStored(e) \/ ShowsSignIn(e) \/ NothingNew(e)
  BY <1>2 DEF OnAuth
<1> QED
  BY <1>2, <1>3 DEF OnAuth, Turn

(* The end of signOut has its steps; LeaveTaken is the last one, and the refusal. *)
Drained ==
  /\ signout.at = "drain"
  /\ "endings" \in Races \/ (ending = NoEnd /\ session.who = signout.who)
  /\ signout' = [at |-> "push", who |-> session.who]
  /\ UNCHANGED <<auth, events, gen, rt, outboxes, boot_, hub_, ending, push_>>
Unsubscribed ==
  /\ signout.at = "push"
  /\ IF sub THEN sub' = FALSE /\ owner' = Nobody ELSE UNCHANGED <<sub, owner>>
  /\ signout' = [signout EXCEPT !.at = "auth"]
  /\ UNCHANGED <<auth, events, gen, rt, outboxes, boot_, hub_, ending, ensures>>
Forgotten ==
  /\ signout.at = "auth" /\ MayEnd
  /\ auth' = Nobody
  /\ IF auth # Nobody THEN Told("signed_out", Nobody) ELSE UNCHANGED events
  /\ EndSession("voluntary")
  /\ signout' = [signout EXCEPT !.at = "ended"]
  /\ UNCHANGED <<starts, push_>>
LeaveTaken ==
  /\ signout.at \in {"drain", "ended"}
  /\ signout' = Idle
  /\ UNCHANGED <<auth, events, gen, rt, outboxes, boot_, hub_, ending, push_>>

LEMMA SignOutSteps ==
  ASSUME SignOutGoesOn
  PROVE  /\ Drained \/ Unsubscribed \/ Forgotten \/ LeaveTaken
         /\ UNCHANGED <<handler, session, painted, disk, bounds_>>
BY DEF SignOutGoesOn, SignOutStep, Drained, Unsubscribed, Forgotten, LeaveTaken

-----------------------------------------------------------------------------
(* Generations. *)

\* A new session: every coroutine there was is of an older generation.
LEMMA BeginKeepsInv ==
  ASSUME Inv, NEW p \in Person, NEW b \in BOOLEAN, BeginSession(p, b),
         events' \in Seq(EventType), EventsShaped'
  PROVE  Inv'
<1>0. PICK r \in [who : Person, gen : Nat] : r.who = p /\ r.gen = gen + 1 /\ rt' = r /\ gen' = r.gen
  BY DEF Inv, SessionTypes, BeginSession
<1>1. PICK c \in StartType : /\ c.gen = r.gen /\ c.who = p /\ c.at # "org" /\ starts' = starts \cup {c}
  <2>1. CASE b
    <3>1. [Coroutine(r, "meta", TRUE) EXCEPT !.next = "begin"] \in StartType
      BY <1>0 DEF Coroutine, StartType
    <3>2. PICK c \in StartType : c = [Coroutine(r, "meta", TRUE) EXCEPT !.next = "begin"]
      BY <3>1
    <3>3. starts' = starts \cup {c}
      BY <1>0, <2>1, <3>2 DEF BeginSession
    <3> QED
      BY <1>0, <3>2, <3>3 DEF Coroutine
  <2>2. CASE ~b
    <3>1. Coroutine(r, "me", TRUE) \in StartType
      BY <1>0 DEF Coroutine, StartType
    <3>2. PICK c \in StartType : c = Coroutine(r, "me", TRUE)
      BY <3>1
    <3>3. starts' = starts \cup {c}
      BY <1>0, <2>2, <3>2 DEF BeginSession, StartData
    <3> QED
      BY <1>0, <3>2, <3>3 DEF Coroutine
  <2> QED
    BY <2>1, <2>2
<1>2. /\ session' = [status |-> "signed_in", who |-> p] /\ startDone' = FALSE /\ painted' = p
      /\ disk' = [disk EXCEPT ![p] = Everything] /\ handler' = [at |-> "begin", who |-> p]
      /\ UNCHANGED <<auth, hubOn, ending, signout, sub, owner, ensures>>
      /\ retry' \in BOOLEAN
  <2>1. retry' \in BOOLEAN
    BY DEF BeginSession, StartData, Inv, SessionTypes
  <2> QED
    BY <2>1 DEF BeginSession, hub_, push_
<1>3. SessionTypes'
  <2>1. disk' \in [Person -> SUBSET Everything]
    BY <1>2 DEF Inv, SessionTypes
  <2>2. session' \in SessionType /\ handler' \in HandlerType /\ rt' \in [who : People, gen : Nat] /\ gen' \in Nat
    BY <1>0, <1>2 DEF SessionType, HandlerType, People
  <2>3. starts' \in SUBSET StartType /\ painted' \in People
    BY <1>1, <1>2 DEF Inv, SessionTypes, People
  <2> QED
    BY <1>2, <2>1, <2>2, <2>3 DEF Inv, SessionTypes
<1>4. Generations'
  <2>1. \A d \in starts : d.gen \in Nat /\ d.gen <= gen
    BY DEF Inv, SessionTypes, Generations, StartType
  <2>2. rt'.gen = gen' /\ rt'.who = p /\ rt' # NoRt /\ gen' = gen + 1 /\ gen \in Nat
    BY <1>0, SessionAssumption DEF Inv, SessionTypes, NoRt
  <2>4. Running' /\ rt'.gen = gen' /\ rt'.who \in Person
    BY <2>2 DEF Running
  <2>5. ASSUME NEW d \in starts'
        PROVE  /\ d.gen <= gen'
               /\ d.gen = gen' => d.who = rt'.who /\ d.at # "org"
    BY <1>0, <1>1, <2>1, <2>2, <2>5
  <2> QED
    BY <2>4, <2>5 DEF Generations, Current
<1>5. Shapes'
  BY <1>2, SessionAssumption DEF Inv, Shapes, EventsShaped, Idle, NoEnd
<1>6. StartGoesOn'
  BY <1>0, <1>1 DEF StartGoesOn
<1> QED
  BY <1>3, <1>4, <1>5, <1>6 DEF Inv

\* The end of one: nobody counts any more.
LEMMA EndKeepsGenerations ==
  ASSUME Inv, NEW m \in {"voluntary", "involuntary"}, EndSession(m), starts' = starts
  PROVE  /\ Generations' /\ StartGoesOn'
         /\ gen' \in Nat /\ rt' \in [who : People, gen : Nat]
         /\ startDone' \in BOOLEAN /\ retry' \in BOOLEAN /\ hubOn' \in BOOLEAN
         /\ ending' \in EndingType /\ ending' # NoEnd /\ ending'.at # "over"
<1>1. CASE ending # NoEnd
  <2>1. UNCHANGED <<gen, rt, startDone, retry, hubOn, ending>>
    BY <1>1 DEF EndSession, hub_
  <2> QED
    BY <1>1, <2>1 DEF Inv, SessionTypes, Generations, StartGoesOn, Current, Running, Shapes
<1>2. CASE ending = NoEnd
  <2>1. /\ gen' = gen + 1 /\ rt' = NoRt /\ startDone' = FALSE /\ retry' = FALSE /\ hubOn' = FALSE
        /\ ending'.mode = m /\ ending'.at = "push" /\ ending'.who \in People
        /\ ending' \in EndingType
    BY <1>2 DEF EndSession, Inv, SessionTypes, SessionType, EndingType
  <2>2. \A d \in starts : d.gen \in Nat /\ d.gen <= gen
    BY DEF Inv, SessionTypes, Generations, StartType
  <2>3. gen \in Nat
    BY DEF Inv, SessionTypes
  <2>4. Generations'
    BY <2>1, <2>2, <2>3 DEF Generations, Current, Running
  <2>5. rt' \in [who : People, gen : Nat] /\ ending' # NoEnd
    BY <2>1 DEF NoRt, People, NoEnd
  <2>6. gen' \in Nat
    BY <2>1, <2>3
  <2>7. StartGoesOn'
    BY <2>1 DEF StartGoesOn
  <2>8. startDone' \in BOOLEAN /\ retry' \in BOOLEAN /\ hubOn' \in BOOLEAN
    BY <2>1
  <2>9. ending' \in EndingType /\ ending'.at # "over"
    BY <2>1
  <2> QED
    BY <2>4, <2>5, <2>6, <2>7, <2>8, <2>9
<1> QED
  BY <1>1, <1>2

\* A coroutine that goes on keeps its generation and person, a new one has those of the
\* runtime.
LEMMA StartsKeepGenerations ==
  ASSUME Inv, gen' = gen, rt' = rt, startDone' \in BOOLEAN, startDone => startDone',
         starts' \in SUBSET StartType,
         \A d \in starts' :
           \/ d \in starts
           \/ \E c \in starts : d.gen = c.gen /\ d.who = c.who /\ (d.at = "org" /\ d.gen = gen => startDone')
           \/ Running /\ d.gen = gen /\ d.who = rt.who /\ d.at # "org"
  PROVE  Generations'
<1>1. gen \in Nat /\ \A c \in starts : c.gen <= gen
  BY DEF Inv, SessionTypes, Generations
<1>2. ASSUME NEW d \in starts'
      PROVE  /\ d.gen <= gen
             /\ d.gen = gen => Running /\ d.who = rt.who
  BY <1>1, <1>2 DEF Inv, Generations, Current
<1>3. ASSUME NEW d \in starts', d.gen = gen, d.at = "org"
      PROVE  startDone'
  BY <1>3 DEF Inv, Generations, Current
<1>4. Running' <=> Running
  BY DEF Running
<1>5. Running => rt.gen = gen /\ rt.who \in Person
  BY DEF Inv, Generations
<1> QED
  BY <1>2, <1>3, <1>4, <1>5 DEF Generations, Current

LEMMA NewCoroutine ==
  ASSUME NEW r, r.gen \in Nat, r.who \in Person, NEW a \in BOOLEAN, NEW cs, StartData(cs, r, a)
  PROVE  /\ retry' = FALSE
         /\ \E d \in StartType : d.gen = r.gen /\ d.who = r.who /\ d.at = "me" /\ starts' = cs \cup {d}
<1>1. PICK d \in StartType : d = Coroutine(r, "me", a)
  BY DEF Coroutine, StartType
<1>2. d.gen = r.gen /\ d.who = r.who /\ d.at = "me"
  BY <1>1 DEF Coroutine
<1> QED
  BY <1>1, <1>2 DEF StartData

LEMMA EventsAreShaped ==
  ASSUME Inv
  PROVE  EventsShaped
BY DEF Inv, Shapes, EventsShaped

\* A start for the runtime that runs.
LEMMA StartedAgain ==
  ASSUME Inv, Running, StartData(starts, rt, FALSE), gen' = gen, rt' = rt, startDone' = startDone
  PROVE  Generations' /\ StartGoesOn' /\ starts' \in SUBSET StartType /\ retry' \in BOOLEAN
<1>1. rt.gen = gen /\ rt.gen \in Nat /\ rt.who \in Person
  BY DEF Inv, SessionTypes, Generations
<1>2. PICK d \in StartType : d.gen = rt.gen /\ d.who = rt.who /\ d.at = "me" /\ starts' = starts \cup {d}
  BY <1>1, NewCoroutine
<1>3. retry' = FALSE
  BY DEF StartData
<1>4. starts' \in SUBSET StartType
  BY <1>2 DEF Inv, SessionTypes
<1>5. startDone' \in BOOLEAN
  BY DEF Inv, SessionTypes
<1>6. Generations'
  BY <1>1, <1>2, <1>4, <1>5, StartsKeepGenerations
<1>7. StartGoesOn'
  BY <1>2 DEF StartGoesOn
<1> QED
  BY <1>3, <1>4, <1>6, <1>7

LEMMA OnAuthKeepsInv ==
  ASSUME Inv, OnAuth
  PROVE  Inv'
<1>0. PICK e \in EventType :
        /\ e = Head(events)
        /\ Resumes(e) \/ Switches(e) \/ Begins(e) \/ Ends(e) \/ PaintsStored(e) \/ ShowsSignIn(e) \/ NothingNew(e)
  BY Branches DEF Inv, SessionTypes
<1>a. Turn /\ events \in Seq(EventType) /\ events # <<>>
  BY Branches DEF Inv, SessionTypes, Turn
<1>b. events' \in Seq(EventType) /\ EventsShaped'
  BY <1>a, QueueTaken, ShapedTaken, EventsAreShaped DEF Turn
<1>c. e.who \in People /\ auth \in People
  BY DEF EventType, Inv, SessionTypes
<1>1. CASE Resumes(e)
  <2>1. Running /\ e.who # Nobody /\ session.who = e.who
    BY <1>1 DEF Resumes, Resumable, Running
  <2>2. UNCHANGED <<auth, handler, session, gen, rt, startDone, hubOn, painted, ending, signout, disk,
                    sub, owner, ensures>>
    BY <1>1 DEF Resumes, hub_, push_
  <2>3. Generations' /\ StartGoesOn' /\ starts' \in SUBSET StartType /\ retry' \in BOOLEAN
    <3>1. CASE startDone
      <4>1. UNCHANGED <<starts, retry>>
        BY <1>1, <3>1 DEF Resumes
      <4> QED
        BY <2>2, <4>1 DEF Inv, SessionTypes, Generations, StartGoesOn, Current, Running
    <3>2. CASE ~startDone
      BY <1>1, <2>1, <2>2, <3>2, StartedAgain DEF Resumes
    <3> QED
      BY <3>1, <3>2
  <2>4. SessionTypes'
    BY <1>b, <2>2, <2>3 DEF Inv, SessionTypes
  <2>5. Shapes'
    BY <1>b, <2>1, <2>2 DEF Inv, Shapes, EventsShaped, Running
  <2> QED
    BY <2>3, <2>4, <2>5 DEF Inv
<1>2. CASE Switches(e)
  <2>1. /\ UNCHANGED <<auth, session, starts, painted, signout, disk, sub, owner, ensures>>
        /\ handler' = [at |-> "switch", who |-> e.who] /\ e.who # Nobody /\ session.who # Nobody
    BY <1>2 DEF Switches, Changes, push_
  <2>2. /\ Generations' /\ StartGoesOn'
        /\ gen' \in Nat /\ rt' \in [who : People, gen : Nat]
        /\ startDone' \in BOOLEAN /\ retry' \in BOOLEAN /\ hubOn' \in BOOLEAN
        /\ ending' \in EndingType /\ ending' # NoEnd /\ ending'.at # "over"
    BY <1>2, <2>1, EndKeepsGenerations DEF Switches
  <2>3. handler' \in HandlerType
    BY <1>c, <2>1 DEF HandlerType
  <2>4. SessionTypes'
    BY <1>b, <2>1, <2>2, <2>3 DEF Inv, SessionTypes
  <2>5. session.status # "unknown"
    BY <2>1 DEF Inv, Shapes
  <2>6. Shapes'
    BY <1>b, <2>1, <2>2, <2>5 DEF Inv, Shapes, EventsShaped
  <2> QED
    BY <2>2, <2>4, <2>6 DEF Inv
<1>3. CASE Begins(e)
  BY <1>b, <1>c, <1>3, BeginKeepsInv DEF Begins, People
<1>4. CASE Ends(e)
  <2>1. /\ UNCHANGED <<auth, session, starts, painted, signout, disk, sub, owner, ensures>>
        /\ handler' = [at |-> "end", who |-> Nobody] /\ (Running \/ session.who # Nobody)
    BY <1>4 DEF Ends, push_, Running
  <2>2. PICK m \in {"voluntary", "involuntary"} : m = Mode
    BY DEF Mode
  <2>3. /\ Generations' /\ StartGoesOn'
        /\ gen' \in Nat /\ rt' \in [who : People, gen : Nat]
        /\ startDone' \in BOOLEAN /\ retry' \in BOOLEAN /\ hubOn' \in BOOLEAN
        /\ ending' \in EndingType /\ ending' # NoEnd /\ ending'.at # "over"
    BY <1>4, <2>1, <2>2, EndKeepsGenerations DEF Ends
  <2>4. handler' \in HandlerType
    BY <2>1 DEF HandlerType, People
  <2>5. SessionTypes'
    BY <1>b, <2>1, <2>3, <2>4 DEF Inv, SessionTypes
  <2>6. session.status # "unknown"
    BY <2>1 DEF Inv, Shapes
  <2>7. Shapes'
    BY <1>b, <2>1, <2>3, <2>6 DEF Inv, Shapes, EventsShaped
  <2> QED
    BY <2>3, <2>5, <2>7 DEF Inv
<1>5. CASE PaintsStored(e)
  <2>1. auth \in Person
    BY <1>c, <1>5 DEF PaintsStored, StoredPaints, People
  <2> QED
    BY <1>b, <1>5, <2>1, BeginKeepsInv DEF PaintsStored
<1>6. CASE ShowsSignIn(e)
  <2>1. UNCHANGED <<auth, handler, gen, rt, starts, startDone, retry, hubOn, painted, ending, signout, disk,
                    sub, owner, ensures>>
    BY <1>6 DEF ShowsSignIn, boot_, hub_, push_
  <2>2. session' = session \/ session' = [status |-> "signed_out", who |-> Nobody]
    BY <1>6 DEF ShowsSignIn
  <2>3. session' \in SessionType
    BY <2>2 DEF Inv, SessionTypes, SessionType, People
  <2>4. SessionTypes'
    BY <1>b, <2>1, <2>3 DEF Inv, SessionTypes
  <2>5. Generations' /\ StartGoesOn'
    BY <2>1 DEF Inv, Generations, StartGoesOn, Current, Running
  <2>6. Shapes'
    BY <1>b, <2>1, <2>2 DEF Inv, Shapes, EventsShaped, Running
  <2> QED
    BY <2>4, <2>5, <2>6 DEF Inv
<1>7. CASE NothingNew(e)
  <2>1. UNCHANGED <<auth, handler, session, gen, rt, starts, startDone, retry, hubOn, painted, ending, signout,
                    disk, sub, owner, ensures>>
    BY <1>7 DEF NothingNew, boot_, hub_, push_
  <2>2. SessionTypes'
    BY <1>b, <2>1 DEF Inv, SessionTypes
  <2>3. Generations' /\ StartGoesOn'
    BY <2>1 DEF Inv, Generations, StartGoesOn, Current, Running
  <2>4. Shapes'
    BY <1>b, <2>1 DEF Inv, Shapes, EventsShaped, Running
  <2> QED
    BY <2>2, <2>3, <2>4 DEF Inv
<1> QED
  BY <1>0, <1>1, <1>2, <1>3, <1>4, <1>5, <1>6, <1>7

\* What comes from outside: another event waits.
LEMMA NewsKeepsInv ==
  ASSUME Inv, NEW w \in People, NEW e \in EventType, News(w), events' = Append(events, e),
         e.ev \in {"signed_in", "refreshed"} => e.who # Nobody,
         e.ev \in {"signed_out", "stored", "limit"} => e.who = Nobody,
         e.ev # "initial"
  PROVE  Inv'
<1>1. /\ auth' = w
      /\ UNCHANGED <<handler, session, gen, rt, starts, startDone, retry, hubOn, painted, ending, signout,
                     disk, sub, owner, ensures>>
  BY DEF News, boot_, hub_, push_
<1>2. events \in Seq(EventType) /\ session.status' = session.status
  BY <1>1 DEF Inv, SessionTypes
<1>3. events' \in Seq(EventType)
  BY <1>2, QueueAppended
<1>4. EventsShaped'
  BY <1>2, ShapedAppended, EventsAreShaped
<1>5. SessionTypes'
  BY <1>1, <1>3 DEF Inv, SessionTypes
<1>6. Generations' /\ StartGoesOn'
  BY <1>1 DEF Inv, Generations, StartGoesOn, Current, Running
<1>7. Shapes'
  BY <1>1, <1>4 DEF Inv, Shapes, EventsShaped, Running
<1> QED
  BY <1>5, <1>6, <1>7 DEF Inv

\* What comes from outside, as a new event.
LEMMA NewEvents ==
  ASSUME Inv,
         \/ \E p \in Person : SignedIn(p)
         \/ Refreshed \/ SignedOut
         \/ \E b \in BOOLEAN : SplashTimer(b)
  PROVE  \E w \in People, e \in EventType :
           /\ News(w) /\ events' = Append(events, e)
           /\ e.ev # "initial"
           /\ e.ev \in {"signed_in", "refreshed"} => e.who = w /\ w # Nobody
           /\ e.ev = "signed_out" => w = Nobody
           /\ e.ev \in {"signed_out", "stored", "limit"} => e.who = Nobody
           /\ e.ev \in {"stored", "limit"} => w = auth /\ session.status = "unknown"
<1>1. CASE \E p \in Person : SignedIn(p)
  <2>1. PICK p \in Person : SignedIn(p)
    BY <1>1
  <2>2. PICK e \in EventType : e = [ev |-> "signed_in", who |-> p]
    BY DEF EventType, People
  <2>3. p \in People /\ p # Nobody
    BY SessionAssumption DEF People
  <2> QED
    BY <2>1, <2>2, <2>3 DEF SignedIn, Told
<1>2. CASE Refreshed
  <2>1. auth \in People
    BY DEF Inv, SessionTypes
  <2>2. PICK e \in EventType : e = [ev |-> "refreshed", who |-> auth]
    BY <2>1 DEF EventType
  <2> QED
    BY <1>2, <2>1, <2>2 DEF Refreshed, Told
<1>3. CASE SignedOut
  <2>1. PICK e \in EventType : e = [ev |-> "signed_out", who |-> Nobody]
    BY DEF EventType, People
  <2> QED
    BY <1>3, <2>1 DEF SignedOut, Told, People
<1>4. CASE \E b \in BOOLEAN : SplashTimer(b)
  <2>1. PICK b \in BOOLEAN : SplashTimer(b)
    BY <1>4
  <2>2. PICK e \in EventType : e = [ev |-> IF b THEN "limit" ELSE "stored", who |-> Nobody]
    BY DEF EventType, People
  <2>3. e.ev \in {"stored", "limit"} /\ e.who = Nobody
    BY <2>2
  <2>4. auth \in People
    BY DEF Inv, SessionTypes
  <2>5. News(auth) /\ session.status = "unknown" /\ events' = Append(events, e)
    BY <2>1, <2>2 DEF SplashTimer, Told
  <2> QED
    BY <2>3, <2>4, <2>5
<1> QED
  BY <1>1, <1>2, <1>3, <1>4

LEMMA OutsideKeepsInv ==
  ASSUME Inv,
         \/ \E p \in Person : SignedIn(p)
         \/ Refreshed \/ SignedOut
         \/ \E b \in BOOLEAN : SplashTimer(b)
  PROVE  Inv'
<1>1. PICK w \in People, e \in EventType :
           /\ News(w) /\ events' = Append(events, e)
           /\ e.ev # "initial"
           /\ e.ev \in {"signed_in", "refreshed"} => e.who = w /\ w # Nobody
           /\ e.ev \in {"signed_out", "stored", "limit"} => e.who = Nobody
  BY NewEvents
<1> QED
  BY <1>1, NewsKeepsInv

LEMMA AuthGoesOnKeepsInv ==
  ASSUME Inv, AuthGoesOn
  PROVE  Inv'
<1>1. CASE handler.at = "switch" /\ ending = NoEnd /\ BeginSession(handler.who, FALSE) /\ events' = events
  <2>1. handler.who \in Person
    BY <1>1 DEF Inv, SessionTypes, HandlerType, Shapes, People
  <2>2. session.status # "unknown"
    BY <1>1 DEF Inv, Shapes, Idle
  <2>3. events' \in Seq(EventType)
    BY <1>1 DEF Inv, SessionTypes
  <2>4. EventsShaped'
    BY <1>1, <2>2, EventsAreShaped DEF EventsShaped
  <2> QED
    BY <1>1, <2>1, <2>3, <2>4, BeginKeepsInv
<1>2. CASE /\ handler' = Idle /\ handler.at # "idle"
           /\ UNCHANGED <<auth, events, session, gen, rt, outboxes, boot_, hub_, painted, ending, signout,
                          disk, push_, bounds_>>
  <2>1. UNCHANGED <<auth, events, session, gen, rt, starts, startDone, retry, hubOn, painted, ending, signout,
                    disk, sub, owner, ensures>>
    BY <1>2 DEF boot_, hub_, push_
  <2>2. SessionTypes'
    BY <1>2, <2>1 DEF Inv, SessionTypes, Idle, HandlerType, People
  <2>3. Generations' /\ StartGoesOn'
    BY <2>1 DEF Inv, Generations, StartGoesOn, Current, Running
  <2>4. Shapes'
    BY <1>2, <2>1 DEF Inv, Shapes, Running, Idle
  <2> QED
    BY <2>2, <2>3, <2>4 DEF Inv
<1> QED
  BY <1>1, <1>2 DEF AuthGoesOn

LEMMA RetryKeepsInv ==
  ASSUME Inv, RetryTimer \/ ResumeStart
  PROVE  Inv'
<1>1. UNCHANGED <<auth, events, handler, session, gen, rt, startDone, hubOn, painted, ending, signout,
                  disk, sub, owner, ensures>>
  BY DEF RetryTimer, ResumeStart, hub_, push_
<1>2. Generations' /\ StartGoesOn' /\ starts' \in SUBSET StartType /\ retry' \in BOOLEAN
  <2>1. CASE rt = NoRt
    <3>1. retry' = FALSE /\ starts' = starts
      BY <2>1 DEF RetryTimer, ResumeStart
    <3> QED
      BY <1>1, <2>1, <3>1 DEF Inv, SessionTypes, Generations, StartGoesOn, Current, Running
  <2>2. CASE rt # NoRt
    <3>1. StartData(starts, rt, FALSE)
      BY <2>2 DEF RetryTimer, ResumeStart
    <3> QED
      BY <1>1, <2>2, <3>1, StartedAgain DEF Running
  <2> QED
    BY <2>1, <2>2
<1>3. SessionTypes'
  BY <1>1, <1>2 DEF Inv, SessionTypes
<1>4. Shapes'
  BY <1>1 DEF Inv, Shapes, Running
<1> QED
  BY <1>2, <1>3, <1>4 DEF Inv

LEMMA SignOutKeepsInv ==
  ASSUME Inv, SignOut \/ SignOutGoesOn
  PROVE  Inv'
<1>1. CASE SignOut
  <2>1. /\ session.status = "signed_in" /\ signout' = [at |-> "drain", who |-> session.who]
        /\ UNCHANGED <<auth, events, handler, session, gen, rt, starts, startDone, retry, hubOn, painted, ending,
                       disk, sub, owner, ensures>>
    BY <1>1 DEF SignOut, boot_, hub_, push_
  <2>2. signout' \in SignoutType
    BY <2>1 DEF Inv, SessionTypes, SessionType, SignoutType
  <2>3. SessionTypes'
    BY <2>1, <2>2 DEF Inv, SessionTypes
  <2>4. Generations' /\ StartGoesOn'
    BY <2>1 DEF Inv, Generations, StartGoesOn, Current, Running
  <2>5. Shapes'
    BY <2>1 DEF Inv, Shapes, Running
  <2> QED
    BY <2>3, <2>4, <2>5 DEF Inv
<1>2. CASE SignOutGoesOn
  <2>1. UNCHANGED <<handler, session, painted, disk>>
    BY <1>2, SignOutSteps
  <2>2. CASE Drained \/ LeaveTaken \/ Unsubscribed
    <3>a. UNCHANGED <<auth, events, gen, rt, starts, startDone, retry, hubOn, ending, ensures>>
      BY <2>2 DEF Drained, LeaveTaken, Unsubscribed, boot_, hub_, push_
    <3>b. signout.at # "idle"
      BY <2>2 DEF Drained, LeaveTaken, Unsubscribed
    <3>c. sub' \in BOOLEAN
      BY <2>2 DEF Drained, LeaveTaken, Unsubscribed, push_, Inv, SessionTypes
    <3>d. owner' \in People
      BY <2>2 DEF Drained, LeaveTaken, Unsubscribed, push_, Inv, SessionTypes, People
    <3>e. signout' \in SignoutType
      BY <2>2 DEF Drained, LeaveTaken, Unsubscribed, Inv, SessionTypes, SessionType, SignoutType, People, Idle
    <3>1. /\ UNCHANGED <<auth, events, gen, rt, starts, startDone, retry, hubOn, ending, ensures>>
          /\ signout.at # "idle" /\ sub' \in BOOLEAN /\ owner' \in People /\ signout' \in SignoutType
      BY <3>a, <3>b, <3>c, <3>d, <3>e
    <3>2. session.status # "unknown"
      BY <3>1 DEF Inv, Shapes, Idle
    <3>3. SessionTypes'
      BY <2>1, <3>1 DEF Inv, SessionTypes
    <3>4. Generations' /\ StartGoesOn'
      BY <3>1 DEF Inv, Generations, StartGoesOn, Current, Running
    <3>5. Shapes'
      BY <2>1, <3>1, <3>2 DEF Inv, Shapes, Running
    <3> QED
      BY <3>3, <3>4, <3>5 DEF Inv
  <2>3. CASE Forgotten
    <3>1. UNCHANGED <<starts, sub, owner, ensures>> /\ auth' = Nobody /\ signout.at = "auth"
      BY <2>3 DEF Forgotten, push_
    <3>2. /\ Generations' /\ StartGoesOn'
          /\ gen' \in Nat /\ rt' \in [who : People, gen : Nat]
          /\ startDone' \in BOOLEAN /\ retry' \in BOOLEAN /\ hubOn' \in BOOLEAN
          /\ ending' \in EndingType /\ ending' # NoEnd /\ ending'.at # "over"
      BY <2>3, <3>1, EndKeepsGenerations DEF Forgotten
    <3>3. events' \in Seq(EventType) /\ EventsShaped'
      <4>0. events \in Seq(EventType) /\ session.status' = session.status
        BY <2>1 DEF Inv, SessionTypes
      <4>1. CASE events' = events
        BY <2>1, <4>0, <4>1, EventsAreShaped DEF EventsShaped
      <4>2. CASE Told("signed_out", Nobody)
        <5>1. PICK e \in EventType : e = [ev |-> "signed_out", who |-> Nobody]
          BY DEF EventType, People
        <5>2. events' = Append(events, e)
          BY <4>2, <5>1 DEF Told
        <5> QED
          BY <4>0, <5>1, <5>2, QueueAppended, ShapedAppended, EventsAreShaped
      <4> QED
        BY <2>3, <4>1, <4>2 DEF Forgotten
    <3>4. session.status # "unknown"
      BY <3>1 DEF Inv, Shapes, Idle
    <3>5. signout' \in SignoutType
      BY <2>3 DEF Forgotten, Inv, SessionTypes, SignoutType
    <3>6. SessionTypes'
      BY <2>1, <3>1, <3>2, <3>3, <3>5 DEF Inv, SessionTypes, People
    <3>7. Shapes'
      BY <2>1, <3>2, <3>3, <3>4 DEF Inv, Shapes, EventsShaped
    <3> QED
      BY <3>2, <3>6, <3>7 DEF Inv
  <2> QED
    BY <1>2, <2>2, <2>3, SignOutSteps
<1> QED
  BY <1>1, <1>2

LEMMA EndGoesOnKeepsInv ==
  ASSUME Inv, EndGoesOn
  PROVE  Inv'
<1>1. UNCHANGED <<auth, events, handler, gen, rt, starts, startDone, retry, hubOn, signout, owner, ensures>>
  BY DEF EndGoesOn, boot_, hub_
<1>2. /\ session.status # "unknown" /\ session'.status # "unknown"
      /\ session' = session \/ session' = [status |-> "signed_out", who |-> Nobody]
  BY DEF EndGoesOn, EndPush, EndWipe, EndReset, Inv, Shapes, NoEnd
<1>3. /\ ending' \in EndingType /\ (ending'.at = "over" => ending' = NoEnd)
      /\ painted' \in People
      /\ disk' \in [Person -> SUBSET Everything]
  BY DEF EndGoesOn, EndPush, EndWipe, EndReset, Wiped, Inv, SessionTypes, EndingType, NoEnd, People
<1>4. sub' \in BOOLEAN
  BY DEF EndGoesOn, EndPush, EndWipe, EndReset, Inv, SessionTypes
<1>5. session' \in SessionType
  BY <1>2 DEF Inv, SessionTypes, SessionType, People
<1>6. SessionTypes'
  BY <1>1, <1>3, <1>4, <1>5 DEF Inv, SessionTypes
<1>7. Generations' /\ StartGoesOn'
  BY <1>1 DEF Inv, Generations, StartGoesOn, Current, Running
<1>8. Shapes'
  BY <1>1, <1>2, <1>3 DEF Inv, Shapes
<1> QED
  BY <1>6, <1>7, <1>8 DEF Inv

LEMMA EnsureKeepsInv ==
  ASSUME Inv, NEW e \in ensures, Ensure(e)
  PROVE  Inv'
<1>1. UNCHANGED <<auth, events, handler, session, gen, rt, starts, startDone, retry, hubOn, painted, ending,
                  signout, disk>>
  BY DEF Ensure, boot_, hub_
<1>2. e \in [who : Person, at : {"subscribe", "register"}]
  BY DEF Inv, SessionTypes
<1>3. ensures' \in SUBSET [who : Person, at : {"subscribe", "register"}]
  <2>1. [e EXCEPT !.at = "register"] \in [who : Person, at : {"subscribe", "register"}]
    BY <1>2
  <2> QED
    BY <2>1 DEF Ensure, Inv, SessionTypes
<1>4. owner' \in People
  BY DEF Ensure, Inv, SessionTypes, People
<1>5. sub' \in BOOLEAN
  BY DEF Ensure, Inv, SessionTypes
<1>6. session.status # "unknown"
  BY DEF Inv, Shapes
<1>7. SessionTypes'
  BY <1>1, <1>3, <1>4, <1>5 DEF Inv, SessionTypes
<1>8. Generations' /\ StartGoesOn'
  BY <1>1 DEF Inv, Generations, StartGoesOn, Current, Running
<1>9. Shapes'
  BY <1>1, <1>6 DEF Inv, Shapes
<1> QED
  BY <1>7, <1>8, <1>9 DEF Inv

\* What follows an offline copy.
LEMMA OfflineKeepsStarts ==
  ASSUME Inv, NEW c \in starts, AfterOffline(c), gen' = gen, rt' = rt, startDone' = startDone
  PROVE  Generations' /\ StartGoesOn' /\ starts' \in SUBSET StartType /\ retry' \in BOOLEAN
<1>1. c \in StartType /\ c.gen \in Nat /\ c.who \in Person /\ startDone' \in BOOLEAN
  BY DEF Inv, SessionTypes, StartType
<1>2. CASE c.next = "begin" /\ c.gen = gen
  <2>1. StartData(starts \ {c}, c, c.awaited) /\ c.awaited \in BOOLEAN
    BY <1>1, <1>2 DEF AfterOffline, Current, StartType
  <2>a. PICK a \in BOOLEAN : a = c.awaited
    BY <2>1
  <2>2. PICK cs : cs = starts \ {c}
    OBVIOUS
  <2>b. StartData(cs, c, a)
    BY <2>1, <2>2, <2>a
  <2>3. PICK d \in StartType : d.gen = c.gen /\ d.who = c.who /\ d.at = "me" /\ starts' = cs \cup {d}
    BY <1>1, <2>b, NewCoroutine
  <2>4. retry' = FALSE
    BY <2>1 DEF StartData
  <2>5. starts' \in SUBSET StartType
    BY <2>2, <2>3 DEF Inv, SessionTypes
  <2>6. Generations'
    BY <1>1, <2>2, <2>3, <2>5, StartsKeepGenerations
  <2>7. rt.gen = gen \/ ~Running
    BY DEF Inv, Generations
  <2>8. StartGoesOn'
    BY <1>2, <2>3, <2>7 DEF StartGoesOn, Running
  <2> QED
    BY <2>4, <2>5, <2>6, <2>8
<1>3. CASE ~(c.next = "begin" /\ c.gen = gen)
  <2>1. starts' = starts \ {c} /\ (retry' = TRUE \/ (retry' = retry /\ c.gen # gen))
    BY <1>3 DEF AfterOffline, Current, Done
  <2>2. starts' \in SUBSET StartType
    BY <2>1 DEF Inv, SessionTypes
  <2>3. retry' \in BOOLEAN
    BY <2>1 DEF Inv, SessionTypes
  <2>4. Generations'
    BY <1>1, <2>1, <2>2, StartsKeepGenerations
  <2>5. rt.gen = gen \/ ~Running
    BY DEF Inv, Generations
  <2>6. StartGoesOn'
    BY <2>1, <2>5 DEF Inv, StartGoesOn, Running
  <2> QED
    BY <2>2, <2>3, <2>4, <2>6
<1> QED
  BY <1>2, <1>3

LEMMA StartStepKeepsInv ==
  ASSUME Inv, NEW c \in starts, Me(c) \/ MeFails(c) \/ Bootstrapped(c) \/ ReadMeta(c) \/ Painted(c)
  PROVE  Inv'
<1>0. UNCHANGED <<auth, events, handler, session, gen, rt, ending, signout, sub, owner>>
  BY DEF Me, MeFails, Bootstrapped, ReadMeta, Painted, Steps
<1>1. c \in StartType /\ c.gen \in Nat /\ c.who \in People /\ startDone \in BOOLEAN
  BY DEF Inv, SessionTypes, StartType, People
<1>2. rt.gen = gen \/ ~Running
  BY DEF Inv, Generations
<1>3. disk' = disk
  BY DEF Me, MeFails, Bootstrapped, ReadMeta, Painted
<1>a. ASSUME NEW at \in {"me", "org", "meta", "paint"}, NEW next \in {"none", "begin", "retry"},
             Move(c, at, next)
      PROVE  \E d \in StartType : /\ d.gen = c.gen /\ d.who = c.who /\ d.at = at
                                  /\ starts' = (starts \ {c}) \cup {d}
  <2>1. PICK d \in StartType : d = [c EXCEPT !.at = at, !.next = next]
    BY <1>1 DEF StartType
  <2> QED
    BY <1>1, <1>a, <2>1 DEF Move, StartType
<1>b. ASSUME Generations' /\ StartGoesOn' /\ starts' \in SUBSET StartType /\ retry' \in BOOLEAN,
             startDone' \in BOOLEAN, hubOn' \in BOOLEAN, painted' \in People,
             ensures' \in SUBSET [who : Person, at : {"subscribe", "register"}],
             session.status = "unknown" => ensures' = ensures
      PROVE  Inv'
  <2>1. SessionTypes'
    BY <1>0, <1>3, <1>b DEF Inv, SessionTypes
  <2>2. Shapes'
    BY <1>0, <1>b DEF Inv, Shapes, Running
  <2> QED
    BY <1>b, <2>1, <2>2 DEF Inv
<1>c. retry \in BOOLEAN /\ hubOn \in BOOLEAN /\ painted \in People
      /\ ensures \in SUBSET [who : Person, at : {"subscribe", "register"}]
  BY DEF Inv, SessionTypes
<1>d. ASSUME starts' = starts \ {c}, c.gen # gen \/ startDone, startDone' = startDone, retry' = retry
      PROVE  Generations' /\ StartGoesOn' /\ starts' \in SUBSET StartType
  <2>1. starts' \in SUBSET StartType
    BY <1>d DEF Inv, SessionTypes
  <2>2. Generations'
    BY <1>0, <1>1, <1>d, <2>1, StartsKeepGenerations
  <2>3. StartGoesOn'
    BY <1>0, <1>2, <1>d DEF Inv, StartGoesOn, Running
  <2> QED
    BY <2>1, <2>2, <2>3
<1>4. CASE Me(c) /\ c.gen = gen
  <2>1. /\ painted' = c.who /\ startDone' = TRUE /\ Move(c, "org", "none")
        /\ UNCHANGED <<retry, hubOn, ensures>>
    BY <1>4 DEF Me, Current, hub_
  <2>2. PICK d \in StartType : /\ d.gen = c.gen /\ d.who = c.who /\ d.at = "org"
                               /\ starts' = (starts \ {c}) \cup {d}
    BY <1>a, <2>1
  <2>3. starts' \in SUBSET StartType
    BY <2>2 DEF Inv, SessionTypes
  <2>4. Generations'
    BY <1>0, <1>1, <2>1, <2>2, <2>3, StartsKeepGenerations
  <2>5. StartGoesOn'
    BY <2>1 DEF StartGoesOn
  <2> QED
    BY <1>b, <1>c, <1>1, <2>1, <2>3, <2>4, <2>5
<1>5. CASE Me(c) /\ c.gen # gen
  <2>1. starts' = starts \ {c} /\ UNCHANGED <<retry, hubOn, ensures, painted, startDone>>
    BY <1>5 DEF Me, Current, Done, hub_
  <2>2. Generations' /\ StartGoesOn' /\ starts' \in SUBSET StartType
    BY <1>d, <1>5, <2>1
  <2> QED
    BY <1>b, <1>c, <1>1, <2>1, <2>2
<1>6. CASE MeFails(c) /\ c.gen = gen
  <2>1. Move(c, "meta", "retry") /\ UNCHANGED <<startDone, retry, hubOn, painted, ensures>>
    BY <1>6 DEF MeFails, Current, hub_
  <2>2. PICK d \in StartType : /\ d.gen = c.gen /\ d.who = c.who /\ d.at = "meta"
                               /\ starts' = (starts \ {c}) \cup {d}
    BY <1>a, <2>1
  <2>3. starts' \in SUBSET StartType
    BY <2>2 DEF Inv, SessionTypes
  <2>4. Generations'
    BY <1>0, <1>1, <2>1, <2>2, <2>3, StartsKeepGenerations
  <2>5. StartGoesOn'
    BY <1>0, <1>2, <1>6, <2>2 DEF StartGoesOn, Running
  <2> QED
    BY <1>b, <1>c, <1>1, <2>1, <2>3, <2>4, <2>5
<1>7. CASE MeFails(c) /\ c.gen # gen
  <2>1. starts' = starts \ {c} /\ UNCHANGED <<startDone, retry, hubOn, painted, ensures>>
    BY <1>7 DEF MeFails, Current, Done, hub_
  <2>2. Generations' /\ StartGoesOn' /\ starts' \in SUBSET StartType
    BY <1>d, <1>7, <2>1
  <2> QED
    BY <1>b, <1>c, <1>1, <2>1, <2>2
<1>8. CASE Bootstrapped(c)
  <2>1. c.at = "org" /\ starts' = starts \ {c} /\ UNCHANGED <<startDone, retry, painted>>
    BY <1>8 DEF Bootstrapped, Done
  <2>2. c.gen = gen => startDone /\ Running
    BY <2>1 DEF Inv, Generations, Current
  <2>3. Generations' /\ StartGoesOn' /\ starts' \in SUBSET StartType
    BY <1>d, <1>1, <2>1, <2>2
  <2>4. hubOn' \in BOOLEAN
    BY <1>8, <1>c DEF Bootstrapped, hub_
  <2>5. ensures' \in SUBSET [who : Person, at : {"subscribe", "register"}]
    BY <1>8, <1>c, <1>1 DEF Bootstrapped, StartType
  <2>6. session.status = "unknown" => ensures' = ensures
    BY <1>8, <2>2 DEF Bootstrapped, Current, Inv, Shapes
  <2> QED
    BY <1>b, <1>c, <1>1, <2>1, <2>3, <2>4, <2>5, <2>6
<1>9. CASE (ReadMeta(c) \/ Painted(c)) /\ AfterOffline(c)
  <2>1. UNCHANGED <<startDone, ensures>>
    BY <1>9 DEF ReadMeta, Painted
  <2>2. Generations' /\ StartGoesOn' /\ starts' \in SUBSET StartType /\ retry' \in BOOLEAN
    BY <1>0, <1>9, <2>1, OfflineKeepsStarts
  <2>3. painted' \in People
    BY <1>1, <1>9, <1>c DEF ReadMeta, Painted
  <2>4. hubOn' \in BOOLEAN
    BY <1>9, <1>c DEF ReadMeta, Painted
  <2> QED
    BY <1>b, <1>c, <1>1, <2>1, <2>2, <2>3, <2>4
<1>10. CASE ReadMeta(c) /\ ~AfterOffline(c)
  <2>1. /\ c.gen = gen /\ Move(c, "paint", c.next) /\ painted' = c.who
        /\ UNCHANGED <<startDone, ensures, retry, hubOn>>
    BY <1>10 DEF ReadMeta, Current
  <2>a. PICK next \in {"none", "begin", "retry"} : next = c.next
    BY <1>1 DEF StartType
  <2>2. PICK d \in StartType : /\ d.gen = c.gen /\ d.who = c.who /\ d.at = "paint"
                               /\ starts' = (starts \ {c}) \cup {d}
    BY <1>a, <2>1, <2>a
  <2>3. starts' \in SUBSET StartType
    BY <2>2 DEF Inv, SessionTypes
  <2>4. Generations'
    BY <1>0, <1>1, <2>1, <2>2, <2>3, StartsKeepGenerations
  <2>5. StartGoesOn'
    BY <1>0, <1>2, <2>1, <2>2 DEF StartGoesOn, Running
  <2> QED
    BY <1>b, <1>c, <1>1, <2>1, <2>3, <2>4, <2>5
<1> QED
  BY <1>4, <1>5, <1>6, <1>7, <1>8, <1>9, <1>10 DEF Painted

LEMMA InvInit ==
  ASSUME SessionInit
  PROVE  Inv
<1>1. auth \in People
  BY DEF SessionInit, People
<1>2. PICK w \in {auth, Nobody} : events = <<[ev |-> "initial", who |-> w]>>
  BY DEF SessionInit
<1>3. PICK e \in EventType : e = [ev |-> "initial", who |-> w]
  BY <1>1, <1>2 DEF EventType, People
<1>4. events = <<e>> /\ e.ev = "initial"
  BY <1>2, <1>3
<1>5. events \in Seq(EventType) /\ DOMAIN events = {1} /\ events[1] = e
  BY <1>4
<1>6. SessionTypes
  <2>1. handler \in HandlerType /\ session \in SessionType /\ rt \in [who : People, gen : Nat]
        /\ ending \in EndingType /\ signout \in SignoutType
    BY DEF SessionInit, HandlerType, SessionType, EndingType, SignoutType, People, Idle, NoRt, NoEnd
  <2>2. disk \in [Person -> SUBSET Everything]
    BY DEF SessionInit
  <2>3. gen \in Nat /\ starts \in SUBSET StartType /\ ensures \in SUBSET [who : Person, at : {"subscribe", "register"}]
    BY DEF SessionInit
  <2>4. startDone \in BOOLEAN /\ retry \in BOOLEAN /\ hubOn \in BOOLEAN /\ sub \in BOOLEAN
    BY DEF SessionInit
  <2>5. painted \in People /\ owner \in People
    BY DEF SessionInit, People
  <2> QED
    BY <1>1, <1>5, <2>1, <2>2, <2>3, <2>4, <2>5 DEF SessionTypes
<1>7. Generations /\ StartGoesOn
  BY DEF SessionInit, Generations, StartGoesOn, Running
<1>8. Shapes
  BY <1>4, <1>5 DEF SessionInit, Shapes, Running, Idle, NoEnd
<1> QED
  BY <1>6, <1>7, <1>8 DEF Inv

LEMMA InvNext ==
  ASSUME Inv, [SessionNext]_sessionVars
  PROVE  Inv'
<1>1. CASE UNCHANGED sessionVars
  <2>1. UNCHANGED <<auth, events, handler, session, gen, rt, starts, startDone, retry, hubOn, painted, ending,
                    signout, disk, sub, owner, ensures>>
    BY <1>1 DEF sessionVars, boot_, hub_, push_
  <2>2. SessionTypes'
    BY <2>1 DEF Inv, SessionTypes
  <2>3. Generations' /\ StartGoesOn'
    BY <2>1 DEF Inv, Generations, StartGoesOn, Current, Running
  <2>4. Shapes'
    BY <2>1 DEF Inv, Shapes, Running
  <2> QED
    BY <2>2, <2>3, <2>4 DEF Inv
<1>2. CASE SessionNext
  BY <1>2, OutsideKeepsInv, OnAuthKeepsInv, AuthGoesOnKeepsInv, RetryKeepsInv, SignOutKeepsInv,
     EndGoesOnKeepsInv, StartStepKeepsInv, EnsureKeepsInv DEF SessionNext
<1> QED
  BY <1>1, <1>2

(* A session whose start has not succeeded is tried again, or a start of it is under way:
   no order of auth events, ends and late answers leaves a signed-in person with a page
   that never loads (session.ts, startData and scheduleRetry). *)
THEOREM SessionGoesOn == SessionSpec => []StartGoesOn
<1>1. Inv => StartGoesOn
  BY DEF Inv
<1> QED
  BY InvInit, InvNext, <1>1, PTL DEF SessionSpec

-----------------------------------------------------------------------------
(* One at a time. *)

LEMMA PassingKept ==
  ASSUME events' = events, Target' = Target, NEW o, Passing(o)
  PROVE  Passing(o)'
BY DEF Passing, Leaves, Decides

\* Steps that leave the session, its ends and the events alone.
LEMMA OneBeside ==
  ASSUME OneInv, UNCHANGED <<auth, events, handler, session, rt, outboxes, ending>>,
         sub' => sub /\ owner' = owner
  PROVE  OneInv'
<1>1. Target' = Target
  BY DEF Target
<1>2. Alone'
  BY DEF OneInv, Alone, Running
<1>3. Follows'
  BY <1>1 DEF OneInv, Follows, Decides
<1>4. Subscribed'
  <2>1. ASSUME sub', ending'.at # "push", NEW o \in Person, owner' = o
        PROVE  Passing(o)'
    <3>1. Passing(o)
      BY <2>1 DEF OneInv, Subscribed
    <3> QED
      BY <1>1, <3>1, PassingKept
  <2> QED
    BY <2>1 DEF Subscribed
<1> QED
  BY <1>2, <1>3, <1>4 DEF OneInv

\* The end of a session: no runtime, no outbox, and the end is under way.
LEMMA EndLeavesNobody ==
  ASSUME Alone, NEW m, EndSession(m)
  PROVE  /\ ~Running' /\ outboxes' = {} /\ ending' # NoEnd
         /\ (ending = NoEnd /\ ending'.at = "push") \/ (ending # NoEnd /\ ending' = ending)
<1>1. CASE ending # NoEnd
  <2>1. rt' = rt /\ outboxes' = outboxes /\ ending' = ending
    BY <1>1 DEF EndSession
  <2> QED
    BY <1>1, <2>1 DEF Alone, Running
<1>2. CASE ending = NoEnd
  <2>1. rt' = NoRt /\ outboxes' = outboxes \ {rt} /\ ending'.at = "push"
    BY <1>2 DEF EndSession
  <2>2. ending' # NoEnd
    BY <2>1 DEF NoEnd
  <2>3. outboxes' = {}
    BY <2>1 DEF Alone
  <2> QED
    BY <1>2, <2>1, <2>2, <2>3 DEF Running
<1> QED
  BY <1>1, <1>2

\* A new session, after the one before it.
LEMMA BeginIsAlone ==
  ASSUME Inv, Alone, ~Running, ending = NoEnd, NEW p \in Person, NEW b, BeginSession(p, b)
  PROVE  /\ Alone' /\ Target' = p /\ ending' = ending /\ sub' = sub /\ owner' = owner
         /\ auth' = auth /\ session'.status # "unknown" /\ session'.who = p
<1>1. /\ rt'.who = p /\ outboxes' = outboxes \cup {rt'} /\ session' = [status |-> "signed_in", who |-> p]
      /\ ending' = ending /\ sub' = sub /\ owner' = owner /\ auth' = auth
      /\ handler' = [at |-> "begin", who |-> p]
  BY DEF BeginSession, push_
<1>2. outboxes = {}
  BY DEF Alone
<1>3. p # Nobody
  BY SessionAssumption
<1>4. rt' # NoRt
  BY <1>1, <1>3 DEF NoRt
<1>5. Alone'
  BY <1>1, <1>2, <1>4 DEF Alone, Running
<1>6. Target' = p
  BY <1>1 DEF Target
<1> QED
  BY <1>1, <1>5, <1>6

LEMMA OutsideKeepsOne ==
  ASSUME Inv, OneInv,
         \/ \E p \in Person : SignedIn(p)
         \/ Refreshed \/ SignedOut
         \/ \E b \in BOOLEAN : SplashTimer(b)
  PROVE  OneInv'
<1>1. PICK w \in People, e \in EventType :
           /\ News(w) /\ events' = Append(events, e)
           /\ e.ev # "initial"
           /\ e.ev \in {"signed_in", "refreshed"} => e.who = w /\ w # Nobody
           /\ e.ev = "signed_out" => w = Nobody
           /\ e.ev \in {"signed_out", "stored", "limit"} => e.who = Nobody
           /\ e.ev \in {"stored", "limit"} => w = auth
  BY NewEvents
<1>2. auth' = w /\ UNCHANGED <<handler, session, rt, outboxes, ending, sub, owner>>
  BY <1>1 DEF News, push_
<1>3. Target' = Target /\ events \in Seq(EventType)
  BY <1>2 DEF Target, Inv, SessionTypes
<1>4. e.ev \in {"initial", "signed_in", "refreshed", "signed_out", "stored", "limit"}
  BY DEF EventType
<1>5. Alone'
  BY <1>2 DEF OneInv, Alone, Running
<1>6. Follows'
  <2>1. CASE Decides(e)
    <3>1. e.who = auth'
      BY <1>1, <1>2, <1>4, <2>1 DEF Decides
    <3> QED
      BY <1>1, <1>3, <2>1, <3>1, FollowsAppended
  <2>2. CASE ~Decides(e)
    <3>1. auth' = auth
      BY <1>1, <1>2, <1>4, <2>2 DEF Decides
    <3> QED
      BY <1>1, <1>2, <1>3, <2>2, <3>1, FollowsBeside DEF OneInv
  <2> QED
    BY <2>1, <2>2
<1>7. Subscribed'
  <2>1. ASSUME sub', ending'.at # "push", NEW o \in Person, owner' = o
        PROVE  Passing(o)'
    <3>1. Passing(o)
      BY <1>2, <2>1 DEF OneInv, Subscribed
    <3> QED
      BY <1>1, <1>3, <3>1, PassingAppended
  <2> QED
    BY <2>1 DEF Subscribed
<1> QED
  BY <1>5, <1>6, <1>7 DEF OneInv

LEMMA OnAuthKeepsOne ==
  ASSUME Inv, OneInv, OnAuth, "event" \notin Races
  PROVE  OneInv'
<1>0. PICK e \in EventType :
        /\ e = Head(events)
        /\ Resumes(e) \/ Switches(e) \/ Begins(e) \/ Ends(e) \/ PaintsStored(e) \/ ShowsSignIn(e) \/ NothingNew(e)
  BY Branches DEF Inv, SessionTypes
<1>a. handler = Idle /\ events \in Seq(EventType) /\ events # <<>> /\ events' = Tail(events)
  BY Branches DEF Inv, SessionTypes, Turn
<1>b. /\ e.who \in People /\ auth \in People
      /\ e.ev \in {"initial", "signed_in", "refreshed", "signed_out", "stored", "limit"}
      /\ e.ev = "initial" => session.status = "unknown"
      /\ e.ev \in {"signed_in", "refreshed"} => e.who # Nobody
      /\ e.ev \in {"signed_out", "stored", "limit"} => e.who = Nobody
  BY <1>0, <1>a, QueueTaken DEF EventType, Inv, SessionTypes, Shapes
<1>c. Target = IF ending # NoEnd THEN Nobody ELSE session.who
  BY <1>a DEF Target, Idle
<1>d. Running => ending = NoEnd /\ rt.who = session.who /\ session.who # Nobody
  BY SessionAssumption DEF Inv, OneInv, Alone, Generations
<1>e. ASSUME IF Decides(e) THEN Target' = e.who
             ELSE Target' = auth \/ (Target' = Target /\ session.status' = session.status),
             auth' = auth
      PROVE  Follows'
  BY <1>0, <1>a, <1>e, FollowsTaken DEF OneInv
<1>f. ASSUME \/ Target' = Target /\ (Decides(e) => e.who = Target)
             \/ Target = Nobody /\ Target' = e.who,
             ending'.at # "push" => ending.at # "push",
             sub' = sub, owner' = owner
      PROVE  Subscribed'
  <2>1. ASSUME sub', ending'.at # "push", NEW o \in Person, owner' = o
        PROVE  Passing(o)'
    <3>1. Passing(o) /\ o # Nobody
      BY <1>f, <2>1, SessionAssumption DEF OneInv, Subscribed
    <3>2. \/ Target' = Target /\ (Decides(Head(events)) => Head(events).who = Target)
          \/ Target = Nobody /\ Target' = Head(events).who
      BY <1>0, <1>f
    <3> QED
      BY <1>a, <3>1, <3>2, PassingTaken
  <2> QED
    BY <2>1 DEF Subscribed
<1>1. CASE Resumes(e) \/ NothingNew(e)
  <2>1. UNCHANGED <<auth, handler, session, rt, outboxes, ending, sub, owner>>
    BY <1>1 DEF Resumes, NothingNew, push_
  <2>2. Target' = Target /\ (Decides(e) => e.who = Target)
    <3>1. Target' = Target
      BY <2>1 DEF Target
    <3>2. CASE Resumes(e)
      BY <1>c, <1>d, <3>1, <3>2 DEF Resumes, Resumable, Running
    <3>3. CASE NothingNew(e)
      BY <3>1, <3>3 DEF NothingNew, Decides
    <3> QED
      BY <1>1, <3>1, <3>2, <3>3
  <2>3. Follows'
    BY <1>e, <2>1, <2>2
  <2>4. Subscribed'
    BY <1>f, <2>1, <2>2
  <2>5. Alone'
    BY <2>1 DEF OneInv, Alone, Running
  <2> QED
    BY <2>3, <2>4, <2>5 DEF OneInv
<1>2. CASE Switches(e) \/ Ends(e)
  <2>1. UNCHANGED <<auth, sub, owner>>
    BY <1>2 DEF Switches, Ends, push_
  <2>2. PICK m : EndSession(m)
    BY <1>2 DEF Switches, Ends
  <2>3. /\ ~Running' /\ outboxes' = {} /\ ending' # NoEnd
        /\ (ending = NoEnd /\ ending'.at = "push") \/ (ending # NoEnd /\ ending' = ending)
    BY <2>2, EndLeavesNobody DEF OneInv
  <2>4. Target' = e.who /\ Decides(e)
    BY <1>2, <2>3 DEF Switches, Ends, Target, Decides
  <2>5. Follows'
    BY <1>e, <2>1, <2>4
  <2>6. Subscribed'
    <3>1. CASE ending'.at = "push"
      BY <3>1 DEF Subscribed
    <3>2. CASE ending'.at # "push"
      BY <1>c, <1>f, <2>1, <2>3, <2>4, <3>2
    <3> QED
      BY <3>1, <3>2
  <2>7. Alone'
    BY <2>3 DEF Alone
  <2> QED
    BY <2>5, <2>6, <2>7 DEF OneInv
<1>3. CASE Begins(e)
  <2>1. ending = NoEnd /\ e.who \in Person /\ BeginSession(e.who, FALSE)
    BY <1>3, <1>b DEF Begins, People
  <2>2. ~Running /\ session.who = Nobody
    <3>1. ~Running
      BY <1>3, <1>d DEF Begins, Resumable, Changes, Running
    <3> QED
      BY <2>1, <3>1 DEF OneInv, Alone
  <2>3. PICK p \in Person : p = e.who
    BY <2>1
  <2>4. BeginSession(p, FALSE)
    BY <2>1, <2>3
  <2>5. Alone' /\ Target' = p /\ ending' = ending /\ sub' = sub /\ owner' = owner /\ auth' = auth
    BY <2>1, <2>2, <2>4, BeginIsAlone DEF OneInv
  <2>6. Decides(e) /\ Target = Nobody
    BY <1>3, <1>c, <2>1, <2>2 DEF Begins, Decides
  <2>7. Follows'
    BY <1>e, <2>3, <2>5, <2>6
  <2>8. Subscribed'
    BY <1>f, <2>3, <2>5, <2>6
  <2> QED
    BY <2>5, <2>7, <2>8 DEF OneInv
<1>4. CASE PaintsStored(e)
  <2>1. ending = NoEnd /\ auth \in Person /\ BeginSession(auth, TRUE) /\ ~Running /\ e.who = Nobody
        /\ e.ev \in {"initial", "stored", "limit"} /\ session.status = "unknown"
    BY <1>4, <1>b DEF PaintsStored, StoredPaints, People, Running
  <2>2. PICK p \in Person : p = auth
    BY <2>1
  <2>3. BeginSession(p, TRUE)
    BY <2>1, <2>2
  <2>4. Alone' /\ Target' = p /\ ending' = ending /\ sub' = sub /\ owner' = owner /\ auth' = auth
    BY <2>1, <2>3, BeginIsAlone DEF OneInv
  <2>5. ~Decides(e)
    BY <2>1 DEF Decides
  <2>6. Follows'
    BY <1>e, <2>2, <2>4, <2>5
  <2>7. ~sub'
    BY <2>1, <2>4 DEF Inv, Shapes
  <2>8. Subscribed'
    BY <2>7 DEF Subscribed
  <2> QED
    BY <2>4, <2>6, <2>8 DEF OneInv
<1>5. CASE ShowsSignIn(e)
  <2>1. /\ UNCHANGED <<auth, handler, rt, outboxes, ending, sub, owner>> /\ e.who = Nobody
        /\ ~Running /\ session.who = Nobody /\ ~StoredPaints(e)
        /\ session' = session \/ session' = [status |-> "signed_out", who |-> Nobody]
    BY <1>5 DEF ShowsSignIn, push_, Running
  <2>2. Target = Nobody /\ Target' = Nobody
    BY <1>a, <1>c, <2>1 DEF Target, Idle
  <2>3. Decides(e) \/ auth = Nobody
    BY <1>b, <2>1 DEF Decides, StoredPaints
  <2>4. Follows'
    BY <1>e, <2>1, <2>2, <2>3
  <2>5. Subscribed'
    BY <1>f, <2>1, <2>2
  <2>6. Alone'
    BY <2>1 DEF OneInv, Alone, Running
  <2> QED
    BY <2>4, <2>5, <2>6 DEF OneInv
<1> QED
  BY <1>0, <1>1, <1>2, <1>3, <1>4, <1>5

LEMMA AuthGoesOnKeepsOne ==
  ASSUME Inv, OneInv, AuthGoesOn
  PROVE  OneInv'
<1>1. CASE handler.at = "switch" /\ ending = NoEnd /\ BeginSession(handler.who, FALSE) /\ events' = events
  <2>1. handler.who \in Person
    BY <1>1 DEF Inv, SessionTypes, HandlerType, Shapes, People
  <2>2. PICK p \in Person : p = handler.who
    BY <2>1
  <2>3. BeginSession(p, FALSE) /\ ~Running
    BY <1>1, <2>2 DEF OneInv, Alone
  <2>4. Alone' /\ Target' = p /\ ending' = ending /\ sub' = sub /\ owner' = owner /\ auth' = auth
    BY <1>1, <2>3, BeginIsAlone DEF OneInv
  <2>5. Target = p /\ session.status # "unknown"
    BY <1>1, <2>2 DEF Target, Inv, Shapes, Idle
  <2>6. Follows'
    BY <1>1, <2>4, <2>5 DEF OneInv, Follows, Decides
  <2>7. Subscribed'
    <3>1. ASSUME sub', ending'.at # "push", NEW o \in Person, owner' = o
          PROVE  Passing(o)'
      <4>1. Passing(o)
        BY <2>4, <3>1 DEF OneInv, Subscribed
      <4>2. Target' = Target
        BY <2>4, <2>5
      <4> QED
        BY <1>1, <4>1, <4>2, PassingKept
    <3> QED
      BY <3>1 DEF Subscribed
  <2> QED
    BY <2>4, <2>6, <2>7 DEF OneInv
<1>2. CASE /\ handler' = Idle /\ handler.at # "switch"
           /\ UNCHANGED <<auth, events, session, rt, outboxes, ending, push_>>
  <2>1. Target' = Target
    BY <1>2 DEF Target, Idle
  <2>2. Alone'
    BY <1>2 DEF OneInv, Alone, Running, Idle
  <2>3. Follows'
    BY <1>2, <2>1 DEF OneInv, Follows, Decides
  <2>4. Subscribed'
    <3>1. ASSUME sub', ending'.at # "push", NEW o \in Person, owner' = o
          PROVE  Passing(o)'
      <4>1. Passing(o)
        BY <1>2, <3>1 DEF OneInv, Subscribed, push_
      <4> QED
        BY <1>2, <2>1, <4>1, PassingKept
    <3> QED
      BY <3>1 DEF Subscribed
  <2> QED
    BY <2>2, <2>3, <2>4 DEF OneInv
<1> QED
  BY <1>1, <1>2 DEF AuthGoesOn

LEMMA ForgottenKeepsOne ==
  ASSUME Inv, OneInv, Forgotten, handler' = handler, session' = session
  PROVE  OneInv'
<1>1. auth' = Nobody /\ UNCHANGED <<sub, owner>> /\ EndSession("voluntary") /\ signout.at = "auth"
  BY DEF Forgotten, push_
<1>2. /\ ~Running' /\ outboxes' = {} /\ ending' # NoEnd
      /\ (ending = NoEnd /\ ending'.at = "push") \/ (ending # NoEnd /\ ending' = ending)
  BY <1>1, EndLeavesNobody DEF OneInv
<1>3. events \in Seq(EventType) /\ session.status # "unknown"
  BY <1>1 DEF Inv, SessionTypes, Shapes, Idle
<1>4. Alone'
  BY <1>2 DEF Alone
<1>5. CASE events' = events /\ auth = Nobody
  <2>1. Follows'
    <3>1. Target = Nobody => Target' = Nobody
      BY <1>2, SessionAssumption DEF Target, Inv, Shapes
    <3> QED
      BY <1>1, <1>3, <1>5, <3>1 DEF OneInv, Follows, Decides
  <2>2. ASSUME sub', ending'.at # "push", NEW o \in Person, owner' = o
        PROVE  Passing(o)'
    <3>1. Passing(o) /\ ending' = ending
      BY <1>1, <1>2, <2>2 DEF OneInv, Subscribed
    <3>2. Target' = Target
      BY <3>1 DEF Target
    <3> QED
      BY <1>5, <3>1, <3>2, PassingKept
  <2>3. Subscribed'
    BY <2>2 DEF Subscribed
  <2> QED
    BY <1>4, <2>1, <2>3 DEF OneInv
<1>6. CASE Told("signed_out", Nobody)
  <2>1. PICK e \in EventType : e = [ev |-> "signed_out", who |-> Nobody]
    BY DEF EventType, People
  <2>2. events' = Append(events, e) /\ Decides(e) /\ e.who = auth'
    BY <1>1, <1>6, <2>1 DEF Told, Decides
  <2>3. Follows'
    BY <1>3, <2>2, FollowsAppended
  <2>4. ASSUME sub', ending'.at # "push", NEW o \in Person, owner' = o
        PROVE  Passing(o)'
    <3>1. Passing(o) /\ ending' = ending
      BY <1>1, <1>2, <2>4 DEF OneInv, Subscribed
    <3>2. Target' = Target
      BY <3>1 DEF Target
    <3> QED
      BY <1>3, <2>2, <3>1, <3>2, PassingAppended
  <2>5. Subscribed'
    BY <2>4 DEF Subscribed
  <2> QED
    BY <1>4, <2>3, <2>5 DEF OneInv
<1> QED
  BY <1>5, <1>6 DEF Forgotten

LEMMA SignOutKeepsOne ==
  ASSUME Inv, OneInv, SignOut \/ SignOutGoesOn
  PROVE  OneInv'
<1>1. CASE SignOut
  <2>1. UNCHANGED <<auth, events, handler, session, rt, outboxes, ending, sub, owner>>
    BY <1>1 DEF SignOut, push_
  <2> QED
    BY <2>1, OneBeside
<1>2. CASE SignOutGoesOn
  <2>1. UNCHANGED <<handler, session>>
    BY <1>2, SignOutSteps
  <2>2. CASE Drained \/ LeaveTaken \/ Unsubscribed
    <3>1. UNCHANGED <<auth, events, rt, outboxes, ending>>
      BY <2>2 DEF Drained, LeaveTaken, Unsubscribed
    <3>2. sub' => sub /\ owner' = owner
      BY <2>2 DEF Drained, LeaveTaken, Unsubscribed, push_
    <3> QED
      BY <2>1, <3>1, <3>2, OneBeside
  <2>3. CASE Forgotten
    BY <2>1, <2>3, ForgottenKeepsOne
  <2> QED
    BY <1>2, <2>2, <2>3, SignOutSteps
<1> QED
  BY <1>1, <1>2

LEMMA EndGoesOnKeepsOne ==
  ASSUME Inv, OneInv, EndGoesOn
  PROVE  OneInv'
<1>1. UNCHANGED <<auth, events, handler, rt, outboxes, owner>>
  BY DEF EndGoesOn
<1>2. ending # NoEnd /\ session.status # "unknown"
  BY DEF EndGoesOn, EndPush, EndWipe, EndReset, NoEnd, Inv, Shapes
<1>3. ~Running
  BY <1>2 DEF OneInv, Alone
<1>4. /\ sub' => sub /\ ending.at # "push"
      /\ (ending' # NoEnd /\ session' = session) \/ (ending' = NoEnd /\ session'.who = Nobody)
  BY DEF EndGoesOn, EndPush, EndWipe, EndReset, NoEnd
<1>5. Target' = Target
  BY <1>1, <1>2, <1>4 DEF Target
<1>6. Alone'
  BY <1>1, <1>3, <1>4 DEF OneInv, Alone, Running
<1>7. Follows'
  BY <1>1, <1>2, <1>5 DEF OneInv, Follows, Decides
<1>8. Subscribed'
  <2>1. ASSUME sub', ending'.at # "push", NEW o \in Person, owner' = o
        PROVE  Passing(o)'
    <3>1. Passing(o)
      BY <1>1, <1>4, <2>1 DEF OneInv, Subscribed
    <3> QED
      BY <1>1, <1>5, <3>1, PassingKept
  <2> QED
    BY <2>1 DEF Subscribed
<1> QED
  BY <1>6, <1>7, <1>8 DEF OneInv

\* A device is registered for whom auth-js has.
LEMMA EnsureKeepsOne ==
  ASSUME Inv, OneInv, NEW e \in ensures, Ensure(e)
  PROVE  OneInv'
<1>1. UNCHANGED <<auth, events, handler, session, rt, outboxes, ending>>
  BY DEF Ensure
<1>2. events \in Seq(EventType) /\ session.status # "unknown"
  BY DEF Inv, SessionTypes, Shapes
<1>3. Target' = Target
  BY <1>1 DEF Target
<1>4. CASE e.at = "subscribe" /\ ~sub
  <2>1. owner' = Nobody
    BY <1>4 DEF Ensure
  <2>2. Subscribed'
    BY <2>1, SessionAssumption DEF Subscribed
  <2>3. Alone'
    BY <1>1 DEF OneInv, Alone, Running
  <2>4. Follows'
    BY <1>1, <1>3 DEF OneInv, Follows, Decides
  <2> QED
    BY <2>2, <2>3, <2>4 DEF OneInv
<1>5. CASE e.at # "subscribe" /\ sub /\ auth # Nobody
  <2>1. owner' = auth /\ sub' = sub
    BY <1>5 DEF Ensure
  <2>2. Passing(auth)
    BY <1>2, <1>5, RegisteredPasses DEF OneInv
  <2>3. ASSUME NEW o \in Person, owner' = o
        PROVE  Passing(o)'
    <3>1. Passing(o)
      BY <2>1, <2>2, <2>3
    <3> QED
      BY <1>1, <1>3, <3>1, PassingKept
  <2>4. Subscribed'
    BY <2>3 DEF Subscribed
  <2>5. Alone'
    BY <1>1 DEF OneInv, Alone, Running
  <2>6. Follows'
    BY <1>1, <1>3 DEF OneInv, Follows, Decides
  <2> QED
    BY <2>4, <2>5, <2>6 DEF OneInv
<1>6. CASE ~(e.at = "subscribe" /\ ~sub) /\ ~(e.at # "subscribe" /\ sub /\ auth # Nobody)
  <2>1. sub' => sub /\ owner' = owner
    BY <1>6 DEF Ensure
  <2> QED
    BY <1>1, <2>1, OneBeside
<1> QED
  BY <1>4, <1>5, <1>6

LEMMA OneInit ==
  ASSUME SessionInit
  PROVE  OneInv
<1>1. Alone
  BY DEF SessionInit, Alone, Running, Idle, NoRt
<1>2. Subscribed
  BY DEF SessionInit, Subscribed
<1>3. Follows
  <2>1. PICK w \in {auth, Nobody} : events = <<[ev |-> "initial", who |-> w]>>
    BY DEF SessionInit
  <2>2. PICK e : e = [ev |-> "initial", who |-> w]
    OBVIOUS
  <2>3. events = <<e>> /\ e.ev = "initial" /\ e.who = w
    BY <2>1, <2>2
  <2>4. DOMAIN events = {1} /\ events[1] = e
    BY <2>3
  <2>5. session.status = "unknown"
    BY DEF SessionInit
  <2>6. CASE w = Nobody
    BY <2>3, <2>4, <2>5, <2>6 DEF Follows, Decides
  <2>7. CASE w # Nobody
    <3>1. w = auth
      BY <2>7
    <3>2. \A k \in DOMAIN events : ~(k > 1)
      BY <2>4
    <3> QED
      BY <2>3, <2>4, <2>7, <3>1, <3>2 DEF Follows, Decides
  <2> QED
    BY <2>6, <2>7
<1> QED
  BY <1>1, <1>2, <1>3 DEF OneInv

LEMMA OneNext ==
  ASSUME Inv, OneInv, [SessionNext]_sessionVars, "event" \notin Races
  PROVE  OneInv'
<1>1. CASE UNCHANGED sessionVars
  <2>1. UNCHANGED <<auth, events, handler, session, rt, outboxes, ending, sub, owner>>
    BY <1>1 DEF sessionVars, push_
  <2> QED
    BY <2>1, OneBeside
<1>2. CASE \E c \in starts : Me(c) \/ MeFails(c) \/ Bootstrapped(c) \/ ReadMeta(c) \/ Painted(c)
  <2>1. UNCHANGED <<auth, events, handler, session, rt, outboxes, ending, sub, owner>>
    BY <1>2 DEF Me, MeFails, Bootstrapped, ReadMeta, Painted, Steps
  <2> QED
    BY <2>1, OneBeside
<1>3. CASE RetryTimer \/ ResumeStart
  <2>1. UNCHANGED <<auth, events, handler, session, rt, outboxes, ending, sub, owner>>
    BY <1>3 DEF RetryTimer, ResumeStart, push_
  <2> QED
    BY <2>1, OneBeside
<1> QED
  BY <1>1, <1>2, <1>3, OutsideKeepsOne, OnAuthKeepsOne, AuthGoesOnKeepsOne, SignOutKeepsOne,
     EndGoesOnKeepsOne, EnsureKeepsOne DEF SessionNext

(* Where no auth event begins a session while an end is under way: once everything has
   come to rest, a live push subscription is nobody's or the signed-in person's.  Sign-outs
   in another tab, refused refreshes, late registrations (push.ts, ensurePushOnLogin) and
   ends in any order leave none that is somebody else's. *)
THEOREM NoForeignPushes ==
  ASSUME "event" \notin Races
  PROVE  SessionSpec => []PushIsTheirs
<1>1. SessionInit => Inv /\ OneInv
  BY InvInit, OneInit
<1>2. (Inv /\ OneInv) /\ [SessionNext]_sessionVars => (Inv /\ OneInv)'
  BY InvNext, OneNext
<1>3. Inv /\ OneInv => PushIsTheirs
  <2>1. SUFFICES ASSUME Inv, OneInv, Settled, sub, owner # Nobody
                 PROVE  owner = session.who
    BY DEF PushIsTheirs
  <2>2. PICK o \in Person : o = owner
    BY <2>1 DEF Inv, SessionTypes, People
  <2>3. Target = session.who /\ DOMAIN events = {} /\ ending.at # "push"
    BY <2>1 DEF Settled, Target, Idle, NoEnd
  <2>4. Passing(o)
    BY <2>1, <2>2, <2>3 DEF OneInv, Subscribed
  <2> QED
    BY <2>2, <2>3, <2>4 DEF Passing, Leaves
<1> QED
  BY <1>1, <1>2, <1>3, PTL DEF SessionSpec

-----------------------------------------------------------------------------
(* What is on screen, and the hub. *)

\* Steps within one session.
LEMMA PaintWithin ==
  ASSUME PaintInv, UNCHANGED <<session, gen, rt>>,
         \A d \in starts' : d.at = "paint" => d \in starts \/ d.gen = gen,
         hubOn' => hubOn \/ Running,
         painted' \in {Nobody, painted, session.who}
  PROVE  PaintInv'
<1>1. ASSUME NEW d \in starts', d.at = "paint"
      PROVE  d.gen = gen'
  BY <1>1 DEF PaintInv, Current
<1>2. hubOn' => Running'
  BY DEF PaintInv, Running
<1>3. painted' \in {Nobody, session'.who}
  BY DEF PaintInv
<1> QED
  BY <1>1, <1>2, <1>3 DEF PaintInv, Current

LEMMA BeginPaints ==
  ASSUME Inv, PaintInv, ~Running, NEW p \in Person, NEW b \in BOOLEAN, BeginSession(p, b)
  PROVE  PaintInv'
<1>0. PICK r : r = [who |-> p, gen |-> gen + 1] /\ rt' = r
  BY DEF BeginSession
<1>1. \A d \in starts : d.at # "paint"
  BY DEF Inv, Generations, PaintInv
<1>2. PICK c : c.at # "paint" /\ starts' = starts \cup {c}
  <2>1. CASE b
    <3>1. PICK c : c = [Coroutine(r, "meta", TRUE) EXCEPT !.next = "begin"]
      OBVIOUS
    <3>2. starts' = starts \cup {c}
      BY <1>0, <2>1, <3>1 DEF BeginSession
    <3> QED
      BY <3>1, <3>2 DEF Coroutine
  <2>2. CASE ~b
    <3>1. PICK c : c = Coroutine(r, "me", TRUE)
      OBVIOUS
    <3>2. starts' = starts \cup {c}
      BY <1>0, <2>2, <3>1 DEF BeginSession, StartData
    <3> QED
      BY <3>1, <3>2 DEF Coroutine
  <2> QED
    BY <2>1, <2>2
<1>3. painted' = p /\ session'.who = p /\ hubOn' = hubOn
  BY DEF BeginSession, hub_
<1>4. ~hubOn
  BY DEF PaintInv
<1>5. \A d \in starts' : d.at # "paint"
  BY <1>1, <1>2
<1> QED
  BY <1>3, <1>4, <1>5 DEF PaintInv

LEMMA EndPaintsNothing ==
  ASSUME PaintInv, "paint" \notin Races, MayEnd, NEW m, EndSession(m),
         UNCHANGED <<starts, painted, session>>
  PROVE  PaintInv'
<1>1. \A d \in starts' : d.at # "paint"
  BY DEF MayEnd
<1>2. hubOn' => Running'
  BY DEF EndSession, PaintInv, Running, hub_
<1>3. painted' \in {Nobody, session'.who}
  BY DEF PaintInv
<1> QED
  BY <1>1, <1>2, <1>3 DEF PaintInv

LEMMA OnAuthPaints ==
  ASSUME Inv, OneInv, PaintInv, OnAuth, "event" \notin Races, "paint" \notin Races
  PROVE  PaintInv'
<1>0. PICK e \in EventType :
        Resumes(e) \/ Switches(e) \/ Begins(e) \/ Ends(e) \/ PaintsStored(e) \/ ShowsSignIn(e) \/ NothingNew(e)
  BY Branches DEF Inv, SessionTypes
<1>1. CASE Resumes(e)
  <2>1. UNCHANGED <<session, gen, rt, hubOn, painted>>
    BY <1>1 DEF Resumes, hub_
  <2>2. \A d \in starts' : d.at = "paint" => d \in starts
    BY <1>1 DEF Resumes, StartData, Coroutine
  <2> QED
    BY <2>1, <2>2, PaintWithin
<1>2. CASE Switches(e) \/ Ends(e)
  BY <1>2, EndPaintsNothing DEF Switches, Ends
<1>3. CASE Begins(e)
  <2>1. PICK p \in Person : p = e.who
    BY <1>3 DEF Begins, EventType, People
  <2>2. Running => session.who = rt.who /\ rt.who \in Person
    BY DEF OneInv, Alone, Inv, Generations
  <2>3. ~Running /\ BeginSession(p, FALSE)
    BY <1>3, <2>1, <2>2, SessionAssumption DEF Begins, Resumable, Changes, Running
  <2> QED
    BY <2>3, BeginPaints
<1>4. CASE PaintsStored(e)
  <2>1. PICK p \in Person : p = auth
    BY <1>4 DEF PaintsStored, StoredPaints, Inv, SessionTypes, People
  <2>2. ~Running /\ BeginSession(p, TRUE)
    BY <1>4, <2>1 DEF PaintsStored, Running
  <2> QED
    BY <2>2, BeginPaints
<1>5. CASE ShowsSignIn(e)
  <2>1. /\ UNCHANGED <<gen, rt, starts, hubOn, painted>> /\ session.who = Nobody
        /\ session' = session \/ session' = [status |-> "signed_out", who |-> Nobody]
    BY <1>5 DEF ShowsSignIn, boot_, hub_
  <2> QED
    BY <2>1 DEF PaintInv, Current, Running
<1>6. CASE NothingNew(e)
  <2>1. UNCHANGED <<session, gen, rt, starts, hubOn, painted>>
    BY <1>6 DEF NothingNew, boot_, hub_
  <2> QED
    BY <2>1, PaintWithin
<1> QED
  BY <1>0, <1>1, <1>2, <1>3, <1>4, <1>5, <1>6

LEMMA AuthGoesOnPaints ==
  ASSUME Inv, OneInv, PaintInv, AuthGoesOn
  PROVE  PaintInv'
<1>1. CASE handler.at = "switch" /\ BeginSession(handler.who, FALSE)
  <2>1. PICK p \in Person : p = handler.who
    BY <1>1 DEF Inv, SessionTypes, HandlerType, Shapes, People
  <2>2. BeginSession(p, FALSE) /\ ~Running
    BY <1>1, <2>1 DEF OneInv, Alone
  <2> QED
    BY <2>2, BeginPaints
<1>2. CASE UNCHANGED <<session, gen, rt, boot_, hub_, painted>>
  BY <1>2, PaintWithin DEF boot_, hub_
<1> QED
  BY <1>1, <1>2 DEF AuthGoesOn

\* Who counts is the person who is signed in.
LEMMA StartStepPaints ==
  ASSUME Inv, OneInv, PaintInv, NEW c \in starts,
         Me(c) \/ MeFails(c) \/ Bootstrapped(c) \/ ReadMeta(c) \/ Painted(c)
  PROVE  PaintInv'
<1>1. UNCHANGED <<session, gen, rt>>
  BY DEF Me, MeFails, Bootstrapped, ReadMeta, Painted, Steps
<1>2. c.gen = gen => Running /\ c.who = session.who
  BY DEF Inv, Generations, Current, OneInv, Alone
<1>3. c.at = "paint" => c.gen = gen
  BY DEF PaintInv, Current
<1>4. ASSUME NEW at \in {"org", "meta", "paint"}, NEW next, Move(c, at, next), at = "paint" => c.gen = gen
      PROVE  \A d \in starts' : d.at = "paint" => d \in starts \/ d.gen = gen
  <2>1. PICK x : x = [c EXCEPT !.at = at, !.next = next]
    OBVIOUS
  <2>2. c \in StartType
    BY DEF Inv, SessionTypes
  <2>3. x.at = at /\ x.gen = c.gen
    BY <2>1, <2>2 DEF StartType
  <2>4. starts' = (starts \ {c}) \cup {x}
    BY <1>4, <2>1 DEF Move
  <2> QED
    BY <1>4, <2>3, <2>4
<1>5. ASSUME AfterOffline(c)
      PROVE  \A d \in starts' : d.at = "paint" => d \in starts
  <2>1. PICK x : x = Coroutine(c, "me", c.awaited)
    OBVIOUS
  <2>2. x.at = "me"
    BY <2>1 DEF Coroutine
  <2>3. \A d \in starts' : d \in starts \/ d = x
    BY <1>5, <2>1 DEF AfterOffline, StartData, Done
  <2> QED
    BY <2>2, <2>3
<1>6. ASSUME Done(c)
      PROVE  \A d \in starts' : d \in starts
  BY <1>6 DEF Done
<1>7. \A d \in starts' : d.at = "paint" => d \in starts \/ d.gen = gen
  <2>1. CASE Me(c)
    BY <1>4, <1>6, <2>1 DEF Me
  <2>2. CASE MeFails(c)
    BY <1>4, <1>6, <2>2 DEF MeFails
  <2>3. CASE Bootstrapped(c)
    BY <1>6, <2>3 DEF Bootstrapped
  <2>4. CASE ReadMeta(c)
    BY <1>4, <1>5, <2>4 DEF ReadMeta, Current
  <2>5. CASE Painted(c)
    BY <1>5, <2>5 DEF Painted
  <2> QED
    BY <2>1, <2>2, <2>3, <2>4, <2>5
<1>8. hubOn' => hubOn \/ Running
  BY <1>2, <1>3 DEF Me, MeFails, Bootstrapped, ReadMeta, Painted, Current, hub_
<1>9. painted' \in {Nobody, painted, session.who}
  BY <1>2, <1>3 DEF Me, MeFails, Bootstrapped, ReadMeta, Painted, Current
<1> QED
  BY <1>1, <1>7, <1>8, <1>9, PaintWithin

LEMMA PaintNext ==
  ASSUME Inv, OneInv, PaintInv, [SessionNext]_sessionVars, "event" \notin Races, "paint" \notin Races
  PROVE  PaintInv'
<1>1. CASE \/ UNCHANGED sessionVars
           \/ \E p \in Person : SignedIn(p)
           \/ Refreshed \/ SignedOut
           \/ \E b \in BOOLEAN : SplashTimer(b)
           \/ SignOut
           \/ \E e \in ensures : Ensure(e)
  <2>1. UNCHANGED <<session, gen, rt, starts, hubOn, painted>>
    BY <1>1 DEF sessionVars, boot_, hub_, SignedIn, Refreshed, SignedOut, SplashTimer, News, SignOut, Ensure
  <2> QED
    BY <2>1, PaintWithin
<1>2. CASE RetryTimer \/ ResumeStart
  <2>1. UNCHANGED <<session, gen, rt, hubOn, painted>>
    BY <1>2 DEF RetryTimer, ResumeStart, hub_
  <2>2. \A d \in starts' : d.at = "paint" => d \in starts
    BY <1>2 DEF RetryTimer, ResumeStart, StartData, Coroutine
  <2> QED
    BY <2>1, <2>2, PaintWithin
<1>3. CASE SignOutGoesOn
  <2>1. UNCHANGED <<session, painted>>
    BY <1>3, SignOutSteps
  <2>2. CASE Forgotten
    BY <2>1, <2>2, EndPaintsNothing DEF Forgotten
  <2>3. CASE Drained \/ Unsubscribed \/ LeaveTaken
    <3>1. UNCHANGED <<gen, rt, starts, hubOn>>
      BY <2>3 DEF Drained, Unsubscribed, LeaveTaken, boot_, hub_
    <3> QED
      BY <2>1, <3>1, PaintWithin
  <2> QED
    BY <1>3, <2>2, <2>3, SignOutSteps
<1>4. CASE EndGoesOn
  <2>1. /\ UNCHANGED <<gen, rt, starts, hubOn>>
        /\ (session' = session /\ painted' = painted) \/ painted' = Nobody
    BY <1>4 DEF EndGoesOn, EndPush, EndWipe, EndReset, boot_, hub_
  <2> QED
    BY <2>1 DEF PaintInv, Current, Running
<1> QED
  BY <1>1, <1>2, <1>3, <1>4, OnAuthPaints, AuthGoesOnPaints, StartStepPaints DEF SessionNext

(* Where neither an auth event nor an end overtakes what is under way: at every moment the
   outboxes, the screen and the runtime are the signed-in person's, and a page that has
   come to rest signed out runs nothing and shows nobody's data (session.ts:11). *)
THEOREM NothingSurvivesThem ==
  ASSUME "event" \notin Races, "paint" \notin Races
  PROVE  SessionSpec => []NothingSurvives
<1>1. SessionInit => Inv /\ OneInv /\ PaintInv
  BY InvInit, OneInit DEF SessionInit, PaintInv
<1>2. (Inv /\ OneInv /\ PaintInv) /\ [SessionNext]_sessionVars => (Inv /\ OneInv /\ PaintInv)'
  BY InvNext, OneNext, PaintNext
<1>3. Inv /\ OneInv /\ PaintInv => NothingSurvives
  <2>1. SUFFICES ASSUME Inv, OneInv, PaintInv
                 PROVE  NothingSurvives
    OBVIOUS
  <2>2. OneAtATime
    BY <2>1 DEF OneAtATime, OneInv, Alone, PaintInv, Running
  <2>3. ASSUME Settled, session.status = "signed_out"
        PROVE  rt = NoRt /\ outboxes = {} /\ ~hubOn /\ painted = Nobody
    <3>1. session.who = Nobody
      BY <2>1, <2>3 DEF Inv, Shapes
    <3>2. ~Running
      BY <2>1, <3>1, SessionAssumption DEF Inv, Generations, OneInv, Alone
    <3> QED
      BY <2>1, <3>1, <3>2 DEF OneInv, Alone, PaintInv, Running
  <2> QED
    BY <2>2, <2>3 DEF NothingSurvives
<1> QED
  BY <1>1, <1>2, <1>3, PTL DEF SessionSpec

-----------------------------------------------------------------------------
(* What is on the device. *)

LEMMA DiskBeside ==
  ASSUME DiskInv, UNCHANGED <<rt, ending, signout, disk>>
  PROVE  DiskInv'
BY DEF DiskInv, Running

LEMMA BeginFillsDisk ==
  ASSUME Inv, DiskInv, ~Running, ending = NoEnd, NEW p \in Person, NEW b, BeginSession(p, b)
  PROVE  DiskInv'
<1>1. /\ rt'.who = p /\ ending' = ending /\ signout' = signout
      /\ disk' = [disk EXCEPT ![p] = Everything]
  BY DEF BeginSession
<1>2. disk'[p] = Everything /\ \A q \in Person : q # p => disk'[q] = disk[q]
  BY <1>1 DEF Inv, SessionTypes
<1>3. rt' # NoRt
  BY <1>1, SessionAssumption DEF NoRt
<1>4. signout.at \in {"push", "auth", "ended"} => disk[signout.who] = {} /\ signout.who \in Person
  BY DEF DiskInv, NoEnd, Inv, SessionTypes, SignoutType, People
<1>5. ending.mode = "none"
  BY DEF NoEnd
<1>6. signout'.at \in {"push", "auth", "ended"} =>
        disk'[signout'.who] = {} \/ (Running' /\ rt'.who = signout'.who)
  BY <1>1, <1>2, <1>3, <1>4 DEF Running
<1> QED
  BY <1>1, <1>2, <1>5, <1>6 DEF DiskInv

\* An end that was not asked for, while nobody signs out.
LEMMA InvoluntaryEnd ==
  ASSUME Inv, OneInv, DiskInv, EndSession("involuntary"), UNCHANGED <<disk, signout>>,
         signout.at \in {"idle", "drain"}
  PROVE  DiskInv'
<1>1. ~Running'
  BY EndLeavesNobody DEF OneInv
<1>2. CASE ending # NoEnd
  <2>1. ending' = ending
    BY <1>2 DEF EndSession
  <2> QED
    BY <1>1, <2>1 DEF DiskInv
<1>3. CASE ending = NoEnd
  <2>1. ending'.who = IF Running THEN rt.who ELSE session.who
    BY <1>3 DEF EndSession, Running
  <2>2. ending'.who # Nobody => Running /\ ending'.who = rt.who
    BY <1>3, <2>1 DEF OneInv, Alone
  <2>3. ending'.who # Nobody => "outbox" \in disk'[ending'.who]
    BY <2>2 DEF DiskInv, Everything
  <2> QED
    BY <1>1, <2>3 DEF DiskInv
<1> QED
  BY <1>2, <1>3

\* An end that was asked for takes the person who was here.
LEMMA VoluntaryEnd ==
  ASSUME Inv, OneInv, DiskInv, EndSession("voluntary"), disk' = disk,
         signout.at \in {"push", "auth", "ended"},
         signout'.who = signout.who, signout'.at \in {"push", "auth", "ended"}
  PROVE  DiskInv'
<1>1. ~Running'
  BY EndLeavesNobody DEF OneInv
<1>2. CASE ending # NoEnd
  <2>1. ending' = ending /\ ~Running
    BY <1>2 DEF EndSession, OneInv, Alone
  <2> QED
    BY <1>1, <2>1 DEF DiskInv
<1>3. CASE ending = NoEnd
  <2>1. ending'.mode = "voluntary" /\ ending'.at = "push" /\ (Running => ending'.who = rt.who)
    BY <1>3 DEF EndSession, Running
  <2>2. disk[signout.who] = {} \/ (Running /\ rt.who = signout.who)
    BY <1>3 DEF DiskInv, NoEnd
  <2>3. signout.who # Nobody
    BY DEF DiskInv
  <2>4. \/ disk'[signout'.who] = {}
        \/ ending'.mode = "voluntary" /\ ending'.who = signout'.who /\ ending'.at \in {"push", "wipe"}
    BY <2>1, <2>2
  <2> QED
    BY <1>1, <2>1, <2>3, <2>4 DEF DiskInv
<1> QED
  BY <1>2, <1>3

LEMMA OnAuthKeepsDisk ==
  ASSUME Inv, OneInv, DiskInv, OnAuth, "event" \notin Races, "endings" \notin Races
  PROVE  DiskInv'
<1>0. PICK e \in EventType :
        Resumes(e) \/ Switches(e) \/ Begins(e) \/ Ends(e) \/ PaintsStored(e) \/ ShowsSignIn(e) \/ NothingNew(e)
  BY Branches DEF Inv, SessionTypes
<1>1. CASE Resumes(e) \/ ShowsSignIn(e) \/ NothingNew(e)
  <2>1. UNCHANGED <<rt, ending, signout, disk>>
    BY <1>1 DEF Resumes, ShowsSignIn, NothingNew
  <2> QED
    BY <2>1, DiskBeside
<1>2. CASE Switches(e)
  <2>1. signout.at = "idle" /\ EndSession("involuntary") /\ UNCHANGED <<disk, signout>>
    BY <1>2 DEF Switches, Idle
  <2> QED
    BY <2>1, InvoluntaryEnd
<1>3. CASE Begins(e)
  <2>1. PICK p \in Person : p = e.who
    BY <1>3 DEF Begins, EventType, People
  <2>2. Running => session.who = rt.who /\ rt.who \in Person
    BY DEF OneInv, Alone, Inv, Generations
  <2>3. ~Running /\ BeginSession(p, FALSE) /\ ending = NoEnd
    BY <1>3, <2>1, <2>2, SessionAssumption DEF Begins, Resumable, Changes, Running
  <2> QED
    BY <2>3, BeginFillsDisk
<1>4. CASE PaintsStored(e)
  <2>1. PICK p \in Person : p = auth
    BY <1>4 DEF PaintsStored, StoredPaints, Inv, SessionTypes, People
  <2>2. ~Running /\ BeginSession(p, TRUE) /\ ending = NoEnd
    BY <1>4, <2>1 DEF PaintsStored, Running
  <2> QED
    BY <2>2, BeginFillsDisk
<1>5. CASE Ends(e)
  <2>1. EndSession(Mode) /\ UNCHANGED <<disk, signout>>
    BY <1>5 DEF Ends
  <2>2. signout.at \in {"idle", "drain", "push", "auth", "ended"}
    BY DEF Inv, SessionTypes, SignoutType
  <2>3. CASE signout.at \in {"idle", "drain"}
    <3>1. signout = Idle \/ signout.at = "drain"
      BY <2>3 DEF DiskInv, Inv, SessionTypes, Shapes, Idle
    <3> QED
      BY <2>1, <2>3, <3>1, InvoluntaryEnd DEF Mode
  <2>4. CASE signout.at \in {"push", "auth", "ended"}
    <3>1. Mode = "voluntary"
      BY <2>4 DEF Mode, Idle
    <3> QED
      BY <2>1, <2>4, <3>1, VoluntaryEnd
  <2> QED
    BY <2>2, <2>3, <2>4
<1> QED
  BY <1>0, <1>1, <1>2, <1>3, <1>4, <1>5

LEMMA SignOutKeepsDisk ==
  ASSUME Inv, OneInv, DiskInv, SignOut \/ SignOutGoesOn, "endings" \notin Races
  PROVE  DiskInv'
<1>1. CASE SignOut
  <2>1. /\ session.status = "signed_in" /\ signout' = [at |-> "drain", who |-> session.who]
        /\ UNCHANGED <<rt, ending, disk>>
    BY <1>1 DEF SignOut
  <2>2. session.who # Nobody
    BY <2>1 DEF Inv, Shapes
  <2> QED
    BY <2>1, <2>2 DEF DiskInv, Running
<1>2. CASE SignOutGoesOn
  <2>1. disk' = disk
    BY <1>2, SignOutSteps
  <2>2. CASE Drained
    <3>1. /\ ending = NoEnd /\ session.who = signout.who /\ signout.at = "drain"
          /\ signout' = [at |-> "push", who |-> session.who] /\ UNCHANGED <<rt, ending>>
      BY <2>2 DEF Drained
    <3>2. session.who # Nobody
      BY <3>1 DEF DiskInv
    <3>3. Running /\ rt.who = session.who
      BY <3>1, <3>2 DEF OneInv, Alone
    <3> QED
      BY <2>1, <3>1, <3>2, <3>3 DEF DiskInv, Running
  <2>3. CASE Unsubscribed
    <3>1. /\ signout.at = "push" /\ signout'.at = "auth" /\ signout'.who = signout.who
          /\ UNCHANGED <<rt, ending>>
      BY <2>3 DEF Unsubscribed, Inv, SessionTypes, SignoutType
    <3> QED
      BY <2>1, <3>1 DEF DiskInv, Running
  <2>4. CASE Forgotten
    <3>1. /\ signout.at = "auth" /\ signout'.at = "ended" /\ signout'.who = signout.who
          /\ EndSession("voluntary")
      BY <2>4 DEF Forgotten, Inv, SessionTypes, SignoutType
    <3> QED
      BY <2>1, <3>1, VoluntaryEnd
  <2>5. CASE LeaveTaken
    <3>1. signout' = Idle /\ UNCHANGED <<rt, ending>>
      BY <2>5 DEF LeaveTaken
    <3> QED
      BY <2>1, <3>1 DEF DiskInv, Running, Idle
  <2> QED
    BY <1>2, <2>2, <2>3, <2>4, <2>5, SignOutSteps
<1> QED
  BY <1>1, <1>2

LEMMA EndGoesOnKeepsDisk ==
  ASSUME Inv, OneInv, DiskInv, EndGoesOn
  PROVE  DiskInv'
<1>1. UNCHANGED <<rt, signout>> /\ ~Running /\ ending \in EndingType
  BY DEF EndGoesOn, EndPush, EndWipe, EndReset, NoEnd, OneInv, Alone, Inv, SessionTypes
<1>2. signout.at \in {"push", "auth", "ended"} => signout.who \in Person
  BY DEF DiskInv, Inv, SessionTypes, SignoutType, People
<1>3. CASE EndPush
  <2>1. /\ ending.at = "push" /\ ending'.at = "wipe" /\ ending'.mode = ending.mode /\ ending'.who = ending.who
        /\ disk' = disk
    BY <1>1, <1>3 DEF EndPush, EndingType
  <2> QED
    BY <1>1, <2>1 DEF DiskInv, Running
<1>4. CASE EndWipe
  <2>1. ending'.at = "reset" /\ disk' = Wiped
    BY <1>1, <1>4 DEF EndWipe, EndingType
  <2>2. \A p \in Person : /\ disk[p] = {} => disk'[p] = {}
                          /\ ending.mode = "voluntary" /\ ending.who = p => disk'[p] = {}
    BY <2>1 DEF Wiped
  <2>3. signout.at \in {"push", "auth", "ended"} => disk'[signout.who] = {}
    BY <1>1, <1>2, <2>2 DEF DiskInv
  <2> QED
    BY <1>1, <2>1, <2>3 DEF DiskInv, Running
<1>5. CASE EndReset
  <2>1. ending.at = "reset" /\ ending' = NoEnd /\ disk' = disk
    BY <1>5 DEF EndReset
  <2> QED
    BY <1>1, <2>1 DEF DiskInv, Running, NoEnd
<1> QED
  BY <1>3, <1>4, <1>5 DEF EndGoesOn

LEMMA AuthGoesOnKeepsDisk ==
  ASSUME Inv, OneInv, DiskInv, AuthGoesOn
  PROVE  DiskInv'
<1>1. CASE handler.at = "switch" /\ ending = NoEnd /\ BeginSession(handler.who, FALSE)
  <2>1. PICK p \in Person : p = handler.who
    BY <1>1 DEF Inv, SessionTypes, HandlerType, Shapes, People
  <2>2. BeginSession(p, FALSE) /\ ~Running
    BY <1>1, <2>1 DEF OneInv, Alone
  <2> QED
    BY <1>1, <2>2, BeginFillsDisk
<1>2. CASE UNCHANGED <<rt, ending, signout, disk>>
  BY <1>2, DiskBeside
<1> QED
  BY <1>1, <1>2 DEF AuthGoesOn

LEMMA DiskNext ==
  ASSUME Inv, OneInv, DiskInv, [SessionNext]_sessionVars, "event" \notin Races, "endings" \notin Races
  PROVE  DiskInv'
<1>1. CASE \/ UNCHANGED sessionVars
           \/ \E p \in Person : SignedIn(p)
           \/ Refreshed \/ SignedOut
           \/ \E b \in BOOLEAN : SplashTimer(b)
           \/ \E e \in ensures : Ensure(e)
           \/ RetryTimer \/ ResumeStart
           \/ \E c \in starts : Me(c) \/ MeFails(c) \/ Bootstrapped(c) \/ ReadMeta(c) \/ Painted(c)
  <2>1. UNCHANGED <<rt, ending, signout, disk>>
    BY <1>1 DEF sessionVars, SignedIn, Refreshed, SignedOut, SplashTimer, News, Ensure, RetryTimer, ResumeStart,
         Me, MeFails, Bootstrapped, ReadMeta, Painted, Steps
  <2> QED
    BY <2>1, DiskBeside
<1> QED
  BY <1>1, OnAuthKeepsDisk, SignOutKeepsDisk, EndGoesOnKeepsDisk, AuthGoesOnKeepsDisk DEF SessionNext

\* Whose data changes in a step.
LEMMA DiskStep ==
  ASSUME Inv, OneInv, DiskInv, [SessionNext]_sessionVars, NEW p \in Person, disk[p] # disk'[p],
         ending.mode = "involuntary"
  PROVE  "outbox" \in disk'[p]
<1>1. CASE \E q \in Person, b \in BOOLEAN : BeginSession(q, b)
  <2>1. PICK q \in Person, b \in BOOLEAN : BeginSession(q, b)
    BY <1>1
  <2>2. disk' = [disk EXCEPT ![q] = Everything]
    BY <2>1 DEF BeginSession
  <2>3. p = q /\ disk'[p] = Everything
    BY <2>2 DEF Inv, SessionTypes
  <2> QED
    BY <2>3 DEF Everything
<1>2. CASE EndWipe
  <2>1. ending.at = "wipe" /\ disk' = Wiped /\ p # Nobody
    BY <1>2, SessionAssumption DEF EndWipe
  <2>2. p = ending.who /\ disk'[p] = disk[p] \ {"cache"}
    BY <2>1 DEF Wiped
  <2> QED
    BY <2>1, <2>2 DEF DiskInv
<1>3. CASE disk' = disk
  BY <1>3
<1>4. OnAuth => disk' = disk \/ \E q \in Person, b \in BOOLEAN : BeginSession(q, b)
  <2>1. SUFFICES ASSUME OnAuth
                 PROVE  disk' = disk \/ \E q \in Person, b \in BOOLEAN : BeginSession(q, b)
    OBVIOUS
  <2>2. PICK e \in EventType :
          Resumes(e) \/ Switches(e) \/ Begins(e) \/ Ends(e) \/ PaintsStored(e) \/ ShowsSignIn(e) \/ NothingNew(e)
    BY <2>1, Branches DEF Inv, SessionTypes
  <2>3. CASE Begins(e)
    BY <2>3 DEF Begins, EventType, People
  <2>4. CASE PaintsStored(e)
    BY <2>4 DEF PaintsStored, StoredPaints, Inv, SessionTypes, People
  <2>5. CASE Resumes(e) \/ Switches(e) \/ Ends(e) \/ ShowsSignIn(e) \/ NothingNew(e)
    BY <2>5 DEF Resumes, Switches, Ends, ShowsSignIn, NothingNew
  <2> QED
    BY <2>2, <2>3, <2>4, <2>5
<1>5. AuthGoesOn => disk' = disk \/ \E q \in Person, b \in BOOLEAN : BeginSession(q, b)
  BY DEF AuthGoesOn, Inv, SessionTypes, HandlerType, Shapes, People
<1>6. EndGoesOn => disk' = disk \/ EndWipe
  BY DEF EndGoesOn, EndPush, EndReset
<1>7. SignOutGoesOn => disk' = disk
  BY DEF SignOutGoesOn
<1>8. CASE \/ UNCHANGED sessionVars
           \/ \E q \in Person : SignedIn(q)
           \/ Refreshed \/ SignedOut \/ SignOut
           \/ \E b \in BOOLEAN : SplashTimer(b)
           \/ \E e \in ensures : Ensure(e)
           \/ RetryTimer \/ ResumeStart
           \/ \E c \in starts : Me(c) \/ MeFails(c) \/ Bootstrapped(c) \/ ReadMeta(c) \/ Painted(c)
  BY <1>3, <1>8 DEF sessionVars, SignedIn, Refreshed, SignedOut, SplashTimer, News, Ensure, RetryTimer, ResumeStart,
       SignOut, Me, MeFails, Bootstrapped, ReadMeta, Painted
<1> QED
  BY <1>1, <1>2, <1>3, <1>4, <1>5, <1>6, <1>7, <1>8 DEF SessionNext

(* Where neither an auth event nor another end overtakes what is under way: when a sign-out
   is over nothing of the person who left is on the device, and an end that was not asked
   for leaves the unsent messages of everybody (session.ts:366-370). *)
THEOREM EveryLeaveIsTaken ==
  ASSUME "event" \notin Races, "endings" \notin Races
  PROVE  SessionSpec => WipedAsPromised
<1>0. SessionInit => DiskInv
  BY DEF SessionInit, DiskInv, Running, Idle, NoEnd
<1>1. SessionInit => Inv /\ OneInv /\ DiskInv
  BY <1>0, InvInit, OneInit
<1>2. (Inv /\ OneInv /\ DiskInv) /\ [SessionNext]_sessionVars => (Inv /\ OneInv /\ DiskInv)'
  BY InvNext, OneNext, DiskNext
<1>3. Inv /\ OneInv /\ DiskInv /\ [SessionNext]_sessionVars =>
        [/\ ending.at = "reset" /\ signout.at = "ended" => disk[signout.who] = {}
         /\ \A p \in Person : disk[p] # disk'[p] /\ ending.mode = "involuntary" => "outbox" \in disk'[p]
        ]_sessionVars
  <2>1. SUFFICES ASSUME Inv, OneInv, DiskInv, [SessionNext]_sessionVars
                 PROVE  /\ ending.at = "reset" /\ signout.at = "ended" => disk[signout.who] = {}
                        /\ \A p \in Person : disk[p] # disk'[p] /\ ending.mode = "involuntary" => "outbox" \in disk'[p]
    OBVIOUS
  <2>2. ASSUME ending.at = "reset", signout.at = "ended"
        PROVE  disk[signout.who] = {}
    <3>1. ~Running
      BY <2>1, <2>2 DEF OneInv, Alone, NoEnd
    <3> QED
      BY <2>1, <2>2, <3>1 DEF DiskInv
  <2>3. \A p \in Person : disk[p] # disk'[p] /\ ending.mode = "involuntary" => "outbox" \in disk'[p]
    BY <2>1, DiskStep
  <2> QED
    BY <2>2, <2>3
<1> QED
  BY <1>1, <1>2, <1>3, PTL DEF SessionSpec, WipedAsPromised

-----------------------------------------------------------------------------
(* Proofs about ReadState, for any number of devices and messages, as long as what the
   server says reaches a device in the order it was said.  Everything is about one device:
   what it was asked for and has not been answered (`want`, `inflight`, its requests and
   the failed ones on their way back) against what it is going to be told. *)

Kinds == {"read", "unread", "bootstrap"}
CallType == {c \in [dev : Device, kind : Kinds, seq : Nat, no : Nat] : c.kind # "bootstrap" => c.seq # 0}
Said ==
  [kind : {"event"}, of : {"none"}, pos : Nat]
  \cup [kind : {"answer"}, of : Kinds, seq : Nat, pos : Nat]
  \cup {m \in [kind : {"failed"}, of : Kinds, seq : Nat] : m.of # "bootstrap" => m.seq # 0}

ReadTypeOK ==
  /\ last \in Nat /\ position \in Nat /\ asks \in Nat /\ timeouts \in Nat /\ unmarked \in BOOLEAN
  /\ shown \in [Device -> Nat] /\ want \in [Device -> Nat] /\ inflight \in [Device -> Nat]
  /\ timer \in [Device -> BOOLEAN]
  /\ calls \subseteq CallType /\ back \in [Device -> Seq(Said)]

Says(m) == m.kind # "failed"
FailedRead(m) == m.kind = "failed" /\ m.of = "read"

\* A mark_read of `s` by d that the server has not been seen to take.
Owes(d, cs, bk, s) ==
  \/ \E c \in cs : c.dev = d /\ c.kind = "read" /\ c.seq = s
  \/ \E i \in DOMAIN bk : FailedRead(bk[i]) /\ bk[i].seq = s

\* What d is told goes forward, up to the server's position, and an answer covers what it answers.
Forward(bk, po) ==
  /\ \A i, j \in DOMAIN bk : i < j /\ Says(bk[i]) /\ Says(bk[j]) => bk[i].pos <= bk[j].pos
  /\ \A i \in DOMAIN bk : Says(bk[i]) =>
       bk[i].pos <= po /\ (bk[i].of = "read" => bk[i].seq <= bk[i].pos)

\* Everybody knows of s, and nothing on its way says less.
KnownTo(bk, sh, po, s) ==
  s <= sh /\ s <= po /\ \A i \in DOMAIN bk : Says(bk[i]) => s <= bk[i].pos

Kept(d, cs, bk, sh, wa, fl, po) ==
  /\ wa <= sh /\ fl <= sh /\ Forward(bk, po)
  /\ \A s \in Nat : Owes(d, cs, bk, s) => s <= wa \/ s <= fl \/ KnownTo(bk, sh, po, s)

\* What is in flight is going to be answered.
Answered(d, cs, bk, fl) ==
  fl # 0 => \/ \E c \in cs : c.dev = d /\ c.kind = "read" /\ c.seq >= fl
            \/ \E i \in DOMAIN bk : bk[i].of = "read" /\ bk[i].seq >= fl

\* The last position that d is told, or has been told, is the server's; or d has something to say.
LastSaid(bk, po) ==
  \E i \in DOMAIN bk : Says(bk[i]) /\ bk[i].pos = po /\ \A j \in DOMAIN bk : j > i => ~Says(bk[j])
Agreed(d, cs, bk, sh, wa, po) ==
  \/ wa # 0 \/ \E c \in cs : c.dev = d /\ c.kind # "bootstrap"
  \/ \E i \in DOMAIN bk : FailedRead(bk[i])
  \/ LastSaid(bk, po)
  \/ sh = po /\ \A i \in DOMAIN bk : ~Says(bk[i])

DeviceOK(d, cs, bk, sh, wa, fl, po, um) ==
  /\ ~um => Kept(d, cs, bk, sh, wa, fl, po)
  /\ Answered(d, cs, bk, fl)
  /\ "unread" \notin MayFail => Agreed(d, cs, bk, sh, wa, po)

ReadInv ==
  /\ ReadTypeOK
  /\ unmarked \/ \A c \in calls : c.kind # "unread"
  /\ \A d \in Device : DeviceOK(d, calls, back[d], shown[d], want[d], inflight[d], position, unmarked)

-----------------------------------------------------------------------------
(* The data                                                                  *)

LEMMA LargerOf ==
  ASSUME NEW a \in Nat, NEW b \in Nat
  PROVE  Larger(a, b) = (IF a >= b THEN a ELSE b)
<1> DEFINE x == IF a >= b THEN a ELSE b
<1>1. x \in {a, b} /\ \A y \in {a, b} : x >= y
  OBVIOUS
<1>2. \A z \in {a, b} : (\A y \in {a, b} : z >= y) => z = x
  OBVIOUS
<1> HIDE DEF x
<1>3. Max({a, b}) = x
  BY <1>1, <1>2 DEF Max
<1> QED
  BY <1>3 DEF Larger, x

LEMMA SaidFacts ==
  ASSUME NEW m \in Said
  PROVE  /\ Says(m) => m.pos \in Nat
         /\ m.of = "read" => m.seq \in Nat
         /\ m.kind # "event" => m.of \in Kinds /\ m.seq \in Nat
         /\ m.kind = "failed" /\ m.of = "read" => m.seq # 0
<1>1. CASE m \in [kind : {"event"}, of : {"none"}, pos : Nat]
  BY <1>1 DEF Says
<1>2. CASE m \in [kind : {"answer"}, of : Kinds, seq : Nat, pos : Nat]
  BY <1>2 DEF Says
<1>3. CASE m \in {n \in [kind : {"failed"}, of : Kinds, seq : Nat] : n.of # "bootstrap" => n.seq # 0}
  BY <1>3 DEF Says
<1> QED
  BY <1>1, <1>2, <1>3 DEF Said

\* What is said comes after what was said.
LEMMA Longer ==
  ASSUME NEW s \in Seq(Said), NEW t \in Seq(Said), NEW u, u = s \o t
  PROVE  /\ u \in Seq(Said) /\ DOMAIN s \subseteq DOMAIN u /\ DOMAIN s \subseteq Nat /\ DOMAIN u \subseteq Nat
         /\ \A i \in DOMAIN s : u[i] = s[i]
         /\ \A i \in DOMAIN u \ DOMAIN s : (\A j \in DOMAIN s : j < i) /\ \E k \in DOMAIN t : u[i] = t[k]
         /\ \A k \in DOMAIN t : \E i \in DOMAIN u \ DOMAIN s : u[i] = t[k]
         /\ t # <<>> => /\ Len(u) \in DOMAIN u \ DOMAIN s /\ u[Len(u)] = t[Len(t)]
                       /\ \A j \in DOMAIN u : ~ (j > Len(u))
<1>1. /\ Len(s) \in Nat /\ Len(t) \in Nat /\ Len(u) = Len(s) + Len(t) /\ u \in Seq(Said)
      /\ DOMAIN s = 1 .. Len(s) /\ DOMAIN t = 1 .. Len(t) /\ DOMAIN u = 1 .. Len(s) + Len(t)
  OBVIOUS
<1>2. /\ \A i \in 1 .. Len(s) : u[i] = s[i]
      /\ \A k \in 1 .. Len(t) : u[Len(s) + k] = t[k]
  OBVIOUS
<1>3. ASSUME NEW i \in DOMAIN u \ DOMAIN s
      PROVE  (\A j \in DOMAIN s : j < i) /\ \E k \in DOMAIN t : u[i] = t[k]
  <2>1. i - Len(s) \in 1 .. Len(t) /\ i = Len(s) + (i - Len(s)) /\ i > Len(s)
    BY <1>1
  <2>2. u[i] = t[i - Len(s)]
    BY <1>2, <2>1
  <2> QED
    BY <1>1, <2>1, <2>2
<1>4. ASSUME NEW k \in DOMAIN t PROVE \E i \in DOMAIN u \ DOMAIN s : u[i] = t[k]
  <2>1. Len(s) + k \in DOMAIN u \ DOMAIN s
    BY <1>1
  <2> QED
    BY <1>1, <1>2, <2>1
<1>5. ASSUME t # <<>>
      PROVE  /\ Len(u) \in DOMAIN u \ DOMAIN s /\ u[Len(u)] = t[Len(t)]
             /\ \A j \in DOMAIN u : ~ (j > Len(u))
  <2>1. Len(t) >= 1
    BY <1>5
  <2> QED
    BY <1>1, <1>2, <2>1
<1>6. DOMAIN s \subseteq DOMAIN u /\ DOMAIN s \subseteq Nat /\ DOMAIN u \subseteq Nat
  BY <1>1
<1>7. \A i \in DOMAIN s : u[i] = s[i]
  BY <1>1, <1>2
<1> QED
  BY <1>1, <1>3, <1>4, <1>5, <1>6, <1>7

\* The first of what was said is heard.
LEMMA Shorter ==
  ASSUME NEW s \in Seq(Said), 1 \in DOMAIN s, NEW u, u = SubSeq(s, 1, 0) \o SubSeq(s, 2, Len(s))
  PROVE  /\ u \in Seq(Said) /\ DOMAIN u \subseteq Nat /\ DOMAIN s \subseteq Nat
         /\ \A i \in DOMAIN u : i + 1 \in DOMAIN s /\ u[i] = s[i + 1]
         /\ \A i \in DOMAIN s : i = 1 \/ (i - 1 \in DOMAIN u /\ u[i - 1] = s[i] /\ i > 1)
<1>1. Len(s) \in Nat /\ Len(s) >= 1 /\ DOMAIN s = 1 .. Len(s)
  OBVIOUS
<1>2. SubSeq(s, 1, 0) = <<>>
  BY <1>1
<1> DEFINE r == SubSeq(s, 2, Len(s))
<1>3. r \in Seq(Said) /\ Len(r) = Len(s) - 1 /\ \A i \in 1 .. Len(s) - 1 : r[i] = s[i + 1]
  BY <1>1
<1>4. u = r
  BY <1>2, <1>3
<1> HIDE DEF r
<1>5. DOMAIN u = 1 .. Len(s) - 1
  BY <1>3, <1>4
<1> QED
  BY <1>1, <1>3, <1>4, <1>5

-----------------------------------------------------------------------------
(* What a step is to one device                                              *)

\* Something is said to d in answer to c, or because of it; or nothing.
LEMMA Arrives ==
  ASSUME NEW d, NEW cs, cs \subseteq CallType, NEW c \in cs, NEW bk \in Seq(Said), NEW t \in Seq(Said),
         NEW sh \in Nat, NEW wa \in Nat, NEW fl \in Nat, NEW po \in Nat, NEW po2 \in Nat, NEW um,
         DeviceOK(d, cs, bk, sh, wa, fl, po, um), ~um => po <= po2,
         \A k \in DOMAIN t : Says(t[k]) => t[k].pos = po2 /\ (t[k].of = "read" => t[k].seq <= po2),
         \A k \in DOMAIN t : FailedRead(t[k]) => c.dev = d /\ c.kind = "read" /\ t[k].seq = c.seq,
         c.dev = d /\ c.kind = "read" => \E k \in DOMAIN t : t[k].of = "read" /\ t[k].seq = c.seq,
         "unread" \notin MayFail =>
           \/ \E k \in DOMAIN t : FailedRead(t[k])
           \/ t # <<>> /\ Says(t[Len(t)])
           \/ (\A k \in DOMAIN t : ~Says(t[k])) /\ po2 = po /\ ~ (c.dev = d /\ c.kind # "bootstrap")
  PROVE  DeviceOK(d, cs \ {c}, bk \o t, sh, wa, fl, po2, um)
<1> DEFINE bk2 == bk \o t
           cs2 == cs \ {c}
<1>1. /\ bk2 \in Seq(Said) /\ DOMAIN bk \subseteq DOMAIN bk2 /\ DOMAIN bk \subseteq Nat /\ DOMAIN bk2 \subseteq Nat
      /\ \A i \in DOMAIN bk : bk2[i] = bk[i]
      /\ \A i \in DOMAIN bk2 \ DOMAIN bk : (\A j \in DOMAIN bk : j < i) /\ \E k \in DOMAIN t : bk2[i] = t[k]
      /\ \A k \in DOMAIN t : \E i \in DOMAIN bk2 \ DOMAIN bk : bk2[i] = t[k]
      /\ t # <<>> => /\ Len(bk2) \in DOMAIN bk2 \ DOMAIN bk /\ bk2[Len(bk2)] = t[Len(t)]
                     /\ \A j \in DOMAIN bk2 : ~ (j > Len(bk2))
  BY Longer
<1>2. /\ \A i \in DOMAIN bk : bk[i] \in Said
      /\ \A i \in DOMAIN bk2 : bk2[i] \in Said
      /\ \A k \in DOMAIN t : t[k] \in Said
  <2>1. \A s \in Seq(Said) : \A i \in DOMAIN s : s[i] \in Said
    OBVIOUS
  <2> QED
    BY <1>1, <2>1
<1>3. \A m \in Said : /\ Says(m) => m.pos \in Nat
                      /\ m.of = "read" => m.seq \in Nat
  BY SaidFacts
<1> HIDE DEF bk2
<1>4. ASSUME ~um PROVE Kept(d, cs2, bk2, sh, wa, fl, po2)
  <2>1. Kept(d, cs, bk, sh, wa, fl, po) /\ po <= po2
    BY <1>4 DEF DeviceOK
  <2>2. \A i \in DOMAIN bk2 : Says(bk2[i]) /\ i \notin DOMAIN bk =>
          bk2[i].pos = po2 /\ (bk2[i].of = "read" => bk2[i].seq <= po2)
    <3> SUFFICES ASSUME NEW i \in DOMAIN bk2, Says(bk2[i]), i \notin DOMAIN bk
                 PROVE  bk2[i].pos = po2 /\ (bk2[i].of = "read" => bk2[i].seq <= po2)
      OBVIOUS
    <3>1. PICK k \in DOMAIN t : bk2[i] = t[k]
      BY <1>1
    <3>2. Says(t[k])
      BY <3>1
    <3> QED
      BY <3>1, <3>2
  <2>3. \A i \in DOMAIN bk2 : Says(bk2[i]) /\ i \in DOMAIN bk =>
          bk2[i].pos \in Nat /\ bk2[i].pos <= po /\ (bk2[i].of = "read" => bk2[i].seq <= bk2[i].pos)
    BY <1>1, <1>2, <1>3, <2>1 DEF Kept, Forward
  <2>4. \A i, j \in DOMAIN bk2 : i < j /\ Says(bk2[i]) /\ Says(bk2[j]) => bk2[i].pos <= bk2[j].pos
    <3> SUFFICES ASSUME NEW i \in DOMAIN bk2, NEW j \in DOMAIN bk2, i < j, Says(bk2[i]), Says(bk2[j])
                 PROVE  bk2[i].pos <= bk2[j].pos
      OBVIOUS
    <3>1. CASE j \in DOMAIN bk
      <4>1. i \in DOMAIN bk
        BY <1>1, <3>1
      <4> QED
        BY <1>1, <2>1, <3>1, <4>1 DEF Kept, Forward
    <3>2. CASE j \notin DOMAIN bk
      BY <2>1, <2>2, <2>3, <3>2
    <3> QED
      BY <3>1, <3>2
  <2>5. Forward(bk2, po2)
    <3>1. ASSUME NEW i \in DOMAIN bk2, Says(bk2[i])
          PROVE  bk2[i].pos <= po2 /\ (bk2[i].of = "read" => bk2[i].seq <= bk2[i].pos)
      BY <2>1, <2>2, <2>3, <3>1
    <3> QED
      BY <2>4, <3>1 DEF Forward
  <2>6. ASSUME NEW s \in Nat, Owes(d, cs2, bk2, s) PROVE Owes(d, cs, bk, s)
    <3>1. CASE \E e \in cs2 : e.dev = d /\ e.kind = "read" /\ e.seq = s
      BY <3>1 DEF Owes
    <3>2. CASE \E i \in DOMAIN bk2 : FailedRead(bk2[i]) /\ bk2[i].seq = s
      <4>1. PICK i \in DOMAIN bk2 : FailedRead(bk2[i]) /\ bk2[i].seq = s
        BY <3>2
      <4>2. CASE i \in DOMAIN bk
        BY <1>1, <4>1, <4>2 DEF Owes
      <4>3. CASE i \notin DOMAIN bk
        <5>1. c.dev = d /\ c.kind = "read" /\ c.seq = s
          <6>1. PICK k \in DOMAIN t : bk2[i] = t[k]
            BY <1>1, <4>3
          <6>2. FailedRead(t[k]) /\ t[k].seq = s
            BY <4>1, <6>1
          <6> QED
            BY <6>2
        <5> QED
          BY <5>1 DEF Owes
      <4> QED
        BY <4>2, <4>3
    <3> QED
      BY <2>6, <3>1, <3>2 DEF Owes
  <2>7. ASSUME NEW s \in Nat, KnownTo(bk, sh, po, s) PROVE KnownTo(bk2, sh, po2, s)
    <3>1. s <= po2
      BY <2>1, <2>7 DEF KnownTo
    <3>2. ASSUME NEW i \in DOMAIN bk2, Says(bk2[i]) PROVE s <= bk2[i].pos
      BY <1>1, <2>2, <2>7, <3>1, <3>2 DEF KnownTo
    <3> QED
      BY <2>7, <3>1, <3>2 DEF KnownTo
  <2> HIDE DEF cs2
  <2> QED
    BY <2>1, <2>5, <2>6, <2>7 DEF Kept
<1>5. Answered(d, cs2, bk2, fl)
  <2> SUFFICES ASSUME fl # 0
               PROVE  \/ \E e \in cs2 : e.dev = d /\ e.kind = "read" /\ e.seq >= fl
                      \/ \E i \in DOMAIN bk2 : bk2[i].of = "read" /\ bk2[i].seq >= fl
    BY DEF Answered
  <2>1. CASE \E i \in DOMAIN bk : bk[i].of = "read" /\ bk[i].seq >= fl
    BY <1>1, <2>1
  <2>2. CASE \E e \in cs : e.dev = d /\ e.kind = "read" /\ e.seq >= fl
    <3>1. PICK e \in cs : e.dev = d /\ e.kind = "read" /\ e.seq >= fl
      BY <2>2
    <3>2. CASE e = c
      <4>1. PICK k \in DOMAIN t : t[k].of = "read" /\ t[k].seq = c.seq
        BY <3>1, <3>2
      <4>2. PICK i \in DOMAIN bk2 : bk2[i] = t[k]
        BY <1>1
      <4> QED
        BY <3>1, <3>2, <4>1, <4>2
    <3> QED
      BY <3>1, <3>2
  <2> QED
    BY <2>1, <2>2 DEF DeviceOK, Answered
<1>6. ASSUME "unread" \notin MayFail PROVE Agreed(d, cs2, bk2, sh, wa, po2)
  <2>1. CASE \E k \in DOMAIN t : FailedRead(t[k])
    BY <1>1, <2>1 DEF Agreed
  <2>2. CASE t # <<>> /\ Says(t[Len(t)])
    <3>1. Len(t) \in DOMAIN t
      BY <2>2
    <3>2. t[Len(t)].pos = po2
      BY <2>2, <3>1
    <3>3. LastSaid(bk2, po2)
      BY <1>1, <2>2, <3>2 DEF LastSaid
    <3> QED
      BY <3>3 DEF Agreed
  <2>3. CASE (\A k \in DOMAIN t : ~Says(t[k])) /\ po2 = po /\ ~ (c.dev = d /\ c.kind # "bootstrap")
    <3>1. Agreed(d, cs, bk, sh, wa, po)
      BY <1>6 DEF DeviceOK
    <3>2. \A i \in DOMAIN bk2 \ DOMAIN bk : ~Says(bk2[i])
      BY <1>1, <2>3
    <3>3. CASE wa # 0 \/ \E e \in cs : e.dev = d /\ e.kind # "bootstrap"
      BY <2>3, <3>3 DEF Agreed
    <3>4. CASE \E i \in DOMAIN bk : FailedRead(bk[i])
      BY <1>1, <3>4 DEF Agreed
    <3>5. CASE LastSaid(bk, po)
      <4>1. PICK i \in DOMAIN bk : Says(bk[i]) /\ bk[i].pos = po /\ \A j \in DOMAIN bk : j > i => ~Says(bk[j])
        BY <3>5 DEF LastSaid
      <4>2. i \in DOMAIN bk2 /\ bk2[i] = bk[i]
        BY <1>1
      <4>3. \A j \in DOMAIN bk2 : j > i => ~Says(bk2[j])
        BY <1>1, <3>2, <4>1
      <4>4. LastSaid(bk2, po2)
        BY <2>3, <4>1, <4>2, <4>3 DEF LastSaid
      <4> QED
        BY <4>4 DEF Agreed
    <3>6. CASE sh = po /\ \A i \in DOMAIN bk : ~Says(bk[i])
      <4>1. \A i \in DOMAIN bk2 : ~Says(bk2[i])
        BY <1>1, <3>2, <3>6
      <4> QED
        BY <2>3, <3>6, <4>1 DEF Agreed
    <3> QED
      BY <3>1, <3>3, <3>4, <3>5, <3>6 DEF Agreed
  <2> QED
    BY <1>6, <2>1, <2>2, <2>3
<1> QED
  BY <1>4, <1>5, <1>6 DEF DeviceOK, bk2

\* The first of what was said is heard: m, which leaves fl2 in flight.
LEMMA Heard ==
  ASSUME NEW d, NEW cs, cs \subseteq CallType, NEW bk \in Seq(Said), 1 \in DOMAIN bk, NEW m, m = bk[1],
         NEW sh \in Nat, NEW wa \in Nat, NEW fl \in Nat, NEW po \in Nat, NEW um,
         DeviceOK(d, cs, bk, sh, wa, fl, po, um),
         NEW fl2, fl2 = (IF m.of = "read" /\ fl <= m.seq THEN 0 ELSE fl),
         NEW sh2 \in Nat, NEW wa2 \in Nat,
         Says(m) => wa2 = wa /\ sh2 = Larger(m.pos, Larger(wa, fl2)),
         ~Says(m) => sh2 = sh /\ wa2 = (IF m.of = "read" THEN Larger(wa, m.seq) ELSE wa)
  PROVE  DeviceOK(d, cs, SubSeq(bk, 1, 0) \o SubSeq(bk, 2, Len(bk)), sh2, wa2, fl2, po, um)
<1> DEFINE bk2 == SubSeq(bk, 1, 0) \o SubSeq(bk, 2, Len(bk))
<1>1. /\ bk2 \in Seq(Said) /\ DOMAIN bk2 \subseteq Nat /\ DOMAIN bk \subseteq Nat
      /\ \A i \in DOMAIN bk2 : i + 1 \in DOMAIN bk /\ bk2[i] = bk[i + 1]
      /\ \A i \in DOMAIN bk : i = 1 \/ (i - 1 \in DOMAIN bk2 /\ bk2[i - 1] = bk[i] /\ i > 1)
  BY Shorter
<1>2. \A i \in DOMAIN bk : bk[i] \in Said
  OBVIOUS
<1>3. /\ \A n \in Said : /\ Says(n) => n.pos \in Nat
                         /\ n.of = "read" => n.seq \in Nat
      /\ m \in Said /\ (m.kind = "failed" /\ m.of = "read" => m.seq # 0)
  BY <1>2, SaidFacts
<1>4. fl2 \in Nat /\ (fl2 = 0 \/ fl2 = fl)
  OBVIOUS
<1>5. Says(m) => m.pos \in Nat /\ wa2 = wa /\ sh2 >= m.pos /\ sh2 >= wa /\ sh2 >= fl2
                 /\ (wa = 0 /\ fl2 = 0 => sh2 = m.pos)
  <2> SUFFICES ASSUME Says(m)
               PROVE  m.pos \in Nat /\ wa2 = wa /\ sh2 >= m.pos /\ sh2 >= wa /\ sh2 >= fl2
                      /\ (wa = 0 /\ fl2 = 0 => sh2 = m.pos)
    OBVIOUS
  <2>1. m.pos \in Nat
    BY <1>3
  <2>2. Larger(wa, fl2) = IF wa >= fl2 THEN wa ELSE fl2
    BY <1>4, LargerOf
  <2>3. Larger(wa, fl2) \in Nat
    BY <1>4, <2>2
  <2>4. Larger(m.pos, Larger(wa, fl2)) = IF m.pos >= Larger(wa, fl2) THEN m.pos ELSE Larger(wa, fl2)
    BY <2>1, <2>3, LargerOf
  <2> QED
    BY <1>4, <2>1, <2>2, <2>3, <2>4
<1>6. FailedRead(m) => m.seq \in Nat /\ m.seq # 0 /\ sh2 = sh /\ wa2 = (IF wa >= m.seq THEN wa ELSE m.seq)
  <2>1. FailedRead(m) => m.seq \in Nat /\ m.of = "read" /\ ~Says(m) /\ m.seq # 0
    BY <1>3 DEF FailedRead, Says
  <2>2. FailedRead(m) => Larger(wa, m.seq) = (IF wa >= m.seq THEN wa ELSE m.seq)
    BY <2>1, LargerOf
  <2> QED
    BY <2>1, <2>2
<1>7. ~Says(m) /\ ~FailedRead(m) => sh2 = sh /\ wa2 = wa /\ fl2 = fl
  BY DEF FailedRead, Says
<1> HIDE DEF bk2
<1>8. ASSUME ~um PROVE Kept(d, cs, bk2, sh2, wa2, fl2, po)
  <2>1. Kept(d, cs, bk, sh, wa, fl, po)
    BY <1>8 DEF DeviceOK
  <2>2. ASSUME NEW i \in DOMAIN bk2
        PROVE  /\ i + 1 \in DOMAIN bk /\ bk2[i] = bk[i + 1] /\ i + 1 > 1 /\ bk[i + 1] \in Said /\ i \in Nat
               /\ Says(m) /\ Says(bk2[i]) => m.pos <= bk2[i].pos
    <3>1. i + 1 \in DOMAIN bk /\ bk2[i] = bk[i + 1] /\ i + 1 > 1 /\ i \in Nat
      BY <1>1
    <3>2. Says(m) /\ Says(bk[i + 1]) => m.pos <= bk[i + 1].pos
      BY <2>1, <3>1 DEF Kept, Forward
    <3> QED
      BY <1>2, <3>1, <3>2
  <2>3. Forward(bk2, po)
    <3>1. ASSUME NEW i \in DOMAIN bk2, NEW j \in DOMAIN bk2, i < j, Says(bk2[i]), Says(bk2[j])
          PROVE  bk2[i].pos <= bk2[j].pos
      <4>1. i + 1 < j + 1 /\ i + 1 \in DOMAIN bk /\ j + 1 \in DOMAIN bk
            /\ bk2[i] = bk[i + 1] /\ bk2[j] = bk[j + 1]
        BY <2>2, <3>1
      <4> QED
        BY <2>1, <3>1, <4>1 DEF Kept, Forward
    <3>2. ASSUME NEW i \in DOMAIN bk2, Says(bk2[i])
          PROVE  bk2[i].pos <= po /\ (bk2[i].of = "read" => bk2[i].seq <= bk2[i].pos)
      BY <2>1, <2>2, <3>2 DEF Kept, Forward
    <3> QED
      BY <3>1, <3>2 DEF Forward
  <2>4. ASSUME NEW s \in Nat, KnownTo(bk, sh, po, s) PROVE KnownTo(bk2, sh2, po, s)
    <3>1. s <= sh2
      <4>1. CASE Says(m)
        <5>1. s <= m.pos
          BY <2>4, <4>1 DEF KnownTo
        <5> QED
          BY <1>5, <4>1, <5>1
      <4>2. CASE ~Says(m)
        BY <2>4, <4>2 DEF KnownTo
      <4> QED
        BY <4>1, <4>2
    <3>2. \A i \in DOMAIN bk2 : Says(bk2[i]) => s <= bk2[i].pos
      BY <2>2, <2>4 DEF KnownTo
    <3> QED
      BY <2>4, <3>1, <3>2 DEF KnownTo
  <2>5. ASSUME NEW s \in Nat, Owes(d, cs, bk2, s) PROVE Owes(d, cs, bk, s)
    <3>1. CASE \E c \in cs : c.dev = d /\ c.kind = "read" /\ c.seq = s
      BY <3>1 DEF Owes
    <3>2. CASE \E i \in DOMAIN bk2 : FailedRead(bk2[i]) /\ bk2[i].seq = s
      <4>1. PICK i \in DOMAIN bk2 : FailedRead(bk2[i]) /\ bk2[i].seq = s
        BY <3>2
      <4>2. i + 1 \in DOMAIN bk /\ FailedRead(bk[i + 1]) /\ bk[i + 1].seq = s
        BY <2>2, <4>1
      <4> QED
        BY <4>2 DEF Owes
    <3> QED
      BY <2>5, <3>1, <3>2 DEF Owes
  <2>6. FailedRead(m) => m.seq <= sh /\ (m.seq <= wa \/ m.seq <= fl \/ KnownTo(bk, sh, po, m.seq))
    <3>1. FailedRead(m) => Owes(d, cs, bk, m.seq)
      BY DEF Owes
    <3>2. FailedRead(m) => m.seq <= wa \/ m.seq <= fl \/ KnownTo(bk, sh, po, m.seq)
      BY <1>6, <2>1, <3>1 DEF Kept
    <3> QED
      BY <1>6, <2>1, <3>2 DEF Kept, KnownTo
  <2>7. wa2 <= sh2 /\ fl2 <= sh2
    <3>1. CASE Says(m)
      BY <1>4, <1>5, <3>1
    <3>2. CASE FailedRead(m)
      BY <1>4, <1>6, <2>1, <2>6, <3>2 DEF Kept
    <3>3. CASE ~Says(m) /\ ~FailedRead(m)
      BY <1>7, <2>1, <3>3 DEF Kept
    <3> QED
      BY <3>1, <3>2, <3>3
  <2>8. ASSUME NEW s \in Nat, s <= wa PROVE s <= wa2
    <3>1. CASE Says(m)
      BY <1>5, <2>8, <3>1
    <3>2. CASE FailedRead(m)
      BY <1>6, <2>8, <3>2
    <3>3. CASE ~Says(m) /\ ~FailedRead(m)
      BY <1>7, <2>8, <3>3
    <3> QED
      BY <3>1, <3>2, <3>3
  <2>9. ASSUME NEW s \in Nat, s <= fl PROVE s <= wa2 \/ s <= fl2 \/ KnownTo(bk2, sh2, po, s)
    <3>1. CASE fl2 = fl
      BY <2>9, <3>1
    <3>2. CASE fl2 # fl
      <4>1. m.of = "read" /\ fl <= m.seq /\ m.seq \in Nat /\ s <= m.seq
        BY <1>3, <2>9, <3>2
      <4>2. CASE Says(m)
        <5>1. m.seq <= m.pos /\ m.pos <= po /\ m.pos \in Nat
          BY <1>5, <2>1, <4>1, <4>2 DEF Kept, Forward
        <5>2. s <= m.pos /\ s <= po /\ s <= sh2
          BY <1>5, <4>1, <4>2, <5>1
        <5>3. ASSUME NEW i \in DOMAIN bk2, Says(bk2[i]) PROVE s <= bk2[i].pos
          <6>1. m.pos <= bk2[i].pos /\ bk2[i].pos \in Nat
            BY <1>3, <2>2, <4>2, <5>3
          <6> QED
            BY <5>1, <5>2, <6>1
        <5> QED
          BY <5>2, <5>3 DEF KnownTo
      <4>3. CASE FailedRead(m)
        BY <1>6, <4>1, <4>3
      <4>4. CASE ~Says(m) /\ ~FailedRead(m)
        BY <1>7, <3>2, <4>4
      <4> QED
        BY <4>2, <4>3, <4>4
    <3> QED
      BY <3>1, <3>2
  <2> QED
    BY <2>1, <2>3, <2>4, <2>5, <2>7, <2>8, <2>9 DEF Kept
<1>9. Answered(d, cs, bk2, fl2)
  <2> SUFFICES ASSUME fl2 # 0
               PROVE  \/ \E c \in cs : c.dev = d /\ c.kind = "read" /\ c.seq >= fl2
                      \/ \E i \in DOMAIN bk2 : bk2[i].of = "read" /\ bk2[i].seq >= fl2
    BY DEF Answered
  <2>1. fl2 = fl /\ fl # 0 /\ ~ (m.of = "read" /\ fl <= m.seq)
    BY <1>4
  <2>2. CASE \E i \in DOMAIN bk : bk[i].of = "read" /\ bk[i].seq >= fl
    <3>1. PICK i \in DOMAIN bk : bk[i].of = "read" /\ bk[i].seq >= fl
      BY <2>2
    <3>2. i # 1
      <4>1. bk[i].seq \in Nat
        BY <1>2, <1>3, <3>1
      <4> QED
        BY <2>1, <3>1, <4>1
    <3>3. i - 1 \in DOMAIN bk2 /\ bk2[i - 1] = bk[i]
      BY <1>1, <3>2
    <3> QED
      BY <2>1, <3>1, <3>3
  <2> QED
    BY <2>1, <2>2 DEF DeviceOK, Answered
<1>10. ASSUME "unread" \notin MayFail PROVE Agreed(d, cs, bk2, sh2, wa2, po)
  <2>1. Agreed(d, cs, bk, sh, wa, po) /\ Answered(d, cs, bk, fl)
    BY <1>10 DEF DeviceOK
  <2>2. CASE FailedRead(m)
    <3>1. wa2 # 0
      BY <1>6, <2>2
    <3> QED
      BY <3>1 DEF Agreed
  <2>3. CASE ~FailedRead(m) /\ wa2 = wa
    <3>1. CASE wa # 0 \/ \E c \in cs : c.dev = d /\ c.kind # "bootstrap"
      BY <2>3, <3>1 DEF Agreed
    <3>2. CASE \E i \in DOMAIN bk : FailedRead(bk[i])
      <4>1. PICK i \in DOMAIN bk : FailedRead(bk[i])
        BY <3>2
      <4>2. i - 1 \in DOMAIN bk2 /\ bk2[i - 1] = bk[i]
        BY <1>1, <2>3, <4>1
      <4> QED
        BY <4>1, <4>2 DEF Agreed
    <3>3. CASE LastSaid(bk, po)
      <4>1. PICK i \in DOMAIN bk : Says(bk[i]) /\ bk[i].pos = po /\ \A j \in DOMAIN bk : j > i => ~Says(bk[j])
        BY <3>3 DEF LastSaid
      <4>2. CASE i # 1
        <5>1. i - 1 \in DOMAIN bk2 /\ bk2[i - 1] = bk[i] /\ i \in Nat
          BY <1>1, <4>2
        <5>2. ASSUME NEW j \in DOMAIN bk2, j > i - 1 PROVE ~Says(bk2[j])
          <6>1. j + 1 \in DOMAIN bk /\ bk2[j] = bk[j + 1] /\ j \in Nat
            BY <1>1
          <6>2. j + 1 > i
            BY <5>1, <5>2, <6>1
          <6> QED
            BY <4>1, <6>1, <6>2
        <5>3. LastSaid(bk2, po)
          BY <4>1, <5>1, <5>2 DEF LastSaid
        <5> QED
          BY <5>3 DEF Agreed
      <4>3. CASE i = 1
        <5>1. Says(m) /\ m.pos = po
          BY <4>1, <4>3
        <5>2. ASSUME NEW j \in DOMAIN bk2 PROVE ~Says(bk2[j]) /\ j + 1 \in DOMAIN bk /\ bk2[j] = bk[j + 1]
          <6>1. j + 1 \in DOMAIN bk /\ bk2[j] = bk[j + 1] /\ j + 1 > 1
            <7>1. j + 1 \in DOMAIN bk /\ bk2[j] = bk[j + 1] /\ j \in Nat /\ j # 0
              <8>1. DOMAIN bk = 1 .. Len(bk) /\ Len(bk) \in Nat
                OBVIOUS
              <8>2. j + 1 \in DOMAIN bk /\ bk2[j] = bk[j + 1] /\ j \in Nat
                BY <1>1
              <8>3. DOMAIN bk2 = 1 .. Len(bk2)
                BY <1>1
              <8> QED
                BY <8>2, <8>3
            <7> QED
              BY <7>1
          <6> QED
            BY <4>1, <4>3, <6>1
        <5>3. CASE fl2 = 0
          <6>1. wa # 0 \/ sh2 = po
            BY <1>5, <5>1, <5>3
          <6> QED
            BY <2>3, <5>2, <6>1 DEF Agreed
        <5>4. CASE fl2 # 0
          <6>1. fl # 0 /\ fl2 = fl /\ ~ (m.of = "read" /\ fl <= m.seq)
            BY <1>4, <5>4
          <6>2. CASE \E c \in cs : c.dev = d /\ c.kind = "read" /\ c.seq >= fl
            BY <6>2 DEF Agreed
          <6>3. CASE \E k \in DOMAIN bk : bk[k].of = "read" /\ bk[k].seq >= fl
            <7>1. PICK k \in DOMAIN bk : bk[k].of = "read" /\ bk[k].seq >= fl
              BY <6>3
            <7>2. k # 1
              <8>1. bk[k].seq \in Nat
                BY <1>2, <1>3, <7>1
              <8> QED
                BY <6>1, <7>1, <8>1
            <7>3. k - 1 \in DOMAIN bk2 /\ bk2[k - 1] = bk[k]
              BY <1>1, <7>2
            <7>4. FailedRead(bk2[k - 1])
              BY <5>2, <7>1, <7>3 DEF FailedRead, Says
            <7> QED
              BY <7>3, <7>4 DEF Agreed
          <6> QED
            BY <2>1, <6>1, <6>2, <6>3 DEF Answered
        <5> QED
          BY <5>3, <5>4
      <4> QED
        BY <4>2, <4>3
    <3>4. CASE sh = po /\ \A i \in DOMAIN bk : ~Says(bk[i])
      <4>1. sh2 = po
        BY <1>7, <2>3, <3>4
      <4>2. \A i \in DOMAIN bk2 : ~Says(bk2[i])
        BY <1>1, <3>4
      <4> QED
        BY <4>1, <4>2 DEF Agreed
    <3> QED
      BY <2>1, <3>1, <3>2, <3>3, <3>4 DEF Agreed
  <2>4. Says(m) \/ ~FailedRead(m) => wa2 = wa
    BY <1>5, <1>7
  <2> QED
    BY <2>2, <2>3, <2>4 DEF FailedRead, Says
<1> QED
  BY <1>8, <1>9, <1>10 DEF DeviceOK, bk2

\* d is asked for s.
LEMMA Marked ==
  ASSUME NEW d, NEW cs, NEW bk \in Seq(Said), NEW sh \in Nat, NEW wa \in Nat, NEW fl \in Nat, NEW po \in Nat,
         NEW um, DeviceOK(d, cs, bk, sh, wa, fl, po, um), NEW s \in Nat, s > Larger(sh, Larger(wa, fl))
  PROVE  DeviceOK(d, cs, bk, s, s, fl, po, um)
<1>1. s > sh /\ s > wa /\ s > fl
  <2>1. Larger(wa, fl) = (IF wa >= fl THEN wa ELSE fl) /\ Larger(wa, fl) \in Nat
    BY LargerOf
  <2>2. Larger(sh, Larger(wa, fl)) = IF sh >= Larger(wa, fl) THEN sh ELSE Larger(wa, fl)
    BY <2>1, LargerOf
  <2> QED
    BY <2>1, <2>2
<1>2. ASSUME ~um PROVE Kept(d, cs, bk, s, s, fl, po)
  <2>1. Kept(d, cs, bk, sh, wa, fl, po)
    BY <1>2 DEF DeviceOK
  <2>2. \A n \in Nat : Owes(d, cs, bk, n) => n <= s \/ n <= fl \/ KnownTo(bk, s, po, n)
    BY <1>1, <2>1 DEF Kept, KnownTo
  <2> QED
    BY <1>1, <2>1, <2>2 DEF Kept
<1>3. Agreed(d, cs, bk, s, s, po)
  BY <1>1 DEF Agreed
<1> QED
  BY <1>2, <1>3 DEF DeviceOK

\* It asks the server.
LEMMA Flushed ==
  ASSUME NEW d, NEW cs, cs \subseteq CallType, NEW bk \in Seq(Said),
         NEW sh \in Nat, NEW wa \in Nat, NEW fl \in Nat, NEW po \in Nat,
         NEW um, DeviceOK(d, cs, bk, sh, wa, fl, po, um), NEW c, c.dev = d, c.kind = "read", c.seq = wa
  PROVE  DeviceOK(d, cs \cup {c}, bk, sh, 0, Larger(fl, wa), po, um)
<1> DEFINE fl2 == Larger(fl, wa)
           cs2 == cs \cup {c}
<1>1. fl2 = (IF fl >= wa THEN fl ELSE wa) /\ fl2 \in Nat
  BY LargerOf
<1> HIDE DEF fl2
<1>2. ASSUME ~um PROVE Kept(d, cs2, bk, sh, 0, fl2, po)
  <2>1. Kept(d, cs, bk, sh, wa, fl, po)
    BY <1>2 DEF DeviceOK
  <2>2. ASSUME NEW n \in Nat, Owes(d, cs2, bk, n) PROVE n <= fl2 \/ KnownTo(bk, sh, po, n)
    <3>1. Owes(d, cs, bk, n) \/ n = wa
      BY <2>2 DEF Owes
    <3> QED
      BY <1>1, <2>1, <3>1 DEF Kept
  <2>3. 0 <= sh /\ fl2 <= sh
    BY <1>1, <2>1 DEF Kept
  <2> HIDE DEF cs2
  <2> QED
    BY <2>1, <2>2, <2>3 DEF Kept
<1>3. Answered(d, cs2, bk, fl2)
  <2>1. CASE fl2 = wa
    BY <1>1, <2>1 DEF Answered
  <2>2. CASE fl2 = fl
    BY <2>2 DEF DeviceOK, Answered
  <2> QED
    BY <1>1, <2>1, <2>2
<1>4. Agreed(d, cs2, bk, sh, 0, po)
  BY DEF Agreed
<1> QED
  BY <1>2, <1>3, <1>4 DEF DeviceOK, fl2

\* Somebody else asks, or it asks for something else.
LEMMA Others ==
  ASSUME NEW d, NEW cs, NEW bk, NEW sh, NEW wa, NEW fl, NEW po, NEW um,
         DeviceOK(d, cs, bk, sh, wa, fl, po, um), NEW c, c.dev # d \/ c.kind # "read"
  PROVE  DeviceOK(d, cs \cup {c}, bk, sh, wa, fl, po, um)
<1> DEFINE cs2 == cs \cup {c}
<1>1. \A n \in Nat : Owes(d, cs2, bk, n) <=> Owes(d, cs, bk, n)
  BY DEF Owes
<1>2. Answered(d, cs2, bk, fl)
  BY DEF DeviceOK, Answered
<1>3. Agreed(d, cs, bk, sh, wa, po) => Agreed(d, cs2, bk, sh, wa, po)
  BY DEF Agreed
<1> HIDE DEF cs2
<1>4. Kept(d, cs, bk, sh, wa, fl, po) => Kept(d, cs2, bk, sh, wa, fl, po)
  BY <1>1 DEF Kept
<1>5. DeviceOK(d, cs2, bk, sh, wa, fl, po, um)
  BY <1>2, <1>3, <1>4 DEF DeviceOK
<1> QED
  BY <1>5 DEF cs2

-----------------------------------------------------------------------------
(* Requests and answers                                                      *)

LEMMA CallFacts ==
  ASSUME ReadTypeOK, NEW c \in calls
  PROVE  /\ c \in CallType /\ c.dev \in Device /\ c.kind \in Kinds /\ c.seq \in Nat
         /\ c.kind # "bootstrap" => c.seq # 0
BY DEF ReadTypeOK, CallType

LEMMA Positions ==
  ASSUME ReadTypeOK, NEW c \in calls, NEW po, po = NewPosition(c)
  PROVE  /\ po \in Nat /\ (c.kind # "unread" => position <= po)
         /\ c.kind = "read" => c.seq <= po
         /\ c.kind = "bootstrap" => po = position
<1>1. c.seq \in Nat /\ c.kind \in Kinds /\ position \in Nat
      /\ (c.kind = "unread" => c.seq # 0)
  BY CallFacts DEF ReadTypeOK
<1>2. Larger(position, c.seq) = IF position >= c.seq THEN position ELSE c.seq
  BY <1>1, LargerOf
<1>3. CASE c.kind = "read"
  <2>1. po = Larger(position, c.seq)
    BY <1>3 DEF NewPosition
  <2> QED
    BY <1>1, <1>2, <1>3, <2>1
<1>4. CASE c.kind = "unread"
  <2>1. po = c.seq - 1
    BY <1>4 DEF NewPosition
  <2> QED
    BY <1>1, <1>4, <2>1
<1>5. CASE c.kind = "bootstrap"
  <2>1. po = position
    BY <1>5 DEF NewPosition
  <2> QED
    BY <1>1, <1>5, <2>1
<1> QED
  BY <1>1, <1>3, <1>4, <1>5 DEF Kinds

\* What the server says to d when it serves c.
Sayings(d, c, po, answered, t) ==
  /\ \A k \in DOMAIN t : Says(t[k]) => t[k].pos = po /\ (t[k].of = "read" => t[k].seq <= po)
  /\ \A k \in DOMAIN t : FailedRead(t[k]) => c.dev = d /\ c.kind = "read" /\ t[k].seq = c.seq
  /\ c.dev = d /\ c.kind = "read" => \E k \in DOMAIN t : t[k].of = "read" /\ t[k].seq = c.seq
  /\ "unread" \notin MayFail =>
       \/ \E k \in DOMAIN t : FailedRead(t[k])
       \/ t # <<>> /\ Says(t[Len(t)])
       \/ (\A k \in DOMAIN t : ~Says(t[k])) /\ po = position /\ ~ (c.dev = d /\ c.kind # "bootstrap")

LEMMA Joined ==
  ASSUME NEW s \in Seq(Said), NEW t \in Seq(Said), NEW u \in Seq(Said)
  PROVE  (s \o t) \o u = s \o (t \o u)
BY ConcatAssociative, SMT

LEMMA Pair ==
  ASSUME NEW a \in Said, NEW b \in Said
  PROVE <<a>> \o <<b>> = <<a, b>>
<1> DEFINE s == <<a>> \o <<b>>
           t == <<a, b>>
<1>1. <<a>> \in Seq(Said) /\ <<b>> \in Seq(Said) /\ t \in Seq(Said) /\ Len(t) = 2 /\ t[1] = a /\ t[2] = b
  OBVIOUS
<1>2. s \in Seq(Said) /\ Len(s) = 2 /\ s[1] = a /\ s[2] = b
  BY <1>1
<1> HIDE DEF s, t
<1>3. s = t
  BY <1>1, <1>2, SeqEqual
<1> QED
  BY <1>3 DEF s, t

LEMMA ServeSays ==
  ASSUME ReadTypeOK, NEW c \in calls, NEW answered \in BOOLEAN, Serve(c, answered), NEW d \in Device
  PROVE  \E t \in Seq(Said) : back'[d] = back[d] \o t /\ Sayings(d, c, position', answered, t)
<1> DEFINE event == [kind |-> "event", of |-> "none", pos |-> position']
           answer == IF answered THEN [kind |-> "answer", of |-> c.kind, seq |-> c.seq, pos |-> position']
                                 ELSE [kind |-> "failed", of |-> c.kind, seq |-> c.seq]
           told == IF position' # position THEN <<event>> ELSE <<>>
           own == IF d = c.dev THEN <<answer>> ELSE <<>>
<1>1. back'[d] = back[d] \o told \o own
  BY DEF Serve, ReadTypeOK
<1>2. /\ position' \in Nat /\ (c.kind = "read" => c.seq <= position')
      /\ c.kind = "bootstrap" => position' = position
  BY Positions DEF Serve
<1>3. c.dev \in Device /\ c.kind \in Kinds /\ c.seq \in Nat /\ (c.kind # "bootstrap" => c.seq # 0)
  BY CallFacts
<1>4. /\ event \in Said /\ Says(event) /\ event.pos = position' /\ event.of = "none" /\ ~FailedRead(event)
  BY <1>2 DEF Said, Says, FailedRead
<1>5. /\ answer \in Said /\ answer.of = c.kind /\ answer.seq = c.seq
      /\ answered => Says(answer) /\ answer.pos = position' /\ ~FailedRead(answer)
      /\ ~answered => ~Says(answer) /\ (FailedRead(answer) <=> c.kind = "read")
  BY <1>2, <1>3 DEF Said, Says, FailedRead
<1>6. ~answered => c.kind \in MayFail
  BY DEF Serve
<1> HIDE DEF event, answer
<1>7. back'[d] = back[d] \o (told \o own) /\ told \in Seq(Said) /\ own \in Seq(Said)
  <2>1. back[d] \in Seq(Said) /\ told \in Seq(Said) /\ own \in Seq(Said)
    BY <1>4, <1>5 DEF ReadTypeOK
  <2> HIDE DEF told, own
  <2>2. (back[d] \o told) \o own = back[d] \o (told \o own)
    BY <2>1, Joined
  <2> QED
    BY <1>1, <2>1, <2>2, Zenon
<1>8. CASE told = <<>> /\ own = <<>>
  <2>1. back'[d] = back[d] \o <<>> /\ <<>> \in Seq(Said)
    <3>1. <<>> \o <<>> = <<>> /\ <<>> \in Seq(Said)
      BY ConcatEmptySeq
    <3> QED
      BY <1>7, <1>8, <3>1
  <2>2. position' = position /\ c.dev # d
    BY <1>8
  <2>3. Sayings(d, c, position', answered, <<>>)
    BY <2>2 DEF Sayings
  <2> QED
    BY <2>1, <2>3
<1>9. CASE told = <<>> /\ own # <<>>
  <2> DEFINE t == <<answer>>
  <2>1. back'[d] = back[d] \o t /\ t \in Seq(Said) /\ c.dev = d /\ position' = position
    <3>1. told = <<>> /\ own = t /\ c.dev = d /\ position' = position
      BY <1>9
    <3>2. t \in Seq(Said)
      BY <1>5
    <3> HIDE DEF t, told, own
    <3>3. <<>> \o t = t
      BY <3>2, ConcatEmptySeq
    <3> QED
      BY <1>7, <3>1, <3>2, <3>3
  <2>2. DOMAIN t = {1} /\ t[1] = answer /\ Len(t) = 1 /\ t # <<>>
    OBVIOUS
  <2> HIDE DEF t
  <2>3. Sayings(d, c, position', answered, t)
    <3>1. \A k \in DOMAIN t : Says(t[k]) => t[k].pos = position' /\ (t[k].of = "read" => t[k].seq <= position')
      BY <1>2, <1>5, <2>2
    <3>2. \A k \in DOMAIN t : FailedRead(t[k]) => c.dev = d /\ c.kind = "read" /\ t[k].seq = c.seq
      BY <1>5, <2>1, <2>2
    <3>3. c.kind = "read" => \E k \in DOMAIN t : t[k].of = "read" /\ t[k].seq = c.seq
      BY <1>5, <2>2
    <3>4. "unread" \notin MayFail =>
            \/ \E k \in DOMAIN t : FailedRead(t[k])
            \/ t # <<>> /\ Says(t[Len(t)])
            \/ (\A k \in DOMAIN t : ~Says(t[k])) /\ position' = position /\ ~ (c.dev = d /\ c.kind # "bootstrap")
      BY <1>3, <1>5, <1>6, <2>1, <2>2 DEF Kinds
    <3> QED
      BY <3>1, <3>2, <3>3, <3>4 DEF Sayings
  <2> QED
    BY <2>1, <2>3
<1>10. CASE told # <<>> /\ own = <<>>
  <2> DEFINE t == <<event>>
  <2>1. back'[d] = back[d] \o t /\ t \in Seq(Said) /\ c.dev # d
    <3>1. told = t /\ own = <<>> /\ c.dev # d
      BY <1>10
    <3>2. t \in Seq(Said)
      BY <1>4
    <3> HIDE DEF t, told, own
    <3>3. t \o <<>> = t
      BY <3>2, ConcatEmptySeq
    <3> QED
      BY <1>7, <3>1, <3>2, <3>3
  <2>2. DOMAIN t = {1} /\ t[1] = event /\ Len(t) = 1 /\ t # <<>>
    OBVIOUS
  <2> HIDE DEF t
  <2>3. Sayings(d, c, position', answered, t)
    BY <1>4, <2>1, <2>2 DEF Sayings
  <2> QED
    BY <2>1, <2>3
<1>11. CASE told # <<>> /\ own # <<>>
  <2> DEFINE t == <<event, answer>>
  <2>1. c.dev = d /\ c.kind # "bootstrap" /\ told = <<event>> /\ own = <<answer>>
    BY <1>2, <1>11
  <2>2. t \in Seq(Said)
    BY <1>4, <1>5
  <2>3. back'[d] = back[d] \o t
    <3>1. <<event>> \o <<answer>> = t
      BY <1>4, <1>5, Pair
    <3> QED
      BY <1>7, <2>1, <3>1
  <2>4. DOMAIN t = {1, 2} /\ t[1] = event /\ t[2] = answer /\ Len(t) = 2 /\ t # <<>>
    OBVIOUS
  <2> HIDE DEF t
  <2>5. Sayings(d, c, position', answered, t)
    <3>1. \A k \in DOMAIN t : Says(t[k]) => t[k].pos = position' /\ (t[k].of = "read" => t[k].seq <= position')
      BY <1>2, <1>4, <1>5, <2>4
    <3>2. \A k \in DOMAIN t : FailedRead(t[k]) => c.dev = d /\ c.kind = "read" /\ t[k].seq = c.seq
      BY <1>4, <1>5, <2>1, <2>4
    <3>3. c.kind = "read" => \E k \in DOMAIN t : t[k].of = "read" /\ t[k].seq = c.seq
      BY <1>5, <2>4
    <3>4. "unread" \notin MayFail => (\E k \in DOMAIN t : FailedRead(t[k])) \/ Says(t[Len(t)])
      BY <1>3, <1>5, <1>6, <2>1, <2>4 DEF Kinds
    <3> QED
      BY <2>4, <3>1, <3>2, <3>3, <3>4 DEF Sayings
  <2> QED
    BY <2>2, <2>3, <2>5
<1> QED
  BY <1>8, <1>9, <1>10, <1>11

-----------------------------------------------------------------------------
(* One step                                                                  *)

LEMMA LargerNat ==
  ASSUME NEW a \in Nat, NEW b \in Nat
  PROVE  Larger(a, b) \in Nat
BY LargerOf

LEMMA MarkStep ==
  ASSUME ReadInv, NEW d \in Device, NEW s \in 1 .. MaxSeq, Mark(d, s)
  PROVE  ReadInv'
<1>1. s \in Nat /\ s > Larger(shown[d], Larger(want[d], inflight[d]))
  BY ReadAssumption DEF Mark, Floor
<1>2. ReadTypeOK /\ asks' = asks + 1
  BY DEF ReadInv, Mark, Ask
<1>3. ReadTypeOK'
  BY <1>1, <1>2 DEF ReadTypeOK, Mark, Ask
<1>4. /\ want' = [want EXCEPT ![d] = s] /\ shown' = [shown EXCEPT ![d] = s]
      /\ UNCHANGED <<position, back, inflight, calls, unmarked>>
  BY DEF Mark, Ask
<1>5. ASSUME NEW e \in Device
      PROVE  DeviceOK(e, calls, back[e], shown'[e], want'[e], inflight[e], position, unmarked)
  <2>1. DeviceOK(e, calls, back[e], shown[e], want[e], inflight[e], position, unmarked)
    BY DEF ReadInv
  <2>2. /\ back[e] \in Seq(Said) /\ shown[e] \in Nat /\ want[e] \in Nat /\ inflight[e] \in Nat /\ position \in Nat
        /\ shown'[e] = (IF e = d THEN s ELSE shown[e]) /\ want'[e] = (IF e = d THEN s ELSE want[e])
    BY <1>2, <1>4 DEF ReadTypeOK
  <2>3. CASE e = d
    BY <1>1, <2>1, <2>2, <2>3, Marked
  <2> QED
    BY <2>1, <2>2, <2>3
<1> QED
  BY <1>3, <1>4, <1>5 DEF ReadInv

LEMMA FlushStep ==
  ASSUME ReadInv, NEW d \in Device, Flush(d)
  PROVE  ReadInv'
<1> DEFINE c == Call(d, "read", want[d])
<1>1. ReadTypeOK /\ want[d] # 0 /\ want[d] \in Nat /\ inflight[d] \in Nat /\ calls \subseteq CallType
  BY DEF ReadInv, ReadTypeOK, Flush
<1>2. c \in CallType /\ c.dev = d /\ c.kind = "read" /\ c.seq = want[d]
  BY <1>1 DEF Call, CallType, Kinds, ReadTypeOK
<1> HIDE DEF c
<1>3. /\ calls' = calls \cup {c} /\ inflight' = [inflight EXCEPT ![d] = Larger(inflight[d], want[d])]
      /\ want' = [want EXCEPT ![d] = 0] /\ timer' = [timer EXCEPT ![d] = FALSE]
      /\ UNCHANGED <<last, position, shown, back, asks, timeouts, unmarked>>
  BY DEF Flush, c
<1>4. Larger(inflight[d], want[d]) \in Nat
  BY <1>1, LargerNat
<1>5. ReadTypeOK'
  BY <1>1, <1>2, <1>3, <1>4 DEF ReadTypeOK
<1>6. ASSUME NEW e \in Device
      PROVE  DeviceOK(e, calls \cup {c}, back[e], shown[e], want'[e], inflight'[e], position, unmarked)
  <2>1. DeviceOK(e, calls, back[e], shown[e], want[e], inflight[e], position, unmarked)
    BY DEF ReadInv
  <2>2. /\ back[e] \in Seq(Said) /\ shown[e] \in Nat /\ want[e] \in Nat /\ inflight[e] \in Nat /\ position \in Nat
        /\ want'[e] = (IF e = d THEN 0 ELSE want[e])
        /\ inflight'[e] = (IF e = d THEN Larger(inflight[d], want[d]) ELSE inflight[e])
    BY <1>1, <1>3 DEF ReadTypeOK
  <2>3. CASE e = d
    BY <1>1, <1>2, <2>1, <2>2, <2>3, Flushed
  <2>4. CASE e # d
    BY <1>2, <2>1, <2>2, <2>4, Others
  <2> QED
    BY <2>3, <2>4
<1>7. unmarked \/ \A e \in calls \cup {c} : e.kind # "unread"
  BY <1>2 DEF ReadInv
<1> QED
  BY <1>3, <1>5, <1>6, <1>7 DEF ReadInv

LEMMA MarkUnreadStep ==
  ASSUME ReadInv, NEW d \in Device, NEW s \in 1 .. MaxSeq, MarkUnread(d, s)
  PROVE  ReadInv'
<1> DEFINE c == Call(d, "unread", s)
<1>1. ReadTypeOK /\ calls \subseteq CallType /\ s \in Nat /\ s # 0
  BY ReadAssumption DEF ReadInv, ReadTypeOK
<1>2. c \in CallType /\ c.dev = d /\ c.kind = "unread"
  BY <1>1 DEF Call, CallType, Kinds, ReadTypeOK
<1> HIDE DEF c
<1>3. /\ calls' = calls \cup {c} /\ inflight' = [inflight EXCEPT ![d] = 0] /\ want' = [want EXCEPT ![d] = 0]
      /\ timer' = [timer EXCEPT ![d] = FALSE] /\ unmarked' = TRUE /\ asks' = asks + 1
      /\ UNCHANGED <<last, position, shown, back, timeouts>>
  BY DEF MarkUnread, Ask, c
<1>4. ReadTypeOK'
  BY <1>1, <1>2, <1>3 DEF ReadTypeOK
<1>5. ASSUME NEW e \in Device
      PROVE  DeviceOK(e, calls \cup {c}, back[e], shown[e], want'[e], inflight'[e], position, TRUE)
  <2>1. DeviceOK(e, calls, back[e], shown[e], want[e], inflight[e], position, unmarked)
    BY DEF ReadInv
  <2>2. /\ want'[e] = (IF e = d THEN 0 ELSE want[e])
        /\ inflight'[e] = (IF e = d THEN 0 ELSE inflight[e])
    BY <1>1, <1>3 DEF ReadTypeOK
  <2>3. CASE e = d
    <3>1. Agreed(e, calls \cup {c}, back[e], shown[e], 0, position)
      BY <1>2, <2>3 DEF Agreed
    <3> QED
      BY <2>2, <2>3, <3>1 DEF DeviceOK, Answered
  <2>4. CASE e # d
    <3>1. DeviceOK(e, calls \cup {c}, back[e], shown[e], want[e], inflight[e], position, unmarked)
      BY <1>2, <2>1, <2>4, Others
    <3> QED
      BY <2>2, <2>4, <3>1 DEF DeviceOK
  <2> QED
    BY <2>3, <2>4
<1> QED
  BY <1>3, <1>4, <1>5 DEF ReadInv

LEMMA RefreshStep ==
  ASSUME ReadInv, NEW d \in Device, Refresh(d)
  PROVE  ReadInv'
<1> DEFINE c == Call(d, "bootstrap", 0)
<1>1. ReadTypeOK /\ calls \subseteq CallType
  BY DEF ReadInv, ReadTypeOK
<1>2. c \in CallType /\ c.kind = "bootstrap"
  BY <1>1 DEF Call, CallType, Kinds, ReadTypeOK
<1> HIDE DEF c
<1>3. /\ calls' = calls \cup {c} /\ asks' = asks + 1
      /\ UNCHANGED <<last, position, shown, want, inflight, timer, back, timeouts, unmarked>>
  BY DEF Refresh, Ask, c
<1>4. ReadTypeOK'
  BY <1>1, <1>2, <1>3 DEF ReadTypeOK
<1>5. \A e \in Device : DeviceOK(e, calls \cup {c}, back[e], shown[e], want[e], inflight[e], position, unmarked)
  BY <1>2, Others DEF ReadInv
<1>6. unmarked \/ \A e \in calls \cup {c} : e.kind # "unread"
  BY <1>2 DEF ReadInv
<1> QED
  BY <1>3, <1>4, <1>5, <1>6 DEF ReadInv

LEMMA ServeStep ==
  ASSUME ReadInv, NEW c \in calls, NEW answered \in BOOLEAN, Serve(c, answered)
  PROVE  ReadInv'
<1>1. ReadTypeOK /\ calls \subseteq CallType /\ position \in Nat
  BY DEF ReadInv, ReadTypeOK
<1>2. /\ calls' = calls \ {c} /\ position' = NewPosition(c) /\ timeouts' = IF answered THEN timeouts ELSE timeouts + 1
      /\ UNCHANGED <<last, shown, want, inflight, timer, asks, unmarked>>
  BY DEF Serve
<1>3. position' \in Nat /\ (c.kind # "unread" => position <= position')
  BY <1>1, <1>2, Positions
<1>4. ASSUME NEW d \in Device
      PROVE  back'[d] \in Seq(Said) /\ DeviceOK(d, calls \ {c}, back'[d], shown[d], want[d], inflight[d], position', unmarked)
  <2>1. PICK t \in Seq(Said) : back'[d] = back[d] \o t /\ Sayings(d, c, position', answered, t)
    BY <1>1, ServeSays
  <2>2. back[d] \in Seq(Said) /\ shown[d] \in Nat /\ want[d] \in Nat /\ inflight[d] \in Nat
    BY <1>1 DEF ReadTypeOK
  <2>3. DeviceOK(d, calls, back[d], shown[d], want[d], inflight[d], position, unmarked)
    BY DEF ReadInv
  <2>4. ~unmarked => position <= position'
    BY <1>3 DEF ReadInv
  <2>5. /\ \A k \in DOMAIN t : Says(t[k]) => t[k].pos = position' /\ (t[k].of = "read" => t[k].seq <= position')
        /\ \A k \in DOMAIN t : FailedRead(t[k]) => c.dev = d /\ c.kind = "read" /\ t[k].seq = c.seq
        /\ c.dev = d /\ c.kind = "read" => \E k \in DOMAIN t : t[k].of = "read" /\ t[k].seq = c.seq
        /\ "unread" \notin MayFail =>
             \/ \E k \in DOMAIN t : FailedRead(t[k])
             \/ t # <<>> /\ Says(t[Len(t)])
             \/ (\A k \in DOMAIN t : ~Says(t[k])) /\ position' = position /\ ~ (c.dev = d /\ c.kind # "bootstrap")
    BY <2>1 DEF Sayings
  <2>6. DeviceOK(d, calls \ {c}, back[d] \o t, shown[d], want[d], inflight[d], position', unmarked)
    BY <1>1, <1>3, <2>2, <2>3, <2>4, <2>5, Arrives
  <2>7. back[d] \o t \in Seq(Said)
    BY <2>2
  <2> QED
    BY <2>1, <2>6, <2>7
<1>5. back' = [d \in Device |-> back'[d]]
  BY DEF Serve
<1>6. back' \in [Device -> Seq(Said)]
  BY <1>4, <1>5
<1>7. timeouts' \in Nat
  BY <1>1, <1>2 DEF ReadTypeOK
<1>8. ReadTypeOK'
  BY <1>1, <1>2, <1>3, <1>6, <1>7 DEF ReadTypeOK
<1>9. unmarked \/ \A e \in calls \ {c} : e.kind # "unread"
  BY DEF ReadInv
<1> QED
  BY <1>2, <1>4, <1>8, <1>9 DEF ReadInv

LEMMA LoseCallStep ==
  ASSUME ReadInv, NEW c \in calls, LoseCall(c)
  PROVE  ReadInv'
<1> DEFINE m == [kind |-> "failed", of |-> c.kind, seq |-> c.seq]
<1>1. ReadTypeOK /\ calls \subseteq CallType /\ position \in Nat /\ timeouts \in Nat
  BY DEF ReadInv, ReadTypeOK
<1>2. c.dev \in Device /\ c.kind \in Kinds /\ c.seq \in Nat /\ (c.kind # "bootstrap" => c.seq # 0)
  BY <1>1, CallFacts
<1>3. m \in Said /\ ~Says(m) /\ m.of = c.kind /\ m.seq = c.seq /\ (FailedRead(m) <=> c.kind = "read")
  BY <1>2 DEF Said, Says, FailedRead
<1>4. /\ calls' = calls \ {c} /\ back' = [back EXCEPT ![c.dev] = Append(back[c.dev], m)] /\ timeouts' = timeouts + 1
      /\ c.kind \in MayFail
      /\ UNCHANGED <<last, position, shown, want, inflight, timer, asks, unmarked>>
  BY DEF LoseCall
<1> HIDE DEF m
<1>5. ASSUME NEW d \in Device
      PROVE  back'[d] \in Seq(Said) /\ DeviceOK(d, calls \ {c}, back'[d], shown[d], want[d], inflight[d], position, unmarked)
  <2>1. back[d] \in Seq(Said) /\ shown[d] \in Nat /\ want[d] \in Nat /\ inflight[d] \in Nat
    BY <1>1 DEF ReadTypeOK
  <2>2. DeviceOK(d, calls, back[d], shown[d], want[d], inflight[d], position, unmarked)
    BY DEF ReadInv
  <2> DEFINE t == IF d = c.dev THEN <<m>> ELSE <<>>
  <2>3. t \in Seq(Said) /\ (\A k \in DOMAIN t : t[k] = m /\ d = c.dev) /\ (d = c.dev => 1 \in DOMAIN t)
    BY <1>3
  <2>4. back'[d] = back[d] \o t
    <3>1. CASE d = c.dev
      <4>1. back'[d] = Append(back[d], m) /\ t = <<m>>
        BY <1>1, <1>4, <3>1 DEF ReadTypeOK
      <4> QED
        BY <1>3, <2>1, <4>1, AppendIsConcat
    <3>2. CASE d # c.dev
      <4>1. back'[d] = back[d] /\ t = <<>>
        BY <1>1, <1>4, <3>2 DEF ReadTypeOK
      <4> QED
        BY <2>1, <4>1, ConcatEmptySeq
    <3> QED
      BY <3>1, <3>2
  <2> HIDE DEF t
  <2>5. \A k \in DOMAIN t : Says(t[k]) => t[k].pos = position /\ (t[k].of = "read" => t[k].seq <= position)
    BY <1>3, <2>3
  <2>6. \A k \in DOMAIN t : FailedRead(t[k]) => c.dev = d /\ c.kind = "read" /\ t[k].seq = c.seq
    BY <1>3, <2>3
  <2>7. c.dev = d /\ c.kind = "read" => \E k \in DOMAIN t : t[k].of = "read" /\ t[k].seq = c.seq
    BY <1>3, <2>3
  <2>8. "unread" \notin MayFail =>
          \/ \E k \in DOMAIN t : FailedRead(t[k])
          \/ t # <<>> /\ Says(t[Len(t)])
          \/ (\A k \in DOMAIN t : ~Says(t[k])) /\ position = position /\ ~ (c.dev = d /\ c.kind # "bootstrap")
    <3> SUFFICES ASSUME "unread" \notin MayFail
                 PROVE  \/ \E k \in DOMAIN t : FailedRead(t[k])
                        \/ (\A k \in DOMAIN t : ~Says(t[k])) /\ ~ (c.dev = d /\ c.kind # "bootstrap")
      OBVIOUS
    <3>1. c.kind # "unread"
      BY <1>4
    <3>2. CASE d = c.dev /\ c.kind = "read"
      BY <1>3, <2>3, <3>2
    <3>3. CASE ~ (d = c.dev /\ c.kind = "read")
      BY <1>2, <1>3, <2>3, <3>1, <3>3 DEF Kinds
    <3> QED
      BY <3>2, <3>3
  <2>9. ~unmarked => position <= position
    BY <1>1
  <2>10. DeviceOK(d, calls \ {c}, back[d] \o t, shown[d], want[d], inflight[d], position, unmarked)
    BY <1>1, <2>1, <2>2, <2>3, <2>5, <2>6, <2>7, <2>8, <2>9, Arrives
  <2>11. back[d] \o t \in Seq(Said)
    BY <2>1, <2>3
  <2> QED
    BY <2>4, <2>10, <2>11
<1>6. back' \in [Device -> Seq(Said)]
  <2>1. DOMAIN back' = Device /\ back' = [d \in Device |-> back'[d]]
    BY <1>1, <1>4 DEF ReadTypeOK
  <2> QED
    BY <1>5, <2>1
<1>7. ReadTypeOK'
  BY <1>1, <1>4, <1>6 DEF ReadTypeOK
<1>8. unmarked \/ \A e \in calls \ {c} : e.kind # "unread"
  BY DEF ReadInv
<1> QED
  BY <1>4, <1>5, <1>7, <1>8 DEF ReadInv

LEMMA HearStep ==
  ASSUME ReadInv, InOrder, NEW d \in Device, NEW i \in DOMAIN back[d], Hear(d, i)
  PROVE  ReadInv'
<1> DEFINE m == back[d][1]
           left == IF m.of = "read" /\ inflight[d] <= m.seq THEN 0 ELSE inflight[d]
           rest == SubSeq(back[d], 1, 0) \o SubSeq(back[d], 2, Len(back[d]))
<1>1. i = 1 /\ 1 \in DOMAIN back[d]
  BY DEF Hear
<1>2. ReadTypeOK /\ calls \subseteq CallType /\ position \in Nat /\ back[d] \in Seq(Said)
      /\ shown[d] \in Nat /\ want[d] \in Nat /\ inflight[d] \in Nat
  BY DEF ReadInv, ReadTypeOK
<1>3. /\ m \in Said /\ (Says(m) => m.pos \in Nat) /\ (m.of = "read" => m.seq \in Nat)
  <2>1. m \in Said
    BY <1>1, <1>2
  <2> QED
    BY <2>1, SaidFacts
<1>4. left \in Nat
  BY <1>2
<1>5. back' = [back EXCEPT ![d] = rest] /\ inflight' = [inflight EXCEPT ![d] = left]
      /\ UNCHANGED <<last, position, calls, asks, timeouts, unmarked>>
  <2>1. 1 - 1 = 0 /\ 1 + 1 = 2
    OBVIOUS
  <2> QED
    BY <1>1, <2>1 DEF Hear
<1>6. /\ Says(m) => /\ shown' = [shown EXCEPT ![d] = Larger(m.pos, Larger(want[d], left))]
                    /\ UNCHANGED <<want, timer>>
      /\ FailedRead(m) => /\ want' = [want EXCEPT ![d] = Larger(want[d], m.seq)]
                          /\ timer' = [timer EXCEPT ![d] = TRUE] /\ shown' = shown
      /\ ~Says(m) /\ m.of # "read" => UNCHANGED <<shown, want, timer>>
  BY <1>1 DEF Hear, ApplyRead, AskAgain, Says, FailedRead
<1> HIDE DEF m, left, rest
<1>7. Larger(want[d], left) \in Nat /\ (Says(m) => Larger(m.pos, Larger(want[d], left)) \in Nat)
      /\ (m.of = "read" => Larger(want[d], m.seq) \in Nat)
  BY <1>2, <1>3, <1>4, LargerNat
<1>8. ~Says(m) => FailedRead(m) \/ m.of # "read"
  BY DEF Says, FailedRead
<1>9. shown' \in [Device -> Nat] /\ want' \in [Device -> Nat] /\ timer' \in [Device -> BOOLEAN]
  <2>1. CASE Says(m)
    BY <1>2, <1>6, <1>7, <2>1 DEF ReadTypeOK
  <2>2. CASE FailedRead(m)
    BY <1>2, <1>6, <1>7, <2>2 DEF ReadTypeOK, FailedRead
  <2>3. CASE ~Says(m) /\ m.of # "read"
    BY <1>2, <1>6, <2>3 DEF ReadTypeOK
  <2> QED
    BY <1>8, <2>1, <2>2, <2>3
<1>10. rest \in Seq(Said)
  BY <1>1, <1>2, Shorter DEF rest
<1>11. ReadTypeOK'
  BY <1>2, <1>4, <1>5, <1>9, <1>10 DEF ReadTypeOK
<1>12. /\ Says(m) => want'[d] = want[d] /\ shown'[d] = Larger(m.pos, Larger(want[d], left))
       /\ ~Says(m) => shown'[d] = shown[d] /\ want'[d] = (IF m.of = "read" THEN Larger(want[d], m.seq) ELSE want[d])
       /\ \A e \in Device \ {d} : shown'[e] = shown[e] /\ want'[e] = want[e]
  <2>1. CASE Says(m)
    BY <1>2, <1>6, <2>1 DEF ReadTypeOK
  <2>2. CASE FailedRead(m)
    BY <1>2, <1>6, <2>2 DEF ReadTypeOK, FailedRead, Says
  <2>3. CASE ~Says(m) /\ m.of # "read"
    BY <1>2, <1>6, <2>3 DEF ReadTypeOK
  <2> QED
    BY <1>8, <2>1, <2>2, <2>3
<1>13. ASSUME NEW e \in Device
       PROVE  DeviceOK(e, calls, back'[e], shown'[e], want'[e], inflight'[e], position, unmarked)
  <2>1. DeviceOK(e, calls, back[e], shown[e], want[e], inflight[e], position, unmarked)
    BY DEF ReadInv
  <2>2. CASE e = d
    <3>1. back'[d] = rest /\ inflight'[d] = left /\ shown'[d] \in Nat /\ want'[d] \in Nat
      BY <1>2, <1>5, <1>9 DEF ReadTypeOK
    <3>2. left = (IF m.of = "read" /\ inflight[d] <= m.seq THEN 0 ELSE inflight[d]) /\ m = back[d][1]
      BY DEF left, m
    <3>3. DeviceOK(d, calls, SubSeq(back[d], 1, 0) \o SubSeq(back[d], 2, Len(back[d])), shown'[d], want'[d], left, position, unmarked)
      <4>1. DeviceOK(d, calls, back[d], shown[d], want[d], inflight[d], position, unmarked)
        BY <2>1, <2>2
      <4>2. /\ Says(m) => want'[d] = want[d] /\ shown'[d] = Larger(m.pos, Larger(want[d], left))
            /\ ~Says(m) => shown'[d] = shown[d] /\ want'[d] = (IF m.of = "read" THEN Larger(want[d], m.seq) ELSE want[d])
        BY <1>12
      <4> QED
        BY <1>1, <1>2, <3>1, <3>2, <4>1, <4>2, Heard
    <3> QED
      BY <2>2, <3>1, <3>3 DEF rest
  <2>3. CASE e # d
    <3>1. back'[e] = back[e] /\ inflight'[e] = inflight[e]
      BY <1>2, <1>5, <2>3 DEF ReadTypeOK
    <3> QED
      BY <1>12, <2>1, <2>3, <3>1
  <2> QED
    BY <2>2, <2>3
<1> QED
  BY <1>5, <1>11, <1>13 DEF ReadInv

LEMMA ReadStep ==
  ASSUME ReadInv, InOrder, [ReadNext]_readVars
  PROVE  ReadInv'
<1>1. CASE ReadNext
  <2>1. CASE Post
    <3>1. /\ last' = last + 1
          /\ UNCHANGED <<position, shown, want, inflight, timer, calls, back, asks, timeouts, unmarked>>
      BY <2>1 DEF Post
    <3>2. ReadTypeOK'
      BY <3>1 DEF ReadInv, ReadTypeOK
    <3> QED
      BY <3>1, <3>2 DEF ReadInv
  <2>2. ASSUME NEW d \in Device, Flush(d) PROVE ReadInv'
    BY <2>2, FlushStep
  <2>3. ASSUME NEW d \in Device, Refresh(d) PROVE ReadInv'
    BY <2>3, RefreshStep
  <2>4. ASSUME NEW d \in Device, NEW s \in 1 .. MaxSeq, Mark(d, s) PROVE ReadInv'
    BY <2>4, MarkStep
  <2>5. ASSUME NEW d \in Device, NEW s \in 1 .. MaxSeq, MarkUnread(d, s) PROVE ReadInv'
    BY <2>5, MarkUnreadStep
  <2>6. ASSUME NEW d \in Device, NEW i \in DOMAIN back[d], Hear(d, i) PROVE ReadInv'
    BY <2>6, HearStep
  <2>7. ASSUME NEW c \in calls, LoseCall(c) PROVE ReadInv'
    BY <2>7, LoseCallStep
  <2>8. ASSUME NEW c \in calls, NEW a \in BOOLEAN, Serve(c, a) PROVE ReadInv'
    BY <2>8, ServeStep
  <2> QED
    BY <1>1, <2>1, <2>2, <2>3, <2>4, <2>5, <2>6, <2>7, <2>8 DEF ReadNext
<1>2. CASE UNCHANGED readVars
  <2>1. UNCHANGED <<last, position, shown, want, inflight, timer, calls, back, asks, timeouts, unmarked>>
    BY <1>2 DEF readVars
  <2>2. ReadTypeOK'
    BY <2>1 DEF ReadInv, ReadTypeOK
  <2> QED
    BY <2>1, <2>2 DEF ReadInv
<1> QED
  BY <1>1, <1>2

LEMMA ReadStart ==
  ASSUME ReadInit
  PROVE  ReadInv
<1>1. last \in Nat /\ position = 0
  BY ReadAssumption DEF ReadInit
<1>2. /\ shown = [d \in Device |-> 0] /\ want = [d \in Device |-> 0] /\ inflight = [d \in Device |-> 0]
      /\ timer = [d \in Device |-> FALSE] /\ calls = {} /\ back = [d \in Device |-> <<>>]
      /\ asks = 0 /\ timeouts = 0 /\ unmarked = FALSE
  BY DEF ReadInit
<1>3. ReadTypeOK
  <2>1. back \in [Device -> Seq(Said)]
    <3>1. <<>> \in Seq(Said)
      OBVIOUS
    <3> QED
      BY <1>2, <3>1
  <2>2. calls \subseteq CallType
    BY <1>2
  <2> QED
    BY <1>1, <1>2, <2>1, <2>2 DEF ReadTypeOK
<1>4. ASSUME NEW d \in Device PROVE DeviceOK(d, {}, <<>>, 0, 0, 0, 0, FALSE)
  <2>1. \A s \in Nat : ~Owes(d, {}, <<>>, s)
    BY DEF Owes
  <2>2. Kept(d, {}, <<>>, 0, 0, 0, 0)
    BY <2>1 DEF Kept, Forward
  <2>3. Agreed(d, {}, <<>>, 0, 0, 0)
    BY DEF Agreed
  <2> QED
    BY <2>2, <2>3 DEF DeviceOK, Answered
<1> QED
  BY <1>1, <1>2, <1>3, <1>4 DEF ReadInv

-----------------------------------------------------------------------------
(* The theorems                                                              *)

\* Where what the server says arrives in its order, the inductive invariant always holds.
THEOREM ReadInvariance ==
  ASSUME InOrder
  PROVE  ReadSpec => []ReadInv
<1>1. ReadInit => ReadInv
  BY ReadStart
<1>2. ReadInv /\ [ReadNext]_readVars => ReadInv'
  BY ReadStep
<1> QED
  BY <1>1, <1>2, PTL DEF ReadSpec

\* What a person read on a device and the server has not confirmed is never shown as unread
\* again (applyRead's floor), whatever requests fail, as long as nobody marks unread.
THEOREM UnconfirmedAlwaysKept ==
  ASSUME InOrder
  PROVE  ReadSpec => []UnconfirmedKept
<1>1. ReadInv => UnconfirmedKept
  <2> SUFFICES ASSUME ReadInv, NEW d \in Device, shown[d] < Floor(d) PROVE unmarked
    BY DEF UnconfirmedKept
  <2>1. shown[d] \in Nat /\ want[d] \in Nat /\ inflight[d] \in Nat /\ unmarked \in BOOLEAN
    BY DEF ReadInv, ReadTypeOK
  <2>2. Floor(d) = IF want[d] >= inflight[d] THEN want[d] ELSE inflight[d]
    BY <2>1, LargerOf DEF Floor
  <2>3. ~unmarked => want[d] <= shown[d] /\ inflight[d] <= shown[d]
    BY DEF ReadInv, DeviceOK, Kept
  <2> QED
    BY <2>1, <2>2, <2>3
<1> QED
  BY <1>1, ReadInvariance, PTL

\* If a request to mark unread never fails, all devices of a person show the server's position
\* once nothing is on its way (0220_read_state.sql: tabs and phones reconcile).
THEOREM DevicesComeToAgree ==
  ASSUME InOrder, "unread" \notin MayFail
  PROVE  ReadSpec => []DevicesAgree
<1>1. ReadInv => DevicesAgree
  <2> SUFFICES ASSUME ReadInv, calls = {}, \A d \in Device : back[d] = <<>> /\ Floor(d) = 0, NEW d \in Device
               PROVE  shown[d] = position
    BY DEF DevicesAgree
  <2>1. want[d] \in Nat /\ inflight[d] \in Nat
    BY DEF ReadInv, ReadTypeOK
  <2>2. Floor(d) = IF want[d] >= inflight[d] THEN want[d] ELSE inflight[d]
    BY <2>1, LargerOf DEF Floor
  <2>3. want[d] = 0
    BY <2>1, <2>2
  <2>4. Agreed(d, {}, <<>>, shown[d], 0, position)
    BY <2>3 DEF ReadInv, DeviceOK
  <2> QED
    BY <2>4 DEF Agreed, LastSaid
<1> QED
  BY <1>1, ReadInvariance, PTL
=============================================================================
