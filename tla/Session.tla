------------------------------- MODULE Session -------------------------------
(* The session lifecycle of one tab (sync/session.ts, runtime.ts): auth events are
   handled one after the other, a session's start is a chain of awaits, and its end
   is another one. Generation numbers make late answers harmless; what one person
   leaves behind on the device, in memory and at the server must not meet the next.

   A coroutine of a start is a record: the session `gen` and person it was begun
   for, where it awaits (`at`), what follows an offline copy (`next`), and whether
   the auth queue waits for it. Two of one session at one place are one.

   Left out: choosing among organizations, the set-a-password screen, the import of
   a legacy outbox, and what another tab does to the same storage except that the
   person signs in or out there. *)
EXTENDS Naturals, Sequences, FiniteSets

CONSTANTS Person, Nobody,
          MaxNews,      \* bound: auth events that are not the first one
          MaxFailed,    \* bound: starts that fail
          Races         \* which of "event", "paint" and "endings" may happen

ASSUME SessionAssumption == Nobody \notin Person

VARIABLES auth,         \* whose session auth-js stores
          events, handler,   \* authQueue: what waits, and what its head awaits
          session,      \* store.session: status and userId
          gen, rt,      \* runtime.ts: sessionGen, and the runtime with the gen it has
          outboxes,     \* the outboxes that were started and not stopped
          starts, startDone, retry,
          hubOn, hubWho,     \* the hub runs; whose topics it was given
          painted,      \* whose data the store holds
          ending,       \* endSession under way
          signout,      \* signOut under way
          disk,         \* [Person -> what of theirs is on the device]
          sub, owner,   \* the browser's push subscription, and whose device it is
          ensures,      \* ensurePushOnLogin under way
          news, failed

boot_ == <<starts, startDone, retry>>
hub_ == <<hubOn, hubWho>>
push_ == <<sub, owner, ensures>>
bounds_ == <<news, failed>>
sessionVars == <<auth, events, handler, session, gen, rt, outboxes, boot_, hub_, painted, ending,
                 signout, disk, push_, bounds_>>

NoRt == [who |-> Nobody, gen |-> 0]
Idle == [at |-> "idle", who |-> Nobody]
NoEnd == [mode |-> "none", who |-> Nobody, at |-> "over"]
Everything == {"cache", "outbox", "drafts"}

SessionInit ==
  /\ auth \in Person \cup {Nobody}
  /\ \E w \in {auth, Nobody} : events = <<[ev |-> "initial", who |-> w]>>
  /\ handler = Idle /\ session = [status |-> "unknown", who |-> Nobody]
  /\ gen = 0 /\ rt = NoRt /\ outboxes = {}
  /\ starts = {} /\ startDone = FALSE /\ retry = FALSE
  /\ hubOn = FALSE /\ hubWho = Nobody /\ painted = Nobody
  /\ ending = NoEnd /\ signout = Idle
  /\ disk = [p \in Person |-> Everything]
  /\ sub = FALSE /\ owner = Nobody /\ ensures = {}
  /\ news = 0 /\ failed = 0

------------------------------------------------------------------------------
(* Outside: the auth library, in this tab or another one of the browser. *)
Told(ev, w) == events' = Append(events, [ev |-> ev, who |-> w])
News(w) == /\ news < MaxNews /\ news' = news + 1 /\ auth' = w
           /\ UNCHANGED <<handler, session, gen, rt, outboxes, boot_, hub_, painted, ending, signout,
                          disk, push_, failed>>

SignedIn(p) == p # auth /\ News(p) /\ Told("signed_in", p)
Refreshed == auth # Nobody /\ News(auth) /\ Told("refreshed", auth)
SignedOut == auth # Nobody /\ News(Nobody) /\ Told("signed_out", Nobody)

(* The timers behind the splash: after 3 s a stored session is painted, after
   20 s the sign-in screen shows. *)
SplashTimer(limit) ==
  /\ session.status = "unknown" /\ \A i \in DOMAIN events : events[i].ev \notin {"stored", "limit"}
  /\ News(auth) /\ Told(IF limit THEN "limit" ELSE "stored", Nobody)

------------------------------------------------------------------------------
Coroutine(r, at, awaited) == [gen |-> r.gen, who |-> r.who, at |-> at, next |-> "none", awaited |-> awaited]

(* startData up to me(). *)
StartData(cs, r, awaited) ==
  /\ retry' = FALSE
  /\ starts' = cs \cup {Coroutine(r, "me", awaited)}

(* beginSession up to its first await. loadLocal shows the person's drafts. *)
BeginSession(p, offlineFirst) ==
  LET r == [who |-> p, gen |-> gen + 1] IN
  /\ session' = [status |-> "signed_in", who |-> p]
  /\ gen' = r.gen /\ rt' = r
  /\ outboxes' = outboxes \cup {r}
  /\ startDone' = FALSE /\ painted' = p
  /\ disk' = [disk EXCEPT ![p] = Everything]
  /\ handler' = [at |-> "begin", who |-> p]
  /\ IF offlineFirst
     THEN /\ starts' = starts \cup {[Coroutine(r, "meta", TRUE) EXCEPT !.next = "begin"]}
          /\ UNCHANGED retry
     ELSE StartData(starts, r, TRUE)
  /\ UNCHANGED <<auth, hub_, ending, signout, push_, bounds_>>

(* endSession, and doEnd up to its first await. A second end joins the first. *)
EndSession(mode) ==
  IF ending # NoEnd THEN UNCHANGED <<gen, rt, outboxes, startDone, retry, hub_, ending>>
  ELSE /\ ending' = [mode |-> mode, at |-> "push",
                     who |-> IF rt # NoRt THEN rt.who ELSE session.who]
       /\ gen' = gen + 1 /\ rt' = NoRt /\ outboxes' = outboxes \ {rt}
       /\ startDone' = FALSE /\ retry' = FALSE /\ hubOn' = FALSE /\ hubWho' = Nobody

MayEnd == ("paint" \in Races) \/ \A c \in starts : c.at # "paint"
Mode == IF signout # Idle /\ signout.at # "drain" THEN "voluntary" ELSE "involuntary"

(* onAuth of one event; the splash timers have their turn in the queue too. *)
Resumable(e) == session.who = e.who /\ rt # NoRt
Changes(e) == session.who # Nobody /\ session.who # e.who
StoredPaints(e) == e.ev \in {"initial", "stored", "limit"} /\ auth # Nobody

\* The token is good again: resumeStart.
Resumes(e) ==
  /\ e.who # Nobody /\ Resumable(e)
  /\ IF startDone THEN UNCHANGED <<starts, retry>> ELSE StartData(starts, rt, FALSE)
  /\ UNCHANGED <<auth, handler, session, gen, rt, outboxes, startDone, hub_, painted, ending,
                 signout, disk, push_, bounds_>>

\* Somebody else: what there was ends first.
Switches(e) ==
  /\ e.who # Nobody /\ ~Resumable(e) /\ Changes(e) /\ MayEnd
  /\ "endings" \in Races \/ signout = Idle
  /\ EndSession("involuntary")
  /\ handler' = [at |-> "switch", who |-> e.who]
  /\ UNCHANGED <<auth, session, starts, painted, signout, disk, push_, bounds_>>

Begins(e) ==
  /\ e.who # Nobody /\ ~Resumable(e) /\ ~Changes(e)
  /\ "event" \in Races \/ ending = NoEnd
  /\ BeginSession(e.who, FALSE)

Ends(e) ==
  /\ e.who = Nobody /\ e.ev = "signed_out" /\ (rt # NoRt \/ session.who # Nobody) /\ MayEnd
  /\ EndSession(Mode)
  /\ handler' = [at |-> "end", who |-> Nobody]
  /\ UNCHANGED <<auth, session, starts, painted, signout, disk, push_, bounds_>>

PaintsStored(e) ==
  /\ e.who = Nobody /\ rt = NoRt /\ session.who = Nobody /\ StoredPaints(e)
  /\ e.ev # "initial" => session.status = "unknown"
  /\ "event" \in Races \/ ending = NoEnd
  /\ BeginSession(auth, TRUE)

ShowsSignIn(e) ==
  /\ e.who = Nobody /\ rt = NoRt /\ session.who = Nobody /\ ~StoredPaints(e)
  /\ session' = IF e.ev = "stored" \/ (e.ev = "limit" /\ session.status # "unknown")
                THEN session ELSE [status |-> "signed_out", who |-> Nobody]
  /\ UNCHANGED <<auth, handler, gen, rt, outboxes, boot_, hub_, painted, ending, signout, disk,
                 push_, bounds_>>

NothingNew(e) ==
  /\ e.who = Nobody
  /\ \/ e.ev = "initial" /\ rt # NoRt
     \/ e.ev \in {"stored", "limit"} /\ session.status # "unknown"
  /\ UNCHANGED <<auth, handler, session, gen, rt, outboxes, boot_, hub_, painted, ending, signout,
                 disk, push_, bounds_>>

OnAuth ==
  /\ handler = Idle /\ events # <<>> /\ events' = Tail(events)
  /\ LET e == Head(events)
     IN Resumes(e) \/ Switches(e) \/ Begins(e) \/ Ends(e) \/ PaintsStored(e) \/ ShowsSignIn(e) \/ NothingNew(e)

(* The head of the queue goes on: the old session is over, or the start is. *)
AuthGoesOn ==
  \/ /\ handler.at = "switch" /\ ending = NoEnd
     /\ BeginSession(handler.who, FALSE) /\ UNCHANGED events
  \/ /\ \/ handler.at = "end" /\ ending = NoEnd
        \/ handler.at = "begin" /\ \A c \in starts : ~c.awaited
     /\ handler' = Idle
     /\ UNCHANGED <<auth, events, session, gen, rt, outboxes, boot_, hub_, painted, ending, signout,
                    disk, push_, bounds_>>

------------------------------------------------------------------------------
(* The awaits of a start. *)
Steps(c) == c \in starts /\ UNCHANGED <<auth, events, handler, session, gen, rt, outboxes, ending, signout,
                                        sub, owner, news>>
Current(c) == c.gen = gen
Move(c, at, next) == starts' = (starts \ {c}) \cup {[c EXCEPT !.at = at, !.next = next]}
Done(c) == starts' = starts \ {c}

\* A slip: whatever me() answers is stored.
MeUnchecked(c) ==
  /\ Steps(c) /\ c.at = "me"
  /\ painted' = c.who /\ startDone' = TRUE /\ Move(c, "org", "none")
  /\ UNCHANGED <<retry, hub_, disk, ensures, failed>>

(* me() answers: the organization is chosen and its bootstrap asked for. *)
Me(c) ==
  /\ Steps(c) /\ c.at = "me"
  /\ IF Current(c)
     THEN painted' = c.who /\ startDone' = TRUE /\ Move(c, "org", "none")
     ELSE Done(c) /\ UNCHANGED <<painted, startDone>>
  /\ UNCHANGED <<retry, hub_, disk, ensures, failed>>

(* me() fails: an offline copy, then a retry. *)
MeFails(c) ==
  /\ Steps(c) /\ c.at = "me" /\ failed < MaxFailed /\ failed' = failed + 1
  /\ IF Current(c) THEN Move(c, "meta", "retry") ELSE Done(c)
  /\ UNCHANGED <<startDone, retry, hub_, painted, disk, ensures>>

(* The bootstrap answered or failed; hub.start, ensurePushOnLogin. *)
Bootstrapped(c) ==
  /\ Steps(c) /\ c.at = "org" /\ Done(c)
  /\ IF Current(c)
     THEN hubOn' = TRUE /\ hubWho' = c.who /\ ensures' = ensures \cup {[who |-> c.who, at |-> "subscribe"]}
     ELSE UNCHANGED <<hub_, ensures>>
  /\ UNCHANGED <<startDone, retry, painted, disk, failed>>

(* What follows startOffline: the rest of the start, or another try. *)
AfterOffline(c) ==
  IF c.next = "begin"
  THEN IF Current(c) THEN StartData(starts \ {c}, c, c.awaited) ELSE Done(c) /\ UNCHANGED retry
  ELSE Done(c) /\ retry' = TRUE

(* startOffline after readMeta: nothing stored, or something to paint, or it is
   already on screen. *)
ReadMeta(c) ==
  /\ Steps(c) /\ c.at = "meta"
  /\ \/ /\ AfterOffline(c) /\ UNCHANGED <<hubOn, hubWho, painted>>
     \/ /\ Current(c) /\ painted' = c.who
        /\ Move(c, "paint", c.next) /\ UNCHANGED <<retry, hubOn, hubWho>>
     \/ /\ Current(c) /\ painted' = c.who
        /\ AfterOffline(c) /\ hubOn' = TRUE /\ UNCHANGED hubWho
  /\ UNCHANGED <<startDone, disk, ensures, failed>>

(* ... and after its painting, whatever the session is by now. *)
Painted(c) ==
  /\ Steps(c) /\ c.at = "paint"
  /\ \/ /\ Current(c) \/ (ending.at # "over" /\ "cache" \in disk[c.who])
        /\ painted' = c.who /\ hubWho' = c.who
     \/ UNCHANGED <<painted, hubWho>>
  /\ hubOn' = TRUE
  /\ AfterOffline(c)
  /\ UNCHANGED <<startDone, disk, ensures, failed>>

\* A slip: the retry timer starts nothing while an older start is out.
RetryGivesUp ==
  /\ retry /\ retry' = FALSE
  /\ UNCHANGED <<auth, events, handler, session, gen, rt, outboxes, starts, startDone, hub_, painted, ending,
                 signout, disk, push_, bounds_>>

RetryTimer ==
  /\ retry
  /\ IF rt = NoRt THEN retry' = FALSE /\ UNCHANGED starts ELSE StartData(starts, rt, FALSE)
  /\ UNCHANGED <<auth, events, handler, session, gen, rt, outboxes, startDone, hub_, painted, ending,
                 signout, disk, push_, bounds_>>

(* resumeStart: the network came back. *)
ResumeStart ==
  /\ rt # NoRt /\ ~startDone /\ retry
  /\ StartData(starts, rt, FALSE)
  /\ UNCHANGED <<auth, events, handler, session, gen, rt, outboxes, startDone, hub_, painted, ending,
                 signout, disk, push_, bounds_>>

------------------------------------------------------------------------------
(* subscribeAndRegister: the browser subscribes, then the device is registered for
   whoever is signed in. *)
Ensure(e) ==
  /\ e \in ensures
  /\ IF e.at = "subscribe"
     THEN /\ sub' = TRUE /\ owner' = IF sub THEN owner ELSE Nobody   \* a new endpoint
          /\ ensures' = (ensures \ {e}) \cup {[e EXCEPT !.at = "register"]}
     ELSE /\ owner' = IF sub /\ auth # Nobody THEN auth ELSE owner
          /\ ensures' = ensures \ {e} /\ UNCHANGED sub
  /\ UNCHANGED <<auth, events, handler, session, gen, rt, outboxes, boot_, hub_, painted, ending, signout,
                 disk, bounds_>>

(* signOut: unsent messages are flushed, then push goes, then auth-js's session,
   then everything of the person. Where some are left it refuses, unless it was asked
   to go on anyway; what the outbox holds is not modelled, so it may do either. *)
SignOut ==
  /\ session.status = "signed_in" /\ signout = Idle /\ news < MaxNews /\ news' = news + 1
  /\ signout' = [at |-> "drain", who |-> session.who]
  /\ UNCHANGED <<auth, events, handler, session, gen, rt, outboxes, boot_, hub_, painted, ending, disk,
                 push_, failed>>

SignOutStep ==
  \/ /\ signout.at = "drain"
     /\ "endings" \in Races \/ (ending = NoEnd /\ session.who = signout.who)
     /\ signout' = [at |-> "push", who |-> session.who]
     /\ UNCHANGED <<auth, events, gen, rt, outboxes, boot_, hub_, ending, push_>>
  \/ /\ signout.at = "drain" /\ rt # NoRt
     /\ signout' = Idle
     /\ UNCHANGED <<auth, events, gen, rt, outboxes, boot_, hub_, ending, push_>>
  \/ /\ signout.at = "push"
     /\ IF sub THEN sub' = FALSE /\ owner' = Nobody ELSE UNCHANGED <<sub, owner>>
     /\ signout' = [signout EXCEPT !.at = "auth"]
     /\ UNCHANGED <<auth, events, gen, rt, outboxes, boot_, hub_, ending, ensures>>
  \/ /\ signout.at = "auth" /\ MayEnd
     /\ auth' = Nobody
     /\ IF auth # Nobody THEN Told("signed_out", Nobody) ELSE UNCHANGED events
     /\ EndSession("voluntary")
     /\ signout' = [signout EXCEPT !.at = "ended"]
     /\ UNCHANGED <<starts, push_>>
  \/ /\ signout.at = "ended" /\ ending = NoEnd
     /\ signout' = Idle
     /\ UNCHANGED <<auth, events, gen, rt, outboxes, boot_, hub_, ending, push_>>

SignOutGoesOn ==
  /\ SignOutStep
  /\ UNCHANGED <<handler, session, painted, disk, bounds_>>

------------------------------------------------------------------------------
\* A slip: every end wipes everything of the person.
WipesUnsent == [p \in Person |-> IF p = ending.who THEN {} ELSE disk[p]]

(* doEnd: the subscription, the person's data, the store. A voluntary end deletes
   the databases of everyone who was here. *)
Wiped == [p \in Person |->
  IF ending.mode = "voluntary"
  THEN IF p = ending.who THEN {} ELSE disk[p] \ {"cache", "outbox"}
  ELSE IF p = ending.who THEN disk[p] \ {"cache"} ELSE disk[p]]

\* A slip: an end that was not asked for leaves the subscription.
EndKeepsPush ==
  /\ ending.at = "push" /\ ending' = [ending EXCEPT !.at = "wipe"]
  /\ UNCHANGED <<disk, session, painted, sub>>

EndPush ==
  /\ ending.at = "push" /\ sub' = FALSE
  /\ ending' = [ending EXCEPT !.at = "wipe"]
  /\ UNCHANGED <<disk, session, painted>>
EndWipe ==
  /\ ending.at = "wipe" /\ disk' = Wiped
  /\ ending' = [ending EXCEPT !.at = "reset"]
  /\ UNCHANGED <<session, painted, sub>>
EndReset ==
  /\ ending.at = "reset" /\ ending' = NoEnd
  /\ painted' = Nobody /\ session' = [status |-> "signed_out", who |-> Nobody]
  /\ UNCHANGED <<disk, sub>>

EndGoesOn ==
  /\ EndPush \/ EndWipe \/ EndReset
  /\ UNCHANGED <<auth, events, handler, gen, rt, outboxes, boot_, hub_, signout, owner, ensures, bounds_>>

------------------------------------------------------------------------------
SessionNext ==
  \/ Refreshed \/ SignedOut \/ OnAuth \/ AuthGoesOn \/ RetryTimer \/ ResumeStart
  \/ SignOut \/ SignOutGoesOn \/ EndGoesOn
  \/ \E p \in Person : SignedIn(p)
  \/ \E b \in BOOLEAN : SplashTimer(b)
  \/ \E c \in starts : Me(c) \/ MeFails(c) \/ Bootstrapped(c) \/ ReadMeta(c) \/ Painted(c)
  \/ \E e \in ensures : Ensure(e)

SessionSpec == SessionInit /\ [][SessionNext]_sessionVars

------------------------------------------------------------------------------
Settled == /\ events = <<>> /\ handler = Idle /\ ending = NoEnd /\ signout = Idle
           /\ starts = {} /\ ensures = {}

(* Only the person who is signed in sends, and only their data is on screen. *)
OneAtATime ==
  /\ outboxes \subseteq {rt}
  /\ painted \in {Nobody, session.who}
  /\ rt # NoRt /\ ending = NoEnd => rt.who = session.who

(* Nothing from one person survives for the next (session.ts:11): not while both are
   known to the tab, and once it has come to rest signed out, no runtime, outbox, hub or
   data is left. *)
NothingSurvives ==
  /\ OneAtATime
  /\ Settled /\ session.status = "signed_out" =>
       rt = NoRt /\ outboxes = {} /\ ~hubOn /\ painted = Nobody

(* Pushes of a person come to this browser only while it is theirs: no live
   subscription is registered for somebody who is not signed in here. *)
PushIsTheirs == Settled /\ sub => owner \in {Nobody, session.who}

(* A start that failed is tried again until it has succeeded. *)
StartGoesOn == rt # NoRt /\ ~startDone => retry \/ \E c \in starts : c.gen = rt.gen

(* What a person took leave of is gone from the device when their sign-out is over, and an
   end that was not asked for keeps the unsent messages and drafts (session.ts:366-370). *)
WipedAsPromised ==
  [][/\ ending.at = "reset" /\ signout.at = "ended" => disk[signout.who] = {}
     /\ \A p \in Person : disk[p] # disk'[p] /\ ending.mode = "involuntary" => "outbox" \in disk'[p]
    ]_sessionVars
=============================================================================
