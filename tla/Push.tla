------------------------------- MODULE Push -------------------------------
(* One notification intent, from its commit to its end: runs of push-dispatch that
   claim it, send to the devices and record the outcome, the sweeper that calls
   runs again, and the people whose devices they are.

   An intent may be dispatched by several runs.  plat_lock_intent lends it to one of
   them for two minutes; a run works for less than that (BUDGET_MS), so `LockEnds`
   waits for runs that work unless "outlive" is among what may happen. *)
EXTENDS Naturals, FiniteSets

CONSTANTS Device,       \* devices of the people the intent is for, as numbers: routes come
                        \* in this order (the code's is by person, then by device)
          RouteLimit,   \* devices that one look at the routes returns (5000 in the code)
          Run,          \* runs of the function that are alive at one time
          MaxAttempts,  \* claims before the intent is given up (5 in the code)
          MaxLost,      \* bound: calls, runs and records that are lost
          May           \* "outlive": a run outlives its lock; "repeat": a record
                        \* whose answer is lost is written again

ASSUME PushAssumption ==
  Device \subseteq Nat /\ RouteLimit \in Nat \ {0} /\ MaxAttempts \in Nat /\ MaxLost \in Nat

VARIABLES intent,  \* status, attempts, locked (locked_until is in the future)
          old,     \* the intent is an hour old
          row,     \* [Device -> notification_deliveries.status of this intent]
          device,  \* [Device -> {"on", "revoked", "gone"}]: push_devices
          wanted,  \* devices of people the routing rules want to tell
          quiet,   \* devices of people in their quiet hours
          run,     \* [Run -> what the run does, its devices, their outcomes]
          lost,
          cut      \* history: the devices that the last claim's routes left out

vars == <<intent, old, row, device, wanted, quiet, run, lost, cut>>

\* "failed" is what plat_retryable says yes to (network, 429, 5xx); "refused"
\* stands for the failures it does not retry and for not_configured.
Outcome == {"sent", "failed", "refused", "expired"}
Settled == {"sent", "refused", "expired", "skipped"}
Ended == {"done", "failed", "expired"}
Open == {"pending", "processing"}

Working == {r \in Run : run[r].at = "working"}
NoAnswers == [d \in {} |-> "sent"]
Idle == [at |-> "idle", todo |-> {}, got |-> NoAnswers]
Called == [at |-> "called", todo |-> {}, got |-> NoAnswers]
Told(r) == {d \in DOMAIN run[r].got : run[r].got[d] = "sent"}

\* The trigger of the insert (on_intent_created) has called the first run.
Init ==
  /\ intent = [status |-> "pending", attempts |-> 0, locked |-> FALSE]
  /\ old = FALSE
  /\ row = [d \in Device |-> "none"] /\ device = [d \in Device |-> "on"]
  /\ wanted \in SUBSET Device /\ quiet \in SUBSET Device
  /\ \E first \in Run : run = [r \in Run |-> IF r = first THEN Called ELSE Idle]
  /\ lost = 0 /\ cut = {}

-----------------------------------------------------------------------------
(* push-dispatch and its two service functions *)

\* The devices plat_route looks for: wanted, on, and without a final row.
Routed == {d \in wanted : device[d] = "on" /\ row[d] \notin Settled}

\* Those it returns: the first of them, up to its limit.
Taken == {d \in Routed : Cardinality({e \in Routed : e < d}) < RouteLimit}

\* Slip: a second run is let in while the first one works.
RefusesEndedOnly == intent.status \in Ended
Refuses == intent.status \in Ended \/ (intent.status = "processing" /\ intent.locked)

\* plat_lock_intent: an intent nobody may work on any more.
GiveUp(r) ==
  /\ run[r].at = "called" /\ ~Refuses
  /\ old \/ intent.attempts >= MaxAttempts
  /\ intent' = [intent EXCEPT !.locked = FALSE,
                  !.status = IF intent.attempts >= MaxAttempts THEN "failed" ELSE "expired"]
  /\ run' = [run EXCEPT ![r] = Idle]
  /\ UNCHANGED <<old, row, device, wanted, quiet, lost, cut>>

\* It is done, or another run has it.
Decline(r) ==
  /\ run[r].at = "called" /\ Refuses
  /\ run' = [run EXCEPT ![r] = Idle]
  /\ UNCHANGED <<intent, old, row, device, wanted, quiet, lost, cut>>

\* svc_claim_intent: the claim, the routes, and the skips of quiet hours.
Claim(r) ==
  /\ run[r].at = "called" /\ ~Refuses
  /\ ~old /\ intent.attempts < MaxAttempts
  /\ LET todo == Taken \ quiet IN
     /\ intent' = [status |-> IF todo = {} THEN "done" ELSE "processing",
                   attempts |-> intent.attempts + 1, locked |-> todo # {}]
     /\ run' = [run EXCEPT ![r] = IF todo = {} THEN Idle
                                  ELSE [at |-> "working", todo |-> todo, got |-> NoAnswers]]
  /\ row' = [d \in Device |-> IF d \in Taken \cap quiet /\ row[d] = "none"
                              THEN "skipped" ELSE row[d]]
  /\ cut' = Routed \ Taken
  /\ UNCHANGED <<old, device, wanted, quiet, lost>>

\* deliverAll: one device, its sender's answer, its timeout, or the deadline.
Send(r, d) ==
  /\ r \in Working /\ d \in run[r].todo \ DOMAIN run[r].got
  /\ \E o \in Outcome :
       run' = [run EXCEPT ![r].got = [x \in DOMAIN run[r].got \cup {d} |->
                                        IF x = d THEN o ELSE run[r].got[x]]]
  /\ UNCHANGED <<intent, old, row, device, wanted, quiet, lost, cut>>

HasResults(r) == r \in Working /\ DOMAIN run[r].got = run[r].todo

\* Slip: a run that told somebody counts as done.
RecordedSent(r) ==
  LET got == run[r].got
      again == \A d \in DOMAIN got : got[d] = "failed"
  IN /\ row' = [d \in Device |-> IF d \in DOMAIN got /\ device[d] # "gone"
                                 THEN got[d] ELSE row[d]]
     /\ UNCHANGED device
     /\ intent' = [intent EXCEPT !.locked = FALSE,
                     !.status = IF ~again THEN "done" ELSE "pending"]
\* svc_record_deliveries: rows, dead devices, and what becomes of the intent.
Recorded(r) ==
  LET got == run[r].got
      there == {d \in DOMAIN got : device[d] # "gone"}
      again == \E d \in DOMAIN got : got[d] = "failed"
  IN /\ row' = [d \in Device |-> IF d \in there THEN got[d] ELSE row[d]]
     /\ device' = [d \in Device |-> IF d \in there /\ got[d] = "expired"
                                    THEN "revoked" ELSE device[d]]
     /\ intent' = [intent EXCEPT !.locked = FALSE,
                     !.status = IF ~again THEN "done"
                                ELSE IF intent.attempts < MaxAttempts THEN "pending"
                                ELSE "failed"]

\* record() writes it once more when the answer of a record is lost.
MayRepeat == IF "repeat" \in May /\ lost < MaxLost THEN BOOLEAN ELSE {FALSE}

Record(r) ==
  /\ HasResults(r) /\ Recorded(r)
  /\ \E again \in MayRepeat :
       /\ run' = IF again THEN run ELSE [run EXCEPT ![r] = Idle]
       /\ lost' = IF again THEN lost + 1 ELSE lost
  /\ UNCHANGED <<old, wanted, quiet, cut>>

\* The call never reaches the function, the function is killed, or all three tries
\* to record fail.
Vanish(r) ==
  /\ run[r].at # "idle" /\ lost < MaxLost
  /\ run' = [run EXCEPT ![r] = Idle] /\ lost' = lost + 1
  /\ UNCHANGED <<intent, old, row, device, wanted, quiet, cut>>

-----------------------------------------------------------------------------
(* The sweeper and the clock *)

SweepsUp == intent.status \in Open /\ (old \/ intent.attempts >= MaxAttempts)

\* sweep_intents: what is too old or was tried too often ends...
SweepEnds ==
  /\ SweepsUp
  /\ intent' = [intent EXCEPT !.status = IF old THEN "expired" ELSE "failed"]
  /\ UNCHANGED <<old, row, device, wanted, quiet, run, lost, cut>>

\* Slip: an intent whose run died is never looked at again.
SweepCallsPending(r) ==
  /\ intent.status = "pending" /\ ~SweepsUp
  /\ run[r].at = "idle" /\ run' = [run EXCEPT ![r] = Called]
  /\ UNCHANGED <<intent, old, row, device, wanted, quiet, lost, cut>>
\* ... and the rest is dispatched again, unless a run has it.
SweepCalls(r) ==
  /\ intent.status \in Open /\ ~SweepsUp /\ ~intent.locked
  /\ run[r].at = "idle" /\ run' = [run EXCEPT ![r] = Called]
  /\ UNCHANGED <<intent, old, row, device, wanted, quiet, lost, cut>>

\* locked_until is past.
LockEnds ==
  /\ intent.locked
  /\ Working = {} \/ "outlive" \in May
  /\ intent' = [intent EXCEPT !.locked = FALSE]
  /\ UNCHANGED <<old, row, device, wanted, quiet, run, lost, cut>>

GrowOld ==
  /\ ~old /\ old' = TRUE
  /\ UNCHANGED <<intent, row, device, wanted, quiet, run, lost, cut>>

-----------------------------------------------------------------------------
(* People *)

\* The message is read, muted or deleted, the call answered, the access lost.
Unwant(d) ==
  /\ d \in wanted /\ wanted' = wanted \ {d}
  /\ UNCHANGED <<intent, old, row, device, quiet, run, lost, cut>>

Hush(d) ==
  /\ d \notin quiet /\ quiet' = quiet \cup {d}
  /\ UNCHANGED <<intent, old, row, device, wanted, run, lost, cut>>

\* register_push_device of a subscription that was revoked.
Register(d) ==
  /\ device[d] = "revoked" /\ device' = [device EXCEPT ![d] = "on"]
  /\ UNCHANGED <<intent, old, row, wanted, quiet, run, lost, cut>>

\* unregister_push_device; the rows lose their device.
Unregister(d) ==
  /\ device[d] # "gone" /\ device' = [device EXCEPT ![d] = "gone"]
  /\ row' = [row EXCEPT ![d] = "none"]
  /\ UNCHANGED <<intent, old, wanted, quiet, run, lost, cut>>

-----------------------------------------------------------------------------
RunStep(r) ==
  GiveUp(r) \/ Decline(r) \/ Claim(r) \/ Record(r) \/ \E d \in Device : Send(r, d)

Next ==
  \/ \E r \in Run : RunStep(r) \/ Vanish(r) \/ SweepCalls(r)
  \/ SweepEnds \/ LockEnds \/ GrowOld
  \/ \E d \in Device : Unwant(d) \/ Hush(d) \/ Register(d) \/ Unregister(d)

Spec == Init /\ [][Next]_vars

\* cron runs every minute, a run that is called answers, two minutes pass.  That the
\* hour passes is not assumed.
Fairness ==
  /\ \A r \in Run : WF_vars(RunStep(r))
  /\ WF_vars(SweepEnds \/ \E r \in Run : SweepCalls(r))
  /\ WF_vars(LockEnds)
FairSpec == Spec /\ Fairness

-----------------------------------------------------------------------------
(* Properties *)

\* A push that was accepted, and recorded or still known to a run, is not sent again,
\* and a final row is never overwritten: only a run that is lost between sending and
\* recording makes a person hear twice (0310: "retries never double-notify").
OnceOnly ==
  [][\A d \in Device :
       /\ row[d] \in Settled => row'[d] = row[d] \/ device'[d] = "gone"
       /\ \A r \in Run : d \in Told(r)' \ Told(r) =>
            row[d] # "sent" /\ \A q \in Run : d \notin Told(q)]_vars

\* An intent that is done has left out nobody whom its last claim had in its routes: every
\* device it still has to tell was told, refused or skipped; one that failed is left only
\* to quiet hours.
NobodyMissed ==
  intent.status = "done" =>
    \A d \in wanted \ cut : device[d] = "on" =>
      row[d] \in Settled \/ (row[d] = "failed" /\ d \in quiet)

\* What one would like instead, and what does not hold: a claim takes RouteLimit devices,
\* the record then ends the intent, and those past the limit are never told.
NobodyCut ==
  intent.status = "done" => \A d \in wanted \cap cut : device[d] = "on" => row[d] \in Settled

\* Whatever runs and calls are lost, the sweeper brings an intent to its end before
\* it expires.
EndsInTime == []<>(old \/ intent.status \in {"done", "failed"})
=============================================================================
