------------------------------ MODULE Uploads ------------------------------
(* Files on their way into a message: the upload machine of one composer
   (uploads.ts, transfer.ts), the reservations and Storage behind it (0400,
   media-finalize), and the nightly purge.

   A request is served and answered in one step.  One that nobody waits for (any more)
   stays in `reqs` without an owner and may be served at any time, or never.
   media-finalize works in steps of its own: it looks at the row, judges the bytes, and
   for a refused file removes them and then says so. *)
EXTENDS Naturals, Sequences, FiniteSets, SequencesExt

CONSTANTS File, Slot,       \* files of the composer; reservations (attachment rows)
          Bad,              \* files whose bytes are refused
          NoFile, NoSlot,
          Concurrency,      \* runs at a time (2 in the code)
          MaxTrouble        \* bound: what people do to files (retry, remove, send, sign
                            \* out), requests that fail, purges that die, ages

ASSUME UploadsAssumption == Concurrency \in Nat \ {0} /\ NoFile \notin File /\ NoSlot \notin Slot

VARIABLES job,       \* [File -> at, stage, ticket, retried, awaits]: item, Job and run
          waiting,   \* Seq(File): jobs that wait for a place
          reqs,      \* requests on their way or at work
          status,       \* [Slot -> attachments.status; "free": not reserved yet]
          age,       \* [Slot -> 0..3]: past two hours, a day, two weeks
          purged,    \* rows with purged_at
          stored,    \* reservations whose bytes Storage holds
          sending,   \* attachment ids of a message in the outbox
          sent,      \* files of posted messages (message_id)
          nightly,   \* media_purge_tick and the purge: step and batches
          trouble

server_ == <<status, age, purged, stored, sent>>
client_ == <<job, waiting>>
uploadVars == <<client_, reqs, server_, sending, nightly, trouble>>

Request(kind, f, who, s) == [kind |-> kind, file |-> f, who |-> who, slot |-> s, step |-> "sent"]
Asks == {"begin", "upload", "finalize"}
Busy == {f \in File : job[f].at \in {"waiting", "running"}}
Fresh == [at |-> "none", stage |-> "prepare", ticket |-> NoSlot, retried |-> FALSE, awaits |-> "off"]

UploadInit ==
  /\ job = [f \in File |-> Fresh] /\ waiting = <<>> /\ reqs = {}
  /\ status = [s \in Slot |-> "free"] /\ age = [s \in Slot |-> 0]
  /\ purged = {} /\ stored = {} /\ sending = {} /\ sent = {}
  /\ nightly = [step |-> "off", reject |-> {}, delete |-> {}, batch |-> {}]
  /\ trouble = 0

-----------------------------------------------------------------------------
(* The upload machine *)

\* What a run sends at the stage it comes to.
SentAt(f, j) ==
  IF j.awaits \notin Asks THEN {}
  ELSE IF j.stage # "begin" THEN {Request(j.stage, f, f, j.ticket)}
  ELSE {Request("begin", f, f, NoSlot)} \cup
       (IF j.ticket = NoSlot THEN {} ELSE {Request("abort", f, NoFile, j.ticket)})

\* start: the next job that waits gets the place that is free.
Settle(J, R, W) ==
  IF W # <<>> /\ Cardinality({f \in File : J[f].awaits # "off"}) < Concurrency
  THEN LET f == Head(W)
           j == [J[f] EXCEPT !.at = "running", !.awaits = J[f].stage]
       IN job' = [J EXCEPT ![f] = j] /\ reqs' = R \cup SentAt(f, j) /\ waiting' = Tail(W)
  ELSE job' = J /\ reqs' = R /\ waiting' = W

\* describe and the catch of run: one quiet retry, then it is the person's.
Failed(j, resumeAt) ==
  IF j.retried THEN [j EXCEPT !.at = "failed", !.stage = resumeAt, !.awaits = "off"]
  ELSE [j EXCEPT !.stage = resumeAt, !.retried = TRUE, !.awaits = "sleep"]

Heard(j, answer, s) ==
  IF j.at = "gone" THEN [j EXCEPT !.awaits = "off"] ELSE
  CASE answer = "reserved" -> [j EXCEPT !.ticket = s, !.stage = "upload", !.awaits = "upload"]
    [] answer = "stored" -> [j EXCEPT !.stage = "finalize", !.awaits = "finalize"]
    [] answer = "ready" -> [j EXCEPT !.at = "ready", !.stage = "done", !.awaits = "off"]
    [] answer = "rejected" -> [j EXCEPT !.at = "dead", !.stage = "done", !.awaits = "off"]
    [] answer = "refused" -> [j EXCEPT !.at = "dead", !.awaits = "off"]
    [] answer = "limited" -> [j EXCEPT !.at = "failed", !.awaits = "off"]
    [] answer = "denied" -> Failed(j, "begin")
    [] answer = "missing" -> Failed(j, "upload")
    [] answer \in {"conflict", "nothing"} -> Failed(j, j.stage)

\* Slip: the run of a file that was removed never gives its place back.
HearKeepsPlace(q, answer, s, R) ==
  IF q.who = NoFile \/ job[q.who].at = "gone" THEN reqs' = R /\ UNCHANGED client_
  ELSE LET j == Heard(job[q.who], answer, s)
       IN Settle([job EXCEPT ![q.who] = j], R \cup SentAt(q.who, j), waiting)

Hear(q, answer, s, R) ==
  IF q.who = NoFile THEN reqs' = R /\ UNCHANGED client_
  ELSE LET j == Heard(job[q.who], answer, s)
       IN Settle([job EXCEPT ![q.who] = j], R \cup SentAt(q.who, j), waiting)

AddFile(f) ==
  /\ job[f].at = "none"
  /\ Settle([job EXCEPT ![f].at = "waiting"], reqs, Append(waiting, f))
  /\ UNCHANGED <<server_, sending, nightly, trouble>>

\* validate, the first bytes, prepare: some refused files are noticed here.
Prepared(f) ==
  /\ job[f].awaits = "prepare"
  /\ \E seen \in (IF f \in Bad THEN BOOLEAN ELSE {FALSE}) :
       LET j == IF seen THEN [job[f] EXCEPT !.at = "dead", !.awaits = "off"]
                ELSE [job[f] EXCEPT !.stage = "begin", !.awaits = "begin"]
       IN Settle([job EXCEPT ![f] = j], reqs \cup SentAt(f, j), waiting)
  /\ UNCHANGED <<server_, sending, nightly, trouble>>

\* AUTO_RETRY_DELAY_MS is over.
WakeRun(f) ==
  /\ job[f].awaits = "sleep"
  /\ LET j == [job[f] EXCEPT !.awaits = job[f].stage]
     IN job' = [job EXCEPT ![f] = j] /\ reqs' = reqs \cup SentAt(f, j)
  /\ UNCHANGED <<waiting, server_, sending, nightly, trouble>>

Troubles == trouble < MaxTrouble /\ trouble' = trouble + 1

RetryFile(f) ==
  /\ job[f].at = "failed" /\ Troubles
  /\ Settle([job EXCEPT ![f].at = "waiting", ![f].retried = FALSE], reqs, Append(waiting, f))
  /\ UNCHANGED <<server_, sending, nightly>>

\* dispose: an upload is cut off, a sleep ends; begin and finalize are not waited for
\* but keep the place until they are answered.
Disposed(j) ==
  [j EXCEPT !.at = "gone", !.awaits = IF @ \in {"begin", "finalize"} THEN @ ELSE "off"]
AbortOf(f) ==
  LET j == job[f] IN
  IF j.at # "ready" /\ j.ticket # NoSlot /\ j.stage # "done"
  THEN {Request("abort", f, NoFile, j.ticket)} ELSE {}

\* The jobs that wait, in their order, without those of F.
Spliced(F) ==
  {W \in UNION {[1 .. n -> File] : n \in 0 .. Len(waiting)} :
     /\ Range(W) = Range(waiting) \ F
     /\ \A i, k \in DOMAIN W : i < k =>
          \E l, m \in DOMAIN waiting : l < m /\ waiting[l] = W[i] /\ waiting[m] = W[k]}

Drop(F) ==
  \E W \in Spliced(F) :
    Settle([f \in File |-> IF f \in F THEN Disposed(job[f]) ELSE job[f]],
           {IF q.who \in F /\ q.kind = "upload" THEN [q EXCEPT !.who = NoFile] ELSE q : q \in reqs}
             \cup UNION {AbortOf(f) : f \in F},
           W)

RemoveFile(f) ==
  /\ job[f].at \notin {"none", "gone"} /\ Troubles
  /\ Drop({f})
  /\ UNCHANGED <<server_, sending, nightly>>

\* Signing out, or another account.
ResetUploads ==
  /\ Troubles /\ Drop({f \in File : job[f].at \notin {"none", "gone"}})
  /\ UNCHANGED <<server_, sending, nightly>>

\* Composer.send: not while a file is busy; then clear().
ReadyFiles == {f \in File : job[f].at = "ready"}
SendFiles ==
  /\ Busy = {} /\ ReadyFiles # {} /\ sending = {} /\ Troubles
  /\ sending' = {job[f].ticket : f \in ReadyFiles}
  /\ Drop({f \in File : job[f].at \in {"ready", "failed", "dead"}})
  /\ UNCHANGED <<server_, nightly>>

-----------------------------------------------------------------------------
(* Requests *)

\* begin_upload.  The reservations of an instance are limited, as those of a person are.
BeginUpload(q) ==
  /\ q \in reqs /\ q.kind = "begin"
  /\ \/ /\ \A s \in Slot : status[s] # "free"
        /\ Hear(q, "limited", NoSlot, reqs \ {q})
        /\ UNCHANGED <<status>>
     \/ \E s \in Slot :
          /\ status[s] = "free"
          /\ status' = [status EXCEPT ![s] = "pending"]
          /\ Hear(q, "reserved", s, reqs \ {q})
  /\ UNCHANGED <<age, purged, stored, sent, sending, nightly, trouble>>

\* abort_upload.
AbortUpload(q) ==
  /\ q \in reqs /\ q.kind = "abort"
  /\ status' = [status EXCEPT ![q.slot] = IF @ = "pending" THEN "rejected" ELSE @]
  /\ reqs' = reqs \ {q}
  /\ UNCHANGED <<client_, age, purged, stored, sent, sending, nightly, trouble>>

\* can_write_object, checked when Storage writes.
\* Slip: whoever made a reservation may write to it.
CanWriteAlways(s) == age[s] = 0
CanWrite(s) == status[s] = "pending" /\ age[s] = 0

\* putObject: "already exists" is a success.
PutObject(q) ==
  /\ q \in reqs /\ q.kind = "upload"
  /\ IF CanWrite(q.slot) THEN stored' = stored \cup {q.slot} ELSE UNCHANGED stored
  /\ Hear(q, IF CanWrite(q.slot) THEN "stored" ELSE "denied", NoSlot, reqs \ {q})
  /\ UNCHANGED <<status, age, purged, sent, sending, nightly, trouble>>

\* svc_upload_info and what finalize answers from it.
LookAtUpload(q) ==
  /\ q \in reqs /\ q.kind = "finalize" /\ q.step = "sent"
  /\ IF status[q.slot] = "pending" /\ q.slot \in stored
     THEN reqs' = (reqs \ {q}) \cup {[q EXCEPT !.step = "looked"]} /\ UNCHANGED client_
     ELSE Hear(q, CASE status[q.slot] = "ready" -> "ready"
                    [] status[q.slot] \in {"rejected", "deleted"} -> "rejected"
                    [] OTHER -> "missing", NoSlot, reqs \ {q})
  /\ UNCHANGED <<server_, sending, nightly, trouble>>

\* svc_finalize_upload, p_ok: what becomes of the row, and the answer.
Accepted(s) ==
  IF status[s] = "ready" \/ (status[s] = "pending" /\ s \in stored)
  THEN <<"ready", "ready">> ELSE <<status[s], "conflict">>

AcceptUpload(q) ==
  /\ q \in reqs /\ q.kind = "finalize" /\ q.step = "looked" /\ q.file \notin Bad
  /\ status' = [status EXCEPT ![q.slot] = Accepted(q.slot)[1]]
  /\ Hear(q, Accepted(q.slot)[2], NoSlot, reqs \ {q})
  /\ UNCHANGED <<age, purged, stored, sent, sending, nightly, trouble>>

\* reject: the bytes go first...
RemoveBytes(q) ==
  /\ q \in reqs /\ q.kind = "finalize" /\ q.step = "looked" /\ q.file \in Bad
  /\ \E done \in BOOLEAN : stored' = IF done THEN stored \ {q.slot} ELSE stored
  /\ reqs' = (reqs \ {q}) \cup {[q EXCEPT !.step = "removed"]}
  /\ UNCHANGED <<client_, status, age, purged, sent, sending, nightly, trouble>>

\* ... then the row; if the bytes are gone the purge has nothing left to do.
RejectUpload(q) ==
  /\ q \in reqs /\ q.kind = "finalize" /\ q.step = "removed"
  /\ LET s == q.slot IN
     /\ status' = [status EXCEPT ![s] = IF @ = "pending" THEN "rejected" ELSE @]
     /\ purged' = IF status[s] = "pending" /\ s \notin stored THEN purged \cup {s} ELSE purged
     /\ Hear(q, IF status[s] \in {"pending", "rejected"} THEN "rejected" ELSE "conflict",
             NoSlot, reqs \ {q})
  /\ UNCHANGED <<age, stored, sent, sending, nightly, trouble>>

\* No answer comes (a timeout, the network, a function that fails); the request may
\* still be served.
NoAnswer(q) ==
  /\ q \in reqs /\ q.who # NoFile /\ Troubles
  /\ \E kept \in SUBSET {[q EXCEPT !.who = NoFile]} :
       Hear(q, "nothing", NoSlot, (reqs \ {q}) \cup kept)
  /\ UNCHANGED <<server_, sending, nightly>>

\* begin_upload says no: access lost, archived, a type that is not allowed.
RefuseBegin(q) ==
  /\ q \in reqs /\ q.kind = "begin" /\ Troubles
  /\ Hear(q, "refused", NoSlot, reqs \ {q})
  /\ UNCHANGED <<server_, sending, nightly>>

\* An abort that is lost: abortUpload(...).catch(() => undefined).
LoseAbort(q) ==
  /\ q \in reqs /\ q.kind = "abort" /\ Troubles
  /\ reqs' = reqs \ {q}
  /\ UNCHANGED <<client_, server_, sending, nightly>>

\* The claim of the message that the outbox sends (send_message).
ClaimFiles ==
  /\ sending # {}
  /\ sent' = IF \A s \in sending : status[s] = "ready" /\ s \notin sent THEN sent \cup sending ELSE sent
  /\ sending' = {}
  /\ UNCHANGED <<client_, reqs, status, age, purged, stored, nightly, trouble>>

-----------------------------------------------------------------------------
(* Time and the night *)

GrowOlder(s) ==
  /\ status[s] # "free" /\ Troubles
  /\ \E then \in age[s] + 1 .. 3 : age' = [age EXCEPT ![s] = then]
  /\ UNCHANGED <<client_, reqs, status, purged, stored, sent, sending, nightly>>

Rest == <<client_, reqs, age, sent, sending>>
\* Slip: what no message carries is purged whatever its age.
ToPurgeUnsent ==
  {s \in Slot : status[s] \in {"ready", "deleted", "rejected"} /\ s \notin purged \cup sent}
\* svc_media_purge: the next batch.
ToPurge == {s \in Slot : status[s] \in {"deleted", "rejected"} /\ s \notin purged}

\* media_purge_tick finds the abandoned and the unsent ones ...
TickPicks ==
  /\ nightly.step = "off"
  /\ LET rejects == {s \in Slot : age[s] >= 2 /\ status[s] = "pending"}
         deletes == {s \in Slot : age[s] = 3 /\ status[s] = "ready" /\ s \notin sent}
     IN /\ rejects \cup deletes \cup ToPurge # {}
        /\ nightly' = [step |-> "picked", reject |-> rejects, delete |-> deletes, batch |-> {}]
  /\ UNCHANGED <<Rest, status, purged, stored, trouble>>

\* ... and writes to their rows, once whoever holds them has committed.
TickWrites ==
  /\ nightly.step = "picked"
  /\ status' = [s \in Slot |-> IF s \in nightly.delete THEN "deleted"
                            ELSE IF s \in nightly.reject THEN "rejected" ELSE status[s]]
  /\ nightly' = [step |-> "called", reject |-> {}, delete |-> {}, batch |-> {}]
  /\ UNCHANGED <<Rest, purged, stored, trouble>>

PurgeHands ==
  /\ nightly.step = "called" /\ nightly' = [nightly EXCEPT !.step = "handed", !.batch = ToPurge]
  /\ UNCHANGED <<Rest, status, purged, stored, trouble>>

PurgeRemoves ==
  /\ nightly.step = "handed" /\ nightly' = [nightly EXCEPT !.step = "removed"]
  /\ stored' = stored \ nightly.batch
  /\ UNCHANGED <<Rest, status, purged, trouble>>

PurgeStamps ==
  /\ nightly.step = "removed"
  /\ purged' = purged \cup (nightly.batch \cap ToPurge)
  /\ nightly' = [nightly EXCEPT !.step = "off", !.batch = {}]
  /\ UNCHANGED <<Rest, status, stored, trouble>>

\* The call is lost, Storage refuses, the function is killed: the next night tries again.
PurgeDies ==
  /\ nightly.step \in {"called", "handed", "removed"} /\ Troubles
  /\ nightly' = [nightly EXCEPT !.step = "off", !.batch = {}]
  /\ UNCHANGED <<Rest, status, purged, stored>>

-----------------------------------------------------------------------------
Served(q) ==
  \/ BeginUpload(q) \/ PutObject(q)
  \/ LookAtUpload(q) \/ AcceptUpload(q) \/ RemoveBytes(q) \/ RejectUpload(q)
RunGoesOn(f) ==
  Prepared(f) \/ WakeRun(f) \/ \E q \in reqs : q.who = f /\ (Served(q) \/ NoAnswer(q) \/ RefuseBegin(q))

UploadNext ==
  \/ \E f \in File : AddFile(f) \/ RunGoesOn(f) \/ RetryFile(f) \/ RemoveFile(f)
  \/ ResetUploads \/ SendFiles \/ ClaimFiles
  \/ \E q \in reqs : (q.who = NoFile /\ Served(q)) \/ AbortUpload(q) \/ LoseAbort(q)
  \/ \E s \in Slot : GrowOlder(s)
  \/ TickPicks \/ TickWrites \/ PurgeHands \/ PurgeRemoves \/ PurgeStamps \/ PurgeDies

\* Preparing ends, the delay passes, a request is answered or fails (the stall timer of
\* putObject, the timeout of a call).
UploadFairness == \A f \in File : WF_uploadVars(RunGoesOn(f))
UploadSpec == UploadInit /\ [][UploadNext]_uploadVars /\ UploadFairness

-----------------------------------------------------------------------------
(* Properties *)

\* A file that is shown as ready, is on its way in a message or is in one is marked ready
\* and its bytes are there, until it is so old that the nightly tick may list it.
FilesAreThere ==
  \A s \in {job[f].ticket : f \in ReadyFiles} \cup sending \cup sent :
    (status[s] = "ready" /\ s \in stored) \/ age[s] >= 2

\* What was marked as purged has no bytes: nobody would ever look for them again.
NothingLeftStored == \A s \in purged : s \notin stored

\* Not kept by the code, "Remove aborts the request and the reservation" (uploads.ts:10):
\* a reservation that is open belongs to a file of the composer or is being aborted.
NoOrphans ==
  \A s \in Slot : status[s] = "pending" =>
    \/ \E f \in File : job[f].at \notin {"none", "gone"} /\ job[f].ticket = s
    \/ \E q \in reqs : q.kind = "abort" /\ q.slot = s

\* Every file comes to an end, ready or failed, whatever else is removed or fails: no run
\* keeps its place for ever.
EveryFileSettles == \A f \in File : []<>(f \notin Busy)
=============================================================================
