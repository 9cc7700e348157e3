------------------------------ MODULE Services_proofs -----------------------
(* What the two services promise, each by itself: the uploads of a composer (Uploads) and
   the dispatch of notifications (Push). *)
EXTENDS Push, Uploads, TLAPS

-----------------------------------------------------------------------------
(* What the upload machine, the reservations and the purge keep for ever: the files a
   message is sent with are there, and what is marked as purged has no bytes.

   UploadInv has three parts.  The machine (ClientOK): an unanswered request is what the
   run of its file awaits, and a job that waits for a place awaits nothing.  The
   reservations (Holders): one that is ready belongs to one file, whose bytes were
   accepted, so that nobody who refuses bytes removes its own.  The night (NightOK): what
   a batch holds is over for good, and so are its bytes once they are removed. *)

JobType == [at : {"none", "waiting", "running", "failed", "dead", "ready", "gone"},
            stage : {"prepare", "begin", "upload", "finalize", "done"},
            ticket : Slot \cup {NoSlot}, retried : BOOLEAN,
            awaits : {"off", "prepare", "begin", "upload", "finalize", "sleep"}]
ReqType == [kind : {"begin", "upload", "finalize", "abort"}, file : File, who : File \cup {NoFile},
            slot : Slot \cup {NoSlot}, step : {"sent", "looked", "removed"}]
Statuses == {"free", "pending", "ready", "rejected", "deleted"}
NightType == [step : {"off", "picked", "called", "handed", "removed"},
              reject : SUBSET Slot, delete : SUBSET Slot, batch : SUBSET Slot]

RowsType ==
  /\ status \in [Slot -> Statuses] /\ age \in [Slot -> 0 .. 3]
  /\ purged \in SUBSET Slot /\ stored \in SUBSET Slot
  /\ sending \in SUBSET Slot /\ sent \in SUBSET Slot
  /\ nightly \in NightType

-----------------------------------------------------------------------------
(* The machine, for any jobs J, queue W and requests R. *)

JobOK(j) ==
  /\ j \in JobType
  /\ j.awaits # "off" => j.at \in {"running", "gone"}
  /\ j.at = "gone" => j.awaits \in {"off", "begin", "finalize"}
  /\ j.at \in {"none", "waiting"} => j.stage # "done"
  /\ j.at = "failed" => j.stage \in Asks
  /\ j.at = "ready" => j.ticket # NoSlot
  /\ j.stage \in {"upload", "finalize"} => j.ticket # NoSlot
  /\ j.awaits \in Asks => j.stage = j.awaits
  /\ j.awaits = "sleep" => j.stage \in Asks

QueueOK(J, W) ==
  /\ W \in Seq(File)
  /\ \A i \in DOMAIN W : J[W[i]].at = "waiting"
  /\ \A i, k \in DOMAIN W : W[i] = W[k] => i = k

\* A request that is waited for is what the run of its file awaits.
ReqOK(J, q) ==
  /\ q \in ReqType
  /\ q.kind # "begin" => q.slot # NoSlot
  /\ q.step # "sent" => q.kind = "finalize"
  /\ q.who # NoFile => /\ q.who = q.file /\ q.kind = J[q.file].awaits
                       /\ q.kind # "begin" => q.slot = J[q.file].ticket

ReqsOK(J, R) ==
  /\ \A q \in R : ReqOK(J, q)
  /\ \A q, r \in R : q.who = r.who /\ q.who # NoFile => q = r

ClientOK(J, W, R) ==
  /\ J \in [File -> JobType] /\ \A f \in File : JobOK(J[f])
  /\ QueueOK(J, W) /\ ReqsOK(J, R)

-----------------------------------------------------------------------------
(* The reservations. *)

\* The file f holds s, or somebody is at work on s in its name.
Holds(J, R, f, s) ==
  J[f].ticket = s \/ \E q \in R : q.kind # "begin" /\ q.file = f /\ q.slot = s

Holders ==
  \A s \in Slot : \A f \in File : Holds(job, reqs, f, s) =>
    /\ status[s] # "free"
    /\ status[s] = "ready" => f \notin Bad
    /\ \A g \in File : Holds(job, reqs, g, s) => f = g

Shown == {job[f].ticket : f \in ReadyFiles} \cup sending \cup sent

RowsOK ==
  /\ \A s \in Slot : status[s] = "ready" => s \in stored \/ age[s] >= 2
  /\ \A s \in Shown : status[s] = "ready" \/ age[s] >= 2
  /\ \A s \in purged : s \notin stored /\ status[s] \in {"deleted", "rejected"}

NightOK ==
  /\ nightly.step = "picked" => \A s \in nightly.reject \cup nightly.delete : age[s] >= 2
  /\ nightly.step \in {"handed", "removed"} => \A s \in nightly.batch : status[s] \in {"deleted", "rejected"}
  /\ nightly.step = "removed" => \A s \in nightly.batch : s \notin stored

UploadInv == RowsType /\ ClientOK(job, waiting, reqs) /\ Holders /\ RowsOK /\ NightOK

-----------------------------------------------------------------------------
(* The machine: what asking, hearing and dropping keep. *)

\* What a run asks when it comes to a stage: one request that it waits for, and the end
\* of an older reservation.
LEMMA SentOK ==
  ASSUME NEW f \in File, NEW j, JobOK(j), NEW q \in SentAt(f, j)
  PROVE  /\ q \in ReqType /\ q.file = f /\ q.step = "sent" /\ j.awaits \in Asks
         /\ \/ q.kind = "abort" /\ q.who = NoFile /\ q.slot = j.ticket /\ j.ticket # NoSlot
            \/ q.kind = j.awaits /\ q.who = f /\ q.kind # "begin" /\ q.slot = j.ticket /\ j.ticket # NoSlot
            \/ q = Request("begin", f, f, NoSlot) /\ q.kind = j.awaits
<1>1. j.awaits \in Asks /\ j.stage = j.awaits /\ j.ticket \in Slot \cup {NoSlot}
  BY DEF SentAt, JobOK, JobType
<1>2. CASE j.stage # "begin"
  <2>1. q = Request(j.stage, f, f, j.ticket) /\ j.stage \in {"upload", "finalize"} /\ j.ticket # NoSlot
    BY <1>1, <1>2 DEF SentAt, Asks, JobOK
  <2> QED
    BY <1>1, <2>1 DEF Request, ReqType
<1>3. CASE j.stage = "begin"
  <2>1. \/ q = Request("begin", f, f, NoSlot)
        \/ j.ticket # NoSlot /\ q = Request("abort", f, NoFile, j.ticket)
    BY <1>1, <1>3 DEF SentAt
  <2> QED
    BY <1>1, <1>3, <2>1 DEF Request, ReqType
<1> QED
  BY <1>2, <1>3

\* A run that is not waiting for an answer has no request of its own.
LEMMA NobodyAsks ==
  ASSUME NEW J, NEW R, NEW f \in File, J \in [File -> JobType], ReqsOK(J, R), J[f].awaits \notin Asks
  PROVE  \A q \in R : q.who # f
<1> SUFFICES ASSUME NEW q \in R, q.who = f
             PROVE  FALSE
  OBVIOUS
<1>1. q.file = f /\ q.kind = J[f].awaits /\ q.kind \in {"begin", "upload", "finalize", "abort"}
  BY UploadsAssumption DEF ReqsOK, ReqOK, ReqType
<1>2. J[f].awaits \in {"off", "prepare", "begin", "upload", "finalize", "sleep"}
  BY DEF JobType
<1> QED
  BY <1>1, <1>2 DEF Asks

\* The job of f becomes j, which asks for what it awaits; nothing else of f is out.
LEMMA Asked ==
  ASSUME NEW J, NEW R, NEW J1, NEW R1, NEW f \in File, NEW j,
         \A g \in File : g # f => J1[g] = J[g],
         J1[f] = j, JobOK(j), ReqsOK(J, R),
         \A q \in R : q.who # f,
         \A q \in R1 : q \in R \/ q \in SentAt(f, j)
  PROVE  ReqsOK(J1, R1)
<1>1. ASSUME NEW q \in R1
      PROVE  ReqOK(J1, q)
  <2>1. CASE q \in R
    <3>1. ReqOK(J, q) /\ q.who # f /\ q.file \in File
      BY <2>1 DEF ReqsOK, ReqOK, ReqType
    <3>2. q.who # NoFile => J1[q.file] = J[q.file]
      BY <3>1 DEF ReqOK
    <3> QED
      BY <3>1, <3>2 DEF ReqOK
  <2>2. CASE q \in SentAt(f, j)
    <3>1. /\ q \in ReqType /\ q.file = f /\ q.step = "sent"
          /\ \/ q.kind = "abort" /\ q.who = NoFile /\ q.slot = j.ticket /\ j.ticket # NoSlot
             \/ q.kind = j.awaits /\ q.who = f /\ q.kind # "begin" /\ q.slot = j.ticket /\ j.ticket # NoSlot
             \/ q = Request("begin", f, f, NoSlot) /\ q.kind = j.awaits
      BY <2>2, SentOK
    <3> QED
      BY <3>1 DEF ReqOK, Request
  <2> QED
    BY <2>1, <2>2
<1>2. ASSUME NEW q \in R1, NEW r \in R1, q.who = r.who, q.who # NoFile
      PROVE  q = r
  <2>1. CASE q \in R /\ r \in R
    BY <1>2, <2>1 DEF ReqsOK
  <2>2. ASSUME NEW p \in SentAt(f, j), p.who # NoFile
        PROVE  /\ p.who = f
               /\ \/ p.kind # "begin" /\ p.kind = j.awaits /\ p.slot = j.ticket /\ p.step = "sent" /\ p.file = f /\ p \in ReqType
                  \/ p = Request("begin", f, f, NoSlot) /\ j.awaits = "begin"
    <3>1. /\ p \in ReqType /\ p.file = f /\ p.step = "sent"
          /\ \/ p.kind = "abort" /\ p.who = NoFile /\ p.slot = j.ticket /\ j.ticket # NoSlot
             \/ p.kind = j.awaits /\ p.who = f /\ p.kind # "begin" /\ p.slot = j.ticket /\ j.ticket # NoSlot
             \/ p = Request("begin", f, f, NoSlot) /\ p.kind = j.awaits
      BY SentOK
    <3> QED
      BY <2>2, <3>1 DEF Request
  <2>3. CASE q \in SentAt(f, j) /\ r \in SentAt(f, j)
    <3>1. q.who = f /\ r.who = f
      BY <1>2, <2>2, <2>3
    <3>2. \/ q.kind # "begin" /\ q.kind = j.awaits /\ q.slot = j.ticket /\ q.step = "sent" /\ q.file = f /\ q \in ReqType
          \/ q = Request("begin", f, f, NoSlot) /\ j.awaits = "begin"
      BY <1>2, <2>2, <2>3
    <3>3. \/ r.kind # "begin" /\ r.kind = j.awaits /\ r.slot = j.ticket /\ r.step = "sent" /\ r.file = f /\ r \in ReqType
          \/ r = Request("begin", f, f, NoSlot) /\ j.awaits = "begin"
      BY <1>2, <2>2, <2>3
    <3> QED
      BY <3>1, <3>2, <3>3 DEF ReqType, Request
  <2> QED
    BY <1>2, <2>1, <2>2, <2>3
<1> QED
  BY <1>1, <1>2 DEF ReqsOK

\* The next job gets the place that is free.
LEMMA SettleKeeps ==
  ASSUME NEW J, NEW R, NEW W, ClientOK(J, W, R), Settle(J, R, W)
  PROVE  /\ ClientOK(job', waiting', reqs')
         /\ \A f \in File : job'[f].ticket = J[f].ticket /\ (job'[f].at = "ready" <=> J[f].at = "ready")
         /\ \A q \in reqs' : q \in R \/ (q.kind # "begin" => q.slot = J[q.file].ticket)
<1>0. J \in [File -> JobType] /\ QueueOK(J, W) /\ ReqsOK(J, R) /\ \A f \in File : JobOK(J[f])
  BY DEF ClientOK
<1>1. CASE job' = J /\ reqs' = R /\ waiting' = W
  BY <1>1
<1>2. CASE ~(job' = J /\ reqs' = R /\ waiting' = W)
  <2>1. W # <<>> /\ W \in Seq(File)
    BY <1>0, <1>2 DEF Settle, QueueOK
  <2>2. PICK f \in File : f = Head(W) /\ f = W[1] /\ 1 \in DOMAIN W
    BY <2>1
  <2>3. J[f].at = "waiting" /\ J[f] \in JobType /\ JobOK(J[f])
    BY <1>0, <2>2 DEF QueueOK
  <2>4. J[f].awaits = "off" /\ J[f].stage # "done"
    BY <2>3 DEF JobOK
  <2>5. PICK j : /\ j = [J[f] EXCEPT !.at = "running", !.awaits = J[f].stage]
                 /\ job' = [J EXCEPT ![f] = j] /\ reqs' = R \cup SentAt(f, j) /\ waiting' = Tail(W)
    BY <1>2, <2>2 DEF Settle
  <2>6. /\ j \in JobType /\ j.at = "running" /\ j.awaits = J[f].stage /\ j.stage = J[f].stage
        /\ j.ticket = J[f].ticket /\ j.retried = J[f].retried
    BY <2>3, <2>4, <2>5 DEF JobType
  <2>7. JobOK(j)
    <3>1. J[f].stage \in {"prepare", "begin", "upload", "finalize"}
      BY <2>3, <2>4 DEF JobType
    <3>2. j.stage \in {"upload", "finalize"} => j.ticket # NoSlot
      BY <2>3, <2>6 DEF JobOK
    <3> QED
      BY <2>6, <3>1, <3>2 DEF JobOK, Asks
  <2>8. /\ job' \in [File -> JobType] /\ job'[f] = j
        /\ \A g \in File : g # f => job'[g] = J[g]
    BY <1>0, <2>5, <2>6
  <2>9. \A q \in R : q.who # f
    BY <1>0, <2>4, NobodyAsks DEF Asks
  <2>10. \A q \in reqs' : q \in R \/ q \in SentAt(f, j)
    BY <2>5
  <2>11. ReqsOK(job', reqs')
    BY <1>0, <2>7, <2>8, <2>9, <2>10, Asked
  <2>12. QueueOK(job', waiting')
    <3>1. /\ Tail(W) \in Seq(File) /\ Len(Tail(W)) = Len(W) - 1 /\ Len(W) \in Nat
          /\ \A i \in DOMAIN Tail(W) : Tail(W)[i] = W[i + 1] /\ i + 1 \in DOMAIN W
      BY <2>1
    <3>2. \A i \in DOMAIN Tail(W) : W[i + 1] # f
      BY <1>0, <2>2, <3>1 DEF QueueOK
    <3>3. \A i \in DOMAIN Tail(W) : job'[Tail(W)[i]].at = "waiting"
      BY <1>0, <2>1, <2>8, <3>1, <3>2 DEF QueueOK
    <3>4. \A i, k \in DOMAIN Tail(W) : Tail(W)[i] = Tail(W)[k] => i = k
      BY <1>0, <2>1, <3>1 DEF QueueOK
    <3> QED
      BY <2>5, <3>1, <3>3, <3>4 DEF QueueOK
  <2>13. \A g \in File : JobOK(job'[g])
    BY <1>0, <2>7, <2>8
  <2>14. \A g \in File : job'[g].ticket = J[g].ticket /\ (job'[g].at = "ready" <=> J[g].at = "ready")
    BY <2>3, <2>6, <2>8
  <2>15. ASSUME NEW q \in reqs', q \notin R, q.kind # "begin"
         PROVE  q.slot = J[q.file].ticket
    <3>1. q \in SentAt(f, j)
      BY <2>10, <2>15
    <3>2. /\ q.file = f
          /\ \/ q.kind = "abort" /\ q.who = NoFile /\ q.slot = j.ticket /\ j.ticket # NoSlot
             \/ q.kind = j.awaits /\ q.who = f /\ q.kind # "begin" /\ q.slot = j.ticket /\ j.ticket # NoSlot
             \/ q = Request("begin", f, f, NoSlot) /\ q.kind = j.awaits
      BY <2>7, <3>1, SentOK
    <3> QED
      BY <2>6, <2>15, <3>2 DEF Request
  <2> QED
    BY <2>8, <2>11, <2>12, <2>13, <2>14, <2>15 DEF ClientOK
<1> QED
  BY <1>1, <1>2

Keeps ==
  /\ ClientOK(job', waiting', reqs')
  /\ \A f \in File, s \in Slot : Holds(job', reqs', f, s) => Holds(job, reqs, f, s)
  /\ \A f \in File : job'[f].at = "ready" => job[f].at = "ready" /\ job'[f].ticket = job[f].ticket

\* Holding follows from what the jobs and requests hold, and settling adds nothing.
LEMMA HoldsAfter ==
  ASSUME NEW J, NEW R, NEW f \in File, NEW s \in Slot,
         job'[f].ticket = J[f].ticket,
         \A q \in reqs' : q \in R \/ (q.kind # "begin" => q.slot = J[q.file].ticket),
         Holds(job', reqs', f, s)
  PROVE  Holds(J, R, f, s)
BY DEF Holds

\* A request q is answered: its run goes on.
Fits(q, answer, s) ==
  /\ answer \in {"reserved", "stored", "ready", "rejected", "refused", "limited", "denied", "missing",
                 "conflict", "nothing"}
  /\ answer = "reserved" => q.kind = "begin" /\ s \in Slot
  /\ answer = "stored" => q.kind = "upload"
  /\ answer \in {"ready", "missing"} => q.kind = "finalize"

LEMMA HeardOK ==
  ASSUME NEW q, NEW answer, NEW s, NEW j, Fits(q, answer, s), JobOK(j),
         j.awaits \in Asks, j.awaits = q.kind, q.kind # "begin" => q.slot = j.ticket
  PROVE  /\ JobOK(Heard(j, answer, s))
         /\ Heard(j, answer, s).ticket = j.ticket \/ (answer = "reserved" /\ Heard(j, answer, s).ticket = s)
         /\ Heard(j, answer, s).at = "ready" =>
              answer = "ready" /\ Heard(j, answer, s).ticket = j.ticket /\ q.slot = j.ticket
         /\ Heard(j, answer, s).at # "waiting"
<1>1. j \in JobType /\ j.at \in {"running", "gone"} /\ j.stage = j.awaits
  BY DEF JobOK, Asks
<1>2. j.stage \in {"upload", "finalize"} => j.ticket # NoSlot
  BY DEF JobOK
<1>3. CASE j.at = "gone"
  <2>1. Heard(j, answer, s) = [j EXCEPT !.awaits = "off"]
    BY <1>3 DEF Heard
  <2> QED
    BY <1>1, <1>2, <1>3, <2>1 DEF JobOK, JobType, Asks
<1>4. CASE j.at = "running"
  <2>1. CASE answer = "reserved"
    <3>1. Heard(j, answer, s) = [j EXCEPT !.ticket = s, !.stage = "upload", !.awaits = "upload"]
      BY <1>4, <2>1 DEF Heard
    <3>2. s \in Slot /\ s # NoSlot
      BY <2>1, UploadsAssumption DEF Fits
    <3> QED
      BY <1>1, <1>4, <2>1, <3>1, <3>2 DEF JobOK, JobType, Asks
  <2>2. CASE answer = "stored"
    <3>1. Heard(j, answer, s) = [j EXCEPT !.stage = "finalize", !.awaits = "finalize"]
      BY <1>4, <2>2 DEF Heard
    <3> QED
      BY <1>1, <1>2, <1>4, <2>2, <3>1 DEF JobOK, JobType, Asks, Fits
  <2>3. CASE answer = "ready"
    <3>1. Heard(j, answer, s) = [j EXCEPT !.at = "ready", !.stage = "done", !.awaits = "off"]
      BY <1>4, <2>3 DEF Heard
    <3> QED
      BY <1>1, <1>2, <1>4, <2>3, <3>1 DEF JobOK, JobType, Asks, Fits
  <2>4. CASE answer = "rejected"
    <3>1. Heard(j, answer, s) = [j EXCEPT !.at = "dead", !.stage = "done", !.awaits = "off"]
      BY <1>4, <2>4 DEF Heard
    <3> QED
      BY <1>1, <1>2, <1>4, <2>4, <3>1 DEF JobOK, JobType, Asks
  <2>5. CASE answer = "refused"
    <3>1. Heard(j, answer, s) = [j EXCEPT !.at = "dead", !.awaits = "off"]
      BY <1>4, <2>5 DEF Heard
    <3> QED
      BY <1>1, <1>2, <1>4, <2>5, <3>1 DEF JobOK, JobType, Asks
  <2>6. CASE answer = "limited"
    <3>1. Heard(j, answer, s) = [j EXCEPT !.at = "failed", !.awaits = "off"]
      BY <1>4, <2>6 DEF Heard
    <3> QED
      BY <1>1, <1>2, <1>4, <2>6, <3>1 DEF JobOK, JobType, Asks
  <2>7. ASSUME NEW w \in {"begin", "upload", "finalize"}, Heard(j, answer, s) = Failed(j, w),
               w # "begin" => j.ticket # NoSlot
        PROVE  /\ JobOK(Heard(j, answer, s)) /\ Heard(j, answer, s).ticket = j.ticket
               /\ Heard(j, answer, s).at \notin {"ready", "waiting"}
    <3>1. CASE j.retried
      <4>1. Heard(j, answer, s) = [j EXCEPT !.at = "failed", !.stage = w, !.awaits = "off"]
        BY <2>7, <3>1 DEF Failed
      <4> QED
        BY <1>1, <1>4, <2>7, <4>1 DEF JobOK, JobType, Asks
    <3>2. CASE ~j.retried
      <4>1. Heard(j, answer, s) = [j EXCEPT !.stage = w, !.retried = TRUE, !.awaits = "sleep"]
        BY <2>7, <3>2 DEF Failed
      <4> QED
        BY <1>1, <1>4, <2>7, <4>1 DEF JobOK, JobType, Asks
    <3> QED
      BY <3>1, <3>2
  <2>8. CASE answer = "denied"
    <3>1. Heard(j, answer, s) = Failed(j, "begin")
      BY <1>4, <2>8 DEF Heard
    <3> QED
      BY <2>7, <3>1
  <2>9. CASE answer = "missing"
    <3>1. Heard(j, answer, s) = Failed(j, "upload") /\ j.ticket # NoSlot
      BY <1>1, <1>2, <1>4, <2>9 DEF Heard, Fits
    <3> QED
      BY <2>7, <3>1
  <2>10. CASE answer \in {"conflict", "nothing"}
    <3>1. Heard(j, answer, s) = Failed(j, j.stage) /\ j.stage \in {"begin", "upload", "finalize"}
      BY <1>1, <1>4, <2>10 DEF Heard, Asks
    <3> QED
      BY <1>2, <2>7, <3>1
  <2> QED
    BY <2>1, <2>2, <2>3, <2>4, <2>5, <2>6, <2>8, <2>9, <2>10 DEF Fits
<1> QED
  BY <1>1, <1>3, <1>4

\* Jobs change outside the queue only.
LEMMA QueueStays ==
  ASSUME NEW J, NEW W, NEW J1, QueueOK(J, W), NEW f \in File, J[f].at # "waiting",
         \A g \in File : g # f => J1[g] = J[g]
  PROVE  QueueOK(J1, W)
BY DEF QueueOK

LEMMA HearKeeps ==
  ASSUME ClientOK(job, waiting, reqs), NEW q \in reqs, NEW R, NEW answer, NEW s,
         Hear(q, answer, s, R), Fits(q, answer, s),
         \A r \in R : \/ r \in reqs /\ r # q
                      \/ /\ r.who = NoFile /\ r \in ReqType
                         /\ r.kind = q.kind /\ r.file = q.file /\ r.slot = q.slot /\ r.step = q.step
  PROVE  /\ ClientOK(job', waiting', reqs')
         /\ \A f \in File, x \in Slot : Holds(job', reqs', f, x) =>
              Holds(job, reqs, f, x) \/ (answer = "reserved" /\ f = q.file /\ x = s)
         /\ \A f \in File : job'[f].at = "ready" =>
              \/ job[f].at = "ready" /\ job'[f].ticket = job[f].ticket
              \/ answer = "ready" /\ job'[f].ticket = q.slot
<1>1. /\ job \in [File -> JobType] /\ \A f \in File : JobOK(job[f])
      /\ QueueOK(job, waiting) /\ ReqsOK(job, reqs)
  BY DEF ClientOK
<1>2. ReqOK(job, q) /\ q.file \in File /\ q.who \in File \cup {NoFile}
  BY <1>1 DEF ReqsOK, ReqOK, ReqType
<1>3. ReqsOK(job, R)
  <2>1. \A r \in R : ReqOK(job, r)
    BY <1>1, <1>2 DEF ReqsOK, ReqOK
  <2> QED
    BY <1>1, <2>1 DEF ReqsOK
<1>4. ASSUME NEW f \in File, NEW x \in Slot, Holds(job, R, f, x)
      PROVE  Holds(job, reqs, f, x)
  BY <1>4 DEF Holds
<1>5. CASE q.who = NoFile
  <2>1. reqs' = R /\ job' = job /\ waiting' = waiting
    BY <1>5 DEF Hear, client_
  <2>2. ClientOK(job', waiting', reqs')
    BY <1>1, <1>3, <2>1 DEF ClientOK
  <2> QED
    BY <1>4, <2>1, <2>2
<1>6. CASE q.who # NoFile
  <2>1. PICK f \in File : f = q.who /\ f = q.file
    BY <1>2, <1>6 DEF ReqOK
  <2>2. /\ job[f].awaits = q.kind /\ q.kind \in Asks
        /\ q.kind # "begin" => q.slot = job[f].ticket
    <3>1. job[f] \in JobType /\ q \in ReqType
      BY <1>1, <1>2 DEF ReqOK
    <3> QED
      BY <1>2, <1>6, <2>1, <3>1 DEF ReqOK, JobType, ReqType, Asks
  <2>3. JobOK(job[f]) /\ job[f].at # "waiting"
    BY <1>1, <2>2 DEF JobOK, Asks
  <2>4. PICK j : j = Heard(job[f], answer, s)
    OBVIOUS
  <2>5. /\ JobOK(j) /\ j \in JobType
        /\ j.ticket = job[f].ticket \/ (answer = "reserved" /\ j.ticket = s)
        /\ j.at = "ready" => answer = "ready" /\ j.ticket = job[f].ticket /\ q.slot = job[f].ticket
        /\ j.at # "waiting"
    <3>1. JobOK(j)
      BY <2>2, <2>3, <2>4, HeardOK
    <3> QED
      BY <2>2, <2>3, <2>4, <3>1, HeardOK DEF JobOK
  <2>6. PICK J : J = [job EXCEPT ![f] = j]
    OBVIOUS
  <2>7. PICK R1 : R1 = R \cup SentAt(f, j)
    OBVIOUS
  <2>8. Settle(J, R1, waiting)
    BY <1>6, <2>1, <2>4, <2>6, <2>7 DEF Hear
  <2>9. J \in [File -> JobType] /\ J[f] = j /\ \A g \in File : g # f => J[g] = job[g]
    BY <1>1, <2>5, <2>6
  <2>10. \A r \in R : r.who # f
    <3>1. \A r \in R : r.who = q.who => r \in reqs /\ r # q
      BY <1>6
    <3> QED
      BY <1>1, <1>6, <2>1, <3>1 DEF ReqsOK
  <2>11. \A r \in R1 : r \in R \/ r \in SentAt(f, j)
    BY <2>7
  <2>12. ReqsOK(J, R1)
    BY <1>3, <2>5, <2>9, <2>10, <2>11, Asked
  <2>13. QueueOK(J, waiting)
    BY <1>1, <2>3, <2>9, QueueStays
  <2>14. ClientOK(J, waiting, R1)
    BY <1>1, <2>5, <2>9, <2>12, <2>13 DEF ClientOK
  <2>15. /\ ClientOK(job', waiting', reqs')
         /\ \A g \in File : job'[g].ticket = J[g].ticket /\ (job'[g].at = "ready" <=> J[g].at = "ready")
         /\ \A r \in reqs' : r \in R1 \/ (r.kind # "begin" => r.slot = J[r.file].ticket)
    BY <2>8, <2>14, SettleKeeps
  <2>16. ASSUME NEW g \in File, NEW x \in Slot, Holds(job', reqs', g, x)
         PROVE  Holds(job, reqs, g, x) \/ (answer = "reserved" /\ g = q.file /\ x = s)
    <3>1. Holds(J, R1, g, x)
      BY <2>15, <2>16, HoldsAfter
    <3>2. CASE J[g].ticket = x
      BY <2>1, <2>5, <2>9, <3>2 DEF Holds
    <3>3. CASE J[g].ticket # x
      <4>1. PICK r \in R1 : r.kind # "begin" /\ r.file = g /\ r.slot = x
        BY <3>1, <3>3 DEF Holds
      <4>2. CASE r \in R
        BY <1>4, <4>1, <4>2 DEF Holds
      <4>3. CASE r \in SentAt(f, j)
        <5>1. /\ r.file = f
              /\ \/ r.kind = "abort" /\ r.who = NoFile /\ r.slot = j.ticket /\ j.ticket # NoSlot
                 \/ r.kind = j.awaits /\ r.who = f /\ r.kind # "begin" /\ r.slot = j.ticket /\ j.ticket # NoSlot
                 \/ r = Request("begin", f, f, NoSlot) /\ r.kind = j.awaits
          BY <2>5, <4>3, SentOK
        <5>2. r.slot = j.ticket
          BY <4>1, <5>1 DEF Request
        <5> QED
          BY <2>9, <3>3, <4>1, <5>1, <5>2
      <4> QED
        BY <2>11, <4>2, <4>3
    <3> QED
      BY <3>2, <3>3
  <2>17. ASSUME NEW g \in File, job'[g].at = "ready"
         PROVE  \/ job[g].at = "ready" /\ job'[g].ticket = job[g].ticket
                \/ answer = "ready" /\ job'[g].ticket = q.slot
    <3>1. J[g].at = "ready" /\ job'[g].ticket = J[g].ticket
      BY <2>15, <2>17
    <3> QED
      BY <2>5, <2>9, <3>1
  <2> QED
    BY <2>15, <2>16, <2>17
<1> QED
  BY <1>5, <1>6

\* The job of f, nobody's request, becomes j; W is the queue then.
LEMMA MoveKeeps ==
  ASSUME ClientOK(job, waiting, reqs), NEW f \in File, NEW j, NEW J, NEW R, NEW W,
         job[f].awaits \notin Asks, JobOK(j), j.ticket = job[f].ticket, j.at # "ready",
         J \in [File -> JobType], J[f] = j, \A g \in File : g # f => J[g] = job[g],
         \A r \in R : r \in reqs \/ r \in SentAt(f, j),
         QueueOK(J, W), Settle(J, R, W) \/ (job' = J /\ reqs' = R /\ waiting' = W)
  PROVE  Keeps
<1>1. /\ job \in [File -> JobType] /\ \A g \in File : JobOK(job[g])
      /\ ReqsOK(job, reqs)
  BY DEF ClientOK
<1>2. \A q \in reqs : q.who # f
  BY <1>1, NobodyAsks
<1>3. ReqsOK(J, R)
  BY <1>1, <1>2, Asked
<1>4. ClientOK(J, W, R)
  BY <1>1, <1>3 DEF ClientOK
<1>5. /\ ClientOK(job', waiting', reqs')
      /\ \A g \in File : job'[g].ticket = J[g].ticket /\ (job'[g].at = "ready" <=> J[g].at = "ready")
      /\ \A r \in reqs' : r \in R \/ (r.kind # "begin" => r.slot = J[r.file].ticket)
  BY <1>4, SettleKeeps
<1>6. ASSUME NEW g \in File, NEW x \in Slot, Holds(job', reqs', g, x)
      PROVE  Holds(job, reqs, g, x)
  <2>1. Holds(J, R, g, x)
    BY <1>5, <1>6, HoldsAfter
  <2>2. J[g].ticket = job[g].ticket
    OBVIOUS
  <2>3. CASE J[g].ticket = x
    BY <2>2, <2>3 DEF Holds
  <2>4. CASE J[g].ticket # x
    <3>1. PICK r \in R : r.kind # "begin" /\ r.file = g /\ r.slot = x
      BY <2>1, <2>4 DEF Holds
    <3>2. CASE r \in reqs
      BY <3>1, <3>2 DEF Holds
    <3>3. CASE r \in SentAt(f, j)
      <4>1. /\ r.file = f
            /\ \/ r.kind = "abort" /\ r.who = NoFile /\ r.slot = j.ticket /\ j.ticket # NoSlot
               \/ r.kind = j.awaits /\ r.who = f /\ r.kind # "begin" /\ r.slot = j.ticket /\ j.ticket # NoSlot
               \/ r = Request("begin", f, f, NoSlot) /\ r.kind = j.awaits
        BY <3>3, SentOK
      <4>2. r.slot = j.ticket
        BY <3>1, <4>1 DEF Request
      <4> QED
        BY <2>2, <2>4, <3>1, <4>1, <4>2
    <3> QED
      BY <3>2, <3>3
  <2> QED
    BY <2>3, <2>4
<1>7. \A g \in File : job'[g].at = "ready" => job[g].at = "ready" /\ job'[g].ticket = job[g].ticket
  BY <1>5
<1> QED
  BY <1>5, <1>6, <1>7 DEF Keeps

\* A job that did not wait comes to the end of the queue.
LEMMA QueueGrows ==
  ASSUME NEW J, NEW W, NEW J1, NEW f \in File, QueueOK(J, W), J[f].at # "waiting", J1[f].at = "waiting",
         \A g \in File : g # f => J1[g] = J[g]
  PROVE  QueueOK(J1, Append(W, f))
<1>1. W \in Seq(File) /\ Len(W) \in Nat
  BY DEF QueueOK
<1>2. Append(W, f) \in Seq(File) /\ Len(Append(W, f)) = Len(W) + 1
  BY <1>1
<1>3. \A i \in DOMAIN Append(W, f) : IF i = Len(W) + 1 THEN Append(W, f)[i] = f
                                     ELSE i \in DOMAIN W /\ Append(W, f)[i] = W[i]
  BY <1>1, <1>2
<1>4. \A i \in DOMAIN W : W[i] \in File /\ W[i] # f /\ J[W[i]].at = "waiting"
  BY <1>1 DEF QueueOK
<1>5. \A i \in DOMAIN Append(W, f) : J1[Append(W, f)[i]].at = "waiting"
  BY <1>3, <1>4
<1>6. \A i, k \in DOMAIN Append(W, f) : Append(W, f)[i] = Append(W, f)[k] => i = k
  <2>1. \A i, k \in DOMAIN W : W[i] = W[k] => i = k
    BY DEF QueueOK
  <2> QED
    BY <1>3, <1>4, <2>1
<1> QED
  BY <1>2, <1>5, <1>6 DEF QueueOK

LEMMA AddFileKeeps ==
  ASSUME ClientOK(job, waiting, reqs), NEW f \in File, AddFile(f)
  PROVE  Keeps
<1>1. /\ job \in [File -> JobType] /\ \A g \in File : JobOK(job[g])
      /\ QueueOK(job, waiting)
  BY DEF ClientOK
<1>2. job[f].at = "none" /\ job[f] \in JobType /\ JobOK(job[f])
  BY <1>1 DEF AddFile
<1>3. PICK j : j = [job[f] EXCEPT !.at = "waiting"]
  OBVIOUS
<1>4. job[f].awaits = "off"
  BY <1>2 DEF JobOK
<1>5. j.at = "waiting" /\ j.ticket = job[f].ticket /\ JobOK(j) /\ j \in JobType
  BY <1>2, <1>3, <1>4 DEF JobOK, JobType, Asks
<1>6. PICK J : J = [job EXCEPT ![f].at = "waiting"]
  OBVIOUS
<1>7. J \in [File -> JobType] /\ J[f] = j /\ \A g \in File : g # f => J[g] = job[g]
  BY <1>1, <1>3, <1>5, <1>6
<1>8. PICK W : W = Append(waiting, f)
  OBVIOUS
<1>9. QueueOK(J, W)
  BY <1>1, <1>2, <1>5, <1>7, <1>8, QueueGrows
<1>10. Settle(J, reqs, W)
  BY <1>6, <1>8 DEF AddFile
<1> QED
  BY <1>4, <1>5, <1>7, <1>9, <1>10, MoveKeeps DEF Asks

LEMMA RetryFileKeeps ==
  ASSUME ClientOK(job, waiting, reqs), NEW f \in File, RetryFile(f)
  PROVE  Keeps
<1>1. /\ job \in [File -> JobType] /\ \A g \in File : JobOK(job[g])
      /\ QueueOK(job, waiting)
  BY DEF ClientOK
<1>2. job[f].at = "failed" /\ job[f] \in JobType /\ JobOK(job[f])
  BY <1>1 DEF RetryFile
<1>3. PICK j : j = [job[f] EXCEPT !.at = "waiting", !.retried = FALSE]
  OBVIOUS
<1>4. job[f].awaits = "off"
  BY <1>2 DEF JobOK
<1>5. j.at = "waiting" /\ j.ticket = job[f].ticket /\ JobOK(j) /\ j \in JobType
  BY <1>2, <1>3, <1>4 DEF JobOK, JobType, Asks
<1>6. PICK J : J = [job EXCEPT ![f].at = "waiting", ![f].retried = FALSE]
  OBVIOUS
<1>7. J \in [File -> JobType] /\ J[f] = j /\ \A g \in File : g # f => J[g] = job[g]
  BY <1>1, <1>3, <1>5, <1>6
<1>8. PICK W : W = Append(waiting, f)
  OBVIOUS
<1>9. QueueOK(J, W)
  BY <1>1, <1>2, <1>5, <1>7, <1>8, QueueGrows
<1>10. Settle(J, reqs, W)
  BY <1>6, <1>8 DEF RetryFile
<1> QED
  BY <1>4, <1>5, <1>7, <1>9, <1>10, MoveKeeps DEF Asks

LEMMA PreparedKeeps ==
  ASSUME ClientOK(job, waiting, reqs), NEW f \in File, Prepared(f)
  PROVE  Keeps
<1>1. /\ job \in [File -> JobType] /\ \A g \in File : JobOK(job[g])
      /\ QueueOK(job, waiting)
  BY DEF ClientOK
<1>2. job[f].awaits = "prepare" /\ job[f] \in JobType /\ JobOK(job[f])
  BY <1>1 DEF Prepared
<1>3. job[f].at = "running"
  BY <1>2 DEF JobOK
<1>4. PICK seen \in BOOLEAN :
        LET j == IF seen THEN [job[f] EXCEPT !.at = "dead", !.awaits = "off"]
                 ELSE [job[f] EXCEPT !.stage = "begin", !.awaits = "begin"]
        IN Settle([job EXCEPT ![f] = j], reqs \cup SentAt(f, j), waiting)
  BY DEF Prepared
<1>5. PICK j : j = IF seen THEN [job[f] EXCEPT !.at = "dead", !.awaits = "off"]
                   ELSE [job[f] EXCEPT !.stage = "begin", !.awaits = "begin"]
  OBVIOUS
<1>6. PICK J : J = [job EXCEPT ![f] = j]
  OBVIOUS
<1>7. PICK R : R = reqs \cup SentAt(f, j)
  OBVIOUS
<1>8. Settle(J, R, waiting)
  BY <1>4, <1>5, <1>6, <1>7
<1>9. JobOK(j) /\ j \in JobType /\ j.ticket = job[f].ticket /\ j.at # "ready"
  <2>1. CASE seen
    <3>1. j = [job[f] EXCEPT !.at = "dead", !.awaits = "off"]
      BY <1>5, <2>1
    <3> QED
      BY <1>2, <1>3, <3>1 DEF JobOK, JobType, Asks
  <2>2. CASE ~seen
    <3>1. j = [job[f] EXCEPT !.stage = "begin", !.awaits = "begin"]
      BY <1>5, <2>2
    <3> QED
      BY <1>2, <1>3, <3>1 DEF JobOK, JobType, Asks
  <2> QED
    BY <2>1, <2>2
<1>10. J \in [File -> JobType] /\ J[f] = j /\ \A g \in File : g # f => J[g] = job[g]
  BY <1>1, <1>6, <1>9
<1>11. QueueOK(J, waiting)
  BY <1>1, <1>3, <1>10, QueueStays
<1>12. \A r \in R : r \in reqs \/ r \in SentAt(f, j)
  BY <1>7
<1> QED
  BY <1>2, <1>8, <1>9, <1>10, <1>11, <1>12, MoveKeeps DEF Asks

LEMMA WakeRunKeeps ==
  ASSUME ClientOK(job, waiting, reqs), NEW f \in File, WakeRun(f)
  PROVE  Keeps
<1>1. /\ job \in [File -> JobType] /\ \A g \in File : JobOK(job[g])
      /\ QueueOK(job, waiting)
  BY DEF ClientOK
<1>2. job[f].awaits = "sleep" /\ job[f] \in JobType /\ JobOK(job[f])
  BY <1>1 DEF WakeRun
<1>3. job[f].at = "running" /\ job[f].stage \in Asks
  BY <1>2 DEF JobOK
<1>4. PICK j : j = [job[f] EXCEPT !.awaits = job[f].stage]
  OBVIOUS
<1>5. job' = [job EXCEPT ![f] = j] /\ reqs' = reqs \cup SentAt(f, j) /\ waiting' = waiting
  BY <1>4 DEF WakeRun
<1>6. JobOK(j) /\ j \in JobType /\ j.ticket = job[f].ticket /\ j.at # "ready"
  BY <1>2, <1>3, <1>4 DEF JobOK, JobType, Asks
<1>7. PICK J : J = job'
  OBVIOUS
<1>8. PICK R : R = reqs'
  OBVIOUS
<1>9. J \in [File -> JobType] /\ J[f] = j /\ \A g \in File : g # f => J[g] = job[g]
  BY <1>1, <1>5, <1>6, <1>7
<1>10. QueueOK(J, waiting)
  BY <1>1, <1>3, <1>9, QueueStays
<1>11. \A r \in R : r \in reqs \/ r \in SentAt(f, j)
  BY <1>5, <1>8
<1>12. job' = J /\ reqs' = R /\ waiting' = waiting
  BY <1>5, <1>7, <1>8
<1> QED
  BY <1>2, <1>6, <1>9, <1>10, <1>11, <1>12, MoveKeeps DEF Asks

\* Files that are dropped: what they await is given up, or is heard by nobody.
LEMMA DropKeeps ==
  ASSUME ClientOK(job, waiting, reqs), NEW F \in SUBSET File, Drop(F)
  PROVE  Keeps
<1>1. /\ job \in [File -> JobType] /\ \A g \in File : JobOK(job[g])
      /\ QueueOK(job, waiting) /\ ReqsOK(job, reqs)
  BY DEF ClientOK
<1>2. PICK W \in Spliced(F) :
        Settle([f \in File |-> IF f \in F THEN Disposed(job[f]) ELSE job[f]],
               {IF q.who \in F /\ q.kind = "upload" THEN [q EXCEPT !.who = NoFile] ELSE q : q \in reqs}
                 \cup UNION {AbortOf(f) : f \in F},
               W)
  BY DEF Drop
<1>3. PICK J : J = [f \in File |-> IF f \in F THEN Disposed(job[f]) ELSE job[f]]
  OBVIOUS
<1>4. PICK R : R = {IF q.who \in F /\ q.kind = "upload" THEN [q EXCEPT !.who = NoFile] ELSE q : q \in reqs}
                     \cup UNION {AbortOf(f) : f \in F}
  OBVIOUS
<1>5. Settle(J, R, W)
  BY <1>2, <1>3, <1>4
<1>6. ASSUME NEW f \in F
      PROVE  /\ JobOK(Disposed(job[f])) /\ Disposed(job[f]) \in JobType
             /\ Disposed(job[f]).ticket = job[f].ticket /\ Disposed(job[f]).at = "gone"
             /\ Disposed(job[f]).awaits = IF job[f].awaits \in {"begin", "finalize"} THEN job[f].awaits ELSE "off"
  <2>1. JobOK(job[f]) /\ job[f] \in JobType
    BY <1>1
  <2>2. PICK a : a = IF job[f].awaits \in {"begin", "finalize"} THEN job[f].awaits ELSE "off"
    OBVIOUS
  <2>3. Disposed(job[f]) = [job[f] EXCEPT !.at = "gone", !.awaits = a]
    BY <2>1, <2>2 DEF Disposed, JobType
  <2>4. a \in {"off", "begin", "finalize"} /\ (a # "off" => a = job[f].awaits)
    BY <2>2
  <2> QED
    BY <2>1, <2>2, <2>3, <2>4 DEF JobOK, JobType, Asks
<1>7. /\ J \in [File -> JobType]
      /\ \A f \in F : J[f] = Disposed(job[f])
      /\ \A f \in File : f \notin F => J[f] = job[f]
      /\ \A f \in File : JobOK(J[f]) /\ J[f].ticket = job[f].ticket
      /\ \A f \in File : J[f].at = "ready" => job[f].at = "ready"
  BY <1>1, <1>3, <1>6
<1>8. ASSUME NEW r \in R
      PROVE  \/ r \in reqs /\ ~(r.who \in F /\ r.kind = "upload")
             \/ \E q \in reqs : q.kind = "upload" /\ r = [q EXCEPT !.who = NoFile]
             \/ \E f \in F : r = Request("abort", f, NoFile, job[f].ticket) /\ job[f].ticket # NoSlot
  <2>1. CASE r \in UNION {AbortOf(f) : f \in F}
    <3>1. PICK f \in F : r \in AbortOf(f)
      BY <2>1
    <3> QED
      BY <3>1 DEF AbortOf
  <2>2. CASE r \in {IF q.who \in F /\ q.kind = "upload" THEN [q EXCEPT !.who = NoFile] ELSE q : q \in reqs}
    <3>1. PICK q \in reqs : r = IF q.who \in F /\ q.kind = "upload" THEN [q EXCEPT !.who = NoFile] ELSE q
      BY <2>2
    <3> QED
      BY <3>1
  <2> QED
    BY <1>4, <2>1, <2>2
<1>9. ASSUME NEW r \in R
      PROVE  /\ ReqOK(J, r)
             /\ r.who # NoFile => r \in reqs
             /\ r.kind # "begin" => \/ \E q \in reqs : q.kind # "begin" /\ q.file = r.file /\ q.slot = r.slot
                                    \/ r.slot = job[r.file].ticket
  <2>1. CASE r \in reqs /\ ~(r.who \in F /\ r.kind = "upload")
    <3>1. ReqOK(job, r) /\ r.file \in File
      BY <1>1, <2>1 DEF ReqsOK, ReqOK, ReqType
    <3>2. r.who # NoFile => r.who = r.file /\ r.kind = job[r.file].awaits
      BY <3>1 DEF ReqOK
    <3>3. CASE r.who \in F
      <4>1. r.who # NoFile /\ r.file \in F /\ r.kind \in {"begin", "upload", "finalize", "abort"} /\ r.kind # "upload"
        BY <2>1, <3>1, <3>2, <3>3, UploadsAssumption DEF ReqOK, ReqType
      <4>2. job[r.file].awaits \in {"off", "prepare", "begin", "upload", "finalize", "sleep"}
        BY <1>1, <3>1 DEF JobType
      <4>3. job[r.file].awaits \in {"begin", "finalize"}
        BY <3>2, <4>1, <4>2
      <4>4. J[r.file].awaits = job[r.file].awaits /\ J[r.file].ticket = job[r.file].ticket
        BY <1>6, <1>7, <4>1, <4>3
      <4> QED
        BY <2>1, <3>1, <4>4 DEF ReqOK
    <3>4. CASE r.who \notin F
      <4>1. r.who # NoFile => J[r.file] = job[r.file]
        BY <1>7, <3>1, <3>2, <3>4
      <4> QED
        BY <2>1, <3>1, <4>1 DEF ReqOK
    <3> QED
      BY <3>3, <3>4
  <2>2. ASSUME NEW q \in reqs, q.kind = "upload", r = [q EXCEPT !.who = NoFile]
        PROVE  /\ ReqOK(J, r) /\ r.who = NoFile
               /\ q.kind # "begin" /\ q.file = r.file /\ q.slot = r.slot
    <3>1. ReqOK(job, q) /\ q \in ReqType
      BY <1>1 DEF ReqsOK, ReqOK
    <3>2. /\ r \in ReqType /\ r.who = NoFile /\ r.kind = q.kind /\ r.file = q.file
          /\ r.slot = q.slot /\ r.step = q.step
      BY <2>2, <3>1 DEF ReqType
    <3> QED
      BY <2>2, <3>1, <3>2 DEF ReqOK
  <2>3. ASSUME NEW f \in F, r = Request("abort", f, NoFile, job[f].ticket), job[f].ticket # NoSlot
        PROVE  ReqOK(J, r) /\ r.who = NoFile /\ r.slot = job[r.file].ticket
    <3>1. job[f].ticket \in Slot \cup {NoSlot} /\ f \in File
      BY <1>1 DEF JobType
    <3> QED
      BY <2>3, <3>1 DEF ReqOK, ReqType, Request
  <2> QED
    BY <1>8, <2>1, <2>2, <2>3
<1>10. ReqsOK(J, R)
  BY <1>1, <1>9 DEF ReqsOK
<1>11. QueueOK(J, W)
  <2>1. PICK n \in 0 .. Len(waiting) : W \in [1 .. n -> File]
    BY <1>2 DEF Spliced
  <2>2. /\ Range(W) = Range(waiting) \ F
        /\ \A i, k \in DOMAIN W : i < k =>
             \E l, m \in DOMAIN waiting : l < m /\ waiting[l] = W[i] /\ waiting[m] = W[k]
    BY <1>2 DEF Spliced
  <2>3. n \in Nat /\ W \in Seq(File) /\ DOMAIN W = 1 .. n
    BY <1>1, <2>1 DEF QueueOK
  <2>4. ASSUME NEW i \in DOMAIN W
        PROVE  J[W[i]].at = "waiting"
    <3>1. W[i] \in Range(waiting) /\ W[i] \notin F
      BY <2>2 DEF Range
    <3>2. PICK k \in DOMAIN waiting : W[i] = waiting[k]
      BY <3>1 DEF Range
    <3>3. job[W[i]].at = "waiting" /\ W[i] \in File
      BY <1>1, <2>3, <3>2 DEF QueueOK
    <3> QED
      BY <1>7, <3>1, <3>3
  <2>5. ASSUME NEW i \in DOMAIN W, NEW k \in DOMAIN W, W[i] = W[k], i < k
        PROVE  FALSE
    <3>1. PICK l \in DOMAIN waiting, m \in DOMAIN waiting : l < m /\ waiting[l] = W[i] /\ waiting[m] = W[k]
      BY <2>2, <2>5
    <3>2. l = m /\ l \in Int
      BY <1>1, <2>5, <3>1 DEF QueueOK
    <3> QED
      BY <3>1, <3>2
  <2>6. \A i, k \in DOMAIN W : W[i] = W[k] => i = k
    <3>1. \A i, k \in DOMAIN W : i < k \/ k < i \/ i = k
      BY <2>3
    <3> QED
      BY <2>5, <3>1
  <2> QED
    BY <2>3, <2>4, <2>6 DEF QueueOK
<1>12. ClientOK(J, W, R)
  BY <1>7, <1>10, <1>11 DEF ClientOK
<1>13. /\ ClientOK(job', waiting', reqs')
       /\ \A g \in File : job'[g].ticket = J[g].ticket /\ (job'[g].at = "ready" <=> J[g].at = "ready")
       /\ \A r \in reqs' : r \in R \/ (r.kind # "begin" => r.slot = J[r.file].ticket)
  BY <1>5, <1>12, SettleKeeps
<1>14. ASSUME NEW g \in File, NEW x \in Slot, Holds(job', reqs', g, x)
       PROVE  Holds(job, reqs, g, x)
  <2>1. Holds(J, R, g, x)
    BY <1>13, <1>14, HoldsAfter
  <2>2. CASE J[g].ticket = x
    BY <1>7, <2>2 DEF Holds
  <2>3. CASE J[g].ticket # x
    <3>1. PICK r \in R : r.kind # "begin" /\ r.file = g /\ r.slot = x
      BY <2>1, <2>3 DEF Holds
    <3>2. job[g].ticket # x
      BY <1>7, <2>3
    <3> QED
      BY <1>9, <3>1, <3>2 DEF Holds
  <2> QED
    BY <2>2, <2>3
<1> QED
  BY <1>7, <1>13, <1>14 DEF Keeps

-----------------------------------------------------------------------------
(* The rows: what a step of the server or the night must respect. *)

LEMMA HoldersKeep ==
  ASSUME Holders,
         \A f \in File, s \in Slot : Holds(job', reqs', f, s) => Holds(job, reqs, f, s),
         \A s \in Slot : status'[s] = "free" => status[s] = "free",
         \A s \in Slot : status'[s] = "ready" =>
           status[s] = "ready" \/ \A f \in File : Holds(job, reqs, f, s) => f \notin Bad
  PROVE  Holders'
<1>1. ASSUME NEW s \in Slot, NEW f \in File, Holds(job', reqs', f, s)
      PROVE  /\ status'[s] # "free"
             /\ status'[s] = "ready" => f \notin Bad
             /\ \A g \in File : Holds(job', reqs', g, s) => f = g
  <2>1. Holds(job, reqs, f, s)
    BY <1>1
  <2>2. /\ status[s] # "free" /\ (status[s] = "ready" => f \notin Bad)
        /\ \A g \in File : Holds(job, reqs, g, s) => f = g
    BY <2>1 DEF Holders
  <2> QED
    BY <2>1, <2>2
<1> QED
  BY <1>1 DEF Holders

\* What is shown stays as it was, or is ready.
LEMMA ShownKeeps ==
  ASSUME RowsType, RowsType', RowsOK,
         \A f \in File : job'[f].at = "ready" =>
           \/ job[f].at = "ready" /\ job'[f].ticket = job[f].ticket
           \/ status[job'[f].ticket] = "ready" \/ age[job'[f].ticket] >= 2
           \/ status'[job'[f].ticket] = "ready",
         \A f \in File : job'[f].at = "ready" => job'[f].ticket \in Slot,
         sending' \cup sent' \subseteq Shown,
         \A s \in Slot : age'[s] >= age[s],
         \A s \in Slot : status[s] = "ready" => status'[s] = "ready" \/ age'[s] >= 2
  PROVE  \A s \in Shown' : status'[s] = "ready" \/ age'[s] >= 2
<1>1. \A s \in Slot : age[s] \in 0 .. 3 /\ age'[s] \in 0 .. 3
  BY DEF RowsType
<1>2. ASSUME NEW s \in Slot, status[s] = "ready" \/ age[s] >= 2
      PROVE  status'[s] = "ready" \/ age'[s] >= 2
  <2>1. age'[s] >= age[s] /\ age[s] \in Int /\ age'[s] \in Int
    BY <1>1
  <2> QED
    BY <1>2, <2>1
<1>3. ASSUME NEW s \in Shown, s \in Slot
      PROVE  status'[s] = "ready" \/ age'[s] >= 2
  BY <1>2, <1>3 DEF RowsOK
<1>4. ASSUME NEW f \in File, job'[f].at = "ready"
      PROVE  status'[job'[f].ticket] = "ready" \/ age'[job'[f].ticket] >= 2
  <2>1. job'[f].ticket \in Slot
    BY <1>4
  <2>2. CASE job[f].at = "ready" /\ job'[f].ticket = job[f].ticket
    <3>1. job[f].ticket \in Shown
      BY <2>2 DEF Shown, ReadyFiles
    <3> QED
      BY <1>3, <2>1, <2>2, <3>1
  <2> QED
    BY <1>2, <1>4, <2>1, <2>2
<1>5. ASSUME NEW s \in Shown'
      PROVE  status'[s] = "ready" \/ age'[s] >= 2
  <2>1. \/ s \in sending' \cup sent'
        \/ \E f \in File : job'[f].at = "ready" /\ s = job'[f].ticket
    BY DEF Shown, ReadyFiles
  <2>2. sending' \cup sent' \subseteq Slot
    BY DEF RowsType
  <2> QED
    BY <1>3, <1>4, <2>1, <2>2
<1> QED
  BY <1>5

LEMMA ReadyHasTicket ==
  ASSUME NEW J, NEW W, NEW R, ClientOK(J, W, R)
  PROVE  \A f \in File : J[f].at = "ready" => J[f].ticket \in Slot
BY DEF ClientOK, JobOK, JobType

\* A step of the composer alone.
LEMMA ClientStep ==
  ASSUME UploadInv, Keeps, UNCHANGED <<server_, nightly>>, sending' \subseteq Shown, sending' \subseteq Slot
  PROVE  UploadInv'
<1>1. /\ status' = status /\ age' = age /\ purged' = purged /\ stored' = stored /\ sent' = sent
      /\ nightly' = nightly
  BY DEF server_
<1>2. RowsType'
  BY <1>1 DEF UploadInv, RowsType
<1>3. ClientOK(job', waiting', reqs')
  BY DEF Keeps
<1>4. Holders'
  BY <1>1, HoldersKeep DEF UploadInv, Keeps
<1>5. \A s \in Shown' : status'[s] = "ready" \/ age'[s] >= 2
  <2>1. \A f \in File : job'[f].at = "ready" => job[f].at = "ready" /\ job'[f].ticket = job[f].ticket
    BY DEF Keeps
  <2>2. \A f \in File : job'[f].at = "ready" => job'[f].ticket \in Slot
    BY <1>3, ReadyHasTicket
  <2>3. sending' \cup sent' \subseteq Shown
    BY <1>1 DEF Shown
  <2>4. \A s \in Slot : age'[s] >= age[s]
    BY <1>1 DEF UploadInv, RowsType
  <2> QED
    BY <1>1, <1>2, <2>1, <2>2, <2>3, <2>4, ShownKeeps DEF UploadInv
<1>6. RowsOK'
  BY <1>1, <1>5 DEF UploadInv, RowsOK
<1>7. NightOK'
  BY <1>1 DEF UploadInv, NightOK
<1> QED
  BY <1>2, <1>3, <1>4, <1>6, <1>7 DEF UploadInv

-----------------------------------------------------------------------------
(* Requests that are served, fail or are lost. *)

LEMMA AtWork ==
  ASSUME ClientOK(job, waiting, reqs), NEW q \in reqs, q.kind # "begin"
  PROVE  q.file \in File /\ q.slot \in Slot /\ Holds(job, reqs, q.file, q.slot)
<1>1. ReqOK(job, q)
  BY DEF ClientOK, ReqsOK
<1> QED
  BY <1>1 DEF ReqOK, ReqType, Holds

\* An answer that neither reserves nor says ready.
LEMMA Answered ==
  ASSUME ClientOK(job, waiting, reqs), NEW q \in reqs, NEW answer, NEW s,
         Hear(q, answer, s, reqs \ {q}), Fits(q, answer, s), answer \notin {"reserved", "ready"}
  PROVE  Keeps
<1>1. PICK R : R = reqs \ {q}
  OBVIOUS
<1>2. Hear(q, answer, s, R) /\ \A r \in R : r \in reqs /\ r # q
  BY <1>1
<1>3. /\ ClientOK(job', waiting', reqs')
      /\ \A f \in File, x \in Slot : Holds(job', reqs', f, x) =>
           Holds(job, reqs, f, x) \/ (answer = "reserved" /\ f = q.file /\ x = s)
      /\ \A f \in File : job'[f].at = "ready" =>
           \/ job[f].at = "ready" /\ job'[f].ticket = job[f].ticket
           \/ answer = "ready" /\ job'[f].ticket = q.slot
  BY <1>2, HearKeeps
<1> QED
  BY <1>3 DEF Keeps

\* An answer that says ready.
LEMMA AnsweredReady ==
  ASSUME ClientOK(job, waiting, reqs), NEW q \in reqs, NEW s,
         Hear(q, "ready", s, reqs \ {q}), q.kind = "finalize"
  PROVE  /\ ClientOK(job', waiting', reqs')
         /\ \A f \in File, x \in Slot : Holds(job', reqs', f, x) => Holds(job, reqs, f, x)
         /\ \A f \in File : job'[f].at = "ready" =>
              \/ job[f].at = "ready" /\ job'[f].ticket = job[f].ticket
              \/ job'[f].ticket = q.slot
<1>1. PICK R : R = reqs \ {q}
  OBVIOUS
<1>2. Hear(q, "ready", s, R) /\ \A r \in R : r \in reqs /\ r # q
  BY <1>1
<1>3. Fits(q, "ready", s)
  BY DEF Fits
<1>4. PICK answer : answer = "ready"
  OBVIOUS
<1>5. Hear(q, answer, s, R) /\ Fits(q, answer, s)
  BY <1>2, <1>3, <1>4
<1>6. /\ ClientOK(job', waiting', reqs')
      /\ \A f \in File, x \in Slot : Holds(job', reqs', f, x) =>
           Holds(job, reqs, f, x) \/ (answer = "reserved" /\ f = q.file /\ x = s)
      /\ \A f \in File : job'[f].at = "ready" =>
           \/ job[f].at = "ready" /\ job'[f].ticket = job[f].ticket
           \/ answer = "ready" /\ job'[f].ticket = q.slot
  BY <1>2, <1>5, HearKeeps
<1> QED
  BY <1>4, <1>6

\* The machine rests, and a request is over or goes a step further.
LEMMA Advanced ==
  ASSUME ClientOK(job, waiting, reqs), NEW q \in reqs, job' = job, waiting' = waiting,
         \A r \in reqs' : \/ r \in reqs /\ r # q
                          \/ /\ q.kind = "finalize" /\ r \in ReqType
                             /\ r.kind = q.kind /\ r.who = q.who /\ r.file = q.file /\ r.slot = q.slot,
         \A r, p \in reqs' : (r \in reqs /\ r # q) \/ (p \in reqs /\ p # q) \/ r = p
  PROVE  Keeps
<1>1. ReqsOK(job, reqs) /\ ReqOK(job, q)
  BY DEF ClientOK, ReqsOK
<1>2. \A r \in reqs' : ReqOK(job', r)
  BY <1>1 DEF ReqsOK, ReqOK
<1>3. \A r, p \in reqs' : r.who = p.who /\ r.who # NoFile => r = p
  BY <1>1 DEF ReqsOK
<1>4. ReqsOK(job', reqs')
  BY <1>2, <1>3 DEF ReqsOK
<1>5. ClientOK(job', waiting', reqs')
  BY <1>4 DEF ClientOK
<1>6. \A f \in File, x \in Slot : Holds(job', reqs', f, x) => Holds(job, reqs, f, x)
  BY DEF Holds
<1> QED
  BY <1>5, <1>6 DEF Keeps

LEMMA BeginUploadSafe ==
  ASSUME UploadInv, NEW q \in reqs, BeginUpload(q)
  PROVE  UploadInv'
<1>0. RowsType /\ ClientOK(job, waiting, reqs) /\ Holders /\ RowsOK /\ NightOK
  BY DEF UploadInv
<1>1. /\ q.kind = "begin"
      /\ age' = age /\ purged' = purged /\ stored' = stored /\ sent' = sent /\ sending' = sending
      /\ nightly' = nightly
  BY DEF BeginUpload
<1>2. CASE Hear(q, "limited", NoSlot, reqs \ {q}) /\ UNCHANGED <<status>>
  <2>1. Fits(q, "limited", NoSlot)
    BY DEF Fits
  <2>2. Keeps
    BY <1>0, <1>2, <2>1, Answered
  <2> QED
    BY <1>0, <1>1, <1>2, <2>2, ClientStep DEF server_, Shown, RowsType
<1>3. ASSUME NEW s \in Slot, status[s] = "free", status' = [status EXCEPT ![s] = "pending"],
             Hear(q, "reserved", s, reqs \ {q})
      PROVE  UploadInv'
  <2>1. PICK R, answer : R = reqs \ {q} /\ answer = "reserved"
    OBVIOUS
  <2>2. Hear(q, answer, s, R) /\ Fits(q, answer, s) /\ \A r \in R : r \in reqs /\ r # q
    BY <1>1, <1>3, <2>1 DEF Fits
  <2>3. /\ ClientOK(job', waiting', reqs')
        /\ \A f \in File, x \in Slot : Holds(job', reqs', f, x) =>
             Holds(job, reqs, f, x) \/ (answer = "reserved" /\ f = q.file /\ x = s)
        /\ \A f \in File : job'[f].at = "ready" =>
             \/ job[f].at = "ready" /\ job'[f].ticket = job[f].ticket
             \/ answer = "ready" /\ job'[f].ticket = q.slot
    BY <1>0, <2>2, HearKeeps
  <2>4. /\ status \in [Slot -> Statuses] /\ status'[s] = "pending"
        /\ \A x \in Slot : x # s => status'[x] = status[x]
    BY <1>0, <1>3 DEF RowsType
  <2>5. RowsType'
    BY <1>0, <1>1, <1>3 DEF RowsType, Statuses
  <2>6. Holders'
    <3>1. ASSUME NEW x \in Slot, NEW f \in File, Holds(job', reqs', f, x), x # s
          PROVE  /\ status'[x] # "free"
                 /\ status'[x] = "ready" => f \notin Bad
                 /\ \A g \in File : Holds(job', reqs', g, x) => f = g
      <4>1. Holds(job, reqs, f, x) /\ status'[x] = status[x]
        BY <2>3, <2>4, <3>1
      <4>2. \A g \in File : Holds(job', reqs', g, x) => Holds(job, reqs, g, x)
        BY <2>3, <3>1
      <4> QED
        BY <1>0, <4>1, <4>2 DEF Holders
    <3>2. ASSUME NEW f \in File, Holds(job', reqs', f, s)
          PROVE  f = q.file
      BY <1>0, <1>3, <2>3, <3>2 DEF Holders
    <3> QED
      BY <2>4, <3>1, <3>2 DEF Holders
  <2>7. \A x \in Shown' : status'[x] = "ready" \/ age'[x] >= 2
    <3>1. \A f \in File : job'[f].at = "ready" => job[f].at = "ready" /\ job'[f].ticket = job[f].ticket
      BY <2>1, <2>3
    <3>2. \A f \in File : job'[f].at = "ready" => job'[f].ticket \in Slot
      BY <2>3, ReadyHasTicket
    <3>3. sending' \cup sent' \subseteq Shown
      BY <1>1 DEF Shown
    <3>4. \A x \in Slot : age'[x] >= age[x]
      BY <1>0, <1>1 DEF RowsType
    <3>5. \A x \in Slot : status[x] = "ready" => status'[x] = "ready"
      BY <1>3, <2>4
    <3> QED
      BY <1>0, <2>5, <3>1, <3>2, <3>3, <3>4, <3>5, ShownKeeps
  <2>8. RowsOK'
    <3>1. \A x \in Slot : status'[x] = "ready" => x \in stored' \/ age'[x] >= 2
      BY <1>0, <1>1, <2>4 DEF RowsOK
    <3>2. \A x \in purged' : x \notin stored' /\ status'[x] \in {"deleted", "rejected"}
      BY <1>0, <1>1, <1>3, <2>4 DEF RowsOK, RowsType
    <3> QED
      BY <2>7, <3>1, <3>2 DEF RowsOK
  <2>9. NightOK'
    <3>1. nightly.batch \in SUBSET Slot
      BY <1>0 DEF RowsType, NightType
    <3> QED
      BY <1>0, <1>1, <1>3, <2>4, <3>1 DEF NightOK
  <2> QED
    BY <2>3, <2>5, <2>6, <2>8, <2>9 DEF UploadInv
<1> QED
  BY <1>2, <1>3 DEF BeginUpload

\* A request at a row: what is pending is settled, bytes come to a pending row, and go
\* from one that is not ready.
LEMMA RequestSafe ==
  ASSUME UploadInv, RowsType', ClientOK(job', waiting', reqs'),
         \A f \in File, x \in Slot : Holds(job', reqs', f, x) => Holds(job, reqs, f, x),
         \A f \in File : job'[f].at = "ready" =>
           \/ job[f].at = "ready" /\ job'[f].ticket = job[f].ticket
           \/ status[job'[f].ticket] = "ready" \/ status'[job'[f].ticket] = "ready",
         age' = age, sending' = sending, sent' = sent, nightly' = nightly,
         \A x \in Slot : \/ status'[x] = status[x]
                         \/ status[x] = "pending" /\ status'[x] = "rejected"
                         \/ /\ status[x] = "pending" /\ status'[x] = "ready" /\ x \in stored'
                            /\ \A f \in File : Holds(job, reqs, f, x) => f \notin Bad,
         \A x \in stored' : x \in stored \/ status[x] = "pending",
         \A x \in stored : x \in stored' \/ status'[x] # "ready",
         \A x \in purged' : x \in purged \/ (x \notin stored' /\ status'[x] = "rejected")
  PROVE  UploadInv'
<1>0. RowsType /\ ClientOK(job, waiting, reqs) /\ Holders /\ RowsOK /\ NightOK
  BY DEF UploadInv
<1>1. Holders'
  BY <1>0, HoldersKeep
<1>2. \A x \in Shown' : status'[x] = "ready" \/ age'[x] >= 2
  <2>1. \A f \in File : job'[f].at = "ready" => job'[f].ticket \in Slot
    BY ReadyHasTicket
  <2>2. sending' \cup sent' \subseteq Shown
    BY DEF Shown
  <2>3. \A x \in Slot : age'[x] >= age[x]
    BY <1>0 DEF RowsType
  <2>4. \A x \in Slot : status[x] = "ready" => status'[x] = "ready"
    OBVIOUS
  <2> QED
    BY <1>0, <2>1, <2>2, <2>3, <2>4, ShownKeeps
<1>3. \A x \in Slot : status'[x] = "ready" => x \in stored' \/ age'[x] >= 2
  BY <1>0 DEF RowsOK
<1>4. ASSUME NEW x \in purged'
      PROVE  x \notin stored' /\ status'[x] \in {"deleted", "rejected"}
  <2>1. CASE x \in purged
    <3>1. x \notin stored /\ status[x] \in {"deleted", "rejected"} /\ x \in Slot
      BY <1>0, <2>1 DEF RowsOK, RowsType
    <3> QED
      BY <3>1
  <2> QED
    BY <2>1
<1>5. RowsOK'
  BY <1>2, <1>3, <1>4 DEF RowsOK
<1>6. NightOK'
  <2>1. nightly.batch \in SUBSET Slot
    BY <1>0 DEF RowsType, NightType
  <2>2. nightly.step \in {"handed", "removed"} => \A x \in nightly.batch : status'[x] \in {"deleted", "rejected"}
    BY <1>0, <2>1 DEF NightOK
  <2>3. nightly.step = "removed" => \A x \in nightly.batch : x \notin stored'
    BY <1>0, <2>1 DEF NightOK
  <2> QED
    BY <1>0, <2>2, <2>3 DEF NightOK
<1> QED
  BY <1>1, <1>5, <1>6 DEF UploadInv

LEMMA AbortUploadSafe ==
  ASSUME UploadInv, NEW q \in reqs, AbortUpload(q)
  PROVE  UploadInv'
<1>0. RowsType /\ ClientOK(job, waiting, reqs)
  BY DEF UploadInv
<1>1. /\ q.kind = "abort" /\ reqs' = reqs \ {q} /\ job' = job /\ waiting' = waiting
      /\ status' = [status EXCEPT ![q.slot] = IF @ = "pending" THEN "rejected" ELSE @]
      /\ age' = age /\ purged' = purged /\ stored' = stored /\ sent' = sent /\ sending' = sending
      /\ nightly' = nightly
  BY DEF AbortUpload, client_
<1>2. q.slot \in Slot
  BY <1>0, <1>1, AtWork
<1>3. RowsType'
  BY <1>0, <1>1, <1>2 DEF RowsType, Statuses
<1>4. \A x \in Slot : status'[x] = status[x] \/ (status[x] = "pending" /\ status'[x] = "rejected")
  BY <1>0, <1>1, <1>2 DEF RowsType
<1>5. Keeps
  BY <1>0, <1>1, Advanced
<1> QED
  BY <1>1, <1>3, <1>4, <1>5, RequestSafe DEF Keeps

LEMMA PutObjectSafe ==
  ASSUME UploadInv, NEW q \in reqs, PutObject(q)
  PROVE  UploadInv'
<1>0. RowsType /\ ClientOK(job, waiting, reqs) /\ RowsOK
  BY DEF UploadInv
<1>1. /\ q.kind = "upload"
      /\ IF CanWrite(q.slot) THEN stored' = stored \cup {q.slot} ELSE stored' = stored
      /\ Hear(q, IF CanWrite(q.slot) THEN "stored" ELSE "denied", NoSlot, reqs \ {q})
      /\ status' = status /\ age' = age /\ purged' = purged /\ sent' = sent /\ sending' = sending
      /\ nightly' = nightly
  BY DEF PutObject
<1>2. q.slot \in Slot
  BY <1>0, <1>1, AtWork
<1>3. PICK answer : answer = IF CanWrite(q.slot) THEN "stored" ELSE "denied"
  OBVIOUS
<1>4. /\ Hear(q, answer, NoSlot, reqs \ {q}) /\ Fits(q, answer, NoSlot)
      /\ answer \notin {"reserved", "ready"}
  BY <1>1, <1>3 DEF Fits
<1>5. Keeps
  BY <1>0, <1>4, Answered
<1>6. RowsType'
  BY <1>0, <1>1, <1>2 DEF RowsType
<1>7. /\ \A x \in stored' : x \in stored \/ status[x] = "pending"
      /\ \A x \in stored : x \in stored'
  BY <1>1 DEF CanWrite
<1> QED
  BY <1>1, <1>5, <1>6, <1>7, RequestSafe DEF Keeps

LEMMA LookAtUploadSafe ==
  ASSUME UploadInv, NEW q \in reqs, LookAtUpload(q)
  PROVE  UploadInv'
<1>0. RowsType /\ ClientOK(job, waiting, reqs) /\ RowsOK
  BY DEF UploadInv
<1>1. /\ q.kind = "finalize" /\ q.step = "sent"
      /\ status' = status /\ age' = age /\ purged' = purged /\ stored' = stored /\ sent' = sent
      /\ sending' = sending /\ nightly' = nightly
  BY DEF LookAtUpload, server_
<1>2. RowsType'
  BY <1>0, <1>1 DEF RowsType
<1>3. CASE status[q.slot] = "pending" /\ q.slot \in stored
  <2>1. /\ reqs' = (reqs \ {q}) \cup {[q EXCEPT !.step = "looked"]}
        /\ job' = job /\ waiting' = waiting
    BY <1>3 DEF LookAtUpload, client_
  <2>2. q \in ReqType
    BY <1>0 DEF ClientOK, ReqsOK, ReqOK
  <2>3. PICK r : r = [q EXCEPT !.step = "looked"]
    OBVIOUS
  <2>4. r \in ReqType /\ r.kind = q.kind /\ r.who = q.who /\ r.file = q.file /\ r.slot = q.slot
    BY <2>2, <2>3 DEF ReqType
  <2>5. \A p \in reqs' : (p \in reqs /\ p # q) \/ p = r
    BY <2>1, <2>3
  <2>6. Keeps
    BY <1>0, <1>1, <2>1, <2>4, <2>5, Advanced
  <2> QED
    BY <1>1, <1>2, <2>6, RequestSafe DEF Keeps
<1>4. CASE ~(status[q.slot] = "pending" /\ q.slot \in stored)
  <2>1. PICK answer : answer = CASE status[q.slot] = "ready" -> "ready"
                                 [] status[q.slot] \in {"rejected", "deleted"} -> "rejected"
                                 [] OTHER -> "missing"
    OBVIOUS
  <2>2. Hear(q, answer, NoSlot, reqs \ {q})
    BY <1>4, <2>1 DEF LookAtUpload
  <2>3. answer \in {"ready", "rejected", "missing"} /\ (answer = "ready" => status[q.slot] = "ready")
    BY <2>1
  <2>4. CASE answer = "ready"
    <3>1. Hear(q, "ready", NoSlot, reqs \ {q})
      BY <2>2, <2>4
    <3>2. /\ ClientOK(job', waiting', reqs')
          /\ \A f \in File, x \in Slot : Holds(job', reqs', f, x) => Holds(job, reqs, f, x)
          /\ \A f \in File : job'[f].at = "ready" =>
               \/ job[f].at = "ready" /\ job'[f].ticket = job[f].ticket
               \/ job'[f].ticket = q.slot
      BY <1>0, <1>1, <3>1, AnsweredReady
    <3>3. \A f \in File : job'[f].at = "ready" =>
            \/ job[f].at = "ready" /\ job'[f].ticket = job[f].ticket
            \/ status[job'[f].ticket] = "ready"
      BY <2>3, <2>4, <3>2
    <3> QED
      BY <1>1, <1>2, <3>2, <3>3, RequestSafe
  <2>5. CASE answer # "ready"
    <3>1. Fits(q, answer, NoSlot) /\ answer \notin {"reserved", "ready"}
      BY <1>1, <2>3, <2>5 DEF Fits
    <3>2. Keeps
      BY <1>0, <2>2, <3>1, Answered
    <3> QED
      BY <1>1, <1>2, <3>2, RequestSafe DEF Keeps
  <2> QED
    BY <2>4, <2>5
<1> QED
  BY <1>3, <1>4

LEMMA AcceptUploadSafe ==
  ASSUME UploadInv, NEW q \in reqs, AcceptUpload(q)
  PROVE  UploadInv'
<1>0. RowsType /\ ClientOK(job, waiting, reqs) /\ Holders
  BY DEF UploadInv
<1>1. /\ q.kind = "finalize" /\ q.file \notin Bad
      /\ status' = [status EXCEPT ![q.slot] = Accepted(q.slot)[1]]
      /\ Hear(q, Accepted(q.slot)[2], NoSlot, reqs \ {q})
      /\ age' = age /\ purged' = purged /\ stored' = stored /\ sent' = sent /\ sending' = sending
      /\ nightly' = nightly
  BY DEF AcceptUpload
<1>2. q.slot \in Slot /\ q.file \in File /\ Holds(job, reqs, q.file, q.slot)
  BY <1>0, <1>1, AtWork
<1>3. \A f \in File : Holds(job, reqs, f, q.slot) => f \notin Bad
  BY <1>0, <1>1, <1>2 DEF Holders
<1>4. PICK answer : answer = Accepted(q.slot)[2]
  OBVIOUS
<1>5. \/ /\ answer = "ready" /\ Accepted(q.slot)[1] = "ready"
         /\ status[q.slot] = "ready" \/ (status[q.slot] = "pending" /\ q.slot \in stored)
      \/ answer = "conflict" /\ Accepted(q.slot)[1] = status[q.slot]
  BY <1>4 DEF Accepted
<1>6. status \in [Slot -> Statuses] /\ Accepted(q.slot)[1] \in Statuses
  BY <1>0, <1>2, <1>5 DEF RowsType, Statuses
<1>7. RowsType'
  BY <1>0, <1>1, <1>2, <1>6 DEF RowsType
<1>8. /\ status'[q.slot] = Accepted(q.slot)[1]
      /\ \A x \in Slot : x # q.slot => status'[x] = status[x]
  BY <1>1, <1>2, <1>6
<1>9. \A x \in Slot : \/ status'[x] = status[x]
                      \/ /\ status[x] = "pending" /\ status'[x] = "ready" /\ x \in stored'
                         /\ \A f \in File : Holds(job, reqs, f, x) => f \notin Bad
  BY <1>1, <1>3, <1>5, <1>8
<1>10. CASE answer = "ready"
  <2>1. Hear(q, "ready", NoSlot, reqs \ {q}) /\ status'[q.slot] = "ready"
    BY <1>1, <1>4, <1>5, <1>8, <1>10
  <2>2. /\ ClientOK(job', waiting', reqs')
        /\ \A f \in File, x \in Slot : Holds(job', reqs', f, x) => Holds(job, reqs, f, x)
        /\ \A f \in File : job'[f].at = "ready" =>
             \/ job[f].at = "ready" /\ job'[f].ticket = job[f].ticket
             \/ job'[f].ticket = q.slot
    BY <1>0, <1>1, <2>1, AnsweredReady
  <2>3. \A f \in File : job'[f].at = "ready" =>
          \/ job[f].at = "ready" /\ job'[f].ticket = job[f].ticket
          \/ status'[job'[f].ticket] = "ready"
    BY <2>1, <2>2
  <2> QED
    BY <1>1, <1>7, <1>9, <2>2, <2>3, RequestSafe
<1>11. CASE answer = "conflict"
  <2>1. Hear(q, answer, NoSlot, reqs \ {q}) /\ Fits(q, answer, NoSlot) /\ answer \notin {"reserved", "ready"}
    BY <1>1, <1>4, <1>11 DEF Fits
  <2>2. Keeps
    BY <1>0, <2>1, Answered
  <2> QED
    BY <1>1, <1>7, <1>9, <2>2, RequestSafe DEF Keeps
<1> QED
  BY <1>5, <1>10, <1>11

\* The bytes that are removed are those of a file that is refused: its row is not ready.
LEMMA RemoveBytesSafe ==
  ASSUME UploadInv, NEW q \in reqs, RemoveBytes(q)
  PROVE  UploadInv'
<1>0. RowsType /\ ClientOK(job, waiting, reqs) /\ Holders
  BY DEF UploadInv
<1>1. /\ q.kind = "finalize" /\ q.file \in Bad
      /\ stored' = stored \/ stored' = stored \ {q.slot}
      /\ reqs' = (reqs \ {q}) \cup {[q EXCEPT !.step = "removed"]}
      /\ job' = job /\ waiting' = waiting /\ status' = status
      /\ age' = age /\ purged' = purged /\ sent' = sent /\ sending' = sending /\ nightly' = nightly
  BY DEF RemoveBytes, client_
<1>2. q.slot \in Slot /\ q.file \in File /\ Holds(job, reqs, q.file, q.slot)
  BY <1>0, <1>1, AtWork
<1>3. status[q.slot] # "ready"
  BY <1>0, <1>1, <1>2 DEF Holders
<1>4. RowsType'
  BY <1>0, <1>1 DEF RowsType
<1>5. PICK r : r = [q EXCEPT !.step = "removed"]
  OBVIOUS
<1>6. r \in ReqType /\ r.kind = q.kind /\ r.who = q.who /\ r.file = q.file /\ r.slot = q.slot
  <2>1. q \in ReqType
    BY <1>0 DEF ClientOK, ReqsOK, ReqOK
  <2> QED
    BY <1>5, <2>1 DEF ReqType
<1>7. \A p \in reqs' : (p \in reqs /\ p # q) \/ p = r
  BY <1>1, <1>5
<1>8. Keeps
  BY <1>0, <1>1, <1>6, <1>7, Advanced
<1>9. /\ \A x \in stored' : x \in stored
      /\ \A x \in stored : x \in stored' \/ status'[x] # "ready"
  BY <1>1, <1>3
<1> QED
  BY <1>1, <1>4, <1>8, <1>9, RequestSafe DEF Keeps

LEMMA RejectUploadSafe ==
  ASSUME UploadInv, NEW q \in reqs, RejectUpload(q)
  PROVE  UploadInv'
<1>0. RowsType /\ ClientOK(job, waiting, reqs)
  BY DEF UploadInv
<1>1. /\ q.kind = "finalize"
      /\ status' = [status EXCEPT ![q.slot] = IF @ = "pending" THEN "rejected" ELSE @]
      /\ purged' = IF status[q.slot] = "pending" /\ q.slot \notin stored THEN purged \cup {q.slot} ELSE purged
      /\ Hear(q, IF status[q.slot] \in {"pending", "rejected"} THEN "rejected" ELSE "conflict",
              NoSlot, reqs \ {q})
      /\ age' = age /\ stored' = stored /\ sent' = sent /\ sending' = sending /\ nightly' = nightly
  BY DEF RejectUpload
<1>2. q.slot \in Slot
  BY <1>0, <1>1, AtWork
<1>3. RowsType'
  BY <1>0, <1>1, <1>2 DEF RowsType, Statuses
<1>4. /\ \A x \in Slot : status'[x] = status[x] \/ (status[x] = "pending" /\ status'[x] = "rejected")
      /\ status[q.slot] = "pending" => status'[q.slot] = "rejected"
  BY <1>0, <1>1, <1>2 DEF RowsType
<1>5. PICK answer : answer = IF status[q.slot] \in {"pending", "rejected"} THEN "rejected" ELSE "conflict"
  OBVIOUS
<1>6. Hear(q, answer, NoSlot, reqs \ {q}) /\ Fits(q, answer, NoSlot) /\ answer \notin {"reserved", "ready"}
  BY <1>1, <1>5 DEF Fits
<1>7. Keeps
  BY <1>0, <1>6, Answered
<1>8. \A x \in purged' : x \in purged \/ (x \notin stored' /\ status'[x] = "rejected")
  BY <1>1, <1>4
<1> QED
  BY <1>1, <1>3, <1>4, <1>7, <1>8, RequestSafe DEF Keeps

LEMMA NoAnswerSafe ==
  ASSUME UploadInv, NEW q \in reqs, NoAnswer(q)
  PROVE  UploadInv'
<1>0. RowsType /\ ClientOK(job, waiting, reqs)
  BY DEF UploadInv
<1>1. PICK kept \in SUBSET {[q EXCEPT !.who = NoFile]} : Hear(q, "nothing", NoSlot, (reqs \ {q}) \cup kept)
  BY DEF NoAnswer
<1>2. PICK R, answer : R = (reqs \ {q}) \cup kept /\ answer = "nothing"
  OBVIOUS
<1>3. Hear(q, answer, NoSlot, R) /\ Fits(q, answer, NoSlot)
  BY <1>1, <1>2 DEF Fits
<1>4. PICK p : p = [q EXCEPT !.who = NoFile]
  OBVIOUS
<1>5. q \in ReqType
  BY <1>0 DEF ClientOK, ReqsOK, ReqOK
<1>6. /\ p.who = NoFile /\ p \in ReqType
      /\ p.kind = q.kind /\ p.file = q.file /\ p.slot = q.slot /\ p.step = q.step
  BY <1>4, <1>5 DEF ReqType
<1>7. \A r \in R : (r \in reqs /\ r # q) \/ r = p
  BY <1>1, <1>2, <1>4
<1>8. \A r \in R : \/ r \in reqs /\ r # q
                   \/ /\ r.who = NoFile /\ r \in ReqType
                      /\ r.kind = q.kind /\ r.file = q.file /\ r.slot = q.slot /\ r.step = q.step
  BY <1>6, <1>7
<1>9. /\ ClientOK(job', waiting', reqs')
      /\ \A f \in File, x \in Slot : Holds(job', reqs', f, x) =>
           Holds(job, reqs, f, x) \/ (answer = "reserved" /\ f = q.file /\ x = NoSlot)
      /\ \A f \in File : job'[f].at = "ready" =>
           \/ job[f].at = "ready" /\ job'[f].ticket = job[f].ticket
           \/ answer = "ready" /\ job'[f].ticket = q.slot
  BY <1>0, <1>3, <1>8, HearKeeps
<1>10. Keeps
  BY <1>2, <1>9 DEF Keeps
<1>11. UNCHANGED <<server_, nightly>> /\ sending' = sending
  BY DEF NoAnswer
<1> QED
  BY <1>0, <1>10, <1>11, ClientStep DEF Shown, RowsType

LEMMA RefuseBeginSafe ==
  ASSUME UploadInv, NEW q \in reqs, RefuseBegin(q)
  PROVE  UploadInv'
<1>0. RowsType /\ ClientOK(job, waiting, reqs)
  BY DEF UploadInv
<1>1. PICK answer : answer = "refused"
  OBVIOUS
<1>2. /\ Hear(q, answer, NoSlot, reqs \ {q}) /\ Fits(q, answer, NoSlot)
      /\ answer \notin {"reserved", "ready"}
  BY <1>1 DEF RefuseBegin, Fits
<1>3. Keeps
  BY <1>0, <1>2, Answered
<1>4. UNCHANGED <<server_, nightly>> /\ sending' = sending
  BY DEF RefuseBegin
<1> QED
  BY <1>0, <1>3, <1>4, ClientStep DEF Shown, RowsType

LEMMA LoseAbortSafe ==
  ASSUME UploadInv, NEW q \in reqs, LoseAbort(q)
  PROVE  UploadInv'
<1>0. RowsType /\ ClientOK(job, waiting, reqs)
  BY DEF UploadInv
<1>1. /\ reqs' = reqs \ {q} /\ job' = job /\ waiting' = waiting
      /\ UNCHANGED <<server_, nightly>> /\ sending' = sending
  BY DEF LoseAbort, client_
<1>2. Keeps
  BY <1>0, <1>1, Advanced
<1> QED
  BY <1>0, <1>1, <1>2, ClientStep DEF Shown, RowsType

-----------------------------------------------------------------------------
(* What people do, time and the night. *)

LEMMA ComposerSafe ==
  ASSUME UploadInv,
         \/ \E f \in File : AddFile(f) \/ Prepared(f) \/ WakeRun(f) \/ RetryFile(f) \/ RemoveFile(f)
         \/ ResetUploads
  PROVE  UploadInv'
<1>0. RowsType /\ ClientOK(job, waiting, reqs)
  BY DEF UploadInv
<1>1. /\ UNCHANGED <<server_, nightly>> /\ sending' = sending
  BY DEF AddFile, Prepared, WakeRun, RetryFile, RemoveFile, ResetUploads
<1>2. Keeps
  <2>1. CASE \E f \in File : AddFile(f)
    BY <1>0, <2>1, AddFileKeeps
  <2>2. CASE \E f \in File : Prepared(f)
    BY <1>0, <2>2, PreparedKeeps
  <2>3. CASE \E f \in File : WakeRun(f)
    BY <1>0, <2>3, WakeRunKeeps
  <2>4. CASE \E f \in File : RetryFile(f)
    BY <1>0, <2>4, RetryFileKeeps
  <2>5. CASE \E f \in File : RemoveFile(f)
    <3>1. PICK f \in File : RemoveFile(f)
      BY <2>5
    <3>2. PICK F \in SUBSET File : F = {f}
      OBVIOUS
    <3>3. Drop(F)
      BY <3>1, <3>2 DEF RemoveFile
    <3> QED
      BY <1>0, <3>3, DropKeeps
  <2>6. CASE ResetUploads
    <3>1. PICK F \in SUBSET File : F = {f \in File : job[f].at \notin {"none", "gone"}}
      OBVIOUS
    <3>2. Drop(F)
      BY <2>6, <3>1 DEF ResetUploads
    <3> QED
      BY <1>0, <3>2, DropKeeps
  <2> QED
    BY <2>1, <2>2, <2>3, <2>4, <2>5, <2>6
<1> QED
  BY <1>0, <1>1, <1>2, ClientStep DEF Shown, RowsType

LEMMA SendFilesSafe ==
  ASSUME UploadInv, SendFiles
  PROVE  UploadInv'
<1>0. RowsType /\ ClientOK(job, waiting, reqs)
  BY DEF UploadInv
<1>1. PICK F \in SUBSET File : F = {f \in File : job[f].at \in {"ready", "failed", "dead"}}
  OBVIOUS
<1>2. /\ Drop(F) /\ UNCHANGED <<server_, nightly>>
      /\ sending' = {job[f].ticket : f \in ReadyFiles}
  BY <1>1 DEF SendFiles
<1>3. Keeps
  BY <1>0, <1>2, DropKeeps
<1>4. sending' \subseteq Shown /\ sending' \subseteq Slot
  <2>1. \A f \in ReadyFiles : job[f].ticket \in Slot
    BY <1>0, ReadyHasTicket DEF ReadyFiles
  <2> QED
    BY <1>2, <2>1 DEF Shown
<1> QED
  BY <1>2, <1>3, <1>4, ClientStep

\* Neither the machine nor its requests move.
LEMMA NightSafe ==
  ASSUME UploadInv, RowsType', job' = job, waiting' = waiting, reqs' = reqs,
         sending' \cup sent' \subseteq sending \cup sent,
         \A x \in Slot : age'[x] >= age[x],
         \A x \in Slot : \/ status'[x] = status[x]
                         \/ status'[x] \in {"deleted", "rejected"} /\ (status[x] = "ready" => age'[x] >= 2),
         \A x \in stored' : x \in stored,
         \A x \in stored : x \in stored' \/ status'[x] # "ready",
         \A x \in purged' : x \in purged \/ (x \notin stored' /\ status'[x] \in {"deleted", "rejected"}),
         NightOK'
  PROVE  UploadInv'
<1>0. RowsType /\ ClientOK(job, waiting, reqs) /\ Holders /\ RowsOK
  BY DEF UploadInv
<1>1. ClientOK(job', waiting', reqs')
  BY <1>0
<1>2. Holders'
  BY <1>0, HoldersKeep
<1>3. \A x \in Shown' : status'[x] = "ready" \/ age'[x] >= 2
  <2>1. \A f \in File : job'[f].at = "ready" => job'[f].ticket \in Slot
    BY <1>1, ReadyHasTicket
  <2>2. sending' \cup sent' \subseteq Shown
    BY DEF Shown
  <2>3. \A x \in Slot : status[x] = "ready" => status'[x] = "ready" \/ age'[x] >= 2
    OBVIOUS
  <2> QED
    BY <1>0, <2>1, <2>2, <2>3, ShownKeeps
<1>4. ASSUME NEW x \in Slot, status'[x] = "ready"
      PROVE  x \in stored' \/ age'[x] >= 2
  <2>1. status[x] = "ready" /\ (x \in stored \/ age[x] >= 2)
    BY <1>0, <1>4 DEF RowsOK
  <2>2. age'[x] >= age[x] /\ age[x] \in Int /\ age'[x] \in Int
    BY <1>0 DEF RowsType
  <2> QED
    BY <1>4, <2>1, <2>2
<1>5. ASSUME NEW x \in purged'
      PROVE  x \notin stored' /\ status'[x] \in {"deleted", "rejected"}
  <2>1. CASE x \in purged
    <3>1. x \notin stored /\ status[x] \in {"deleted", "rejected"} /\ x \in Slot
      BY <1>0, <2>1 DEF RowsOK, RowsType
    <3> QED
      BY <3>1
  <2> QED
    BY <2>1
<1> QED
  BY <1>1, <1>2, <1>3, <1>4, <1>5 DEF UploadInv, RowsOK

LEMMA ClaimFilesSafe ==
  ASSUME UploadInv, ClaimFiles
  PROVE  UploadInv'
<1>0. RowsType /\ NightOK
  BY DEF UploadInv
<1>1. /\ sent' = sent \cup sending \/ sent' = sent
      /\ sending' = {} /\ job' = job /\ waiting' = waiting /\ reqs' = reqs
      /\ status' = status /\ age' = age /\ purged' = purged /\ stored' = stored /\ nightly' = nightly
  BY DEF ClaimFiles, client_
<1>2. RowsType'
  BY <1>0, <1>1 DEF RowsType
<1>3. NightOK'
  BY <1>0, <1>1 DEF NightOK
<1>4. \A x \in Slot : age'[x] >= age[x]
  BY <1>0, <1>1 DEF RowsType
<1> QED
  BY <1>1, <1>2, <1>3, <1>4, NightSafe

LEMMA GrowOlderSafe ==
  ASSUME UploadInv, NEW s \in Slot, GrowOlder(s)
  PROVE  UploadInv'
<1>0. RowsType /\ NightOK
  BY DEF UploadInv
<1>1. PICK then \in age[s] + 1 .. 3 : age' = [age EXCEPT ![s] = then]
  BY DEF GrowOlder
<1>2. /\ sent' = sent /\ sending' = sending /\ job' = job /\ waiting' = waiting /\ reqs' = reqs
      /\ status' = status /\ purged' = purged /\ stored' = stored /\ nightly' = nightly
  BY DEF GrowOlder, client_
<1>3. age \in [Slot -> 0 .. 3] /\ then \in 0 .. 3 /\ then > age[s]
  BY <1>0, <1>1 DEF RowsType
<1>4. RowsType'
  BY <1>0, <1>1, <1>2, <1>3 DEF RowsType
<1>5. \A x \in Slot : age'[x] >= age[x] /\ age[x] \in Int /\ age'[x] \in Int
  BY <1>1, <1>3
<1>6. NightOK'
  <2>1. nightly.reject \in SUBSET Slot /\ nightly.delete \in SUBSET Slot
    BY <1>0 DEF RowsType, NightType
  <2>2. nightly.step = "picked" => \A x \in nightly.reject \cup nightly.delete : age'[x] >= 2
    BY <1>0, <1>5, <2>1 DEF NightOK
  <2> QED
    BY <1>0, <1>2, <2>2 DEF NightOK
<1> QED
  BY <1>2, <1>4, <1>5, <1>6, NightSafe

LEMMA TickPicksSafe ==
  ASSUME UploadInv, TickPicks
  PROVE  UploadInv'
<1>0. RowsType /\ NightOK
  BY DEF UploadInv
<1>1. PICK rejects, deletes :
        /\ rejects = {s \in Slot : age[s] >= 2 /\ status[s] = "pending"}
        /\ deletes = {s \in Slot : age[s] = 3 /\ status[s] = "ready" /\ s \notin sent}
  OBVIOUS
<1>2. /\ nightly' = [step |-> "picked", reject |-> rejects, delete |-> deletes, batch |-> {}]
      /\ sent' = sent /\ sending' = sending /\ job' = job /\ waiting' = waiting /\ reqs' = reqs
      /\ status' = status /\ age' = age /\ purged' = purged /\ stored' = stored
  BY <1>1 DEF TickPicks, Rest, client_
<1>3. rejects \in SUBSET Slot /\ deletes \in SUBSET Slot
  BY <1>1
<1>4. nightly' \in NightType
  BY <1>2, <1>3 DEF NightType
<1>5. RowsType'
  BY <1>0, <1>2, <1>4 DEF RowsType
<1>6. \A x \in Slot : age'[x] >= age[x]
  BY <1>0, <1>2 DEF RowsType
<1>7. \A s \in rejects \cup deletes : age[s] >= 2
  BY <1>1
<1>8. NightOK'
  BY <1>2, <1>7 DEF NightOK
<1> QED
  BY <1>2, <1>5, <1>6, <1>8, NightSafe

LEMMA TickWritesSafe ==
  ASSUME UploadInv, TickWrites
  PROVE  UploadInv'
<1>0. RowsType /\ NightOK
  BY DEF UploadInv
<1>1. /\ nightly.step = "picked"
      /\ status' = [s \in Slot |-> IF s \in nightly.delete THEN "deleted"
                                   ELSE IF s \in nightly.reject THEN "rejected" ELSE status[s]]
      /\ nightly' = [step |-> "called", reject |-> {}, delete |-> {}, batch |-> {}]
      /\ sent' = sent /\ sending' = sending /\ job' = job /\ waiting' = waiting /\ reqs' = reqs
      /\ age' = age /\ purged' = purged /\ stored' = stored
  BY DEF TickWrites, Rest, client_
<1>2. nightly' \in NightType
  BY <1>1 DEF NightType
<1>3. status' \in [Slot -> Statuses]
  BY <1>0, <1>1 DEF RowsType, Statuses
<1>4. RowsType'
  BY <1>0, <1>1, <1>2, <1>3 DEF RowsType
<1>5. \A x \in Slot : age'[x] >= age[x]
  BY <1>0, <1>1 DEF RowsType
<1>6. \A x \in Slot : \/ status'[x] = status[x]
                      \/ status'[x] \in {"deleted", "rejected"} /\ age'[x] >= 2
  BY <1>0, <1>1 DEF NightOK
<1>7. NightOK'
  BY <1>1 DEF NightOK
<1> QED
  BY <1>1, <1>4, <1>5, <1>6, <1>7, NightSafe

LEMMA PurgeSafe ==
  ASSUME UploadInv, PurgeHands \/ PurgeRemoves \/ PurgeStamps \/ PurgeDies
  PROVE  UploadInv'
<1>0. RowsType /\ NightOK /\ RowsOK /\ nightly \in NightType /\ nightly.batch \in SUBSET Slot
  BY DEF UploadInv, RowsType, NightType
<1>1. /\ sent' = sent /\ sending' = sending /\ job' = job /\ waiting' = waiting /\ reqs' = reqs
      /\ age' = age /\ status' = status
  BY DEF PurgeHands, PurgeRemoves, PurgeStamps, PurgeDies, Rest, client_
<1>2. \A x \in Slot : age'[x] >= age[x]
  BY <1>0, <1>1 DEF RowsType
<1>3. CASE PurgeHands
  <2>1. PICK B \in SUBSET Slot : B = ToPurge
    BY DEF ToPurge
  <2>2. nightly' = [nightly EXCEPT !.step = "handed", !.batch = B] /\ purged' = purged /\ stored' = stored
    BY <1>3, <2>1 DEF PurgeHands
  <2>3. nightly' \in NightType /\ nightly'.step = "handed" /\ nightly'.batch = B
    BY <1>0, <2>2 DEF NightType
  <2>4. RowsType'
    BY <1>0, <1>1, <2>2, <2>3 DEF RowsType
  <2>5. \A x \in B : status[x] \in {"deleted", "rejected"}
    BY <2>1 DEF ToPurge
  <2>6. NightOK'
    BY <1>1, <2>3, <2>5 DEF NightOK
  <2> QED
    BY <1>1, <1>2, <2>2, <2>4, <2>6, NightSafe
<1>4. CASE PurgeRemoves
  <2>1. /\ nightly' = [nightly EXCEPT !.step = "removed"] /\ purged' = purged
        /\ stored' = stored \ nightly.batch /\ nightly.step = "handed"
    BY <1>4 DEF PurgeRemoves
  <2>2. nightly' \in NightType /\ nightly'.step = "removed" /\ nightly'.batch = nightly.batch
    BY <1>0, <2>1 DEF NightType
  <2>3. RowsType'
    BY <1>0, <1>1, <2>1, <2>2 DEF RowsType
  <2>4. \A x \in nightly.batch : status[x] \in {"deleted", "rejected"} /\ x \notin stored'
    BY <1>0, <2>1 DEF NightOK
  <2>5. NightOK'
    BY <1>1, <2>2, <2>4 DEF NightOK
  <2>6. /\ \A x \in stored' : x \in stored
        /\ \A x \in stored : x \in stored' \/ status'[x] # "ready"
    BY <1>1, <2>1, <2>4
  <2> QED
    BY <1>1, <1>2, <2>1, <2>3, <2>5, <2>6, NightSafe
<1>5. CASE PurgeStamps
  <2>1. /\ nightly' = [nightly EXCEPT !.step = "off", !.batch = {}] /\ stored' = stored
        /\ purged' = purged \cup (nightly.batch \cap ToPurge) /\ nightly.step = "removed"
    BY <1>5 DEF PurgeStamps
  <2>2. nightly' \in NightType /\ nightly'.step = "off"
    BY <1>0, <2>1 DEF NightType
  <2>3. RowsType'
    BY <1>0, <1>1, <2>1, <2>2 DEF RowsType
  <2>4. NightOK'
    BY <2>2 DEF NightOK
  <2>5. \A x \in purged' : x \in purged \/ (x \notin stored' /\ status'[x] \in {"deleted", "rejected"})
    BY <1>0, <1>1, <2>1 DEF NightOK
  <2> QED
    BY <1>1, <1>2, <2>1, <2>3, <2>4, <2>5, NightSafe
<1>6. CASE PurgeDies
  <2>1. /\ nightly' = [nightly EXCEPT !.step = "off", !.batch = {}]
        /\ purged' = purged /\ stored' = stored
    BY <1>6 DEF PurgeDies
  <2>2. nightly' \in NightType /\ nightly'.step = "off"
    BY <1>0, <2>1 DEF NightType
  <2>3. RowsType'
    BY <1>0, <1>1, <2>1, <2>2 DEF RowsType
  <2>4. NightOK'
    BY <2>2 DEF NightOK
  <2> QED
    BY <1>1, <1>2, <2>1, <2>3, <2>4, NightSafe
<1> QED
  BY <1>3, <1>4, <1>5, <1>6

-----------------------------------------------------------------------------

LEMMA UploadInitInv == UploadInit => UploadInv
<1> SUFFICES ASSUME UploadInit
             PROVE  UploadInv
  OBVIOUS
<1> USE DEF UploadInit
<1>1. RowsType
  BY DEF RowsType, Statuses, NightType
<1>2. Fresh \in JobType /\ JobOK(Fresh) /\ Fresh.at = "none" /\ Fresh.ticket = NoSlot
  BY DEF Fresh, JobOK, JobType, Asks
<1>3. job \in [File -> JobType] /\ \A f \in File : job[f] = Fresh
  BY <1>2
<1>4. QueueOK(job, waiting)
  BY DEF QueueOK
<1>5. ReqsOK(job, reqs)
  BY DEF ReqsOK
<1>6. ClientOK(job, waiting, reqs)
  BY <1>2, <1>3, <1>4, <1>5 DEF ClientOK
<1>7. \A s \in Slot, f \in File : ~Holds(job, reqs, f, s)
  BY <1>2, <1>3, UploadsAssumption DEF Holds
<1>8. Holders
  BY <1>7 DEF Holders
<1>9. Shown = {}
  BY <1>2, <1>3 DEF Shown, ReadyFiles
<1>10. RowsOK
  BY <1>9 DEF RowsOK
<1>11. NightOK
  BY DEF NightOK
<1> QED
  BY <1>1, <1>6, <1>8, <1>10, <1>11 DEF UploadInv

LEMMA UploadStep == UploadInv /\ [UploadNext]_uploadVars => UploadInv'
<1> SUFFICES ASSUME UploadInv, [UploadNext]_uploadVars
             PROVE  UploadInv'
  OBVIOUS
<1>1. ASSUME NEW q \in reqs, Served(q) \/ NoAnswer(q) \/ RefuseBegin(q) \/ AbortUpload(q) \/ LoseAbort(q)
      PROVE  UploadInv'
  <2>1. CASE BeginUpload(q)
    BY <2>1, BeginUploadSafe
  <2>2. CASE PutObject(q)
    BY <2>2, PutObjectSafe
  <2>3. CASE LookAtUpload(q)
    BY <2>3, LookAtUploadSafe
  <2>4. CASE AcceptUpload(q)
    BY <2>4, AcceptUploadSafe
  <2>5. CASE RemoveBytes(q)
    BY <2>5, RemoveBytesSafe
  <2>6. CASE RejectUpload(q)
    BY <2>6, RejectUploadSafe
  <2>7. CASE NoAnswer(q)
    BY <2>7, NoAnswerSafe
  <2>8. CASE RefuseBegin(q)
    BY <2>8, RefuseBeginSafe
  <2>9. CASE AbortUpload(q)
    BY <2>9, AbortUploadSafe
  <2>10. CASE LoseAbort(q)
    BY <2>10, LoseAbortSafe
  <2> QED
    BY <1>1, <2>1, <2>2, <2>3, <2>4, <2>5, <2>6, <2>7, <2>8, <2>9, <2>10 DEF Served
<1>2. ASSUME NEW f \in File, AddFile(f) \/ RunGoesOn(f) \/ RetryFile(f) \/ RemoveFile(f)
      PROVE  UploadInv'
  BY <1>1, <1>2, ComposerSafe DEF RunGoesOn
<1>3. CASE UNCHANGED uploadVars
  <2>1. /\ job' = job /\ waiting' = waiting /\ reqs' = reqs /\ status' = status /\ age' = age
        /\ purged' = purged /\ stored' = stored /\ sending' = sending /\ sent' = sent /\ nightly' = nightly
    BY <1>3 DEF uploadVars, client_, server_
  <2>2. RowsType' /\ NightOK' /\ RowsType
    BY <2>1 DEF UploadInv, RowsType, NightOK
  <2>3. \A x \in Slot : age'[x] >= age[x]
    BY <2>1, <2>2 DEF RowsType
  <2> QED
    BY <2>1, <2>2, <2>3, NightSafe
<1>4. CASE UploadNext
  <2>1. CASE \E f \in File : AddFile(f) \/ RunGoesOn(f) \/ RetryFile(f) \/ RemoveFile(f)
    BY <1>2, <2>1
  <2>2. CASE ResetUploads
    BY <2>2, ComposerSafe
  <2>3. CASE SendFiles
    BY <2>3, SendFilesSafe
  <2>4. CASE ClaimFiles
    BY <2>4, ClaimFilesSafe
  <2>5. CASE \E q \in reqs : (q.who = NoFile /\ Served(q)) \/ AbortUpload(q) \/ LoseAbort(q)
    BY <1>1, <2>5
  <2>6. CASE \E s \in Slot : GrowOlder(s)
    BY <2>6, GrowOlderSafe
  <2>7. CASE TickPicks
    BY <2>7, TickPicksSafe
  <2>8. CASE TickWrites
    BY <2>8, TickWritesSafe
  <2>9. CASE PurgeHands \/ PurgeRemoves \/ PurgeStamps \/ PurgeDies
    BY <2>9, PurgeSafe
  <2> QED
    BY <1>4, <2>1, <2>2, <2>3, <2>4, <2>5, <2>6, <2>7, <2>8, <2>9 DEF UploadNext
<1> QED
  BY <1>3, <1>4

(* In every behaviour of the uploads of a composer the types, the machine, the holders of
   the reservations, the rows and the night stay as UploadInv says. *)
THEOREM UploadInvariance == UploadSpec => []UploadInv
<1> QED
  BY UploadInitInv, UploadStep, PTL DEF UploadSpec

(* readyIds (uploads.ts) and the claim of send_message: a file that is shown as ready, is
   on its way in a message or is in one has its row ready and its bytes there, until it is
   so old that the nightly tick may have listed it, whoever removes, retries or sends
   meanwhile and whatever is lost, late or served twice. *)
THEOREM FilesAlwaysThere == UploadSpec => []FilesAreThere
<1>1. UploadInv => FilesAreThere
  <2> SUFFICES ASSUME UploadInv, NEW s \in {job[f].ticket : f \in ReadyFiles} \cup sending \cup sent
               PROVE  (status[s] = "ready" /\ s \in stored) \/ age[s] >= 2
    BY DEF FilesAreThere
  <2>1. s \in Shown
    BY DEF Shown
  <2>2. s \in Slot
    <3>1. \A f \in ReadyFiles : job[f].ticket \in Slot
      BY ReadyHasTicket DEF UploadInv, ReadyFiles
    <3> QED
      BY <3>1 DEF UploadInv, RowsType
  <2> QED
    BY <2>1, <2>2 DEF UploadInv, RowsOK
<1> QED
  BY <1>1, UploadInvariance, PTL

(* svc_media_purge and reject of media-finalize: what is marked as purged has no bytes
   left in Storage, and can get none any more. *)
THEOREM NothingEverLeftStored == UploadSpec => []NothingLeftStored
<1>1. UploadInv => NothingLeftStored
  BY DEF UploadInv, RowsOK, NothingLeftStored
<1> QED
  BY <1>1, UploadInvariance, PTL

-----------------------------------------------------------------------------
(* What Push promises for any number of devices, runs, attempts and losses, as long
   as a run ends within its lock and a record is written once. *)

Status == Open \cup Ended
RunState == [at : {"idle", "called", "working"}, todo : SUBSET Device,
             got : UNION {[D -> Outcome] : D \in SUBSET Device}]

TypeInv ==
  /\ intent \in [status : Status, attempts : Nat, locked : BOOLEAN]
  /\ row \in [Device -> Outcome \cup {"none", "skipped"}]
  /\ device \in [Device -> {"on", "revoked", "gone"}]
  /\ wanted \in SUBSET Device /\ quiet \in SUBSET Device /\ cut \in SUBSET Device
  /\ run \in [Run -> RunState]

\* The intent is lent to one run at a time.
Lent ==
  /\ \A r, q \in Working : r = q
  /\ \A r \in Working : intent.locked /\ intent.status \notin {"pending", "done"}

\* What a run still has to send has no final row, and only such a run has answers.
Owed ==
  \A r \in Run :
    /\ r \notin Working => run[r].got = NoAnswers
    /\ r \in Working => /\ DOMAIN run[r].got \subseteq run[r].todo
                        /\ \A d \in run[r].todo : row[d] \notin Settled

Reached(d) == row[d] \in Settled \/ (row[d] = "failed" /\ d \in quiet)

\* Whoever is to be told is on the list of the run that works, or past the limit of its claim.
Listed ==
  \A r \in Working : \A d \in wanted \ cut :
    device[d] = "on" => Reached(d) \/ d \in run[r].todo

RevokedIsExpired == \A d \in Device : device[d] = "revoked" => row[d] = "expired"

Inv == TypeInv /\ Lent /\ Owed /\ Listed /\ RevokedIsExpired /\ NobodyMissed

LEMMA NoAnswersType == NoAnswers \in UNION {[D -> Outcome] : D \in SUBSET Device}
                       /\ DOMAIN NoAnswers = {}
  <1>1. NoAnswers \in [{} -> Outcome]
    BY DEF NoAnswers
  <1>2. {} \in SUBSET Device
    OBVIOUS
  <1>3. DOMAIN NoAnswers = {}
    BY DEF NoAnswers
  <1> QED  BY <1>1, <1>2, <1>3

LEMMA InitInv == Init => Inv
  <1> SUFFICES ASSUME Init PROVE Inv
    OBVIOUS
  <1>1. PICK first \in Run : run = [r \in Run |-> IF r = first THEN Called ELSE Idle]
    BY DEF Init
  <1>2. Idle \in RunState /\ Called \in RunState
    BY NoAnswersType DEF Idle, Called, RunState
  <1>3. \A r \in Run : run[r].at # "working" /\ run[r].got = NoAnswers
    BY <1>1 DEF Idle, Called
  <1>4. TypeInv
    BY <1>1, <1>2 DEF Init, TypeInv, Status, Open, Ended
  <1>5. Working = {}
    BY <1>3 DEF Working
  <1> QED
    BY <1>3, <1>4, <1>5 DEF Init, Inv, Lent, Owed, Listed, RevokedIsExpired, NobodyMissed

USE DEF Working

LEMMA RunType ==
  ASSUME TypeInv, NEW r \in Run
  PROVE  /\ run[r] \in RunState
         /\ \E D \in SUBSET Device : run[r].got \in [D -> Outcome]
  <1>1. run[r] \in RunState
    BY DEF TypeInv
  <1>2. run[r].got \in UNION {[D -> Outcome] : D \in SUBSET Device}
    BY <1>1 DEF RunState
  <1> QED  BY <1>1, <1>2

\* A run that is called, answers, ends or is lost while it does not work.
LEMMA QuietRun ==
  ASSUME Inv, NEW r \in Run, r \notin Working,
         NEW a \in {"idle", "called"},
         run' = [run EXCEPT ![r] = [at |-> a, todo |-> {}, got |-> NoAnswers]],
         UNCHANGED <<intent, row, device, wanted, quiet, cut>>
  PROVE Inv'
  <1>1. [at |-> a, todo |-> {}, got |-> NoAnswers] \in RunState
    BY NoAnswersType DEF RunState
  <1>2. TypeInv'
    BY <1>1 DEF Inv, TypeInv
  <1>3. Working' = Working /\ \A q \in Working : run'[q] = run[q]
    BY DEF Inv, TypeInv
  <1>4. \A q \in Run : q \notin Working' => run'[q].got = NoAnswers
    BY <1>3 DEF Inv, TypeInv, Owed
  <1>5. Lent' /\ Owed' /\ Listed' /\ RevokedIsExpired' /\ NobodyMissed'
    BY <1>3, <1>4 DEF Inv, Lent, Owed, Listed, RevokedIsExpired, NobodyMissed, Reached
  <1> QED  BY <1>2, <1>5 DEF Inv

LEMMA VanishInv == ASSUME Inv, NEW r \in Run, Vanish(r) PROVE Inv'
  <1>1. Idle \in RunState /\ Idle.at # "working" /\ Idle.got = NoAnswers
    BY NoAnswersType DEF RunState, Idle
  <1>2. TypeInv'
    BY <1>1 DEF Inv, TypeInv, Vanish
  <1>3. /\ Working' \subseteq Working
        /\ \A q \in Working' : run'[q] = run[q]
        /\ \A q \in Run \ Working' : run'[q].got = NoAnswers
    BY <1>1 DEF Inv, TypeInv, Owed, Vanish
  <1> QED
    BY <1>2, <1>3 DEF Vanish, Inv, Lent, Owed, Listed, RevokedIsExpired, NobodyMissed, Reached

LEMMA ClaimInv == ASSUME Inv, NEW r \in Run, Claim(r) PROVE Inv'
  <1> DEFINE todo == Taken \ quiet
             next == IF todo = {} THEN Idle
                     ELSE [at |-> "working", todo |-> todo, got |-> NoAnswers]
  <1>1. Working = {}
    BY DEF Claim, Refuses, Inv, Lent, TypeInv, Status, Open, Ended
  <1>2. run' = [run EXCEPT ![r] = next] /\ next \in RunState
    BY NoAnswersType DEF Claim, Idle, RunState, Routed, Taken, Inv, TypeInv
  <1>3. /\ todo = {} => Working' = {}
        /\ todo # {} => Working' = {r} /\ run'[r].todo = todo /\ run'[r].got = NoAnswers
        /\ \A q \in Run : run'[q].got = NoAnswers
    BY <1>1, <1>2 DEF Idle, Inv, TypeInv, Owed
  <1>4. \A d \in Device : row'[d] = IF d \in Taken \cap quiet /\ row[d] = "none"
                                    THEN "skipped" ELSE row[d]
    BY DEF Claim
  <1>5. TypeInv'
    BY <1>2 DEF Claim, Routed, Inv, TypeInv, Status, Open, Ended
  <1>6. Lent'
    BY <1>3 DEF Claim, Lent
  <1>7. Owed'
    BY <1>3, <1>4, NoAnswersType DEF Owed, Routed, Taken, Inv, TypeInv
  <1>8. \A d \in wanted \ cut' : device[d] = "on" => Reached(d)' \/ d \in todo
    BY <1>4 DEF Claim, Reached, Routed, Taken, Settled, Inv, TypeInv, Outcome
  <1>9. Listed'
    BY <1>3, <1>8 DEF Claim, Listed
  <1>10. NobodyMissed'
    BY <1>8 DEF Claim, NobodyMissed, Reached
  <1>11. RevokedIsExpired'
    BY <1>4 DEF Claim, RevokedIsExpired, Inv
  <1> QED  BY <1>5, <1>6, <1>7, <1>9, <1>10, <1>11 DEF Inv

LEMMA SendInv == ASSUME Inv, NEW r \in Run, NEW d \in Device, Send(r, d) PROVE Inv'
  <1>1. PICK o \in Outcome :
          run' = [run EXCEPT ![r].got = [x \in DOMAIN run[r].got \cup {d} |->
                                           IF x = d THEN o ELSE run[r].got[x]]]
    BY DEF Send
  <1> DEFINE got == [x \in DOMAIN run[r].got \cup {d} |-> IF x = d THEN o ELSE run[r].got[x]]
  <1>2. PICK D \in SUBSET Device : run[r].got \in [D -> Outcome]
    BY RunType DEF Inv
  <1>3. got \in [D \cup {d} -> Outcome] /\ D \cup {d} \in SUBSET Device
    BY <1>2
  <1>4. /\ run'[r].at = run[r].at /\ run'[r].todo = run[r].todo /\ run'[r].got = got
        /\ run'[r] \in RunState
        /\ \A q \in Run : q # r => run'[q] = run[q]
    <2> HIDE DEF got
    <2>1. run'[r] = [run[r] EXCEPT !.got = got] /\ \A q \in Run : q # r => run'[q] = run[q]
      BY <1>1 DEF Inv, TypeInv, got
    <2>2. run[r] \in RunState /\ got \in UNION {[E -> Outcome] : E \in SUBSET Device}
      BY <1>3, RunType DEF Inv
    <2> QED  BY <2>1, <2>2 DEF RunState
  <1>5. TypeInv'
    BY <1>1, <1>4 DEF Send, Inv, TypeInv
  <1>6. Working' = Working /\ \A q \in Working : run'[q].todo = run[q].todo
    BY <1>4
  <1>7. Owed'
    BY <1>4, <1>6 DEF Send, Owed, Inv
  <1> QED
    BY <1>5, <1>6, <1>7 DEF Send, Inv, Lent, Listed, RevokedIsExpired, NobodyMissed, Reached

LEMMA RecordInv == ASSUME Inv, May = {}, NEW r \in Run, Record(r) PROVE Inv'
  <1> DEFINE got == run[r].got
             there == {d \in DOMAIN got : device[d] # "gone"}
  <1>1. run' = [run EXCEPT ![r] = Idle] /\ UNCHANGED <<wanted, quiet, cut>>
    BY DEF Record, MayRepeat
  <1>2. Working = {r} /\ Working' = {}
    BY <1>1 DEF Record, HasResults, Inv, Lent, Idle, TypeInv
  <1>3. DOMAIN got = run[r].todo /\ \A d \in DOMAIN got : row[d] \notin Settled
    BY <1>2 DEF Record, HasResults, Inv, Owed
  <1>4. PICK D \in SUBSET Device : got \in [D -> Outcome]
    BY RunType DEF Inv
  <1>5. \A d \in Device :
          /\ row'[d] = IF d \in there THEN got[d] ELSE row[d]
          /\ device'[d] = IF d \in there /\ got[d] = "expired" THEN "revoked" ELSE device[d]
    BY DEF Record, Recorded
  <1>6. Idle \in RunState /\ Idle.got = NoAnswers
    BY NoAnswersType DEF Idle, RunState
  <1>7. intent' \in [status : Status, attempts : Nat, locked : BOOLEAN]
    BY DEF Record, Recorded, Inv, TypeInv, Status, Open, Ended
  <1>8. TypeInv'
    BY <1>1, <1>4, <1>6, <1>7 DEF Record, Recorded, Inv, TypeInv
  <1>9. Owed'
    BY <1>1, <1>2, <1>6 DEF Owed, Inv, TypeInv
  <1>10. RevokedIsExpired'
    BY <1>3, <1>5 DEF RevokedIsExpired, Inv, Settled
  <1>11. ASSUME intent'.status = "done" PROVE \A d \in DOMAIN got : got[d] # "failed"
    BY <1>11 DEF Record, Recorded, Inv, TypeInv
  <1>12. ASSUME intent'.status = "done", NEW d \in wanted \ cut, device'[d] = "on"
         PROVE row'[d] \in Settled \/ (row'[d] = "failed" /\ d \in quiet)
    <2>1. d \in Device /\ device[d] = "on"
      BY <1>5, <1>12 DEF Inv, TypeInv
    <2>2. CASE d \in DOMAIN got
      <3>1. row'[d] = got[d] /\ got[d] # "failed" /\ got[d] \in Outcome
        BY <1>4, <1>5, <1>11, <1>12, <2>1, <2>2
      <3> QED  BY <3>1 DEF Outcome, Settled
    <2>3. CASE d \notin DOMAIN got
      BY <1>2, <1>3, <1>5, <2>1, <2>3 DEF Inv, Listed, Reached
    <2> QED  BY <2>2, <2>3
  <1>13. NobodyMissed'
    BY <1>1, <1>12 DEF NobodyMissed
  <1> QED
    BY <1>2, <1>8, <1>9, <1>10, <1>13 DEF Inv, Lent, Listed

LEMMA ClockInv ==
  ASSUME Inv, May = {},
         SweepEnds \/ LockEnds \/ GrowOld \/ \E r \in Run : GiveUp(r)
  PROVE Inv'
  <1> USE DEF Inv, TypeInv, Lent, Owed, Listed, RevokedIsExpired, NobodyMissed, Reached
  <1>1. CASE SweepEnds
    BY <1>1 DEF SweepEnds, SweepsUp, Status, Open, Ended
  <1>2. CASE LockEnds
    BY <1>2 DEF LockEnds
  <1>3. CASE GrowOld
    BY <1>3 DEF GrowOld
  <1>4. ASSUME NEW r \in Run, GiveUp(r) PROVE Inv'
    <2>1. Working = {} /\ Idle \in RunState /\ Idle.at = "idle" /\ Idle.got = NoAnswers
      BY <1>4, NoAnswersType DEF GiveUp, Refuses, Status, Open, Ended, Idle, RunState
    <2>2. TypeInv'
      BY <1>4, <2>1 DEF GiveUp, Status, Ended
    <2>3. Working' = {} /\ \A q \in Run : run'[q].got = NoAnswers
      BY <1>4, <2>1 DEF GiveUp
    <2> QED  BY <1>4, <2>2, <2>3 DEF GiveUp
  <1> QED  BY <1>1, <1>2, <1>3, <1>4

LEMMA PeopleInv ==
  ASSUME Inv, NEW d \in Device, Unwant(d) \/ Hush(d) \/ Register(d) \/ Unregister(d)
  PROVE Inv'
  <1> USE DEF Inv, TypeInv, Lent, Owed, Listed, RevokedIsExpired, NobodyMissed, Reached
  <1>1. CASE Unwant(d)
    BY <1>1 DEF Unwant
  <1>2. CASE Hush(d)
    BY <1>2 DEF Hush
  <1>3. CASE Register(d)
    BY <1>3 DEF Register, Settled
  <1>4. CASE Unregister(d)
    BY <1>4 DEF Unregister, Settled, Outcome
  <1> QED  BY <1>1, <1>2, <1>3, <1>4

LEMMA NextInv == ASSUME Inv, May = {}, [Next]_vars PROVE Inv'
  <1>1. ASSUME NEW r \in Run, Decline(r) \/ SweepCalls(r) PROVE Inv'
    <2>1. r \notin Working
      BY <1>1 DEF Decline, SweepCalls
    <2> QED
      BY <1>1, <2>1, QuietRun DEF Decline, SweepCalls, Idle, Called
  <1>2. CASE UNCHANGED vars
    BY <1>2 DEF vars, Inv, TypeInv, Lent, Owed, Listed, RevokedIsExpired, NobodyMissed, Reached
  <1> QED
    BY <1>1, <1>2, ClaimInv, SendInv, RecordInv, VanishInv, ClockInv, PeopleInv
    DEF Next, RunStep

\* One run at a time has the intent, it sends only what has no final row, and whoever is
\* to be told is on its list.
THEOREM PushInvariance == ASSUME May = {} PROVE Spec => []Inv
  <1>1. Init => Inv
    BY InitInv
  <1>2. Inv /\ [Next]_vars => Inv'
    BY NextInv
  <1> QED  BY <1>1, <1>2, PTL DEF Spec

\* An intent that is done has left out nobody but those past the limit of its last claim's
\* routes (plat_route, svc_claim_intent, svc_record_deliveries).
THEOREM NobodyMissedAlways == ASSUME May = {} PROVE Spec => []NobodyMissed
  <1>1. Inv => NobodyMissed
    BY DEF Inv
  <1> QED  BY <1>1, PushInvariance, PTL

OnceOnlyStep ==
  \A d \in Device :
    /\ row[d] \in Settled => row'[d] = row[d] \/ device'[d] = "gone"
    /\ \A r \in Run : d \in Told(r)' \ Told(r) =>
         row[d] # "sent" /\ \A q \in Run : d \notin Told(q)

LEMMA RecordKeeps ==
  ASSUME Inv, NEW r \in Run, Record(r), NEW d \in Device, row[d] \in Settled
  PROVE  row'[d] = row[d]
  BY DEF Record, Recorded, HasResults, Inv, Owed

LEMMA RowsForward ==
  ASSUME Inv, [Next]_vars, NEW d \in Device, row[d] \in Settled
  PROVE  row'[d] = row[d] \/ device'[d] = "gone"
  <1>1. ASSUME NEW r \in Run, Claim(r) PROVE row'[d] = row[d]
    BY <1>1 DEF Claim, Settled
  <1>2. ASSUME NEW e \in Device, Unregister(e) PROVE row'[d] = row[d] \/ device'[d] = "gone"
    BY <1>2 DEF Unregister, Inv, TypeInv
  <1> QED
    BY <1>1, <1>2, RecordKeeps
    DEF Next, RunStep, vars, GiveUp, Decline, Send, Vanish, SweepCalls, SweepEnds, LockEnds,
        GrowOld, Unwant, Hush, Register

LEMMA ToldOnlyBySend ==
  ASSUME Inv, May = {}, [Next]_vars, NEW r \in Run, NEW d \in Device, d \in Told(r)' \ Told(r)
  PROVE  Send(r, d)
  <1>1. run'[r] # run[r] /\ DOMAIN run'[r].got # {}
    BY DEF Told
  <1>2. PICK q \in Run : \/ GiveUp(q) \/ Decline(q) \/ Claim(q) \/ Record(q) \/ Vanish(q)
                         \/ SweepCalls(q) \/ \E e \in Device : Send(q, e)
    BY <1>1 DEF Next, RunStep, vars, SweepEnds, LockEnds, GrowOld, Unwant, Hush, Register,
                Unregister
  <1>3. ASSUME GiveUp(q) \/ Decline(q) \/ Claim(q) \/ Record(q) \/ Vanish(q) \/ SweepCalls(q)
        PROVE  FALSE
    <2>1. /\ \A x \in Run : x # q => run'[x] = run[x]
          /\ run'[q].got = NoAnswers
      <3>1. Idle.got = NoAnswers /\ Called.got = NoAnswers
        BY DEF Idle, Called
      <3>2. \E s : s.got = NoAnswers /\ run' = [run EXCEPT ![q] = s]
        <4>1. CASE Claim(q)
          <5> DEFINE todo == Taken \ quiet
                     s == IF todo = {} THEN Idle
                          ELSE [at |-> "working", todo |-> todo, got |-> NoAnswers]
          <5>1. s.got = NoAnswers
            BY <3>1
          <5>2. run' = [run EXCEPT ![q] = s]
            BY <4>1 DEF Claim
          <5> HIDE DEF s
          <5> QED  BY <5>1, <5>2
        <4>2. CASE SweepCalls(q)
          BY <3>1, <4>2 DEF SweepCalls
        <4>3. CASE GiveUp(q) \/ Decline(q) \/ Record(q) \/ Vanish(q)
          BY <3>1, <4>3 DEF GiveUp, Decline, Record, MayRepeat, Vanish
        <4> QED  BY <1>3, <4>1, <4>2, <4>3
      <3> QED  BY <3>2 DEF Inv, TypeInv
    <2> QED  BY <1>1, <2>1, NoAnswersType
  <1>4. PICK e \in Device : Send(q, e)
    BY <1>2, <1>3
  <1>5. q = r
    BY <1>1, <1>4 DEF Send, Inv, TypeInv
  <1>6. e = d
    <2>1. PICK o \in Outcome :
            run' = [run EXCEPT ![r].got = [x \in DOMAIN run[r].got \cup {e} |->
                                             IF x = e THEN o ELSE run[r].got[x]]]
      BY <1>4, <1>5 DEF Send
    <2> DEFINE got == [x \in DOMAIN run[r].got \cup {e} |-> IF x = e THEN o ELSE run[r].got[x]]
    <2>2. run'[r].got = got
      <3> HIDE DEF got
      <3>1. run'[r] = [run[r] EXCEPT !.got = got] /\ run[r] \in RunState
        BY <2>1, RunType DEF Inv, TypeInv, got
      <3> QED  BY <3>1 DEF RunState
    <2> QED  BY <2>2 DEF Told
  <1> QED  BY <1>4, <1>5, <1>6

\* No retry notifies a device twice, and no final row is overwritten, as long as no run
\* outlives its lock and no record is written again late (0310, push-dispatch).
THEOREM OnceOnlyAlways == ASSUME May = {} PROVE Spec => OnceOnly
  <1>1. ASSUME Inv, [Next]_vars PROVE OnceOnlyStep
    <2>1. ASSUME NEW d \in Device, NEW r \in Run, d \in Told(r)' \ Told(r)
          PROVE  row[d] # "sent" /\ \A q \in Run : d \notin Told(q)
      <3>1. Send(r, d)
        BY <1>1, <2>1, ToldOnlyBySend
      <3>2. row[d] \notin Settled /\ d \notin DOMAIN run[r].got
        BY <1>1, <3>1 DEF Send, Inv, Owed
      <3>3. \A q \in Run : q # r => run[q].got = NoAnswers
        BY <1>1, <3>1 DEF Send, Inv, Lent, Owed
      <3> QED  BY <3>2, <3>3, NoAnswersType DEF Told, Settled
    <2> QED  BY <1>1, <2>1, RowsForward DEF OnceOnlyStep
  <1>2. Inv /\ [Next]_vars => [OnceOnlyStep]_vars
    BY <1>1
  <1> QED  BY <1>2, PushInvariance, PTL DEF Spec, OnceOnly, OnceOnlyStep
=============================================================================
