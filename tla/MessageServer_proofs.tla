------------------------ MODULE MessageServer_proofs ------------------------
(***************************************************************************)
(* What is proved of MessageServer for any number of transactions,         *)
(* messages, conversations, people and files.                              *)
(*                                                                         *)
(* The inductive invariant says what a transaction may rely on while it    *)
(* holds its locks: nobody else holds them (Exclusive), its client_id is   *)
(* still unused, the number it took is still the next one, and the rows it *)
(* is about to overwrite still have the place they had when it read them.  *)
(* The second half goes on to what is in the rows and to the locks.        *)
(***************************************************************************)
EXTENDS MessageServer, FiniteSetTheorems, TLAPS

Sending(c) == call[c].kind = "send" /\ call[c].pc \in {"root", "files", "commit"}

Request(c) ==
  /\ call[c] \in CallType
  /\ ~ At(c, "idle") => /\ call[c].id \in Msg /\ call[c].by \in User /\ call[c].kind \in Kind
                        /\ call[c].kind = "send" => call[c].ch \in Channel
  /\ call[c].pc \in {"client", "root", "files"} => call[c].kind = "send"
  /\ call[c].pc \in {"read", "row", "count"} => call[c].kind # "send"

Unlocked(c) == call[c].pc \in {"idle", "done"} => held[c] = {}

\* What c has written: a new row, or a new version of a row that keeps its place.
Writes(c) ==
  /\ DOMAIN work[c] \subseteq Msg
  /\ \A m \in DOMAIN work[c] : work[c][m] \in RowType
  /\ call[c].pc \notin {"count", "commit"} => DOMAIN work[c] = {}
  /\ \A m \in DOMAIN work[c] :
       \/ call[c].kind = "send" /\ m = call[c].id /\ (work[c][m].root = NoMsg \/ IsRow(work[c][m].root))
       \/ /\ IsRow(m) /\ work[c][m].ch = rows[m].ch /\ work[c][m].seq = rows[m].seq
          /\ work[c][m].root = rows[m].root

SendOK(c) ==
  Sending(c) => /\ ClientKey(call[c].id) \in held[c] /\ ~ IsRow(call[c].id)
                /\ call[c].root = NoMsg \/ IsRow(call[c].root)

\* The number c took is the next one for as long as c holds the counter.
Numbered(c) ==
  At(c, "commit") /\ call[c].kind = "send" =>
    /\ StateKey(call[c].ch) \in held[c]
    /\ call[c].id \in DOMAIN work[c]
    /\ work[c][call[c].id].ch = call[c].ch
    /\ work[c][call[c].id].seq = lastSeq[call[c].ch] + 1

ChangeOK(c) ==
  /\ call[c].pc \in {"row", "count"} => IsRow(call[c].id)
  /\ At(c, "count") => rows[call[c].id].root # NoMsg /\ call[c].id \in DOMAIN work[c]

CallInv(c) == Request(c) /\ Unlocked(c) /\ Writes(c) /\ SendOK(c) /\ Numbered(c) /\ ChangeOK(c)

Exclusive == \A c, d \in Call : c # d => held[c] \cap held[d] = {}

Tables ==
  /\ rows \in [Msg -> RowType \cup {NoRow}]
  /\ lastSeq \in [Channel -> Nat]
  /\ reactors \in [Msg -> SUBSET User]
  /\ claimed \in [File -> Msg \cup {NoMsg}]
  /\ follows \in [Msg -> SUBSET User]
  /\ clock \in Nat /\ aborts \in Nat
  /\ \A m \in Msg : IsRow(m) /\ rows[m].root # NoMsg => IsRow(rows[m].root)

Domains == DOMAIN call = Call /\ call \in [Call -> CallType] /\ DOMAIN held = Call /\ DOMAIN work = Call

Inv == Domains /\ Tables /\ Exclusive /\ (\A c \in Call : CallInv(c))

-----------------------------------------------------------------------------
USE MessageServerAssumption

LEMMA RowTypeFacts ==
  ASSUME NEW r \in RowType
  PROVE  r # NoRow /\ r.ch \in Channel /\ r.seq \in Nat \ {0} /\ r.root \in Msg \cup {NoMsg} /\ r.replies \in Nat
         /\ r.reactions \in SUBSET User /\ r.files \in SUBSET File /\ r.updated \in Nat /\ r.deleted \in BOOLEAN
BY DEF RowType, NoRow

LEMMA InitInv == Init => Inv
<1> SUFFICES ASSUME Init PROVE Inv
  OBVIOUS
<1>1. Idle \in CallType
  BY DEF Idle, CallType
<1>2. Domains
  BY <1>1 DEF Init, Domains
<1>3. Tables
  BY DEF Init, Tables, IsRow
<1>4. Exclusive
  BY DEF Init, Exclusive
<1>5. ASSUME NEW c \in Call PROVE CallInv(c)
  BY <1>1 DEF Init, CallInv, Request, Unlocked, Writes, SendOK, Sending, Numbered, ChangeOK, At, Idle
<1> QED
  BY <1>2, <1>3, <1>4, <1>5 DEF Inv

-----------------------------------------------------------------------------
(* A transaction that does not commit disturbs nobody: it is enough to look *)
(* at its own part of the invariant.                                        *)

LEMMA QuietStep ==
  ASSUME Inv, NEW c \in Call,
         Domains',
         \A d \in Call \ {c} : call'[d] = call[d] /\ held'[d] = held[d] /\ work'[d] = work[d],
         UNCHANGED table, clock' \in Nat, aborts' \in Nat, CallInv(c)',
         \A d \in Call \ {c} : held'[c] \cap held[d] = {}
  PROVE  Inv'
<1>2. Tables'
  BY DEF Inv, Tables, table, IsRow
<1>3. Exclusive'
  BY DEF Inv, Exclusive
<1>4. ASSUME NEW d \in Call PROVE CallInv(d)'
  <2>1. CASE d = c
    BY <2>1
  <2>2. CASE d # c
    <3>1. call'[d] = call[d] /\ held'[d] = held[d] /\ work'[d] = work[d] /\ rows' = rows /\ lastSeq' = lastSeq
      BY <2>2 DEF table
    <3>2. CallInv(d)
      BY DEF Inv
    <3> QED
      BY <3>1, <3>2 DEF CallInv, Request, Unlocked, Writes, SendOK, Sending, Numbered, ChangeOK, At, IsRow
  <2> QED
    BY <2>1, <2>2
<1> QED
  BY <1>2, <1>3, <1>4 DEF Inv

LEMMA EndStep ==
  ASSUME Inv, NEW c \in Call, ~ At(c, "idle"), UNCHANGED table, clock' \in Nat, aborts' \in Nat,
         NEW answer \in {"ok", "lost", "rate_limited", "conflict", "not_found", "invalid_input", "duplicate_key"},
         End(c, answer)
  PROVE  Inv'
<1> DEFINE v == [call[c] EXCEPT !.pc = "done", !.answer = answer]
           w == [m \in {} |-> NoRow]
<1>1. call[c] \in CallType /\ Request(c)
  BY DEF Inv, CallInv, Request
<1>2. v \in CallType
  BY <1>1 DEF CallType
<1>3. call' = [call EXCEPT ![c] = v] /\ held' = [held EXCEPT ![c] = {}] /\ work' = [work EXCEPT ![c] = w]
  BY DEF End
<1>4. call'[c] = v /\ held'[c] = {} /\ work'[c] = w
  BY <1>3 DEF Inv, Domains
<1>5. CallInv(c)'
  BY <1>1, <1>2, <1>4 DEF CallInv, Request, Unlocked, Writes, SendOK, Sending, Numbered, ChangeOK, At, CallType
<1>6. /\ Domains'
      /\ \A d \in Call \ {c} : call'[d] = call[d] /\ held'[d] = held[d] /\ work'[d] = work[d]
  BY <1>2, <1>3 DEF Inv, Domains
<1> QED
  BY <1>4, <1>5, <1>6, QuietStep

\* The lock taken is nobody else's, and nothing else changes but where c is.
LEMMA GotoStep ==
  ASSUME Inv, NEW c \in Call, NEW pc \in {"client", "root", "files", "read", "row"}, NEW k,
         call[c].pc \in {"rate", "client", "root", "files", "read"},
         Goto(c, pc) \/ (pc = call[c].pc /\ UNCHANGED call),
         Take(c, k) \/ UNCHANGED held,
         UNCHANGED <<work, table, clock, aborts>>,
         pc \in {"client", "root", "files"} => call[c].kind = "send",
         pc \in {"read", "row"} => call[c].kind # "send",
         pc \in {"root", "files"} => ClientKey(call[c].id) \in held'[c] /\ ~ IsRow(call[c].id),
         pc \in {"root", "files"} => call[c].root = NoMsg \/ IsRow(call[c].root),
         pc = "row" => IsRow(call[c].id)
  PROVE  Inv'
<1>1. CallInv(c) /\ Domains /\ Tables
  BY DEF Inv
<1>2. call[c] \in CallType
  BY <1>1 DEF CallInv, Request
<1>3. [call[c] EXCEPT !.pc = pc] \in CallType
  BY <1>2 DEF CallType
<1>4. /\ call'[c] = [call[c] EXCEPT !.pc = pc] /\ call' \in [Call -> CallType]
      /\ \A d \in Call \ {c} : call'[d] = call[d]
  <2>1. CASE Goto(c, pc)
    BY <1>1, <1>3, <2>1 DEF Goto, Domains
  <2>2. CASE pc = call[c].pc /\ UNCHANGED call
    BY <1>1, <1>2, <2>2 DEF CallType, Domains
  <2> QED
    BY <2>1, <2>2
<1>5. /\ DOMAIN held' = Call /\ \A d \in Call \ {c} : held'[d] = held[d]
      /\ \A d \in Call \ {c} : held'[c] \cap held[d] = {}
  <2>1. CASE Take(c, k)
    BY <1>1, <2>1 DEF Take, Free, Domains, Inv, Exclusive
  <2>2. CASE UNCHANGED held
    BY <1>1, <2>2 DEF Domains, Inv, Exclusive
  <2> QED
    BY <2>1, <2>2
<1>6. CallInv(c)'
  <2>2. /\ call'[c].pc = pc /\ call'[c].kind = call[c].kind /\ call'[c].id = call[c].id
        /\ call'[c].by = call[c].by /\ call'[c].ch = call[c].ch /\ call'[c].root = call[c].root
    BY <1>2, <1>4 DEF CallType
  <2>3. DOMAIN work[c] = {}
    BY <1>1 DEF CallInv, Writes
  <2>4. Request(c)'
    BY <1>1, <1>3, <1>4, <2>2 DEF CallInv, Request, At
  <2>5. Unlocked(c)' /\ Numbered(c)'
    BY <2>2 DEF Unlocked, Numbered, At
  <2>6. Writes(c)'
    BY <2>3 DEF Writes
  <2>7. SendOK(c)' /\ ChangeOK(c)'
    BY <2>2 DEF SendOK, Sending, ChangeOK, IsRow, At, ClientKey, table
  <2> QED
    BY <2>4, <2>5, <2>6, <2>7 DEF CallInv
<1>7. clock' \in Nat /\ aborts' \in Nat
  BY <1>1 DEF Tables
<1>8. Domains'
  BY <1>1, <1>4, <1>5 DEF Domains
<1> QED
  BY <1>4, <1>5, <1>6, <1>7, <1>8, QuietStep

LEMMA BeginStep ==
  ASSUME Inv, NEW c \in Call, NEW r \in CallType, r.answer = "none", r.id \in Msg, r.by \in User,
         r.kind = "send" => r.ch \in Channel, Begin(c, r)
  PROVE  Inv'
<1> DEFINE v == [r EXCEPT !.pc = IF r.kind = "delete" THEN "read" ELSE "rate", !.start = clock]
<1>1. CallInv(c) /\ Domains /\ Tables
  BY DEF Inv
<1>2. v \in CallType
  <2>1. clock \in Nat
    BY <1>1 DEF Tables
  <2>2. ASSUME NEW pc \in {"read", "rate"} PROVE [r EXCEPT !.pc = pc, !.start = clock] \in CallType
    BY <2>1 DEF CallType
  <2>3. CASE r.kind = "delete"
    BY <2>2, <2>3
  <2>4. CASE r.kind # "delete"
    BY <2>2, <2>4
  <2> QED
    BY <2>3, <2>4
<1>3. call'[c] = v /\ Domains' /\ r.kind \in Kind /\ \A d \in Call \ {c} : call'[d] = call[d]
  BY <1>1, <1>2 DEF Begin, Domains
<1>4. UNCHANGED <<held, work, table, aborts>> /\ clock' = clock + 1
  BY DEF Begin
<1>5. DOMAIN work[c] = {} /\ held[c] = {}
  BY <1>1 DEF CallInv, Writes, Unlocked, Begin, At
<1>6. v.pc \in {"read", "rate"} /\ v.kind = r.kind /\ v.id = r.id /\ v.by = r.by /\ v.ch = r.ch
      /\ (v.pc = "read" => v.kind = "delete")
  BY DEF CallType
<1> HIDE DEF v
<1>7. CallInv(c)'
  BY <1>2, <1>3, <1>4, <1>5, <1>6 DEF CallInv, Request, Unlocked, Writes, SendOK, Sending, Numbered, ChangeOK, At
<1>8. clock' \in Nat /\ aborts' \in Nat /\ \A d \in Call \ {c} : held'[c] \cap held[d] = {}
  BY <1>1, <1>4, <1>5 DEF Tables
<1> QED
  BY <1>3, <1>4, <1>7, <1>8, QuietStep

LEMMA StartStep ==
  ASSUME Inv, NEW c \in Call, Start(c)
  PROVE  Inv'
<1>1. Idle \in CallType /\ Idle.answer = "none"
  BY DEF Idle, CallType
<1>2. PICK m \in Msg :
        \/ \E ch \in Channel, root \in (Root \ {m}) \cup {NoMsg}, files \in SUBSET File, mentions \in Mentions \cup {{}} :
             BeginSend(c, m, ch, root, files, mentions)
        \/ \E body \in Body, mentions \in Mentions : BeginEdit(c, m, body, mentions)
        \/ BeginDelete(c, m)
        \/ \E u \in User, on \in BOOLEAN : BeginReact(c, u, m, on)
  BY DEF Start
<1>3. ASSUME NEW ch \in Channel, NEW root \in (Root \ {m}) \cup {NoMsg}, NEW files \in SUBSET File,
             NEW mentions \in Mentions \cup {{}}, BeginSend(c, m, ch, root, files, mentions)
      PROVE  Inv'
  <2> DEFINE r == [Idle EXCEPT !.kind = "send", !.by = Author[m], !.id = m, !.ch = ch, !.root = root, !.files = files,
                          !.mentions = mentions]
  <2>1. "send" \in Kind
    BY <1>3 DEF BeginSend, Begin, Idle
  <2>2. r \in CallType /\ r.answer = "none" /\ r.id \in Msg /\ r.by \in User /\ r.ch \in Channel /\ Begin(c, r)
    BY <1>1, <1>3, <2>1 DEF CallType, Idle, BeginSend
  <2> HIDE DEF r
  <2> QED
    BY <2>2, BeginStep
<1>4. ASSUME NEW body \in Body, NEW mentions \in Mentions, BeginEdit(c, m, body, mentions) PROVE Inv'
  <2> DEFINE r == [Idle EXCEPT !.kind = "edit", !.by = Author[m], !.id = m, !.body = body, !.mentions = mentions]
  <2>1. "edit" \in Kind
    BY <1>4 DEF BeginEdit, Begin, Idle
  <2>2. r \in CallType /\ r.answer = "none" /\ r.id \in Msg /\ r.by \in User /\ r.kind = "edit" /\ Begin(c, r)
    BY <1>1, <1>4, <2>1 DEF CallType, Idle, BeginEdit
  <2> HIDE DEF r
  <2> QED
    BY <2>2, BeginStep
<1>5. ASSUME BeginDelete(c, m) PROVE Inv'
  <2> DEFINE r == [Idle EXCEPT !.kind = "delete", !.by = Author[m], !.id = m]
  <2>1. "delete" \in Kind
    BY <1>5 DEF BeginDelete, Begin, Idle
  <2>2. r \in CallType /\ r.answer = "none" /\ r.id \in Msg /\ r.by \in User /\ r.kind = "delete" /\ Begin(c, r)
    BY <1>1, <1>5, <2>1 DEF CallType, Idle, BeginDelete
  <2> HIDE DEF r
  <2> QED
    BY <2>2, BeginStep
<1>6. ASSUME NEW u \in User, NEW on \in BOOLEAN, BeginReact(c, u, m, on) PROVE Inv'
  <2> DEFINE r == [Idle EXCEPT !.kind = "react", !.by = u, !.id = m, !.on = on]
  <2>1. "react" \in Kind
    BY <1>6 DEF BeginReact, Begin, Idle
  <2>2. r \in CallType /\ r.answer = "none" /\ r.id \in Msg /\ r.by \in User /\ r.kind = "react" /\ Begin(c, r)
    BY <1>1, <1>6, <2>1 DEF CallType, Idle, BeginReact
  <2> HIDE DEF r
  <2> QED
    BY <2>2, BeginStep
<1> QED
  BY <1>2, <1>3, <1>4, <1>5, <1>6

\* A transaction writes rows it has locked; nobody sees them yet.
LEMMA WriteStep ==
  ASSUME Inv, NEW c \in Call, NEW pc \in {"count", "commit"}, NEW k,
         call[c].pc \in {"files", "row", "count"}, pc = "count" => call[c].kind # "send",
         Goto(c, pc), Take(c, k),
         DOMAIN work' = Call, \A d \in Call \ {c} : work'[d] = work[d],
         UNCHANGED <<table, clock, aborts>>,
         Writes(c)', SendOK(c)', Numbered(c)', ChangeOK(c)'
  PROVE  Inv'
<1>1. Domains /\ Tables /\ CallInv(c) /\ call[c] \in CallType
  BY DEF Inv, CallInv, Request
<1>2. [call[c] EXCEPT !.pc = pc] \in CallType
  BY <1>1 DEF CallType
<1>3. /\ call'[c] = [call[c] EXCEPT !.pc = pc] /\ call' \in [Call -> CallType]
      /\ \A d \in Call \ {c} : call'[d] = call[d]
  BY <1>1, <1>2 DEF Goto, Domains
<1>4. /\ DOMAIN held' = Call /\ \A d \in Call \ {c} : held'[d] = held[d]
      /\ \A d \in Call \ {c} : held'[c] \cap held[d] = {}
  BY <1>1 DEF Take, Free, Domains, Inv, Exclusive
<1>5. Request(c)' /\ Unlocked(c)'
  <2>1. /\ call'[c].pc = pc /\ call'[c].kind = call[c].kind /\ call'[c].id = call[c].id
        /\ call'[c].by = call[c].by /\ call'[c].ch = call[c].ch
    BY <1>1, <1>3 DEF CallType
  <2> QED
    BY <1>1, <1>2, <1>3, <2>1 DEF CallInv, Request, Unlocked, At
<1>6. Domains' /\ CallInv(c)' /\ clock' \in Nat /\ aborts' \in Nat
  BY <1>1, <1>3, <1>4, <1>5 DEF Domains, CallInv, Tables
<1> QED
  BY <1>3, <1>4, <1>6, QuietStep

LEMMA InsertStep ==
  ASSUME Inv, NEW c \in Call, SendInsert(c), ~ IsRow(call[c].id)
  PROVE  Inv'
<1> DEFINE m    == call[c].id
           root == call[c].root
           ch   == call[c].ch
           new  == NewRow(c, lastSeq[ch] + 1)
<1>1. Domains /\ Tables /\ CallInv(c) /\ call[c] \in CallType /\ At(c, "files") /\ Insert(c)
  BY DEF Inv, CallInv, Request, SendInsert
<1>2. call[c].kind = "send" /\ m \in Msg /\ ch \in Channel /\ root \in Msg \cup {NoMsg}
      /\ call[c].files \in SUBSET File /\ call[c].start \in Nat
  BY <1>1 DEF CallInv, Request, At, CallType
<1>3. ClientKey(m) \in held[c] /\ (root = NoMsg \/ IsRow(root))
  BY <1>1, <1>2 DEF CallInv, SendOK, Sending, At
<1>4. new \in RowType
  BY <1>1, <1>2 DEF NewRow, RowType, Tables
<1>5. root # NoMsg => Counted(c, root, rows[root].replies + 1) \in RowType
  <2> SUFFICES ASSUME root # NoMsg PROVE Counted(c, root, rows[root].replies + 1) \in RowType
    OBVIOUS
  <2>1. rows[root] \in RowType
    BY <1>1, <1>2, <1>3 DEF Tables, IsRow
  <2>2. rows[root].replies + 1 \in Nat
    BY <2>1 DEF RowType
  <2> QED
    BY <1>2, <2>1, <2>2 DEF Counted, RowType
<1>6. /\ DOMAIN work' = Call /\ \A d \in Call \ {c} : work'[d] = work[d]
      /\ DOMAIN work'[c] = {m} \cup (IF root = NoMsg THEN {} ELSE {root})
      /\ work'[c][m] = new
      /\ root # NoMsg => work'[c][root] = Counted(c, root, rows[root].replies + 1)
  BY <1>1, <1>3 DEF Insert, Domains
<1>7. /\ call'[c].pc = "commit" /\ call'[c].kind = "send" /\ call'[c].id = m /\ call'[c].root = root
      /\ call'[c].ch = ch
  BY <1>1, <1>2 DEF Insert, Goto, Domains, CallType
<1>8. held'[c] = held[c] \cup {StateKey(ch)} /\ rows' = rows /\ lastSeq' = lastSeq
  BY <1>1 DEF Insert, Take, Domains, table
<1>9. new.ch = ch /\ new.seq = lastSeq[ch] + 1 /\ new.root = root
  BY DEF NewRow
<1>10. root # NoMsg => /\ Counted(c, root, rows[root].replies + 1).ch = rows[root].ch
                       /\ Counted(c, root, rows[root].replies + 1).seq = rows[root].seq
                       /\ Counted(c, root, rows[root].replies + 1).root = rows[root].root
  BY <1>1, <1>2, <1>3 DEF Counted, Tables, RowType, IsRow, NoRow
<1> HIDE DEF m, root, ch, new
<1>11. Writes(c)'
  BY <1>2, <1>3, <1>4, <1>5, <1>6, <1>7, <1>8, <1>9, <1>10 DEF Writes, IsRow
<1>12. SendOK(c)'
  BY <1>3, <1>7, <1>8 DEF SendOK, Sending, IsRow, ClientKey, m
<1>13. Numbered(c)'
  BY <1>6, <1>7, <1>8, <1>9 DEF Numbered, StateKey
<1>14. ChangeOK(c)'
  BY <1>7 DEF ChangeOK, At
<1>15. Goto(c, "commit") /\ Take(c, StateKey(call[c].ch)) /\ UNCHANGED <<table, clock, aborts>> /\ call[c].pc = "files"
  BY <1>1 DEF Insert, At
<1> QED
  BY <1>6, <1>11, <1>12, <1>13, <1>14, <1>15, WriteStep

LEMMA ToggledType ==
  ASSUME Inv, NEW c \in Call, call[c].id \in Msg, call[c].by \in User
  PROVE  Toggled(c) \in SUBSET User
BY DEF Inv, Tables, Toggled

LEMMA ChangedRow ==
  ASSUME Inv, NEW c \in Call, call[c].pc \in {"read", "row"}, IsRow(call[c].id)
  PROVE  /\ Changed(c) \in RowType /\ Changed(c).ch = rows[call[c].id].ch
         /\ Changed(c).seq = rows[call[c].id].seq /\ Changed(c).root = rows[call[c].id].root
<1> DEFINE r == rows[call[c].id]
<1>1. /\ call[c] \in CallType /\ call[c].id \in Msg /\ call[c].by \in User /\ call[c].kind \in Kind
      /\ call[c].kind # "send"
  BY DEF Inv, CallInv, Request, At
<1>2. r \in RowType
  BY <1>1 DEF Inv, Tables, IsRow
<1>3. call[c].start \in Nat /\ call[c].body \in Body \cup {0}
  BY <1>1 DEF CallType
<1>4. Toggled(c) \in SUBSET User
  BY <1>1, ToggledType
<1> DEFINE old == [r EXCEPT !.updated = call[c].start]
<1>5. old \in RowType /\ old.ch = r.ch /\ old.seq = r.seq /\ old.root = r.root
  BY <1>2, <1>3 DEF RowType
<1>6. CASE call[c].kind = "edit"
  <2>1. Changed(c) = [old EXCEPT !.body = call[c].body]
    BY <1>6 DEF Changed
  <2> QED
    BY <2>1, <1>3, <1>5 DEF RowType
<1>7. CASE call[c].kind = "delete"
  <2>1. Changed(c) = [old EXCEPT !.deleted = TRUE, !.body = 0, !.reactions = {}]
    BY <1>7 DEF Changed
  <2> QED
    BY <2>1, <1>5 DEF RowType
<1>8. CASE call[c].kind = "react"
  <2>1. Changed(c) = [old EXCEPT !.reactions = Toggled(c)]
    BY <1>8 DEF Changed
  <2> QED
    BY <2>1, <1>4, <1>5 DEF RowType
<1> QED
  BY <1>1, <1>6, <1>7, <1>8

LEMMA ChangeRowStep ==
  ASSUME Inv, NEW c \in Call, ChangeRow(c)
  PROVE  Inv'
<1> DEFINE m == call[c].id
<1>1. Domains /\ Tables /\ CallInv(c) /\ call[c] \in CallType /\ At(c, "row") /\ Change(c)
  BY DEF Inv, CallInv, Request, ChangeRow
<1>2. call[c].kind # "send" /\ m \in Msg /\ IsRow(m)
  BY <1>1 DEF CallInv, Request, ChangeOK, At
<1>3. CASE Return(c) \/ Fail(c, "conflict")
  BY <1>1, <1>3, EndStep DEF Return, Fail, At, Tables
<1>4. CASE /\ Take(c, RowKey(m))
           /\ work' = [work EXCEPT ![c] = [n \in {m} |-> Changed(c)]]
           /\ Goto(c, IF call[c].kind = "delete" /\ rows[m].root # NoMsg THEN "count" ELSE "commit")
           /\ UNCHANGED <<table, clock, aborts>>
  <2> DEFINE pc == IF call[c].kind = "delete" /\ rows[m].root # NoMsg THEN "count" ELSE "commit"
  <2>1. /\ Changed(c) \in RowType /\ Changed(c).ch = rows[m].ch
        /\ Changed(c).seq = rows[m].seq /\ Changed(c).root = rows[m].root
    BY <1>1, <1>2, ChangedRow DEF At
  <2>2. /\ DOMAIN work' = Call /\ \A d \in Call \ {c} : work'[d] = work[d]
        /\ work'[c] = [n \in {m} |-> Changed(c)]
    BY <1>1, <1>4 DEF Domains
  <2>3. call'[c].pc = pc /\ call'[c].kind = call[c].kind /\ call'[c].id = m
    BY <1>1, <1>4 DEF Goto, Domains, CallType
  <2>4. rows' = rows /\ (pc = "count" => rows[m].root # NoMsg) /\ pc \in {"count", "commit"}
    BY <1>4 DEF table
  <2>5. Writes(c)'
    <3> HIDE DEF m, pc
    <3> QED
    BY <1>2, <2>1, <2>2, <2>3, <2>4 DEF Writes, IsRow
  <2>6. SendOK(c)' /\ Numbered(c)' /\ ChangeOK(c)'
    <3> HIDE DEF m, pc
    <3> QED
    BY <1>2, <2>2, <2>3, <2>4 DEF SendOK, Sending, Numbered, ChangeOK, At, IsRow
  <2> QED
    BY <1>1, <1>2, <1>4, <2>2, <2>4, <2>5, <2>6, WriteStep DEF At
<1> QED
  BY <1>1, <1>3, <1>4 DEF Change

LEMMA DeleteCountStep ==
  ASSUME Inv, NEW c \in Call, DeleteCount(c)
  PROVE  Inv'
<1> DEFINE m    == call[c].id
           root == rows[m].root
           n    == rows[root].replies
           less == IF n > 0 THEN n - 1 ELSE 0
<1>1. Domains /\ Tables /\ CallInv(c) /\ call[c] \in CallType /\ At(c, "count")
  BY DEF Inv, CallInv, Request, DeleteCount
<1>2. call[c].kind # "send" /\ m \in Msg /\ IsRow(m) /\ root # NoMsg /\ call[c].start \in Nat
  BY <1>1 DEF CallInv, Request, ChangeOK, At, CallType
<1>3. rows[m] \in RowType /\ root \in Msg /\ IsRow(root) /\ rows[root] \in RowType
  BY <1>1, <1>2 DEF Tables, IsRow, RowType
<1>4. less \in Nat
  BY <1>3 DEF RowType
<1>5. /\ Counted(c, root, less) \in RowType /\ Counted(c, root, less).ch = rows[root].ch
      /\ Counted(c, root, less).seq = rows[root].seq /\ Counted(c, root, less).root = rows[root].root
  <2> HIDE DEF less
  <2> QED
    BY <1>2, <1>3, <1>4 DEF Counted, RowType
<1>6. /\ DOMAIN work' = Call /\ \A d \in Call \ {c} : work'[d] = work[d]
      /\ DOMAIN work'[c] = {m, root}
      /\ work'[c][root] = Counted(c, root, less)
      /\ m # root => work'[c][m] = work[c][m]
  BY <1>1 DEF DeleteCount, Domains
<1>7. m \in DOMAIN work[c] /\ work[c][m] \in RowType /\ work[c][m].ch = rows[m].ch
      /\ work[c][m].seq = rows[m].seq /\ work[c][m].root = rows[m].root
  BY <1>1, <1>2 DEF CallInv, Writes, ChangeOK
<1>8. call'[c].pc = "commit" /\ call'[c].kind = call[c].kind /\ call'[c].id = m /\ rows' = rows
  BY <1>1 DEF DeleteCount, Goto, Domains, CallType, table
<1>9. Goto(c, "commit") /\ Take(c, RowKey(root)) /\ UNCHANGED <<table, clock, aborts>> /\ call[c].pc = "count"
  BY <1>1 DEF DeleteCount, At
<1> HIDE DEF m, root, n, less
<1>10. Writes(c)'
  BY <1>2, <1>3, <1>5, <1>6, <1>7, <1>8 DEF Writes, IsRow
<1>11. SendOK(c)' /\ Numbered(c)' /\ ChangeOK(c)'
  BY <1>2, <1>8 DEF SendOK, Sending, Numbered, ChangeOK, At
<1> QED
  BY <1>6, <1>9, <1>10, <1>11, WriteStep

LEMMA LockSteps ==
  ASSUME Inv, NEW c \in Call,
         RateHit(c) \/ SendLook(c) \/ SendLockRoot(c) \/ SendLockFile(c) \/ SendFilesTaken(c) \/ SendInsert(c)
         \/ ChangeRead(c) \/ Follow(c) \/ Abort(c)
  PROVE  Inv'
<1>1. Domains /\ Tables /\ CallInv(c) /\ call[c] \in CallType
  BY DEF Inv, CallInv, Request
<1>2. ASSUME NEW code \in {"rate_limited", "conflict", "not_found", "invalid_input", "duplicate_key"},
             ~ At(c, "idle"), Fail(c, code)
      PROVE  Inv'
  BY <1>1, <1>2, EndStep DEF Fail, Tables
<1>3. ASSUME ~ At(c, "idle"), Return(c) PROVE Inv'
  BY <1>1, <1>3, EndStep DEF Return, Tables
<1>4. CASE RateHit(c)
  <2> DEFINE pc == IF call[c].kind = "send" THEN "client" ELSE "read"
  <2>1. CASE Take(c, RateKey(c)) /\ Goto(c, pc) /\ UNCHANGED <<work, table, clock, aborts>>
    <3>1. pc \in {"client", "read"} /\ (pc = "client" => call[c].kind = "send")
          /\ (pc = "read" => call[c].kind # "send")
      OBVIOUS
    <3> HIDE DEF pc
    <3>2. call[c].pc = "rate"
      BY <1>4 DEF RateHit, At
    <3> QED
      BY <2>1, <3>1, <3>2, GotoStep
  <2> QED
    BY <1>2, <1>4, <2>1 DEF RateHit, At
<1>5. CASE SendLook(c)
  <2> DEFINE pc == IF call[c].root = NoMsg THEN "files" ELSE "root"
             k  == ClientKey(call[c].id)
  <2>1. call[c].pc = "client" /\ call[c].kind = "send" /\ call[c].root \in Msg \cup {NoMsg}
    BY <1>1, <1>5 DEF SendLook, At, CallInv, Request, CallType
  <2>2. CASE /\ ~ IsRow(call[c].id) /\ (call[c].root = NoMsg \/ IsRow(call[c].root))
             /\ Take(c, k) /\ Goto(c, pc) /\ UNCHANGED <<work, table, clock, aborts>>
    <3>1. k \in held'[c]
      BY <1>1, <2>2 DEF Take, Domains
    <3>2. pc \in {"files", "root"}
      OBVIOUS
    <3> HIDE DEF pc
    <3> QED
      BY <2>1, <2>2, <3>1, <3>2, GotoStep
  <2> QED
    BY <1>2, <1>3, <1>5, <2>1, <2>2 DEF SendLook, Look, At
<1>6. CASE SendLockRoot(c)
  <2>1. call[c].pc = "root" /\ call[c].kind = "send" /\ SendOK(c)
    BY <1>1, <1>6 DEF SendLockRoot, At, CallInv, Request
  <2>2. CASE Take(c, RowKey(call[c].root)) /\ Goto(c, "files") /\ UNCHANGED <<work, table, clock, aborts>>
    <3>1. ClientKey(call[c].id) \in held'[c]
      BY <1>1, <2>1, <2>2 DEF Take, Domains, SendOK, Sending
    <3> QED
      BY <2>1, <2>2, <3>1, GotoStep DEF SendOK, Sending
  <2> QED
    BY <1>2, <1>6, <2>2 DEF SendLockRoot, At
<1>7. CASE SendLockFile(c)
  <2>1. call[c].pc = "files" /\ call[c].kind = "send" /\ SendOK(c) /\ UNCHANGED <<call, work, table, clock, aborts>>
    BY <1>1, <1>7 DEF SendLockFile, At, CallInv, Request
  <2>2. PICK f \in ToLock(c) : Take(c, FileKey(f))
    BY <1>7 DEF SendLockFile
  <2>3. ClientKey(call[c].id) \in held'[c]
    BY <1>1, <2>1, <2>2 DEF Take, Domains, SendOK, Sending
  <2> QED
    BY <2>1, <2>2, <2>3, GotoStep DEF SendOK, Sending
<1>8. CASE SendFilesTaken(c)
  BY <1>2, <1>8 DEF SendFilesTaken, At
<1>9. CASE SendInsert(c)
  <2>1. CASE IsRow(call[c].id)
    BY <1>2, <1>9, <2>1 DEF SendInsert, At
  <2> QED
    BY <1>9, <2>1, InsertStep
<1>10. CASE ChangeRead(c)
  <2>1. call[c].pc = "read" /\ call[c].kind # "send"
    BY <1>1, <1>10 DEF ChangeRead, At, CallInv, Request
  <2>2. CASE IsRow(call[c].id) /\ Goto(c, "row") /\ UNCHANGED <<held, work, table, clock, aborts>>
    BY <2>1, <2>2, GotoStep
  <2> QED
    BY <1>2, <1>3, <1>10, <2>1, <2>2 DEF ChangeRead, At
<1>11. CASE Abort(c)
  BY <1>1, <1>11, EndStep DEF Abort, At, Tables
<1>12. CASE Follow(c)
  <2>1. At(c, "commit") /\ UNCHANGED <<call, work, table, clock, aborts>>
    BY <1>12 DEF Follow
  <2>2. PICK u : Take(c, FollowKey(Thread(c), u))
    BY <1>12 DEF Follow
  <2>3. held'[c] = held[c] \cup {FollowKey(Thread(c), u)} /\ \A d \in Call \ {c} : held'[d] = held[d]
    BY <1>1, <2>2 DEF Take, Domains
  <2>4. \A d \in Call \ {c} : held'[c] \cap held[d] = {}
    BY <2>2, <2>3 DEF Take, Free, Inv, Exclusive
  <2>5. Domains'
    BY <1>1, <2>1, <2>2 DEF Take, Domains
  <2>6. CallInv(c)'
    BY <1>1, <2>1, <2>3 DEF table, CallInv, Request, Unlocked, Writes, SendOK, Sending, Numbered, ChangeOK, At, IsRow,
                            ClientKey, StateKey
  <2>7. clock' \in Nat /\ aborts' \in Nat
    BY <1>1, <2>1 DEF Tables
  <2> QED
    BY <2>1, <2>3, <2>4, <2>5, <2>6, <2>7, QuietStep
<1> QED
  BY <1>4, <1>5, <1>6, <1>7, <1>8, <1>9, <1>10, <1>11, <1>12

-----------------------------------------------------------------------------
(* What a commit publishes.                                                *)

\* A message that is there keeps its place for good, and only a send adds one.
RowsKept(c) ==
  \A n \in Msg : IsRow(n) => /\ IsRow(n)' /\ rows'[n].ch = rows[n].ch /\ rows'[n].seq = rows[n].seq
                             /\ rows'[n].root = rows[n].root

LEMMA CommitRows ==
  ASSUME Inv, NEW c \in Call, Commit(c)
  PROVE  /\ RowsKept(c)
         /\ \A n \in Msg : IsRow(n)' /\ ~ IsRow(n) =>
              /\ call[c].kind = "send" /\ n = call[c].id /\ n \in DOMAIN work[c] /\ rows'[n] = work[c][n]
              /\ work[c][n].root = NoMsg \/ IsRow(work[c][n].root)
         /\ rows' \in [Msg -> RowType \cup {NoRow}]
<1>1. Tables /\ CallInv(c) /\ At(c, "commit") /\ rows' = [n \in Msg |-> IF n \in DOMAIN work[c] THEN work[c][n] ELSE rows[n]]
  BY DEF Inv, Commit
<1>2. ASSUME NEW n \in Msg, IsRow(n)
      PROVE  IsRow(n)' /\ rows'[n].ch = rows[n].ch /\ rows'[n].seq = rows[n].seq /\ rows'[n].root = rows[n].root
  <2>1. CASE n \in DOMAIN work[c]
    <3>1. ~ (call[c].kind = "send" /\ n = call[c].id)
      BY <1>1, <1>2 DEF CallInv, SendOK, Sending, At
    <3>2. work[c][n] \in RowType /\ work[c][n].ch = rows[n].ch /\ work[c][n].seq = rows[n].seq
          /\ work[c][n].root = rows[n].root
      BY <1>1, <2>1, <3>1 DEF CallInv, Writes
    <3>3. rows'[n] = work[c][n]
      BY <1>1, <2>1
    <3> QED
      BY <3>2, <3>3, RowTypeFacts DEF IsRow
  <2>2. CASE n \notin DOMAIN work[c]
    BY <1>1, <1>2, <2>2 DEF IsRow
  <2> QED
    BY <2>1, <2>2
<1>3. ASSUME NEW n \in Msg, IsRow(n)', ~ IsRow(n)
      PROVE  /\ call[c].kind = "send" /\ n = call[c].id /\ n \in DOMAIN work[c] /\ rows'[n] = work[c][n]
             /\ work[c][n].root = NoMsg \/ IsRow(work[c][n].root)
  <2>1. n \in DOMAIN work[c] /\ rows'[n] = work[c][n]
    BY <1>1, <1>3 DEF IsRow
  <2> QED
    BY <1>1, <1>3, <2>1 DEF CallInv, Writes
<1>4. rows' \in [Msg -> RowType \cup {NoRow}]
  BY <1>1 DEF Tables, CallInv, Writes
<1> QED
  BY <1>2, <1>3, <1>4 DEF RowsKept

LEMMA CommitStep ==
  ASSUME Inv, NEW c \in Call, Commit(c)
  PROVE  Inv'
<1> DEFINE m == call[c].id
           v == [call[c] EXCEPT !.pc = "done", !.answer = "ok"]
           w == [n \in {} |-> NoRow]
<1>1. Domains /\ Tables /\ Exclusive /\ CallInv(c) /\ call[c] \in CallType /\ At(c, "commit") /\ End(c, "ok")
  BY DEF Inv, CallInv, Request, Commit
<1>2. m \in Msg /\ call[c].by \in User /\ (call[c].kind = "send" => call[c].ch \in Channel)
  BY <1>1 DEF CallInv, Request, At
<1>3. /\ RowsKept(c)
      /\ \A n \in Msg : IsRow(n)' /\ ~ IsRow(n) =>
           /\ call[c].kind = "send" /\ n = call[c].id /\ n \in DOMAIN work[c] /\ rows'[n] = work[c][n]
           /\ work[c][n].root = NoMsg \/ IsRow(work[c][n].root)
      /\ rows' \in [Msg -> RowType \cup {NoRow}]
  BY CommitRows
<1>4. v \in CallType
  BY <1>1 DEF CallType
<1>5. /\ call' = [call EXCEPT ![c] = v] /\ held' = [held EXCEPT ![c] = {}] /\ work' = [work EXCEPT ![c] = w]
  BY <1>1 DEF End
<1>6. /\ call'[c] = v /\ held'[c] = {} /\ work'[c] = w /\ Domains'
      /\ \A d \in Call \ {c} : call'[d] = call[d] /\ held'[d] = held[d] /\ work'[d] = work[d]
  BY <1>1, <1>4, <1>5 DEF Domains
<1>7. Exclusive'
  BY <1>1, <1>6 DEF Exclusive
<1>8. lastSeq' \in [Channel -> Nat]
  <2>1. CASE call[c].kind = "send"
    <3>1. work[c][m].seq \in Nat
      BY <1>1, <2>1 DEF CallInv, Numbered, Writes, RowType
    <3> QED
      BY <1>1, <2>1, <3>1 DEF Commit, Tables
  <2>2. CASE call[c].kind # "send"
    BY <1>1, <2>2 DEF Commit, Tables
  <2> QED
    BY <2>1, <2>2
<1>9. reactors' \in [Msg -> SUBSET User]
  <2>1. Toggled(c) \in SUBSET User
    BY <1>2, ToggledType
  <2> QED
    BY <1>1, <1>2, <2>1 DEF Commit, Tables
<1>10. claimed' \in [File -> Msg \cup {NoMsg}]
  BY <1>1, <1>2 DEF Commit, Tables
<1>11. ASSUME NEW n \in Msg, IsRow(n)', rows'[n].root # NoMsg PROVE rows'[rows'[n].root] # NoRow
  <2>1. rows'[n].root \in Msg
    BY <1>3, <1>11 DEF IsRow, RowType
  <2>2. IsRow(rows'[n].root)
    <3>1. CASE IsRow(n)
      BY <1>1, <1>3, <1>11, <3>1 DEF Tables, RowsKept
    <3>2. CASE ~ IsRow(n)
      BY <1>3, <1>11, <3>2
    <3> QED
      BY <3>1, <3>2
  <2> QED
    BY <1>3, <2>1, <2>2 DEF RowsKept, IsRow
<1>12. Tables'
  <2>1. clock' \in Nat /\ aborts' \in Nat
    BY <1>1 DEF Commit, Tables
  <2>2. follows' \in [Msg -> SUBSET User]
    BY <1>1 DEF Commit, Tables
  <2> QED
    BY <1>3, <1>8, <1>9, <1>10, <1>11, <2>1, <2>2 DEF Tables, IsRow
<1>13. CallInv(c)'
  <2>1. v.pc = "done" /\ v.kind = call[c].kind /\ v.id = call[c].id /\ v.by = call[c].by /\ v.ch = call[c].ch
    BY <1>1 DEF CallType
  <2>2. DOMAIN w = {}
    OBVIOUS
  <2> HIDE DEF v, w
  <2>3. Request(c)'
    BY <1>1, <1>4, <1>6, <2>1 DEF CallInv, Request, At
  <2> QED
    BY <1>6, <2>1, <2>2, <2>3 DEF CallInv, Unlocked, Writes, SendOK, Sending, Numbered, ChangeOK, At
<1>14. ASSUME NEW d \in Call, d # c PROVE CallInv(d)'
  <2>1. CallInv(d) /\ call'[d] = call[d] /\ held'[d] = held[d] /\ work'[d] = work[d] /\ held[c] \cap held[d] = {}
    BY <1>1, <1>6, <1>14 DEF Inv, Exclusive
  <2>2. Request(d)' /\ Unlocked(d)'
    BY <2>1 DEF CallInv, Request, Unlocked, At
  <2>3. Writes(d)'
    <3>1. ASSUME NEW n \in DOMAIN work[d] PROVE n \in Msg /\ work[d][n].root \in Msg \cup {NoMsg}
      BY <2>1, <3>1, RowTypeFacts DEF CallInv, Writes
    <3> QED
      BY <1>3, <2>1, <3>1 DEF CallInv, Writes, RowsKept, IsRow
  <2>4. SendOK(d)'
    <3> SUFFICES ASSUME Sending(d)
                 PROVE  /\ ClientKey(call[d].id) \in held[d] /\ rows'[call[d].id] = NoRow
                        /\ call[d].root = NoMsg \/ rows'[call[d].root] # NoRow
      BY <2>1 DEF SendOK, Sending, ClientKey, IsRow
    <3>1. /\ ClientKey(call[d].id) \in held[d] /\ ~ IsRow(call[d].id)
          /\ call[d].root = NoMsg \/ IsRow(call[d].root)
      BY <2>1 DEF CallInv, SendOK
    <3>2. call[d].id \in Msg /\ call[d].root \in Msg \cup {NoMsg}
      BY <2>1 DEF CallInv, Request, Sending, At, CallType
    <3>3. rows'[call[d].id] = NoRow
      <4> SUFFICES ASSUME rows'[call[d].id] # NoRow PROVE FALSE
        OBVIOUS
      <4>1. call[c].kind = "send" /\ call[d].id = call[c].id
        BY <1>3, <3>1, <3>2 DEF IsRow
      <4>2. ClientKey(call[c].id) \in held[c]
        BY <1>1, <4>1 DEF CallInv, SendOK, Sending, At
      <4> QED
        BY <2>1, <3>1, <4>1, <4>2
    <3> QED
      BY <1>3, <3>1, <3>2, <3>3 DEF RowsKept, IsRow
  <2>5. Numbered(d)'
    <3> SUFFICES ASSUME At(d, "commit"), call[d].kind = "send"
                 PROVE  /\ StateKey(call[d].ch) \in held[d]
                        /\ call[d].id \in DOMAIN work[d]
                        /\ work[d][call[d].id].ch = call[d].ch
                        /\ work[d][call[d].id].seq = lastSeq'[call[d].ch] + 1
      BY <2>1 DEF Numbered, At, StateKey
    <3>1. /\ StateKey(call[d].ch) \in held[d]
          /\ call[d].id \in DOMAIN work[d]
          /\ work[d][call[d].id].ch = call[d].ch
          /\ work[d][call[d].id].seq = lastSeq[call[d].ch] + 1
      BY <2>1 DEF CallInv, Numbered
    <3>2. call[c].kind = "send" => StateKey(call[c].ch) \in held[c]
      BY <1>1 DEF CallInv, Numbered
    <3>3. call[c].kind = "send" => call[c].ch # call[d].ch
      BY <2>1, <3>1, <3>2
    <3>4. lastSeq'[call[d].ch] = lastSeq[call[d].ch]
      BY <1>1, <3>3 DEF Commit, Tables
    <3> QED
      BY <3>1, <3>4
  <2>6. ChangeOK(d)'
    <3>1. call[d].pc \in {"row", "count"} => call[d].id \in Msg
      BY <2>1 DEF CallInv, Request, At
    <3> QED
      BY <1>3, <2>1, <3>1 DEF CallInv, ChangeOK, RowsKept, IsRow, At
  <2> QED
    BY <2>2, <2>3, <2>4, <2>5, <2>6 DEF CallInv
<1> QED
  BY <1>6, <1>7, <1>12, <1>13, <1>14 DEF Inv

LEMMA NextInv ==
  ASSUME Inv, [Next]_vars
  PROVE  Inv'
<1>1. CASE UNCHANGED vars
  BY <1>1 DEF Inv, Domains, Tables, Exclusive, CallInv, Request, Unlocked, Writes, SendOK, Sending, Numbered, ChangeOK,
              At, IsRow, vars, table
<1>2. ASSUME NEW c \in Call, Start(c) PROVE Inv'
  BY <1>2, StartStep
<1>3. ASSUME NEW c \in Call, Step(c) PROVE Inv'
  BY <1>3, LockSteps, ChangeRowStep, DeleteCountStep, CommitStep DEF Step
<1> QED
  BY <1>1, <1>2, <1>3 DEF Next

THEOREM Invariance == Spec => []Inv
<1>1. Init => Inv
  BY InitInv
<1>2. Inv /\ [Next]_vars => Inv'
  BY NextInv
<1> QED
  BY <1>1, <1>2, PTL DEF Spec

\* The transactions never leave the types of the tables, and a transaction that is over
\* holds no lock.
THEOREM TypeCorrect == Spec => []TypeOK
<1>1. Inv => TypeOK
  <2> SUFFICES ASSUME Inv PROVE TypeOK
    OBVIOUS
  <2>1. call \in [Call -> CallType] /\ DOMAIN held = Call /\ DOMAIN work = Call
    BY DEF Inv, Domains
  <2>2. \A c \in Call : DOMAIN work[c] \subseteq Msg /\ \A m \in DOMAIN work[c] : work[c][m] \in RowType
    BY DEF Inv, CallInv, Writes
  <2>3. \A c \in Call : At(c, "idle") \/ At(c, "done") => held[c] = {}
    BY DEF Inv, CallInv, Unlocked, At
  <2> QED
    BY <2>1, <2>2, <2>3 DEF Inv, Tables, TypeOK
<1> QED
  BY <1>1, Invariance, PTL

-----------------------------------------------------------------------------
(* The log of a conversation.                                              *)

\* Only a commit writes the tables.
LEMMA StepQuiet ==
  ASSUME NEW c \in Call, Step(c), ~ Commit(c)
  PROVE  UNCHANGED table
<1>1. CASE RateHit(c) \/ SendLook(c) \/ SendLockRoot(c)
  BY <1>1 DEF RateHit, SendLook, Look, SendLockRoot, Fail, Return
<1>2. CASE SendLockFile(c) \/ SendFilesTaken(c) \/ SendInsert(c)
  BY <1>2 DEF SendLockFile, SendFilesTaken, SendInsert, Insert, Fail
<1>3. CASE ChangeRead(c) \/ ChangeRow(c) \/ DeleteCount(c)
  BY <1>3 DEF ChangeRead, ChangeRow, Change, DeleteCount, Fail, Return
<1>4. CASE Follow(c) \/ Abort(c)
  BY <1>4 DEF Follow, Abort
<1> QED
  BY <1>1, <1>2, <1>3, <1>4 DEF Step

LEMMA StartQuiet ==
  ASSUME NEW c \in Call, Start(c)
  PROVE  UNCHANGED table
<1>1. ASSUME NEW r, Begin(c, r) PROVE UNCHANGED table
  BY <1>1 DEF Begin
<1>2. ASSUME NEW m, NEW ch, NEW root, NEW files, NEW mentions, BeginSend(c, m, ch, root, files, mentions)
      PROVE  UNCHANGED table
  BY <1>1, <1>2 DEF BeginSend
<1>3. ASSUME NEW m, NEW body, NEW mentions, BeginEdit(c, m, body, mentions) PROVE UNCHANGED table
  BY <1>1, <1>3 DEF BeginEdit
<1>4. ASSUME NEW m, BeginDelete(c, m) PROVE UNCHANGED table
  BY <1>1, <1>4 DEF BeginDelete
<1>5. ASSUME NEW u, NEW m, NEW on, BeginReact(c, u, m, on) PROVE UNCHANGED table
  BY <1>1, <1>5 DEF BeginReact
<1> QED
  BY <1>2, <1>3, <1>4, <1>5 DEF Start

LEMMA QuietSteps ==
  ASSUME [Next]_vars, ~ \E c \in Call : Commit(c)
  PROVE  UNCHANGED table
BY StartQuiet, StepQuiet DEF Next, vars

\* A commit that is no send moves nothing; the commit of a send puts its message on the
\* next place of its conversation.
LEMMA CommitPlaces ==
  ASSUME Inv, NEW c \in Call, Commit(c)
  PROVE  /\ RowsKept(c)
         /\ call[c].kind # "send" => lastSeq' = lastSeq /\ \A n \in Msg : IsRow(n)' => IsRow(n)
         /\ call[c].kind = "send" =>
              /\ call[c].id \in Msg /\ call[c].ch \in Channel /\ ~ IsRow(call[c].id) /\ rows'[call[c].id] # NoRow
              /\ \A n \in Msg : IsRow(n)' => IsRow(n) \/ n = call[c].id
              /\ rows'[call[c].id].ch = call[c].ch /\ rows'[call[c].id].seq = lastSeq[call[c].ch] + 1
              /\ lastSeq' = [lastSeq EXCEPT ![call[c].ch] = lastSeq[call[c].ch] + 1]
<1>1. /\ RowsKept(c)
      /\ \A n \in Msg : IsRow(n)' /\ ~ IsRow(n) => call[c].kind = "send" /\ n = call[c].id
  BY CommitRows
<1>2. CASE call[c].kind # "send"
  BY <1>1, <1>2 DEF Commit
<1>3. CASE call[c].kind = "send"
  <2> DEFINE m == call[c].id  ch == call[c].ch
  <2>1. CallInv(c) /\ At(c, "commit")
    BY DEF Inv, Commit
  <2>2. m \in Msg /\ ch \in Channel /\ ~ IsRow(m)
    BY <1>3, <2>1 DEF CallInv, Request, SendOK, Sending, At
  <2>3. m \in DOMAIN work[c] /\ work[c][m].ch = ch /\ work[c][m].seq = lastSeq[ch] + 1 /\ work[c][m] \in RowType
    BY <1>3, <2>1 DEF CallInv, Numbered, Writes
  <2>4. rows'[m] = work[c][m]
    BY <2>2, <2>3 DEF Commit
  <2>5. lastSeq' = [lastSeq EXCEPT ![ch] = lastSeq[ch] + 1]
    BY <1>3, <2>3 DEF Commit
  <2> QED
    BY <1>1, <1>3, <2>2, <2>3, <2>4, <2>5, RowTypeFacts
<1> QED
  BY <1>2, <1>3

LEMMA GaplessCommit ==
  ASSUME Inv, Gapless, NEW c \in Call, Commit(c)
  PROVE  Gapless'
<1> DEFINE m == call[c].id  ch == call[c].ch
<1>1. Tables /\ Tables'
  BY CommitStep DEF Inv
<1>2. \A n \in Msg : IsRow(n) => rows[n] \in RowType /\ rows[n].ch \in Channel /\ rows[n].seq \in Nat \ {0}
  BY <1>1, RowTypeFacts DEF Tables, IsRow
<1>3. CASE call[c].kind # "send"
  BY <1>2, <1>3, CommitPlaces DEF RowsKept, Gapless, IsRow
<1>4. CASE call[c].kind = "send"
  <2>1. /\ m \in Msg /\ ch \in Channel /\ ~ IsRow(m) /\ rows'[m] # NoRow
        /\ \A n \in Msg : IsRow(n)' => IsRow(n) \/ n = m
        /\ \A n \in Msg : IsRow(n) => IsRow(n)' /\ rows'[n].ch = rows[n].ch /\ rows'[n].seq = rows[n].seq
        /\ rows'[m].ch = ch /\ rows'[m].seq = lastSeq[ch] + 1
    BY <1>4, CommitPlaces DEF RowsKept, IsRow
  <2>2. /\ lastSeq[ch] \in Nat /\ lastSeq'[ch] = lastSeq[ch] + 1
        /\ \A x \in Channel : lastSeq[x] \in Nat /\ (x # ch => lastSeq'[x] = lastSeq[x])
    BY <1>1, <1>4, <2>1, CommitPlaces DEF Tables
  <2> HIDE DEF m, ch
  <2>3. ASSUME NEW n \in Msg, IsRow(n)' PROVE rows'[n].seq \in 1 .. lastSeq'[rows'[n].ch]
    <3>1. CASE n = m
      BY <2>1, <2>2, <3>1
    <3>2. CASE n # m
      <4>1. IsRow(n) /\ rows[n].ch \in Channel /\ rows[n].seq \in 1 .. lastSeq[rows[n].ch]
        BY <1>2, <2>1, <2>3, <3>2 DEF Gapless
      <4> QED
        BY <2>1, <2>2, <4>1
    <3> QED
      BY <3>1, <3>2
  <2>4. ASSUME NEW n \in Msg, NEW k \in Msg, IsRow(n)', IsRow(k)', rows'[n].ch = rows'[k].ch, rows'[n].seq = rows'[k].seq
        PROVE  n = k
    <3>1. ASSUME NEW x \in Msg, IsRow(x), rows[x].ch = ch PROVE rows[x].seq # lastSeq[ch] + 1
      BY <2>2, <3>1 DEF Gapless
    <3>2. CASE n = m /\ k # m
      BY <2>1, <2>4, <3>1, <3>2
    <3>3. CASE n # m /\ k = m
      BY <2>1, <2>4, <3>1, <3>3
    <3>4. CASE n # m /\ k # m
      BY <2>1, <2>4, <3>4 DEF Gapless
    <3> QED
      BY <3>2, <3>3, <3>4
  <2>5. ASSUME NEW x \in Channel, NEW i \in 1 .. lastSeq'[x]
        PROVE  \E n \in Msg : IsRow(n)' /\ rows'[n].ch = x /\ rows'[n].seq = i
    <3>1. CASE x = ch /\ i = lastSeq[ch] + 1
      BY <2>1, <3>1 DEF IsRow
    <3>2. CASE ~ (x = ch /\ i = lastSeq[ch] + 1)
      <4>1. i \in 1 .. lastSeq[x]
        BY <2>2, <2>5, <3>2
      <4> QED
        BY <2>1, <4>1 DEF Gapless
    <3> QED
      BY <3>1, <3>2
  <2> QED
    BY <2>3, <2>4, <2>5 DEF Gapless, IsRow
<1> QED
  BY <1>3, <1>4

\* The messages of a channel keep the numbers 1 to last_seq without a gap or a double,
\* however many sends, rollbacks and replays there are.
THEOREM GaplessAlways == Spec => []Gapless
<1>1. Init => Gapless
  BY DEF Init, Gapless, IsRow
<1>2. Inv /\ Gapless /\ [Next]_vars => Gapless'
  <2> SUFFICES ASSUME Inv, Gapless, [Next]_vars PROVE Gapless'
    OBVIOUS
  <2>1. CASE \E c \in Call : Commit(c)
    BY <2>1, GaplessCommit
  <2>2. CASE ~ \E c \in Call : Commit(c)
    BY <2>2, QuietSteps DEF table, Gapless, IsRow
  <2> QED
    BY <2>1, <2>2
<1> QED
  BY <1>1, <1>2, Invariance, PTL DEF Spec

-----------------------------------------------------------------------------
(* The transactions implement the append-only log.                         *)

\* The message with number i is the i-th of the log.
LEMMA LogPlace ==
  ASSUME Gapless, NEW n \in Msg, IsRow(n)
  PROVE  LogOf(rows[n].ch)[rows[n].seq] = n
<1>1. rows[n].seq \in 1 .. lastSeq[rows[n].ch]
  BY DEF Gapless
<1>2. \A k \in Msg : IsRow(k) /\ rows[k].ch = rows[n].ch /\ rows[k].seq = rows[n].seq => k = n
  BY DEF Gapless
<1> QED
  BY <1>1, <1>2 DEF LogOf

LEMMA LogMembers ==
  ASSUME Gapless, NEW ch \in Channel, lastSeq[ch] \in Nat
  PROVE  /\ LogOf(ch) \in Seq(Msg) /\ Len(LogOf(ch)) = lastSeq[ch]
         /\ \A i \in 1 .. lastSeq[ch] : IsRow(LogOf(ch)[i]) /\ rows[LogOf(ch)[i]].ch = ch /\ rows[LogOf(ch)[i]].seq = i
<1>1. ASSUME NEW i \in 1 .. lastSeq[ch]
      PROVE  /\ LogOf(ch)[i] \in Msg /\ IsRow(LogOf(ch)[i]) /\ rows[LogOf(ch)[i]].ch = ch
             /\ rows[LogOf(ch)[i]].seq = i
  <2>1. \E m \in Msg : IsRow(m) /\ rows[m].ch = ch /\ rows[m].seq = i
    BY DEF Gapless
  <2>2. LogOf(ch)[i] = CHOOSE m \in Msg : IsRow(m) /\ rows[m].ch = ch /\ rows[m].seq = i
    BY DEF LogOf
  <2> QED
    BY <2>1, <2>2
<1>2. LogOf(ch) \in [1 .. lastSeq[ch] -> Msg]
  BY <1>1 DEF LogOf
<1> QED
  BY <1>1, <1>2

\* The commit of a send appends its message to the log of its conversation, and every
\* other log stays as it was.
LEMMA CommitLogs ==
  ASSUME Inv, Gapless, Gapless', NEW c \in Call, Commit(c)
  PROVE  \A x \in Channel :
           LogOf(x)' = IF call[c].kind = "send" /\ x = call[c].ch THEN Append(LogOf(x), call[c].id) ELSE LogOf(x)
<1> SUFFICES ASSUME NEW x \in Channel
             PROVE  LogOf(x)' = IF call[c].kind = "send" /\ x = call[c].ch THEN Append(LogOf(x), call[c].id) ELSE LogOf(x)
  OBVIOUS
<1>1. lastSeq[x] \in Nat /\ lastSeq \in [Channel -> Nat]
  BY DEF Inv, Tables
<1>2. /\ LogOf(x) \in Seq(Msg) /\ Len(LogOf(x)) = lastSeq[x]
      /\ \A i \in 1 .. lastSeq[x] : IsRow(LogOf(x)[i]) /\ rows[LogOf(x)[i]].ch = x /\ rows[LogOf(x)[i]].seq = i
  BY <1>1, LogMembers
<1>3. ASSUME NEW n \in Msg, rows'[n] # NoRow, rows'[n].ch = x PROVE LogOf(x)'[rows'[n].seq] = n
  <2>1. rows'[n].seq \in 1 .. lastSeq'[x]
    BY <1>3 DEF Gapless, IsRow
  <2>2. \A k \in Msg : rows'[k] # NoRow /\ rows'[k].ch = x /\ rows'[k].seq = rows'[n].seq => k = n
    BY <1>3 DEF Gapless, IsRow
  <2> QED
    BY <1>3, <2>1, <2>2 DEF LogOf, IsRow
<1>4. ASSUME NEW i \in 1 .. lastSeq[x] PROVE LogOf(x)'[i] = LogOf(x)[i]
  <2>1. LogOf(x)[i] \in Msg /\ IsRow(LogOf(x)[i]) /\ rows[LogOf(x)[i]].ch = x /\ rows[LogOf(x)[i]].seq = i
    BY <1>2
  <2>2. rows'[LogOf(x)[i]] # NoRow /\ rows'[LogOf(x)[i]].ch = x /\ rows'[LogOf(x)[i]].seq = i
    BY <2>1, CommitPlaces DEF RowsKept, IsRow
  <2> QED
    BY <1>3, <2>1, <2>2
<1>5. DOMAIN LogOf(x)' = 1 .. lastSeq'[x] /\ LogOf(x)' = [i \in 1 .. lastSeq'[x] |-> LogOf(x)'[i]]
  BY DEF LogOf
<1>6. LogOf(x) = [i \in 1 .. lastSeq[x] |-> LogOf(x)[i]]
  BY DEF LogOf
<1>7. CASE ~ (call[c].kind = "send" /\ x = call[c].ch)
  <2>1. lastSeq'[x] = lastSeq[x]
    BY <1>1, <1>7, CommitPlaces
  <2> QED
    BY <1>4, <1>5, <1>6, <1>7, <2>1
<1>8. CASE call[c].kind = "send" /\ x = call[c].ch
  <2> DEFINE m == call[c].id  longer == Append(LogOf(x), m)
  <2>1. m \in Msg /\ rows'[m] # NoRow /\ rows'[m].ch = x /\ rows'[m].seq = lastSeq[x] + 1 /\ lastSeq'[x] = lastSeq[x] + 1
    BY <1>1, <1>8, CommitPlaces
  <2>2. LogOf(x)'[lastSeq[x] + 1] = m
    BY <1>3, <2>1
  <2>3. longer \in Seq(Msg) /\ Len(longer) = lastSeq[x] + 1 /\ longer[lastSeq[x] + 1] = m
        /\ \A i \in 1 .. lastSeq[x] : longer[i] = LogOf(x)[i]
    BY <1>1, <1>2, <2>1
  <2>4. longer = [i \in 1 .. lastSeq[x] + 1 |-> longer[i]]
    BY <2>3
  <2>5. ASSUME NEW i \in 1 .. lastSeq[x] + 1 PROVE LogOf(x)'[i] = longer[i]
    BY <1>1, <1>4, <2>2, <2>3
  <2> HIDE DEF longer
  <2>6. LogOf(x)' = longer
    BY <1>5, <2>1, <2>4, <2>5
  <2> QED
    BY <1>8, <2>6 DEF longer
<1> QED
  BY <1>7, <1>8

\* What a reader can see of a channel only grows at its end, and a replay adds nothing:
\* the transactions implement ChannelLog, whatever order they start and commit in.
THEOREM Refinement == Spec => LogSpec
<1>1. Init => Log!Init
  <2> SUFFICES ASSUME Init PROVE Log!Init
    OBVIOUS
  <2>1. ASSUME NEW ch \in Channel PROVE LogOf(ch) = <<>>
    BY DEF Init, LogOf
  <2> QED
    BY <2>1 DEF Log!Init
<1>2. Inv /\ Gapless /\ Gapless' /\ [Next]_vars => [Log!Next]_([ch \in Channel |-> LogOf(ch)])
  <2> SUFFICES ASSUME Inv, Gapless, Gapless', [Next]_vars
               PROVE  Log!Next \/ [ch \in Channel |-> LogOf(ch)]' = [ch \in Channel |-> LogOf(ch)]
    OBVIOUS
  <2>1. CASE ~ \E c \in Call : Commit(c)
    BY <2>1, QuietSteps DEF table, LogOf, IsRow
  <2>2. ASSUME NEW c \in Call, Commit(c), call[c].kind # "send"
        PROVE  [ch \in Channel |-> LogOf(ch)]' = [ch \in Channel |-> LogOf(ch)]
    BY <2>2, CommitLogs
  <2>3. ASSUME NEW c \in Call, Commit(c), call[c].kind = "send" PROVE Log!Next
    <3> DEFINE m == call[c].id
    <3>1. m \in Msg /\ call[c].ch \in Channel /\ ~ IsRow(m)
      BY <2>3, CommitPlaces
    <3>2. \A x \in Channel : LogOf(x)' = IF x = call[c].ch THEN Append(LogOf(x), m) ELSE LogOf(x)
      BY <2>3, CommitLogs
    <3>3. ASSUME NEW x \in Channel PROVE m \notin Range(LogOf(x))
      <4>1. lastSeq[x] \in Nat
        BY DEF Inv, Tables
      <4>2. \A i \in 1 .. lastSeq[x] : IsRow(LogOf(x)[i])
        BY <4>1, LogMembers
      <4>3. DOMAIN LogOf(x) = 1 .. lastSeq[x]
        BY DEF LogOf
      <4> QED
        BY <3>1, <4>2, <4>3 DEF Range
    <3> HIDE DEF m
    <3>4. [ch \in Channel |-> LogOf(ch)]' = [[ch \in Channel |-> LogOf(ch)] EXCEPT ![call[c].ch] = Append(@, m)]
      BY <3>1, <3>2
    <3>5. ~ Log!Posted(m)
      BY <3>3 DEF Log!Posted, Log!Range, Range
    <3> QED
      BY <3>1, <3>4, <3>5 DEF Log!Next, Log!Post
  <2> QED
    BY <2>1, <2>2, <2>3
<1> QED
  BY <1>1, <1>2, Invariance, GaplessAlways, PTL DEF Spec, LogSpec, Log!Spec

-----------------------------------------------------------------------------
(***************************************************************************)
(* What the row locks of MessageServer are for: deletion is final, the     *)
(* reactions shown are those of the table, a file has one message, the     *)
(* counter under a root counts its replies, a replay is answered, and no   *)
(* transactions wait for one another in a circle.                          *)
(*                                                                         *)
(* The inductive invariant ties what a transaction has written and not     *)
(* committed (work) to the tables as they are NOW, not as they were when   *)
(* it read them: every row it is about to overwrite is locked by it, so    *)
(* the version it made is still the committed one with its own change.     *)
(***************************************************************************)

USE MessageServerAssumption

Written == {m \in Msg : IsRow(m)}

\* What the tables look like between two commits.
Shape ==
  /\ \A m \in Msg : IsRow(m) /\ rows[m].root # NoMsg => rows[m].root # m /\ rows[rows[m].root].root = NoMsg
  /\ \A m \in Msg : IsRow(m) /\ rows[m].deleted => rows[m].body = 0 /\ rows[m].reactions = {}
  /\ \A m \in Msg : ~ IsRow(m) => reactors[m] = {} /\ \A f \in File : claimed[f] # m
  /\ IsFiniteSet(Written)

\* A row lock is on a row, and what c overwrites is locked by c.
Locked(c) ==
  /\ \A m \in Msg : RowKey(m) \in held[c] => IsRow(m)
  /\ \A m \in DOMAIN work[c] : RowKey(m) \in held[c] \/ (call[c].kind = "send" /\ m = call[c].id)

\* A send replies to a first message, which is not itself.
Rooted(c) ==
  call[c].kind = "send" /\ call[c].root # NoMsg =>
    /\ call[c].root # call[c].id
    /\ Sending(c) => rows[call[c].root].root = NoMsg
    /\ call[c].pc \in {"files", "commit"} => RowKey(call[c].root) \in held[c] /\ ~ rows[call[c].root].deleted

Posted(c) == work[c][call[c].id]

\* What a send is about to commit.
SendWork(c) ==
  At(c, "commit") /\ call[c].kind = "send" =>
    /\ DOMAIN work[c] = {call[c].id} \cup ({call[c].root} \ {NoMsg})
    /\ Posted(c) = NewRow(c, Posted(c).seq)
    /\ call[c].root # NoMsg =>
         work[c][call[c].root] = Counted(c, call[c].root, rows[call[c].root].replies + 1)
    /\ \A f \in call[c].files : FileKey(f) \in held[c] /\ claimed[f] = NoMsg

\* A reply that is being deleted takes one from the counter of its root.
Counts(c) == call[c].kind = "delete" /\ rows[call[c].id].root # NoMsg

\* What a change is about to commit.
ChangeWork(c) ==
  call[c].pc \in {"count", "commit"} /\ call[c].kind # "send" =>
    LET m == call[c].id  root == rows[m].root IN
    /\ m \in DOMAIN work[c] /\ RowKey(m) \in held[c] /\ ~ rows[m].deleted
    /\ work[c][m] = Changed(c)
    /\ At(c, "count") => Counts(c) /\ DOMAIN work[c] = {m}
    /\ At(c, "commit") /\ ~ Counts(c) => DOMAIN work[c] = {m}
    /\ At(c, "commit") /\ Counts(c) =>
         /\ DOMAIN work[c] = {m, root}
         /\ work[c][root] = Counted(c, root, IF rows[root].replies > 0 THEN rows[root].replies - 1 ELSE 0)

Own(c) == Locked(c) /\ Rooted(c) /\ SendWork(c) /\ ChangeWork(c) /\ call[c].answer # "duplicate_key"

RowsInv == Inv /\ Shape /\ \A c \in Call : Own(c)

-----------------------------------------------------------------------------
(* What the pieces of an action do to a call, its locks and its work.      *)

LEMMA GotoFacts ==
  ASSUME Inv, NEW c \in Call, NEW pc, Goto(c, pc)
  PROVE  /\ call'[c].pc = pc /\ call'[c].kind = call[c].kind /\ call'[c].id = call[c].id /\ call'[c].by = call[c].by
         /\ call'[c].ch = call[c].ch /\ call'[c].root = call[c].root /\ call'[c].files = call[c].files
         /\ call'[c].body = call[c].body /\ call'[c].on = call[c].on /\ call'[c].start = call[c].start
         /\ call'[c].answer = call[c].answer
         /\ \A d \in Call \ {c} : call'[d] = call[d]
<1>1. call[c] \in CallType /\ call'[c] = [call[c] EXCEPT !.pc = pc] /\ \A d \in Call \ {c} : call'[d] = call[d]
  BY DEF Inv, Domains, CallInv, Request, Goto
<1> QED
  BY <1>1 DEF CallType

LEMMA EndFacts ==
  ASSUME Inv, NEW c \in Call, NEW answer, End(c, answer)
  PROVE  /\ call'[c].pc = "done" /\ call'[c].answer = answer
         /\ call'[c].kind = call[c].kind /\ call'[c].id = call[c].id /\ call'[c].root = call[c].root
         /\ call'[c].ch = call[c].ch
         /\ held'[c] = {} /\ DOMAIN work'[c] = {}
         /\ \A d \in Call \ {c} : call'[d] = call[d] /\ held'[d] = held[d] /\ work'[d] = work[d]
<1>1. call[c] \in CallType /\ DOMAIN call = Call /\ DOMAIN held = Call /\ DOMAIN work = Call
  BY DEF Inv, Domains, CallInv, Request
<1>2. call'[c] = [[call[c] EXCEPT !.pc = "done"] EXCEPT !.answer = answer]
  BY <1>1 DEF End
<1> QED
  BY <1>1, <1>2 DEF CallType, End

LEMMA TakeFacts ==
  ASSUME Inv, NEW c \in Call, NEW k, Take(c, k)
  PROVE  held'[c] = held[c] \cup {k} /\ \A d \in Call \ {c} : held'[d] = held[d]
BY DEF Inv, Domains, Take

LEMMA KeysDiffer ==
  /\ \A m, n \in Msg : RowKey(m) = RowKey(n) => m = n
  /\ \A m, n : RowKey(m) # ClientKey(n) /\ RowKey(m) # FileKey(n) /\ RowKey(m) # StateKey(n)
  /\ \A m : \A c \in Call : RowKey(m) # RateKey(c)
  /\ \A m, n, u : RowKey(m) # FollowKey(n, u) /\ FileKey(m) # FollowKey(n, u)
BY DEF RowKey, ClientKey, FileKey, StateKey, RateKey, FollowKey

-----------------------------------------------------------------------------
(* Steps that publish nothing.                                             *)

LEMMA OwnKept ==
  ASSUME UNCHANGED table, NEW d \in Call, Own(d),
         call'[d] = call[d], held'[d] = held[d], work'[d] = work[d]
  PROVE  Own(d)'
<1>1. rows' = rows /\ reactors' = reactors /\ claimed' = claimed
  BY DEF table
<1>2. Locked(d)'
  BY <1>1 DEF Own, Locked, IsRow, RowKey
<1>3. Rooted(d)'
  BY <1>1 DEF Own, Rooted, Sending, RowKey
<1>4. SendWork(d)'
  BY <1>1 DEF Own, SendWork, At, Posted, NewRow, Counted, FileKey
<1>5. ChangeWork(d)'
  BY <1>1 DEF Own, ChangeWork, At, Counts, Changed, Toggled, Counted, RowKey
<1> QED
  BY <1>2, <1>3, <1>4, <1>5 DEF Own

LEMMA QuietOwn ==
  ASSUME RowsInv, Inv', UNCHANGED table, NEW c \in Call, Own(c)',
         \A d \in Call \ {c} : call'[d] = call[d] /\ held'[d] = held[d] /\ work'[d] = work[d]
  PROVE  RowsInv'
<1>1. rows' = rows /\ reactors' = reactors /\ claimed' = claimed
  BY DEF table
<1>2. Shape'
  BY <1>1 DEF RowsInv, Shape, Written, IsRow
<1>3. ASSUME NEW d \in Call PROVE Own(d)'
  BY OwnKept DEF RowsInv
<1> QED
  BY <1>2, <1>3 DEF RowsInv

\* A call that holds no row and has written nothing owns nothing.
LEMMA EndOwn ==
  ASSUME RowsInv, Inv', UNCHANGED table, NEW c \in Call, NEW answer, answer # "duplicate_key", End(c, answer)
  PROVE  RowsInv'
<1>1. Inv /\ Own(c)
  BY DEF RowsInv
<1>2. /\ call'[c].pc = "done" /\ call'[c].answer = answer
      /\ call'[c].kind = call[c].kind /\ call'[c].id = call[c].id /\ call'[c].root = call[c].root
      /\ held'[c] = {} /\ DOMAIN work'[c] = {}
      /\ \A d \in Call \ {c} : call'[d] = call[d] /\ held'[d] = held[d] /\ work'[d] = work[d]
  BY <1>1, EndFacts
<1>3. Own(c)'
  BY <1>1, <1>2 DEF Own, Locked, Rooted, Sending, SendWork, ChangeWork, At
<1> QED
  BY <1>2, <1>3, QuietOwn

LEMMA BeginOwn ==
  ASSUME RowsInv, Inv', NEW c \in Call, NEW r \in CallType, r.answer = "none",
         r.kind = "send" => r.root # r.id, Begin(c, r)
  PROVE  RowsInv'
<1>1. Inv /\ Own(c) /\ At(c, "idle") /\ held[c] = {} /\ DOMAIN work[c] = {} /\ clock \in Nat
  BY DEF RowsInv, Begin, Inv, CallInv, Unlocked, Writes, At, Tables
<1>2. call'[c] = [r EXCEPT !.pc = IF r.kind = "delete" THEN "read" ELSE "rate", !.start = clock]
      /\ \A d \in Call \ {c} : call'[d] = call[d]
  BY <1>1 DEF Begin, Inv, Domains
<1>3. call'[c].pc \in {"read", "rate"} /\ call'[c].kind = r.kind /\ call'[c].root = r.root /\ call'[c].id = r.id
      /\ call'[c].answer = "none"
  BY <1>2 DEF CallType
<1>4. UNCHANGED <<held, work, table>>
  BY DEF Begin
<1>5. Own(c)'
  BY <1>1, <1>3, <1>4 DEF Own, Locked, Rooted, Sending, SendWork, ChangeWork, At
<1> QED
  BY <1>2, <1>4, <1>5, QuietOwn

LEMMA StartOwn ==
  ASSUME RowsInv, Inv', NEW c \in Call, Start(c)
  PROVE  RowsInv'
<1>1. Idle \in CallType /\ Idle.answer = "none"
  BY DEF Idle, CallType
<1>2. PICK m \in Msg :
        \/ \E ch \in Channel, root \in (Root \ {m}) \cup {NoMsg}, files \in SUBSET File, mentions \in Mentions \cup {{}} :
             BeginSend(c, m, ch, root, files, mentions)
        \/ \E body \in Body, mentions \in Mentions : BeginEdit(c, m, body, mentions)
        \/ BeginDelete(c, m)
        \/ \E u \in User, on \in BOOLEAN : BeginReact(c, u, m, on)
  BY DEF Start
<1>3. ASSUME NEW ch \in Channel, NEW root \in (Root \ {m}) \cup {NoMsg}, NEW files \in SUBSET File,
             NEW mentions \in Mentions \cup {{}}, BeginSend(c, m, ch, root, files, mentions)
      PROVE  RowsInv'
  <2> DEFINE r == [Idle EXCEPT !.kind = "send", !.by = Author[m], !.id = m, !.ch = ch, !.root = root, !.files = files,
                          !.mentions = mentions]
  <2>1. "send" \in Kind
    BY <1>3 DEF BeginSend, Begin, Idle
  <2>2. r \in CallType /\ r.answer = "none" /\ r.root # r.id /\ Begin(c, r)
    BY <1>1, <1>3, <2>1 DEF CallType, Idle, BeginSend
  <2> HIDE DEF r
  <2> QED
    BY <2>2, BeginOwn
<1>4. ASSUME NEW body \in Body, NEW mentions \in Mentions, BeginEdit(c, m, body, mentions) PROVE RowsInv'
  <2> DEFINE r == [Idle EXCEPT !.kind = "edit", !.by = Author[m], !.id = m, !.body = body, !.mentions = mentions]
  <2>1. "edit" \in Kind
    BY <1>4 DEF BeginEdit, Begin, Idle
  <2>2. r \in CallType /\ r.answer = "none" /\ r.kind = "edit" /\ Begin(c, r)
    BY <1>1, <1>4, <2>1 DEF CallType, Idle, BeginEdit
  <2> HIDE DEF r
  <2> QED
    BY <2>2, BeginOwn
<1>5. ASSUME BeginDelete(c, m) PROVE RowsInv'
  <2> DEFINE r == [Idle EXCEPT !.kind = "delete", !.by = Author[m], !.id = m]
  <2>1. "delete" \in Kind
    BY <1>5 DEF BeginDelete, Begin, Idle
  <2>2. r \in CallType /\ r.answer = "none" /\ r.kind = "delete" /\ Begin(c, r)
    BY <1>1, <1>5, <2>1 DEF CallType, Idle, BeginDelete
  <2> HIDE DEF r
  <2> QED
    BY <2>2, BeginOwn
<1>6. ASSUME NEW u \in User, NEW on \in BOOLEAN, BeginReact(c, u, m, on) PROVE RowsInv'
  <2> DEFINE r == [Idle EXCEPT !.kind = "react", !.by = u, !.id = m, !.on = on]
  <2>1. "react" \in Kind
    BY <1>6 DEF BeginReact, Begin, Idle
  <2>2. r \in CallType /\ r.answer = "none" /\ r.kind = "react" /\ Begin(c, r)
    BY <1>1, <1>6, <2>1 DEF CallType, Idle, BeginReact
  <2> HIDE DEF r
  <2> QED
    BY <2>2, BeginOwn
<1> QED
  BY <1>2, <1>3, <1>4, <1>5, <1>6

\* On its way to the commit a transaction has written nothing; it may take a lock.
LEMMA GotoOwn ==
  ASSUME RowsInv, Inv', NEW c \in Call, NEW pc \in {"client", "root", "files", "read", "row"}, NEW k,
         call[c].pc \in {"rate", "client", "root", "files", "read"},
         Goto(c, pc) \/ (pc = call[c].pc /\ UNCHANGED call),
         Take(c, k) \/ UNCHANGED held,
         UNCHANGED <<work, table>>,
         \A m \in Msg : k = RowKey(m) => IsRow(m),
         call[c].kind = "send" /\ call[c].root # NoMsg /\ pc \in {"root", "files"} =>
           /\ rows[call[c].root].root = NoMsg
           /\ pc = "files" => RowKey(call[c].root) \in held'[c] /\ ~ rows[call[c].root].deleted
  PROVE  RowsInv'
<1>1. Inv /\ Own(c) /\ DOMAIN work[c] = {}
  BY DEF RowsInv, Inv, CallInv, Writes
<1>2. /\ call'[c].pc = pc /\ call'[c].kind = call[c].kind /\ call'[c].id = call[c].id
      /\ call'[c].root = call[c].root /\ call'[c].answer = call[c].answer
      /\ \A d \in Call \ {c} : call'[d] = call[d]
  BY <1>1, GotoFacts
<1>3. held'[c] \subseteq held[c] \cup {k} /\ \A d \in Call \ {c} : held'[d] = held[d]
  BY <1>1, TakeFacts
<1>4. rows' = rows /\ work' = work
  BY DEF table
<1>5. Locked(c)'
  BY <1>1, <1>3, <1>4 DEF Own, Locked, IsRow, RowKey
<1>6. Rooted(c)'
  BY <1>1, <1>2, <1>4 DEF Own, Rooted, Sending, RowKey
<1>7. SendWork(c)' /\ ChangeWork(c)'
  BY <1>2 DEF SendWork, ChangeWork, At
<1>8. Own(c)'
  BY <1>1, <1>2, <1>5, <1>6, <1>7 DEF Own
<1> QED
  BY <1>2, <1>3, <1>4, <1>8, QuietOwn

LEMMA LockOwn ==
  ASSUME RowsInv, Inv', NEW c \in Call,
         RateHit(c) \/ SendLook(c) \/ SendLockRoot(c) \/ SendLockFile(c) \/ SendFilesTaken(c)
         \/ ChangeRead(c) \/ Follow(c) \/ Abort(c)
  PROVE  RowsInv'
<1>1. Inv /\ Own(c) /\ CallInv(c)
  BY DEF RowsInv, Inv
<1>2. ASSUME NEW code, code # "duplicate_key", Fail(c, code) PROVE RowsInv'
  BY <1>2, EndOwn DEF Fail
<1>3. ASSUME Return(c) PROVE RowsInv'
  BY <1>3, EndOwn DEF Return
<1>4. CASE RateHit(c)
  <2> DEFINE pc == IF call[c].kind = "send" THEN "client" ELSE "read"
  <2>1. CASE Take(c, RateKey(c)) /\ Goto(c, pc) /\ UNCHANGED <<work, table, clock, aborts>>
    <3>1. pc \in {"client", "read"} /\ call[c].pc = "rate"
      BY <1>4 DEF RateHit, At
    <3> HIDE DEF pc
    <3> QED
      BY <2>1, <3>1, GotoOwn, KeysDiffer
  <2> QED
    BY <1>2, <1>4, <2>1 DEF RateHit
<1>5. CASE SendLook(c)
  <2> DEFINE pc == IF call[c].root = NoMsg THEN "files" ELSE "root"
             k  == ClientKey(call[c].id)
  <2>1. call[c].pc = "client"
    BY <1>5 DEF SendLook, At
  <2>2. CASE /\ call[c].root = NoMsg \/ rows[call[c].root].root = NoMsg
             /\ Take(c, k) /\ Goto(c, pc) /\ UNCHANGED <<work, table, clock, aborts>>
    <3>1. pc \in {"files", "root"} /\ (pc = "files" => call[c].root = NoMsg)
      OBVIOUS
    <3>2. \A m \in Msg : k # RowKey(m)
      BY KeysDiffer
    <3> HIDE DEF pc, k
    <3> QED
      BY <2>1, <2>2, <3>1, <3>2, GotoOwn
  <2> QED
    BY <1>2, <1>3, <1>5, <2>2 DEF SendLook, Look
<1>6. CASE SendLockRoot(c)
  <2>1. call[c].pc = "root" /\ call[c].kind = "send" /\ SendOK(c) /\ Rooted(c)
    BY <1>1, <1>6 DEF SendLockRoot, At, CallInv, Request, Own
  <2>2. CASE ~ rows[call[c].root].deleted /\ Take(c, RowKey(call[c].root)) /\ Goto(c, "files")
             /\ UNCHANGED <<work, table, clock, aborts>>
    <3>1. RowKey(call[c].root) \in held'[c]
      BY <1>1, <2>2, TakeFacts
    <3>2. call[c].root # NoMsg => rows[call[c].root].root = NoMsg
      BY <2>1 DEF Rooted, Sending
    <3>3. \A m \in Msg : RowKey(call[c].root) = RowKey(m) => IsRow(m)
      BY <2>1 DEF SendOK, Sending, RowKey
    <3> QED
      BY <2>1, <2>2, <3>1, <3>2, <3>3, GotoOwn
  <2> QED
    BY <1>2, <1>6, <2>2 DEF SendLockRoot
<1>7. CASE SendLockFile(c)
  <2>1. call[c].pc = "files" /\ Rooted(c) /\ UNCHANGED <<call, work, table, clock, aborts>>
    BY <1>1, <1>7 DEF SendLockFile, At, Own
  <2>2. PICK f \in ToLock(c) : Take(c, FileKey(f))
    BY <1>7 DEF SendLockFile
  <2>3. held[c] \subseteq held'[c]
    BY <1>1, <2>2, TakeFacts
  <2>4. \A m \in Msg : FileKey(f) # RowKey(m)
    BY KeysDiffer
  <2>5. call[c].kind = "send" /\ call[c].root # NoMsg =>
          /\ rows[call[c].root].root = NoMsg
          /\ RowKey(call[c].root) \in held'[c] /\ ~ rows[call[c].root].deleted
    BY <2>1, <2>3 DEF Rooted, Sending
  <2> QED
    BY <2>1, <2>2, <2>4, <2>5, GotoOwn
<1>8. CASE SendFilesTaken(c)
  BY <1>2, <1>8 DEF SendFilesTaken
<1>9. CASE ChangeRead(c)
  <2>1. call[c].pc = "read" /\ call[c].kind # "send"
    BY <1>1, <1>9 DEF ChangeRead, At, CallInv, Request
  <2>2. CASE Goto(c, "row") /\ UNCHANGED <<held, work, table, clock, aborts>>
    <3> DEFINE k == ClientKey(call[c].id)
    <3>1. \A m \in Msg : k # RowKey(m)
      BY KeysDiffer
    <3>2. Take(c, k) \/ UNCHANGED held
      BY <2>2
    <3>3. Goto(c, "row") /\ UNCHANGED <<work, table>>
      BY <2>2
    <3> HIDE DEF k
    <3> QED
      BY <2>1, <3>1, <3>2, <3>3, GotoOwn
  <2> QED
    BY <1>2, <1>3, <1>9, <2>2 DEF ChangeRead
<1>10. CASE Abort(c)
  BY <1>10, EndOwn DEF Abort
<1>11. CASE Follow(c)
  <2>1. PICK u \in ToFollow(c) : Take(c, FollowKey(Thread(c), u))
    BY <1>11 DEF Follow
  <2>2. call' = call /\ work' = work /\ UNCHANGED table
    BY <1>11 DEF Follow
  <2>3. PICK k : k = FollowKey(Thread(c), u)
    OBVIOUS
  <2>4. held'[c] = held[c] \cup {k} /\ \A d \in Call \ {c} : held'[d] = held[d]
    BY <1>1, <2>1, <2>3, TakeFacts
  <2>5. \A m : k # RowKey(m)
    BY <2>3, KeysDiffer
  <2>6. rows' = rows /\ claimed' = claimed /\ reactors' = reactors
    BY <2>2 DEF table
  <2>7. Locked(c)'
    BY <1>1, <2>2, <2>4, <2>5, <2>6 DEF Own, Locked, IsRow, RowKey
  <2>8. Rooted(c)'
    BY <1>1, <2>2, <2>4, <2>6 DEF Own, Rooted, Sending, RowKey
  <2>9. SendWork(c)'
    BY <1>1, <2>2, <2>4, <2>6 DEF Own, SendWork, At, Posted, NewRow, Counted, FileKey
  <2>10. ChangeWork(c)'
    BY <1>1, <2>2, <2>4, <2>6 DEF Own, ChangeWork, At, Counts, Changed, Toggled, Counted, RowKey
  <2>11. Own(c)'
    BY <1>1, <2>2, <2>7, <2>8, <2>9, <2>10 DEF Own
  <2> QED
    BY <2>2, <2>4, <2>11, QuietOwn
<1> QED
  BY <1>4, <1>5, <1>6, <1>7, <1>8, <1>9, <1>10, <1>11

-----------------------------------------------------------------------------
(* Steps that write: everything written is locked first.                   *)

LEMMA InsertOwn ==
  ASSUME RowsInv, Inv', NEW c \in Call, SendInsert(c)
  PROVE  RowsInv'
<1> DEFINE m    == call[c].id
           root == call[c].root
           new  == NewRow(c, lastSeq[call[c].ch] + 1)
<1>1. Inv /\ Own(c) /\ CallInv(c) /\ call[c].pc = "files"
  BY DEF RowsInv, Inv, SendInsert, At
<1>2. call[c].kind = "send" /\ ~ IsRow(m) /\ m \in Msg
  BY <1>1 DEF CallInv, Request, SendOK, Sending, At
<1>3. Insert(c) /\ ToLock(c) = {} /\ \A f \in call[c].files : claimed[f] = NoMsg
  BY <1>2 DEF SendInsert
<1>4. /\ call'[c].pc = "commit" /\ call'[c].kind = "send" /\ call'[c].id = m /\ call'[c].root = root
      /\ call'[c].ch = call[c].ch /\ call'[c].files = call[c].files /\ call'[c].start = call[c].start
      /\ call'[c].answer = call[c].answer
      /\ \A d \in Call \ {c} : call'[d] = call[d]
  BY <1>1, <1>2, <1>3, GotoFacts DEF Insert
<1>5. held'[c] = held[c] \cup {StateKey(call[c].ch)} /\ \A d \in Call \ {c} : held'[d] = held[d]
  BY <1>1, <1>3, TakeFacts DEF Insert
<1>6. rows' = rows /\ claimed' = claimed /\ UNCHANGED table
  BY <1>3 DEF Insert, table
<1>7. root # NoMsg => /\ root # m /\ rows[root].root = NoMsg /\ ~ rows[root].deleted /\ RowKey(root) \in held[c]
                      /\ IsRow(root)
  BY <1>1, <1>2 DEF Own, Rooted, Sending, CallInv, SendOK
<1>8. /\ \A d \in Call \ {c} : work'[d] = work[d]
      /\ DOMAIN work'[c] = {m} \cup ({root} \ {NoMsg})
      /\ work'[c][m] = new
      /\ root # NoMsg => work'[c][root] = Counted(c, root, rows[root].replies + 1)
  <2>1. work'[c] = [n \in {m} \cup (IF root = NoMsg THEN {} ELSE {root}) |->
                      IF n = m THEN new ELSE Counted(c, root, rows[root].replies + 1)]
    BY <1>1, <1>3 DEF Insert, Inv, Domains
  <2>2. \A d \in Call \ {c} : work'[d] = work[d]
    BY <1>1, <1>3 DEF Insert, Inv, Domains
  <2> HIDE DEF new
  <2> QED
    BY <1>7, <2>1, <2>2
<1>9. new.seq = lastSeq[call[c].ch] + 1
  BY DEF NewRow
<1> HIDE DEF m, root
<1>10. Locked(c)'
  BY <1>1, <1>4, <1>5, <1>6, <1>7, <1>8, KeysDiffer DEF Own, Locked, IsRow, RowKey
<1>11. Rooted(c)'
  BY <1>4, <1>5, <1>6, <1>7 DEF Rooted, RowKey
<1>12. SendWork(c)'
  <2>1. Posted(c)' = new /\ new = NewRow(c, new.seq)
    BY <1>4, <1>8, <1>9 DEF Posted
  <2>2. [ch |-> call'[c].ch, seq |-> new.seq, root |-> call'[c].root, body |-> 1, deleted |-> FALSE,
         replies |-> 0, reactions |-> {}, files |-> call'[c].files, updated |-> call'[c].start] = new
    BY <1>4, <1>9 DEF NewRow, root
  <2>3. \A f \in call[c].files : FileKey(f) \in held'[c] /\ claimed'[f] = NoMsg
    BY <1>3, <1>5, <1>6 DEF ToLock
  <2>4. root # NoMsg => work'[c][root] = [rows'[root] EXCEPT !.replies = rows'[root].replies + 1, !.updated = call'[c].start]
    BY <1>4, <1>6, <1>8 DEF Counted
  <2> HIDE DEF new
  <2> QED
    BY <1>4, <1>8, <2>1, <2>2, <2>3, <2>4 DEF SendWork, Posted, NewRow, Counted, FileKey
<1>13. ChangeWork(c)'
  BY <1>4 DEF ChangeWork
<1>14. Own(c)'
  BY <1>1, <1>4, <1>10, <1>11, <1>12, <1>13 DEF Own
<1> QED
  BY <1>4, <1>5, <1>6, <1>8, <1>14, QuietOwn

LEMMA ChangeOwn ==
  ASSUME RowsInv, Inv', NEW c \in Call, ChangeRow(c)
  PROVE  RowsInv'
<1> DEFINE m == call[c].id
           counts == call[c].kind = "delete" /\ rows[m].root # NoMsg
           pc == IF counts THEN "count" ELSE "commit"
<1>1. Inv /\ Own(c) /\ CallInv(c) /\ call[c].pc = "row" /\ Change(c)
  BY DEF RowsInv, Inv, ChangeRow, At
<1>2. call[c].kind # "send" /\ m \in Msg /\ IsRow(m) /\ rows[m] \in RowType
  BY <1>1 DEF CallInv, Request, ChangeOK, At, Inv, Tables, IsRow
<1>3. CASE Return(c) \/ Fail(c, "conflict")
  BY <1>3, EndOwn DEF Return, Fail
<1>4. CASE /\ ~ rows[m].deleted
           /\ Take(c, RowKey(m))
           /\ work' = [work EXCEPT ![c] = [n \in {m} |-> Changed(c)]]
           /\ Goto(c, pc)
           /\ UNCHANGED <<table, clock, aborts>>
  <2>1. /\ call'[c].pc = pc /\ call'[c].kind = call[c].kind /\ call'[c].id = m /\ call'[c].by = call[c].by
        /\ call'[c].body = call[c].body /\ call'[c].on = call[c].on /\ call'[c].start = call[c].start
        /\ call'[c].answer = call[c].answer
        /\ \A d \in Call \ {c} : call'[d] = call[d]
    BY <1>1, <1>4, GotoFacts
  <2>2. held'[c] = held[c] \cup {RowKey(m)} /\ \A d \in Call \ {c} : held'[d] = held[d]
    BY <1>1, <1>4, TakeFacts
  <2>3. rows' = rows /\ reactors' = reactors /\ UNCHANGED table
    BY <1>4 DEF table
  <2>4. work'[c] = [n \in {m} |-> Changed(c)] /\ \A d \in Call \ {c} : work'[d] = work[d]
    BY <1>1, <1>4 DEF Inv, Domains
  <2>5. DOMAIN work'[c] = {m} /\ work'[c][m] = Changed(c)
    BY <2>4
  <2>6. Changed(c)' = Changed(c)
    BY <2>1, <2>3 DEF Changed, Toggled
  <2>7. (pc = "count" /\ counts) \/ (pc = "commit" /\ ~ counts)
    OBVIOUS
  <2>8. Counts(c)' = counts
    BY <2>1, <2>3 DEF Counts
  <2> HIDE DEF m, counts, pc
  <2>9. Locked(c)'
    BY <1>1, <1>2, <2>2, <2>3, <2>5, KeysDiffer DEF Own, Locked, IsRow, RowKey
  <2>10. Rooted(c)' /\ SendWork(c)'
    BY <1>2, <2>1 DEF Rooted, SendWork
  <2>11. ChangeWork(c)'
    BY <1>4, <2>1, <2>2, <2>3, <2>5, <2>6, <2>7, <2>8 DEF ChangeWork, At, RowKey
  <2>12. Own(c)'
    BY <1>1, <2>1, <2>9, <2>10, <2>11 DEF Own
  <2> QED
    BY <2>1, <2>2, <2>3, <2>4, <2>12, QuietOwn
<1> QED
  BY <1>1, <1>3, <1>4 DEF Change

LEMMA CountOwn ==
  ASSUME RowsInv, Inv', NEW c \in Call, DeleteCount(c)
  PROVE  RowsInv'
<1> DEFINE m    == call[c].id
           root == rows[m].root
           less == IF rows[root].replies > 0 THEN rows[root].replies - 1 ELSE 0
<1>1. Inv /\ Own(c) /\ CallInv(c) /\ call[c].pc = "count" /\ Shape
  BY DEF RowsInv, Inv, DeleteCount, At
<1>2. call[c].kind # "send" /\ m \in Msg /\ IsRow(m) /\ rows[m] \in RowType
  BY <1>1 DEF CallInv, Request, ChangeOK, At, Inv, Tables, IsRow
<1>3. /\ m \in DOMAIN work[c] /\ RowKey(m) \in held[c] /\ ~ rows[m].deleted
      /\ work[c][m] = Changed(c) /\ Counts(c)
  BY <1>1, <1>2 DEF Own, ChangeWork, At
<1>4. root # NoMsg /\ root # m /\ IsRow(root) /\ root \in Msg
  BY <1>1, <1>2, <1>3 DEF Counts, Shape, Inv, Tables, RowType
<1>5. /\ call'[c].pc = "commit" /\ call'[c].kind = call[c].kind /\ call'[c].id = m /\ call'[c].by = call[c].by
      /\ call'[c].body = call[c].body /\ call'[c].on = call[c].on /\ call'[c].start = call[c].start
      /\ call'[c].answer = call[c].answer
      /\ \A d \in Call \ {c} : call'[d] = call[d]
  BY <1>1, GotoFacts DEF DeleteCount
<1>6. held'[c] = held[c] \cup {RowKey(root)} /\ \A d \in Call \ {c} : held'[d] = held[d]
  BY <1>1, TakeFacts DEF DeleteCount
<1>7. rows' = rows /\ reactors' = reactors /\ UNCHANGED table
  BY DEF DeleteCount, table
<1>8. /\ \A d \in Call \ {c} : work'[d] = work[d]
      /\ work'[c] = [n2 \in {m, root} |-> IF n2 = root THEN Counted(c, root, less) ELSE work[c][n2]]
  BY <1>1 DEF DeleteCount, Inv, Domains
<1> HIDE DEF less
<1>9. DOMAIN work'[c] = {m, root} /\ work'[c][m] = Changed(c) /\ work'[c][root] = Counted(c, root, less)
  BY <1>3, <1>4, <1>8
<1>10. Changed(c)' = Changed(c)
  BY <1>5, <1>7 DEF Changed, Toggled
<1>11. Counts(c)'
  BY <1>3, <1>5, <1>7 DEF Counts
<1>12. work'[c][root] = [rows'[root] EXCEPT !.replies = IF rows'[root].replies > 0 THEN rows'[root].replies - 1 ELSE 0,
                                            !.updated = call'[c].start]
  BY <1>5, <1>7, <1>9 DEF Counted, less
<1>13. Locked(c)'
  <2> HIDE DEF m, root
  <2> QED
    BY <1>1, <1>3, <1>4, <1>6, <1>7, <1>9, KeysDiffer DEF Own, Locked, IsRow, RowKey
<1>14. Rooted(c)' /\ SendWork(c)'
  BY <1>2, <1>5 DEF Rooted, SendWork
<1>15. ChangeWork(c)'
  <2>1. rows'[call'[c].id].root = root /\ call'[c].id = m
    BY <1>5, <1>7
  <2> HIDE DEF m, root
  <2> QED
    BY <1>3, <1>5, <1>6, <1>7, <1>9, <1>10, <1>11, <1>12, <2>1 DEF ChangeWork, At, RowKey, Counted
<1>16. Own(c)'
  BY <1>1, <1>5, <1>13, <1>14, <1>15 DEF Own
<1> QED
  BY <1>5, <1>6, <1>7, <1>8, <1>16, QuietOwn

-----------------------------------------------------------------------------
(* What a commit does to the tables, told from the tables as they are.     *)

LEMMA CommitSend ==
  ASSUME RowsInv, NEW c \in Call, Commit(c), call[c].kind = "send"
  PROVE  LET m == call[c].id  root == call[c].root IN
         /\ m \in Msg /\ ~ IsRow(m) /\ rows'[m] # NoRow /\ rows'[m].root = root
         /\ ~ rows'[m].deleted /\ rows'[m].replies = 0 /\ rows'[m].reactions = {} /\ rows'[m].files = call[c].files
         /\ root # NoMsg =>
              /\ root \in Msg /\ root # m /\ IsRow(root) /\ rows[root].root = NoMsg /\ ~ rows[root].deleted
              /\ rows'[root] # NoRow /\ rows'[root].root = NoMsg /\ ~ rows'[root].deleted
              /\ rows'[root].reactions = rows[root].reactions /\ rows'[root].files = rows[root].files
              /\ rows'[root].replies = rows[root].replies + 1
         /\ \A n \in Msg \ {m, root} : rows'[n] = rows[n]
         /\ reactors' = reactors
         /\ call[c].files \subseteq File
         /\ \A f \in File : claimed'[f] = IF f \in call[c].files THEN m ELSE claimed[f]
         /\ \A f \in call[c].files : claimed[f] = NoMsg
<1> DEFINE m == call[c].id  root == call[c].root
<1>1. /\ Inv /\ Shape /\ CallInv(c) /\ Tables /\ Own(c) /\ call[c].pc = "commit"
      /\ rows' = [n \in Msg |-> IF n \in DOMAIN work[c] THEN work[c][n] ELSE rows[n]]
  BY DEF RowsInv, Inv, Commit, At
<1>2. m \in Msg /\ ~ IsRow(m) /\ (root = NoMsg \/ IsRow(root)) /\ root \in Msg \cup {NoMsg} /\ call[c].files \subseteq File
  BY <1>1 DEF CallInv, Request, At, SendOK, Sending, CallType
<1>3. root # NoMsg => root # m /\ rows[root].root = NoMsg /\ ~ rows[root].deleted
  BY <1>1 DEF Own, Rooted, Sending
<1>4. /\ DOMAIN work[c] = {m} \cup ({root} \ {NoMsg})
      /\ work[c][m] = NewRow(c, work[c][m].seq)
      /\ root # NoMsg => work[c][root] = Counted(c, root, rows[root].replies + 1)
      /\ \A f \in call[c].files : claimed[f] = NoMsg
  BY <1>1 DEF Own, SendWork, At, Posted
<1>5. rows'[m] = work[c][m] /\ \A n \in Msg \ {m, root} : rows'[n] = rows[n]
  BY <1>1, <1>2, <1>4
<1>6. /\ work[c][m] \in RowType /\ work[c][m].root = root /\ ~ work[c][m].deleted
      /\ work[c][m].replies = 0 /\ work[c][m].reactions = {} /\ work[c][m].files = call[c].files
  BY <1>1, <1>4 DEF NewRow, CallInv, Writes
<1>7. root # NoMsg =>
        /\ root \in Msg /\ rows'[root] \in RowType /\ rows'[root].root = rows[root].root
        /\ rows'[root].deleted = rows[root].deleted
        /\ rows'[root].reactions = rows[root].reactions /\ rows'[root].files = rows[root].files
        /\ rows'[root].replies = rows[root].replies + 1
  <2> SUFFICES ASSUME root # NoMsg
               PROVE  /\ root \in Msg /\ rows'[root] \in RowType /\ rows'[root].root = rows[root].root
                      /\ rows'[root].deleted = rows[root].deleted
                      /\ rows'[root].reactions = rows[root].reactions /\ rows'[root].files = rows[root].files
                      /\ rows'[root].replies = rows[root].replies + 1
    OBVIOUS
  <2>1. root \in Msg /\ rows[root] \in RowType
    BY <1>1, <1>2 DEF Tables, IsRow
  <2>2. rows'[root] = [rows[root] EXCEPT !.replies = rows[root].replies + 1, !.updated = call[c].start]
    BY <1>1, <1>4, <2>1 DEF Counted
  <2>3. rows'[root] \in RowType
    BY <1>1, <1>4, <2>1 DEF CallInv, Writes
  <2> QED
    BY <2>1, <2>2, <2>3 DEF RowType
<1>8. reactors' = reactors
  BY <1>1, <1>2 DEF Commit, Tables
<1>9. \A f \in File : claimed'[f] = IF f \in call[c].files THEN m ELSE claimed[f]
  BY DEF Commit
<1> QED
  BY <1>2, <1>3, <1>4, <1>5, <1>6, <1>7, <1>8, <1>9, RowTypeFacts

LEMMA CommitChange ==
  ASSUME RowsInv, NEW c \in Call, Commit(c), call[c].kind # "send"
  PROVE  LET m == call[c].id  root == rows[m].root  k == call[c].kind IN
         /\ k \in {"edit", "delete", "react"}
         /\ m \in Msg /\ IsRow(m) /\ ~ rows[m].deleted /\ RowKey(m) \in held[c]
         /\ rows'[m] # NoRow /\ rows'[m].root = root /\ rows'[m].replies = rows[m].replies
         /\ rows'[m].files = rows[m].files
         /\ k = "delete" => rows'[m].deleted /\ rows'[m].body = 0 /\ rows'[m].reactions = {} /\ reactors'[m] = {}
         /\ k = "react" => ~ rows'[m].deleted /\ rows'[m].reactions = Toggled(c) /\ reactors'[m] = Toggled(c)
         /\ k = "edit" => ~ rows'[m].deleted /\ rows'[m].reactions = rows[m].reactions /\ reactors' = reactors
         /\ Counts(c) =>
              /\ root \in Msg /\ root # m /\ IsRow(root) /\ RowKey(root) \in held[c]
              /\ rows'[root] # NoRow /\ rows'[root].root = rows[root].root /\ rows'[root].deleted = rows[root].deleted
              /\ rows'[root].body = rows[root].body
              /\ rows'[root].reactions = rows[root].reactions /\ rows'[root].files = rows[root].files
              /\ rows'[root].replies = IF rows[root].replies > 0 THEN rows[root].replies - 1 ELSE 0
         /\ \A n \in Msg \ {m} : (Counts(c) /\ n = root) \/ rows'[n] = rows[n]
         /\ \A n \in Msg \ {m} : reactors'[n] = reactors[n]
         /\ claimed' = claimed
<1> DEFINE m == call[c].id  root == rows[m].root  k == call[c].kind
<1>1. /\ Inv /\ Shape /\ CallInv(c) /\ Tables /\ Own(c) /\ call[c].pc = "commit"
      /\ rows' = [n \in Msg |-> IF n \in DOMAIN work[c] THEN work[c][n] ELSE rows[n]]
  BY DEF RowsInv, Inv, Commit, At
<1>2. m \in Msg /\ k \in {"edit", "delete", "react"}
  BY <1>1 DEF CallInv, Request, At
<1>3. /\ m \in DOMAIN work[c] /\ RowKey(m) \in held[c] /\ ~ rows[m].deleted /\ work[c][m] = Changed(c)
      /\ ~ Counts(c) => DOMAIN work[c] = {m}
      /\ Counts(c) => /\ DOMAIN work[c] = {m, root}
                      /\ work[c][root] = Counted(c, root, IF rows[root].replies > 0 THEN rows[root].replies - 1 ELSE 0)
  BY <1>1 DEF Own, ChangeWork, At
<1>4. IsRow(m) /\ rows[m] \in RowType
  BY <1>1, <1>2, <1>3 DEF CallInv, Writes, Tables, IsRow
<1>5. rows'[m] = Changed(c) /\ Changed(c) \in RowType
  BY <1>1, <1>2, <1>3 DEF CallInv, Writes
<1>6. /\ rows'[m].root = root /\ rows'[m].replies = rows[m].replies /\ rows'[m].files = rows[m].files
      /\ k = "delete" => rows'[m].deleted /\ rows'[m].body = 0 /\ rows'[m].reactions = {}
      /\ k = "react" => ~ rows'[m].deleted /\ rows'[m].reactions = Toggled(c)
      /\ k = "edit" => ~ rows'[m].deleted /\ rows'[m].reactions = rows[m].reactions
  <2> DEFINE old == [rows[m] EXCEPT !.updated = call[c].start]
  <2>1. /\ old.root = root /\ old.replies = rows[m].replies /\ old.files = rows[m].files
        /\ old.deleted = rows[m].deleted /\ old.reactions = rows[m].reactions /\ DOMAIN old = DOMAIN rows[m]
    BY <1>4 DEF RowType
  <2>2. DOMAIN old = {"ch", "seq", "root", "body", "deleted", "replies", "reactions", "files", "updated"}
    BY <1>4, <2>1 DEF RowType
  <2>3. CASE k = "edit"
    <3>1. rows'[m] = [old EXCEPT !.body = call[c].body]
      BY <1>5, <2>3 DEF Changed
    <3> HIDE DEF old
    <3> QED
      BY <1>3, <2>1, <2>2, <2>3, <3>1
  <2>4. CASE k = "delete"
    <3>1. rows'[m] = [old EXCEPT !.deleted = TRUE, !.body = 0, !.reactions = {}]
      BY <1>5, <2>4 DEF Changed
    <3> HIDE DEF old
    <3> QED
      BY <2>1, <2>2, <2>4, <3>1
  <2>5. CASE k = "react"
    <3>1. rows'[m] = [old EXCEPT !.reactions = Toggled(c)]
      BY <1>5, <2>5 DEF Changed
    <3> HIDE DEF old
    <3> QED
      BY <1>3, <2>1, <2>2, <2>5, <3>1
  <2> QED
    BY <1>2, <2>3, <2>4, <2>5
<1>7. Counts(c) =>
        /\ root \in Msg /\ root # m /\ IsRow(root) /\ RowKey(root) \in held[c]
        /\ rows'[root] \in RowType /\ rows'[root].root = rows[root].root /\ rows'[root].deleted = rows[root].deleted
        /\ rows'[root].body = rows[root].body
        /\ rows'[root].reactions = rows[root].reactions /\ rows'[root].files = rows[root].files
        /\ rows'[root].replies = IF rows[root].replies > 0 THEN rows[root].replies - 1 ELSE 0
  <2> SUFFICES ASSUME Counts(c)
               PROVE  /\ root \in Msg /\ root # m /\ IsRow(root) /\ RowKey(root) \in held[c]
                      /\ rows'[root] \in RowType /\ rows'[root].root = rows[root].root
                      /\ rows'[root].deleted = rows[root].deleted
                      /\ rows'[root].body = rows[root].body
                      /\ rows'[root].reactions = rows[root].reactions /\ rows'[root].files = rows[root].files
                      /\ rows'[root].replies = IF rows[root].replies > 0 THEN rows[root].replies - 1 ELSE 0
    OBVIOUS
  <2> DEFINE less == IF rows[root].replies > 0 THEN rows[root].replies - 1 ELSE 0
  <2>1. root # NoMsg /\ root \in Msg /\ root # m /\ IsRow(root)
    BY <1>1, <1>2, <1>4 DEF Counts, Shape, Tables, RowType
  <2>2. RowKey(root) \in held[c]
    BY <1>1, <1>3, <2>1 DEF Own, Locked
  <2>3. rows[root] \in RowType
    BY <1>1, <2>1 DEF Tables, IsRow
  <2>4. rows'[root] = work[c][root] /\ work[c][root] \in RowType
    BY <1>1, <1>3, <2>1 DEF CallInv, Writes
  <2>5. rows'[root] = [rows[root] EXCEPT !.replies = less, !.updated = call[c].start]
    BY <1>3, <2>4 DEF Counted
  <2> HIDE DEF less
  <2>6. rows'[root].replies = less
    BY <2>3, <2>5 DEF RowType
  <2>7. /\ rows'[root].root = rows[root].root /\ rows'[root].deleted = rows[root].deleted
        /\ rows'[root].body = rows[root].body
        /\ rows'[root].reactions = rows[root].reactions /\ rows'[root].files = rows[root].files
    BY <2>3, <2>5 DEF RowType
  <2> QED
    BY <2>1, <2>2, <2>4, <2>6, <2>7 DEF less
<1>8. \A n \in Msg \ {m} : (Counts(c) /\ n = root) \/ rows'[n] = rows[n]
  BY <1>1, <1>3
<1>9. /\ \A n \in Msg \ {m} : reactors'[n] = reactors[n]
      /\ k = "delete" => reactors'[m] = {}
      /\ k = "react" => reactors'[m] = Toggled(c)
      /\ k = "edit" => reactors' = reactors
  BY <1>1, <1>2 DEF Commit, Tables
<1>10. claimed' = claimed
  BY <1>1 DEF Commit, Tables
<1> QED
  BY <1>2, <1>3, <1>4, <1>5, <1>6, <1>7, <1>8, <1>9, <1>10, RowTypeFacts

\* The commit of another transaction touches nothing that d has locked.
LEMMA CommitElse ==
  ASSUME RowsInv, NEW c \in Call, Commit(c), NEW d \in Call, d # c
  PROVE  /\ \A n \in Msg : RowKey(n) \in held[d] => rows'[n] = rows[n] /\ reactors'[n] = reactors[n]
         /\ \A f \in File : FileKey(f) \in held[d] => claimed'[f] = claimed[f]
<1>1. Inv /\ Own(c) /\ Own(d) /\ CallInv(c) /\ call[c].pc = "commit" /\ held[c] \cap held[d] = {}
  BY DEF RowsInv, Inv, Exclusive, Commit, At
<1>2. ASSUME NEW n \in Msg, RowKey(n) \in held[d] PROVE rows'[n] = rows[n] /\ reactors'[n] = reactors[n]
  <2>1. IsRow(n) /\ RowKey(n) \notin held[c]
    BY <1>1, <1>2 DEF Own, Locked
  <2>2. CASE call[c].kind = "send"
    <3>1. n # call[c].id
      BY <2>1, <2>2, CommitSend
    <3>2. call[c].root # NoMsg => n # call[c].root
      BY <1>1, <2>1, <2>2 DEF Own, Rooted
    <3>3. NoMsg \notin Msg
      OBVIOUS
    <3> QED
      BY <2>2, <3>1, <3>2, <3>3, CommitSend
  <2>3. CASE call[c].kind # "send"
    BY <2>1, <2>3, CommitChange
  <2> QED
    BY <2>2, <2>3
<1>3. ASSUME NEW f \in File, FileKey(f) \in held[d] PROVE claimed'[f] = claimed[f]
  <2>1. CASE call[c].kind = "send"
    <3>1. \A g \in call[c].files : FileKey(g) \in held[c]
      BY <1>1, <2>1 DEF Own, SendWork, At
    <3> QED
      BY <1>1, <1>3, <2>1, <3>1, CommitSend
  <2>2. CASE call[c].kind # "send"
    BY <2>2, CommitChange
  <2> QED
    BY <2>1, <2>2
<1> QED
  BY <1>2, <1>3

LEMMA CommitShape ==
  ASSUME RowsInv, Inv', NEW c \in Call, Commit(c)
  PROVE  Shape'
<1> DEFINE m == call[c].id
<1>1. Shape /\ Inv /\ Tables /\ Tables' /\ RowsKept(c)
  BY CommitRows DEF RowsInv, Inv
<1>2. /\ m \in Msg /\ rows'[m] # NoRow
      /\ call[c].kind = "send" => ~ IsRow(m)
      /\ call[c].kind # "send" => IsRow(m)
      /\ \A n \in Msg : rows'[n] # NoRow => IsRow(n) \/ n = m
  <2>1. CASE call[c].kind = "send"
    BY <1>1, <2>1, CommitSend DEF IsRow
  <2>2. CASE call[c].kind # "send"
    BY <1>1, <2>2, CommitChange, CommitPlaces DEF IsRow
  <2> QED
    BY <2>1, <2>2
<1> HIDE DEF m
<1>3. ASSUME NEW n \in Msg, rows'[n] # NoRow, rows'[n].root # NoMsg
      PROVE  rows'[n].root # n /\ rows'[rows'[n].root].root = NoMsg
  <2>1. CASE IsRow(n)
    <3>1. rows'[n].root = rows[n].root
      BY <1>1, <2>1 DEF RowsKept
    <3>2. rows[n].root \in Msg /\ IsRow(rows[n].root) /\ rows[n].root # n /\ rows[rows[n].root].root = NoMsg
      BY <1>1, <1>3, <2>1, <3>1, RowTypeFacts DEF Shape, Tables, IsRow
    <3> QED
      BY <1>1, <3>1, <3>2 DEF RowsKept
  <2>2. CASE ~ IsRow(n)
    <3>1. call[c].kind = "send" /\ n = m
      BY <1>2, <1>3, <2>2
    <3> QED
      BY <1>3, <3>1, CommitSend DEF m
  <2> QED
    BY <2>1, <2>2
<1>4. ASSUME NEW n \in Msg, rows'[n] # NoRow, rows'[n].deleted
      PROVE  rows'[n].body = 0 /\ rows'[n].reactions = {}
  <2>1. CASE call[c].kind = "send"
    <3>1. n # call[c].id /\ n # call[c].root
      BY <1>4, <2>1, CommitSend
    <3>2. rows'[n] = rows[n]
      BY <2>1, <3>1, CommitSend
    <3> QED
      BY <1>1, <1>4, <3>2 DEF Shape, IsRow
  <2>2. CASE call[c].kind # "send"
    <3>1. CASE n = call[c].id
      BY <1>4, <2>2, <3>1, CommitChange
    <3>2. CASE n # call[c].id /\ Counts(c) /\ n = rows[call[c].id].root
      <4>1. /\ IsRow(n) /\ rows'[n].deleted = rows[n].deleted /\ rows'[n].body = rows[n].body
            /\ rows'[n].reactions = rows[n].reactions
        BY <2>2, <3>2, CommitChange
      <4> QED
        BY <1>1, <1>4, <4>1 DEF Shape
    <3>3. CASE n # call[c].id /\ ~ (Counts(c) /\ n = rows[call[c].id].root)
      <4>1. rows'[n] = rows[n]
        BY <2>2, <3>3, CommitChange
      <4> QED
        BY <1>1, <1>4, <4>1 DEF Shape, IsRow
    <3> QED
      BY <3>1, <3>2, <3>3
  <2> QED
    BY <2>1, <2>2
<1>5. ASSUME NEW n \in Msg, rows'[n] = NoRow
      PROVE  reactors'[n] = {} /\ \A f \in File : claimed'[f] # n
  <2>1. n # m /\ ~ IsRow(n)
    BY <1>1, <1>2, <1>5 DEF RowsKept, IsRow
  <2>2. reactors[n] = {} /\ \A f \in File : claimed[f] # n
    BY <1>1, <2>1 DEF Shape
  <2>3. CASE call[c].kind = "send"
    BY <2>1, <2>2, <2>3, CommitSend DEF m
  <2>4. CASE call[c].kind # "send"
    BY <2>1, <2>2, <2>4, CommitChange DEF m
  <2> QED
    BY <2>3, <2>4
<1>6. IsFiniteSet(Written')
  <2>1. Written' \in SUBSET (Written \cup {m})
    BY <1>2 DEF Written, IsRow
  <2>2. IsFiniteSet(Written \cup {m})
    BY <1>1, FS_AddElement DEF Shape
  <2> QED
    BY <2>1, <2>2, FS_Subset
<1> QED
  BY <1>3, <1>4, <1>5, <1>6 DEF Shape, IsRow

LEMMA CommitOwn ==
  ASSUME RowsInv, Inv', NEW c \in Call, Commit(c)
  PROVE  RowsInv'
<1>1. /\ Inv /\ RowsKept(c)
      /\ call'[c].pc = "done" /\ call'[c].answer = "ok" /\ held'[c] = {} /\ DOMAIN work'[c] = {}
      /\ call'[c].kind = call[c].kind /\ call'[c].id = call[c].id /\ call'[c].root = call[c].root
      /\ \A d \in Call \ {c} : call'[d] = call[d] /\ held'[d] = held[d] /\ work'[d] = work[d]
  BY CommitRows, EndFacts DEF RowsInv, Commit
<1>2. Own(c)'
  <2>1. Own(c)
    BY DEF RowsInv
  <2> QED
    BY <1>1, <2>1 DEF Own, Locked, Rooted, Sending, SendWork, ChangeWork, At
<1>3. ASSUME NEW d \in Call, d # c PROVE Own(d)'
  <2>1. /\ Own(d) /\ CallInv(d) /\ Tables /\ Shape
        /\ call'[d] = call[d] /\ held'[d] = held[d] /\ work'[d] = work[d]
    BY <1>1, <1>3 DEF RowsInv, Inv
  <2>2. /\ \A n \in Msg : RowKey(n) \in held[d] => rows'[n] = rows[n] /\ reactors'[n] = reactors[n]
        /\ \A f \in File : FileKey(f) \in held[d] => claimed'[f] = claimed[f]
    BY <1>3, CommitElse
  <2>3. Locked(d)'
    BY <1>1, <2>1 DEF Own, Locked, RowsKept, IsRow, RowKey
  <2>4. call[d].root \in Msg \cup {NoMsg} /\ call[d].files \subseteq File
    BY <2>1 DEF CallInv, Request, CallType
  <2>5. Rooted(d)'
    <3> SUFFICES ASSUME call[d].kind = "send", call[d].root # NoMsg
                 PROVE  /\ call[d].root # call[d].id
                        /\ Sending(d) => rows'[call[d].root].root = NoMsg
                        /\ call[d].pc \in {"files", "commit"} =>
                             RowKey(call[d].root) \in held[d] /\ ~ rows'[call[d].root].deleted
      BY <2>1 DEF Rooted, Sending, RowKey
    <3>1. /\ call[d].root # call[d].id
          /\ Sending(d) => rows[call[d].root].root = NoMsg /\ IsRow(call[d].root)
          /\ call[d].pc \in {"files", "commit"} =>
               RowKey(call[d].root) \in held[d] /\ ~ rows[call[d].root].deleted
      BY <2>1 DEF Own, Rooted, CallInv, SendOK
    <3>2. Sending(d) => rows'[call[d].root].root = rows[call[d].root].root
      BY <1>1, <2>4, <3>1 DEF RowsKept
    <3> QED
      BY <2>2, <2>4, <3>1, <3>2
  <2>6. SendWork(d)'
    <3> SUFFICES ASSUME call[d].pc = "commit", call[d].kind = "send"
                 PROVE  /\ DOMAIN work[d] = {call[d].id} \cup ({call[d].root} \ {NoMsg})
                        /\ Posted(d) = NewRow(d, Posted(d).seq)
                        /\ call[d].root # NoMsg =>
                             work[d][call[d].root] = [rows'[call[d].root] EXCEPT !.replies = rows'[call[d].root].replies + 1,
                                                                                 !.updated = call[d].start]
                        /\ \A f \in call[d].files : FileKey(f) \in held[d] /\ claimed'[f] = NoMsg
      BY <2>1 DEF SendWork, At, Posted, NewRow, Counted, FileKey
    <3>1. /\ DOMAIN work[d] = {call[d].id} \cup ({call[d].root} \ {NoMsg})
          /\ Posted(d) = NewRow(d, Posted(d).seq)
          /\ call[d].root # NoMsg =>
               work[d][call[d].root] = Counted(d, call[d].root, rows[call[d].root].replies + 1)
          /\ \A f \in call[d].files : FileKey(f) \in held[d] /\ claimed[f] = NoMsg
      BY <2>1 DEF Own, SendWork, At
    <3>2. call[d].root # NoMsg => rows'[call[d].root] = rows[call[d].root]
      BY <2>1, <2>2, <2>4 DEF Own, Rooted
    <3> QED
      BY <2>2, <2>4, <3>1, <3>2 DEF Counted
  <2>7. ChangeWork(d)'
    <3> DEFINE m == call[d].id  root == rows[m].root
    <3> SUFFICES ASSUME call[d].pc \in {"count", "commit"}, call[d].kind # "send"
                 PROVE  ChangeWork(d)'
      BY <2>1 DEF ChangeWork
    <3>1. /\ m \in DOMAIN work[d] /\ RowKey(m) \in held[d] /\ ~ rows[m].deleted
          /\ work[d][m] = Changed(d)
          /\ At(d, "count") => Counts(d) /\ DOMAIN work[d] = {m}
          /\ At(d, "commit") /\ ~ Counts(d) => DOMAIN work[d] = {m}
          /\ At(d, "commit") /\ Counts(d) =>
               /\ DOMAIN work[d] = {m, root}
               /\ work[d][root] = Counted(d, root, IF rows[root].replies > 0 THEN rows[root].replies - 1 ELSE 0)
      BY <2>1 DEF Own, ChangeWork
    <3>2. m \in Msg /\ IsRow(m)
      BY <2>1, <3>1 DEF CallInv, Writes, Own, Locked
    <3>3. rows'[m] = rows[m] /\ reactors'[m] = reactors[m]
      BY <2>2, <3>1, <3>2
    <3>4. Changed(d)' = Changed(d) /\ Counts(d)' = Counts(d)
      BY <2>1, <3>3 DEF Changed, Toggled, Counts
    <3>5. Counts(d) => root \in Msg /\ root # m
      BY <2>1, <3>2, RowTypeFacts DEF Counts, Shape, Tables, IsRow
    <3>6. At(d, "commit") /\ Counts(d) => rows'[root] = rows[root]
      <4> SUFFICES ASSUME At(d, "commit"), Counts(d) PROVE rows'[root] = rows[root]
        OBVIOUS
      <4>1. RowKey(root) \in held[d]
        BY <2>1, <3>1, <3>5 DEF Own, Locked
      <4> QED
        BY <2>2, <3>5, <4>1
    <3>7. At(d, "commit") /\ Counts(d) =>
            work[d][root] = [rows'[root] EXCEPT !.replies = IF rows'[root].replies > 0 THEN rows'[root].replies - 1 ELSE 0,
                                                !.updated = call[d].start]
      BY <3>1, <3>6 DEF Counted
    <3>8. rows'[m].root = root /\ ~ rows'[m].deleted
      BY <3>1, <3>3
    <3> HIDE DEF m, root
    <3> QED
      BY <2>1, <3>1, <3>4, <3>7, <3>8 DEF ChangeWork, At, RowKey, Counted, m
  <2>8. call'[d].answer # "duplicate_key"
    BY <2>1 DEF Own
  <2> QED
    BY <2>3, <2>5, <2>6, <2>7, <2>8 DEF Own
<1>4. Shape'
  BY CommitShape
<1> QED
  BY <1>2, <1>3, <1>4 DEF RowsInv

LEMMA RowsInit == Init => RowsInv
<1> SUFFICES ASSUME Init PROVE RowsInv
  OBVIOUS
<1>1. Inv
  BY InitInv
<1>2. Shape
  <2>1. Written = {}
    BY DEF Init, Written, IsRow
  <2>2. IsFiniteSet(Written)
    BY <2>1, FS_EmptySet
  <2> QED
    BY <2>2 DEF Init, Shape, IsRow
<1>3. ASSUME NEW c \in Call PROVE Own(c)
  <2>1. call[c] = Idle /\ held[c] = {} /\ DOMAIN work[c] = {}
    BY DEF Init
  <2> QED
    BY <2>1 DEF Own, Locked, Rooted, Sending, SendWork, ChangeWork, At, Idle
<1> QED
  BY <1>1, <1>2, <1>3 DEF RowsInv

LEMMA RowsNext ==
  ASSUME RowsInv, [Next]_vars
  PROVE  RowsInv'
<1>1. Inv'
  BY NextInv DEF RowsInv
<1>2. CASE UNCHANGED vars
  <2>1. UNCHANGED <<call, held, work, table>>
    BY <1>2 DEF vars
  <2>2. Shape'
    BY <2>1 DEF RowsInv, Shape, Written, IsRow, table
  <2>3. ASSUME NEW d \in Call PROVE Own(d)'
    BY <2>1, OwnKept DEF RowsInv
  <2> QED
    BY <1>1, <2>2, <2>3 DEF RowsInv
<1>3. ASSUME NEW c \in Call, Start(c) PROVE RowsInv'
  BY <1>1, <1>3, StartOwn
<1>4. ASSUME NEW c \in Call, Step(c) PROVE RowsInv'
  BY <1>1, <1>4, LockOwn, InsertOwn, ChangeOwn, CountOwn, CommitOwn DEF Step
<1> QED
  BY <1>2, <1>3, <1>4 DEF Next

\* What a transaction has written still fits the committed tables, until it ends.
THEOREM RowsInvariance == Spec => []RowsInv
BY RowsInit, RowsNext, PTL DEF Spec

\* The message of a send is there, in the conversation it is for.
Stored(c) == call[c].id \in Msg /\ IsRow(call[c].id) /\ rows[call[c].id].ch = call[c].ch

Answered(c) == call[c].kind = "send" /\ call[c].answer = "ok" => Stored(c)

\* Short of a commit, a send ends well only with the row that its look-up found.
LEMMA EndsWell ==
  ASSUME Inv, NEW c \in Call, Step(c), ~ Commit(c)
  PROVE  /\ \A d \in Call \ {c} : call'[d] = call[d]
         /\ call'[c].kind = call[c].kind /\ call'[c].id = call[c].id /\ call'[c].ch = call[c].ch
         /\ call'[c].answer = call[c].answer \/ call'[c].answer # "ok" \/ call[c].kind # "send" \/ Stored(c)
<1> DEFINE Fine == call[c].kind # "send" \/ Stored(c)
           Goal == /\ \A d \in Call \ {c} : call'[d] = call[d]
                   /\ call'[c].kind = call[c].kind /\ call'[c].id = call[c].id /\ call'[c].ch = call[c].ch
                   /\ call'[c].answer = call[c].answer \/ call'[c].answer # "ok" \/ Fine
<1> SUFFICES Goal
  OBVIOUS
<1> HIDE DEF Fine
<1>1. ASSUME NEW pc, Goto(c, pc) PROVE Goal
  BY <1>1, GotoFacts
<1>2. ASSUME NEW answer, End(c, answer), answer # "ok" \/ Fine PROVE Goal
  BY <1>2, EndFacts
<1> HIDE DEF Goal
<1>3. ASSUME NEW code, code # "ok", Fail(c, code) PROVE Goal
  BY <1>2, <1>3 DEF Fail
<1>4. ASSUME Return(c), Fine PROVE Goal
  BY <1>2, <1>4 DEF Return
<1>5. Request(c)
  BY DEF Inv, CallInv
<1>6. CASE RateHit(c) \/ SendLockRoot(c) \/ SendFilesTaken(c)
  BY <1>1, <1>3, <1>6 DEF RateHit, SendLockRoot, SendFilesTaken
<1>7. CASE SendLook(c)
  <2>1. CASE Stored(c)
    BY <1>1, <1>3, <1>4, <1>7, <2>1 DEF SendLook, Look, Fine
  <2>2. CASE ~ Stored(c)
    <3>1. call[c].id \in Msg
      BY <1>5, <1>7 DEF SendLook, At, Request
    <3> QED
      BY <1>1, <1>3, <1>7, <2>2, <3>1 DEF SendLook, Look, Stored
  <2> QED
    BY <2>1, <2>2
<1>8. CASE SendInsert(c) \/ DeleteCount(c)
  BY <1>1, <1>3, <1>8 DEF SendInsert, Insert, DeleteCount
<1>9. CASE ChangeRead(c) \/ ChangeRow(c)
  <2>1. Fine
    BY <1>5, <1>9 DEF ChangeRead, ChangeRow, At, Request, Fine
  <2> QED
    BY <1>1, <1>3, <1>4, <1>9, <2>1 DEF ChangeRead, ChangeRow, Change
<1>10. CASE SendLockFile(c) \/ Follow(c)
  BY <1>10 DEF SendLockFile, Follow, Goal
<1>11. CASE Abort(c)
  BY <1>2, <1>11 DEF Abort
<1> QED
  BY <1>6, <1>7, <1>8, <1>9, <1>10, <1>11 DEF Step

\* A transaction starts without an answer.
LEMMA StartsUnanswered ==
  ASSUME Inv, NEW c \in Call, Start(c)
  PROVE  call'[c].answer = "none" /\ \A d \in Call \ {c} : call'[d] = call[d]
<1>1. ASSUME NEW r, Begin(c, r), "answer" \in DOMAIN r, r.answer = "none"
      PROVE  call'[c].answer = "none" /\ \A d \in Call \ {c} : call'[d] = call[d]
  <2>1. call'[c] = [r EXCEPT !.pc = IF r.kind = "delete" THEN "read" ELSE "rate", !.start = clock]
        /\ \A d \in Call \ {c} : call'[d] = call[d]
    BY <1>1 DEF Begin, Inv, Domains
  <2> QED
    BY <1>1, <2>1
<1>2. "answer" \in DOMAIN Idle /\ Idle.answer = "none"
  BY DEF Idle
<1>3. ASSUME NEW m, NEW ch, NEW root, NEW files, NEW mentions, BeginSend(c, m, ch, root, files, mentions)
      PROVE  call'[c].answer = "none" /\ \A d \in Call \ {c} : call'[d] = call[d]
  BY <1>1, <1>2, <1>3 DEF BeginSend
<1>4. ASSUME NEW m, NEW body, NEW mentions, BeginEdit(c, m, body, mentions)
      PROVE  call'[c].answer = "none" /\ \A d \in Call \ {c} : call'[d] = call[d]
  BY <1>1, <1>2, <1>4 DEF BeginEdit
<1>5. ASSUME NEW m, BeginDelete(c, m)
      PROVE  call'[c].answer = "none" /\ \A d \in Call \ {c} : call'[d] = call[d]
  BY <1>1, <1>2, <1>5 DEF BeginDelete
<1>6. ASSUME NEW u, NEW m, NEW on, BeginReact(c, u, m, on)
      PROVE  call'[c].answer = "none" /\ \A d \in Call \ {c} : call'[d] = call[d]
  BY <1>1, <1>2, <1>6 DEF BeginReact
<1> QED
  BY <1>3, <1>4, <1>5, <1>6 DEF Start

LEMMA AnsweredNext ==
  ASSUME Inv, \A c \in Call : Answered(c), [Next]_vars
  PROVE  \A c \in Call : Answered(c)'
<1>1. CASE UNCHANGED vars
  BY <1>1 DEF vars, table, Answered, Stored, IsRow
<1>2. ASSUME NEW c \in Call, Start(c) PROVE \A d \in Call : Answered(d)'
  <2>1. rows' = rows
    BY <1>2, StartQuiet DEF table
  <2> QED
    BY <1>2, <2>1, StartsUnanswered DEF Answered, Stored, IsRow
<1>3. ASSUME NEW c \in Call, Step(c), ~ Commit(c) PROVE \A d \in Call : Answered(d)'
  <2>1. rows' = rows
    BY <1>3, StepQuiet DEF table
  <2> QED
    BY <1>3, <2>1, EndsWell DEF Answered, Stored, IsRow
<1>4. ASSUME NEW c \in Call, Commit(c) PROVE \A d \in Call : Answered(d)'
  <2>1. /\ call'[c].kind = call[c].kind /\ call'[c].id = call[c].id /\ call'[c].ch = call[c].ch
        /\ \A d \in Call \ {c} : call'[d] = call[d]
    BY <1>4, EndFacts DEF Commit
  <2>2. Answered(c)'
    BY <1>4, <2>1, CommitPlaces DEF Answered, Stored, IsRow
  <2>3. ASSUME NEW d \in Call \ {c} PROVE Answered(d)'
    <3>1. call'[d] = call[d] /\ Answered(d) /\ RowsKept(c)
      BY <1>4, <2>1, CommitPlaces
    <3>2. CASE ~ (call[d].kind = "send" /\ call[d].answer = "ok")
      BY <3>1, <3>2 DEF Answered
    <3>3. CASE Stored(d)
      BY <3>1, <3>3 DEF Answered, Stored, RowsKept, IsRow
    <3> QED
      BY <3>1, <3>2, <3>3 DEF Answered
  <2> QED
    BY <2>2, <2>3
<1> QED
  BY <1>1, <1>2, <1>3, <1>4 DEF Next

\* A send that is answered "ok", the first copy or a later one, has its row in the
\* conversation it was for; and the unique index on (author_id, client_id) never refuses
\* an insert, because the advisory lock of the client_id is held from the look-up to the
\* commit.
THEOREM ReplayAnswered == Spec => []ReplayIsAnswered
<1> DEFINE AllAnswered == \A c \in Call : Answered(c)
<1>1. Init => AllAnswered
  BY DEF Init, Answered, Idle
<1>2. RowsInv /\ AllAnswered /\ [Next]_vars => AllAnswered'
  BY AnsweredNext DEF RowsInv
<1>3. RowsInv /\ AllAnswered => ReplayIsAnswered
  BY DEF RowsInv, Own, ReplayIsAnswered, Answered, Stored
<1> HIDE DEF AllAnswered
<1> QED
  BY <1>1, <1>2, <1>3, RowsInvariance, PTL DEF Spec

-----------------------------------------------------------------------------
(* The reactions, the files and deletion.                                  *)

\* The map of reactions on a message is what the reactions table says, whoever toggles
\* at the same time.
THEOREM ReactionsAlwaysShown == Spec => []ReactionsShown
<1>1. Init => ReactionsShown
  BY DEF Init, ReactionsShown, IsRow
<1>2. RowsInv /\ ReactionsShown /\ [Next]_vars => ReactionsShown'
  <2> SUFFICES ASSUME RowsInv, ReactionsShown, [Next]_vars, NEW n \in Msg, rows'[n] # NoRow
               PROVE  rows'[n].reactions = reactors'[n]
    BY DEF ReactionsShown, IsRow
  <2>1. ASSUME NEW c \in Call, Commit(c), call[c].kind = "send" PROVE rows'[n].reactions = reactors'[n]
    <3>1. CASE n = call[c].id
      BY <2>1, <3>1, CommitSend DEF RowsInv, Shape
    <3>2. CASE n # call[c].id /\ n = call[c].root
      <4>1. IsRow(n) /\ rows'[n].reactions = rows[n].reactions /\ reactors'[n] = reactors[n]
        BY <2>1, <3>2, CommitSend
      <4> QED
        BY <4>1 DEF ReactionsShown
    <3>3. CASE n # call[c].id /\ n # call[c].root
      <4>1. rows'[n] = rows[n] /\ reactors'[n] = reactors[n]
        BY <2>1, <3>3, CommitSend
      <4> QED
        BY <4>1 DEF ReactionsShown, IsRow
    <3> QED
      BY <3>1, <3>2, <3>3
  <2>2. ASSUME NEW c \in Call, Commit(c), call[c].kind # "send" PROVE rows'[n].reactions = reactors'[n]
    <3>1. CASE n = call[c].id
      BY <2>2, <3>1, CommitChange DEF ReactionsShown
    <3>2. CASE n # call[c].id /\ Counts(c) /\ n = rows[call[c].id].root
      <4>1. IsRow(n) /\ rows'[n].reactions = rows[n].reactions /\ reactors'[n] = reactors[n]
        BY <2>2, <3>2, CommitChange
      <4> QED
        BY <4>1 DEF ReactionsShown
    <3>3. CASE n # call[c].id /\ ~ (Counts(c) /\ n = rows[call[c].id].root)
      <4>1. rows'[n] = rows[n] /\ reactors'[n] = reactors[n]
        BY <2>2, <3>3, CommitChange
      <4> QED
        BY <4>1 DEF ReactionsShown, IsRow
    <3> QED
      BY <3>1, <3>2, <3>3
  <2>3. CASE ~ \E c \in Call : Commit(c)
    BY <2>3, QuietSteps DEF RowsInv, ReactionsShown, IsRow, table
  <2> QED
    BY <2>1, <2>2, <2>3
<1> QED
  BY <1>1, <1>2, RowsInvariance, PTL DEF Spec

\* A file belongs to the one message that counts it, whoever sends it at the same time.
THEOREM FilesAlwaysClaimedOnce == Spec => []FilesClaimedOnce
<1>1. Init => FilesClaimedOnce
  BY DEF Init, FilesClaimedOnce, IsRow
<1>2. RowsInv /\ FilesClaimedOnce /\ [Next]_vars => FilesClaimedOnce'
  <2> SUFFICES ASSUME RowsInv, FilesClaimedOnce, [Next]_vars, NEW n \in Msg, NEW f \in File, rows'[n] # NoRow
               PROVE  f \in rows'[n].files <=> claimed'[f] = n
    BY DEF FilesClaimedOnce, IsRow
  <2>1. ASSUME NEW c \in Call, Commit(c), call[c].kind = "send" PROVE f \in rows'[n].files <=> claimed'[f] = n
    <3>1. CASE n = call[c].id
      <4>1. rows'[n].files = call[c].files /\ ~ IsRow(n)
            /\ claimed'[f] = (IF f \in call[c].files THEN n ELSE claimed[f])
        BY <2>1, <3>1, CommitSend
      <4>2. claimed[f] # n
        BY <4>1 DEF RowsInv, Shape
      <4> QED
        BY <4>1, <4>2
    <3>2. CASE n # call[c].id
      <4>1. IsRow(n) /\ rows'[n].files = rows[n].files
        <5>1. CASE n = call[c].root
          BY <2>1, <3>2, <5>1, CommitSend
        <5>2. CASE n # call[c].root
          <6>1. rows'[n] = rows[n]
            BY <2>1, <3>2, <5>2, CommitSend
          <6> QED
            BY <6>1 DEF IsRow
        <5> QED
          BY <5>1, <5>2
      <4>2. /\ claimed'[f] = IF f \in call[c].files THEN call[c].id ELSE claimed[f]
            /\ f \in call[c].files => claimed[f] = NoMsg
        BY <2>1, CommitSend
      <4>3. f \in rows[n].files <=> claimed[f] = n
        BY <4>1 DEF FilesClaimedOnce
      <4> QED
        BY <3>2, <4>1, <4>2, <4>3
    <3> QED
      BY <3>1, <3>2
  <2>2. ASSUME NEW c \in Call, Commit(c), call[c].kind # "send" PROVE f \in rows'[n].files <=> claimed'[f] = n
    <3>1. IsRow(n) /\ rows'[n].files = rows[n].files /\ claimed' = claimed
      <4>1. CASE n = call[c].id
        BY <2>2, <4>1, CommitChange
      <4>2. CASE n # call[c].id /\ Counts(c) /\ n = rows[call[c].id].root
        BY <2>2, <4>2, CommitChange
      <4>3. CASE n # call[c].id /\ ~ (Counts(c) /\ n = rows[call[c].id].root)
        <5>1. rows'[n] = rows[n] /\ claimed' = claimed
          BY <2>2, <4>3, CommitChange
        <5> QED
          BY <5>1 DEF IsRow
      <4> QED
        BY <4>1, <4>2, <4>3
    <3> QED
      BY <3>1 DEF FilesClaimedOnce
  <2>3. CASE ~ \E c \in Call : Commit(c)
    BY <2>3, QuietSteps DEF RowsInv, FilesClaimedOnce, IsRow, table
  <2> QED
    BY <2>1, <2>2, <2>3
<1> QED
  BY <1>1, <1>2, RowsInvariance, PTL DEF Spec

\* Deletion is final: no edit, toggle or reply that was under way when a message was
\* deleted brings anything of it back, or adds a reply to it.
THEOREM DeletionIsFinal == Spec => DeletedIsFinal
<1>1. ASSUME RowsInv, [Next]_vars, NEW n \in Msg, IsRow(n), rows[n].deleted
      PROVE  /\ rows'[n].deleted /\ rows'[n].body = 0 /\ rows'[n].reactions = {}
             /\ rows'[n].replies <= rows[n].replies
  <2>1. rows[n].body = 0 /\ rows[n].reactions = {} /\ rows[n].replies \in Nat
    BY <1>1, RowTypeFacts DEF RowsInv, Shape, Inv, Tables, IsRow
  <2>2. CASE rows'[n] = rows[n]
    BY <1>1, <2>1, <2>2
  <2>3. ASSUME NEW c \in Call, Commit(c), call[c].kind = "send" PROVE rows'[n] = rows[n]
    <3>1. n # call[c].id /\ n # call[c].root
      BY <1>1, <2>3, CommitSend
    <3> QED
      BY <1>1, <2>3, <3>1, CommitSend
  <2>4. ASSUME NEW c \in Call, Commit(c), call[c].kind # "send", rows'[n] # rows[n]
        PROVE  /\ rows'[n].deleted /\ rows'[n].body = 0 /\ rows'[n].reactions = {}
               /\ rows'[n].replies <= rows[n].replies
    <3>1. n # call[c].id
      BY <1>1, <2>4, CommitChange
    <3>2. Counts(c) /\ n = rows[call[c].id].root
      BY <1>1, <2>4, <3>1, CommitChange
    <3>3. /\ rows'[n].deleted = rows[n].deleted /\ rows'[n].body = rows[n].body
          /\ rows'[n].reactions = rows[n].reactions
          /\ rows'[n].replies = IF rows[n].replies > 0 THEN rows[n].replies - 1 ELSE 0
      BY <1>1, <2>4, <3>2, CommitChange
    <3> QED
      BY <1>1, <2>1, <3>3
  <2>5. CASE ~ \E c \in Call : Commit(c)
    <3>1. rows'[n] = rows[n]
      BY <1>1, <2>5, QuietSteps DEF RowsInv, table
    <3> QED
      BY <2>2, <3>1
  <2> QED
    BY <2>2, <2>3, <2>4, <2>5
<1>2. RowsInv /\ [Next]_vars =>
        [\A m \in Msg : IsRow(m) /\ rows[m].deleted =>
           /\ rows'[m].deleted /\ rows'[m].body = 0 /\ rows'[m].reactions = {}
           /\ rows'[m].replies <= rows[m].replies]_vars
  BY <1>1
<1> QED
  BY <1>2, RowsInvariance, PTL DEF Spec, DeletedIsFinal

-----------------------------------------------------------------------------
(* The counter under the root of a thread.                                 *)

Replies(r) == {m \in Msg : IsRow(m) /\ rows[m].root = r /\ ~ rows[m].deleted}

LEMMA RepliesFinite ==
  ASSUME Shape, NEW r
  PROVE  IsFiniteSet(Replies(r))
<1>1. Replies(r) \in SUBSET Written
  BY DEF Replies, Written
<1> QED
  BY <1>1, FS_Subset DEF Shape

\* A send is one more reply of its root, and of no other message.
LEMMA SendCounts ==
  ASSUME RowsInv, RepliesCounted, NEW c \in Call, Commit(c), call[c].kind = "send",
         NEW r \in Msg, rows'[r] # NoRow
  PROVE  rows'[r].replies = Cardinality(Replies(r)')
<1> DEFINE m == call[c].id
<1>1. Inv /\ Tables /\ Shape /\ NoMsg \notin Msg
  BY DEF RowsInv, Inv
<1>2. /\ m \in Msg /\ ~ IsRow(m) /\ rows'[m] # NoRow /\ rows'[m].root = call[c].root /\ ~ rows'[m].deleted
      /\ rows'[m].replies = 0
      /\ call[c].root # NoMsg =>
           /\ call[c].root \in Msg /\ call[c].root # m /\ IsRow(call[c].root) /\ rows[call[c].root].root = NoMsg
           /\ rows'[call[c].root] # NoRow /\ rows'[call[c].root].root = NoMsg
           /\ rows'[call[c].root].replies = rows[call[c].root].replies + 1
      /\ \A n \in Msg \ {m, call[c].root} : rows'[n] = rows[n]
  BY CommitSend
<1> HIDE DEF m
<1>3. \A n \in Msg \ {m} : n \in Replies(r)' <=> n \in Replies(r)
  <2> SUFFICES ASSUME NEW n \in Msg \ {m} PROVE n \in Replies(r)' <=> n \in Replies(r)
    OBVIOUS
  <2>1. CASE n = call[c].root
    <3>1. n \notin Replies(r)
      BY <1>1, <1>2, <2>1 DEF Replies
    <3>2. n \notin Replies(r)'
      BY <1>1, <1>2, <2>1 DEF Replies
    <3> QED
      BY <3>1, <3>2
  <2>2. CASE n # call[c].root
    <3>1. rows'[n] = rows[n]
      BY <1>2, <2>2
    <3> QED
      BY <3>1 DEF Replies, IsRow
  <2> QED
    BY <2>1, <2>2
<1>4. m \notin Replies(r) /\ (m \in Replies(r)' <=> r = call[c].root)
  BY <1>2 DEF Replies, IsRow
<1>5. Replies(r) \subseteq Msg /\ Replies(r)' \subseteq Msg
  BY DEF Replies
<1>6. CASE r = call[c].root
  <2>1. Replies(r)' = Replies(r) \cup {m}
    BY <1>2, <1>3, <1>4, <1>5, <1>6
  <2>2. Cardinality(Replies(r)') = Cardinality(Replies(r)) + 1
    BY <1>1, <1>4, <2>1, RepliesFinite, FS_AddElement
  <2>3. IsRow(r) /\ rows'[r].replies = rows[r].replies + 1
    BY <1>1, <1>2, <1>6
  <2>4. rows[r].replies = Cardinality(Replies(r))
    BY <2>3 DEF RepliesCounted, Replies
  <2> QED
    BY <2>2, <2>3, <2>4
<1>7. CASE r # call[c].root /\ r # m
  <2>1. Replies(r)' = Replies(r)
    <3>1. \A n \in Msg : n \in Replies(r)' <=> n \in Replies(r)
      BY <1>3, <1>4, <1>7
    <3> QED
      BY <1>5, <3>1
  <2>2. rows'[r] = rows[r] /\ IsRow(r)
    BY <1>2, <1>7 DEF IsRow
  <2> QED
    BY <2>1, <2>2 DEF RepliesCounted, Replies
<1>8. CASE r = m
  <2>1. Replies(r) = {}
    BY <1>1, <1>2, <1>8 DEF Replies, Tables
  <2>2. r # call[c].root
    BY <1>1, <1>2, <1>8
  <2>3. Replies(r)' = {}
    BY <1>3, <1>4, <1>5, <2>1, <2>2
  <2> QED
    BY <1>2, <1>8, <2>3, FS_EmptySet
<1> QED
  BY <1>6, <1>7, <1>8

\* The deletion of a reply takes it from the replies of its root; no other change moves
\* a reply.
LEMMA ChangeCounts ==
  ASSUME RowsInv, RepliesCounted, NEW c \in Call, Commit(c), call[c].kind # "send",
         NEW r \in Msg, rows'[r] # NoRow
  PROVE  rows'[r].replies = Cardinality(Replies(r)')
<1> DEFINE m == call[c].id  root == rows[m].root
<1>1. Inv /\ Tables /\ Shape /\ NoMsg \notin Msg
  BY DEF RowsInv, Inv
<1>2. /\ m \in Msg /\ IsRow(m) /\ ~ rows[m].deleted /\ rows'[m] # NoRow /\ rows'[m].root = root
      /\ rows'[m].replies = rows[m].replies
      /\ rows'[m].deleted <=> call[c].kind = "delete"
      /\ Counts(c) =>
           /\ root \in Msg /\ root # m /\ IsRow(root)
           /\ rows'[root] # NoRow /\ rows'[root].root = rows[root].root /\ rows'[root].deleted = rows[root].deleted
           /\ rows'[root].replies = IF rows[root].replies > 0 THEN rows[root].replies - 1 ELSE 0
      /\ \A n \in Msg \ {m} : (Counts(c) /\ n = root) \/ rows'[n] = rows[n]
  BY CommitChange
<1>3. Counts(c) <=> call[c].kind = "delete" /\ root # NoMsg
  BY DEF Counts
<1> HIDE DEF m, root
<1>4. \A n \in Msg \ {m} : n \in Replies(r)' <=> n \in Replies(r)
  <2> SUFFICES ASSUME NEW n \in Msg \ {m} PROVE n \in Replies(r)' <=> n \in Replies(r)
    OBVIOUS
  <2>1. CASE Counts(c) /\ n = root
    BY <1>2, <2>1 DEF Replies, IsRow
  <2>2. CASE rows'[n] = rows[n]
    BY <2>2 DEF Replies, IsRow
  <2> QED
    BY <1>2, <2>1, <2>2
<1>5. (m \in Replies(r) <=> r = root) /\ (m \in Replies(r)' <=> r = root /\ call[c].kind # "delete")
  BY <1>2 DEF Replies, IsRow, root
<1>6. Replies(r) \subseteq Msg /\ Replies(r)' \subseteq Msg
  BY DEF Replies
<1>7. CASE Counts(c) /\ r = root
  <2>1. Replies(r)' = Replies(r) \ {m}
    BY <1>3, <1>4, <1>5, <1>6, <1>7
  <2>2. Cardinality(Replies(r)') = Cardinality(Replies(r)) - 1 /\ Cardinality(Replies(r)) \in Nat
        /\ Cardinality(Replies(r)') \in Nat
    <3>1. IsFiniteSet(Replies(r)) /\ m \in Replies(r)
      BY <1>1, <1>5, <1>7, RepliesFinite
    <3>2. /\ IsFiniteSet(Replies(r) \ {m})
          /\ Cardinality(Replies(r) \ {m}) = Cardinality(Replies(r)) - 1
      BY <3>1, FS_RemoveElement
    <3>3. Cardinality(Replies(r)) \in Nat /\ Cardinality(Replies(r) \ {m}) \in Nat
      BY <3>1, <3>2, FS_CardinalityType
    <3> QED
      BY <2>1, <3>2, <3>3
  <2>3. rows[r].replies = Cardinality(Replies(r))
    BY <1>2, <1>7 DEF RepliesCounted, Replies
  <2>4. rows'[r].replies = IF rows[r].replies > 0 THEN rows[r].replies - 1 ELSE 0
    BY <1>2, <1>7
  <2> QED
    BY <2>2, <2>3, <2>4
<1>8. CASE ~ (Counts(c) /\ r = root)
  <2>1. Replies(r)' = Replies(r)
    <3>1. m \in Replies(r)' <=> m \in Replies(r)
      BY <1>1, <1>3, <1>5, <1>8
    <3>2. \A n \in Msg : n \in Replies(r)' <=> n \in Replies(r)
      BY <1>4, <3>1
    <3> QED
      BY <1>6, <3>2
  <2>2. IsRow(r) /\ rows'[r].replies = rows[r].replies
    <3>1. CASE r = m
      BY <1>2, <3>1
    <3>2. CASE r # m
      BY <1>2, <1>8, <3>2 DEF IsRow
    <3> QED
      BY <3>1, <3>2
  <2> QED
    BY <2>1, <2>2 DEF RepliesCounted, Replies
<1> QED
  BY <1>7, <1>8

\* The counter under the root of a thread is the number of its replies that are not
\* deleted, however many people reply and delete at the same time.
THEOREM RepliesAlwaysCounted == Spec => []RepliesCounted
<1>1. Init => RepliesCounted
  BY DEF Init, RepliesCounted, IsRow
<1>2. RowsInv /\ RepliesCounted /\ [Next]_vars => RepliesCounted'
  <2> SUFFICES ASSUME RowsInv, RepliesCounted, [Next]_vars PROVE RepliesCounted'
    OBVIOUS
  <2>1. CASE \E c \in Call : Commit(c)
    <3>1. \A r \in Msg : rows'[r] # NoRow => rows'[r].replies = Cardinality(Replies(r)')
      BY <2>1, SendCounts, ChangeCounts
    <3> QED
      BY <3>1 DEF RepliesCounted, Replies, IsRow
  <2>2. CASE ~ \E c \in Call : Commit(c)
    <3>1. rows' = rows
      BY <2>2, QuietSteps DEF RowsInv, table
    <3> QED
      BY <3>1 DEF RepliesCounted, IsRow
  <2> QED
    BY <2>1, <2>2
<1> QED
  BY <1>1, <1>2, RowsInvariance, PTL DEF Spec

-----------------------------------------------------------------------------
(* No circle of waits without an edit that brings people into a thread.  The others take
   their locks in one order: the rate bucket, the client_id, a reply before its root, the
   files by id, the counter of the conversation, the followers of the thread.  The invariant says which locks a transaction can hold at
   each place of its program; the theorem follows the order from its top. *)

\* What c can hold where it is.
Stage(c) ==
  /\ At(c, "rate") => held[c] = {}
  /\ At(c, "root") => call[c].root # NoMsg
  /\ \A m \in Msg : ClientKey(m) \in held[c] => call[c].pc \in {"root", "files", "commit"}
  /\ \A m \in Msg : RowKey(m) \in held[c] =>
       \/ call[c].pc \in {"files", "commit"}
       \/ At(c, "count") /\ m = call[c].id
  /\ \A f \in File : FileKey(f) \in held[c] =>
       \/ At(c, "commit")
       \/ At(c, "files") /\ \A g \in ToLock(c) : f < g
  /\ \A ch \in Channel : StateKey(ch) \in held[c] => At(c, "commit")
  /\ \A m \in Msg : \A u : FollowKey(m, u) \in held[c] =>
       At(c, "commit") /\ (call[c].kind = "edit" \/ (call[c].kind = "send" /\ call[c].root = m))

\* There are only so many transactions at any time.
Started == {c \in Call : ~ At(c, "idle")}

LocksInv == RowsInv /\ IsFiniteSet(Started) /\ \A c \in Call : Stage(c)

-----------------------------------------------------------------------------
LEMMA Keys ==
  /\ \A c \in Call : \A x : /\ RateKey(c) # ClientKey(x) /\ RateKey(c) # RowKey(x)
                            /\ RateKey(c) # FileKey(x) /\ RateKey(c) # StateKey(x)
                            /\ \A u : RateKey(c) # FollowKey(x, u)
  /\ \A x, y : /\ ClientKey(x) # RowKey(y) /\ ClientKey(x) # FileKey(y) /\ ClientKey(x) # StateKey(y)
               /\ RowKey(x) # FileKey(y) /\ RowKey(x) # StateKey(y) /\ FileKey(x) # StateKey(y)
  /\ \A x, y : /\ ClientKey(x) = ClientKey(y) => x = y
               /\ RowKey(x) = RowKey(y) => x = y
               /\ FileKey(x) = FileKey(y) => x = y
  /\ \A x, y, u : /\ ClientKey(y) # FollowKey(x, u) /\ RowKey(y) # FollowKey(x, u)
                  /\ FileKey(y) # FollowKey(x, u) /\ StateKey(y) # FollowKey(x, u)
  /\ \A x, y, u, v : FollowKey(x, u) = FollowKey(y, v) => x = y /\ u = v
BY DEF RateKey, ClientKey, RowKey, FileKey, StateKey, FollowKey

\* A step of c moves nobody else.
LEMMA StageElse ==
  ASSUME LocksInv, NEW c \in Call, Stage(c)', RowsInv', \A d \in Call \ {c} : call'[d] = call[d] /\ held'[d] = held[d]
  PROVE  LocksInv'
<1>1. ASSUME NEW d \in Call, d # c PROVE Stage(d)'
  <2>1. Stage(d) /\ call'[d] = call[d] /\ held'[d] = held[d]
    BY <1>1 DEF LocksInv
  <2> QED
    BY <2>1 DEF Stage, At, ClientKey, RowKey, FileKey, StateKey, FollowKey, ToLock
<1>2. IsFiniteSet(Started')
  <2>1. Started' \in SUBSET (Started \cup {c})
    BY DEF Started, At
  <2>2. IsFiniteSet(Started \cup {c})
    BY FS_AddElement DEF LocksInv
  <2> QED
    BY <2>1, <2>2, FS_Subset
<1> QED
  BY <1>1, <1>2 DEF LocksInv

LEMMA StageEnd ==
  ASSUME LocksInv, RowsInv', NEW c \in Call, NEW answer, End(c, answer)
  PROVE  LocksInv'
<1>1. /\ call'[c].pc = "done" /\ held'[c] = {}
      /\ \A d \in Call \ {c} : call'[d] = call[d] /\ held'[d] = held[d]
  BY EndFacts DEF LocksInv, RowsInv
<1>2. Stage(c)'
  BY <1>1 DEF Stage, At
<1> QED
  BY <1>1, <1>2, StageElse

LEMMA StageStart ==
  ASSUME LocksInv, RowsInv', NEW c \in Call, Start(c)
  PROVE  LocksInv'
<1>1. \E r : Begin(c, r) /\ "pc" \in DOMAIN r /\ "start" \in DOMAIN r
  <2>1. "pc" \in DOMAIN Idle /\ "start" \in DOMAIN Idle
    BY DEF Idle
  <2>2. PICK m \in Msg :
          \/ \E ch \in Channel, root \in (Root \ {m}) \cup {NoMsg}, files \in SUBSET File, mentions \in Mentions \cup {{}} :
               BeginSend(c, m, ch, root, files, mentions)
          \/ \E body \in Body, mentions \in Mentions : BeginEdit(c, m, body, mentions)
          \/ BeginDelete(c, m)
          \/ \E u \in User, on \in BOOLEAN : BeginReact(c, u, m, on)
    BY DEF Start
  <2>3. ASSUME NEW r, Begin(c, r), DOMAIN r = DOMAIN Idle
        PROVE  \E q : Begin(c, q) /\ "pc" \in DOMAIN q /\ "start" \in DOMAIN q
    BY <2>1, <2>3
  <2>4. ASSUME NEW ch \in Channel, NEW root, NEW files, NEW mentions, BeginSend(c, m, ch, root, files, mentions)
        PROVE  \E q : Begin(c, q) /\ "pc" \in DOMAIN q /\ "start" \in DOMAIN q
    BY <2>3, <2>4 DEF BeginSend
  <2>5. ASSUME NEW body, NEW mentions, BeginEdit(c, m, body, mentions)
        PROVE  \E q : Begin(c, q) /\ "pc" \in DOMAIN q /\ "start" \in DOMAIN q
    BY <2>3, <2>5 DEF BeginEdit
  <2>6. ASSUME BeginDelete(c, m)
        PROVE  \E q : Begin(c, q) /\ "pc" \in DOMAIN q /\ "start" \in DOMAIN q
    BY <2>3, <2>6 DEF BeginDelete
  <2>7. ASSUME NEW u, NEW on, BeginReact(c, u, m, on)
        PROVE  \E q : Begin(c, q) /\ "pc" \in DOMAIN q /\ "start" \in DOMAIN q
    BY <2>3, <2>7 DEF BeginReact
  <2> QED
    BY <2>2, <2>4, <2>5, <2>6, <2>7
<1>2. PICK r : Begin(c, r) /\ "pc" \in DOMAIN r /\ "start" \in DOMAIN r
  BY <1>1
<1>3. call'[c] = [r EXCEPT !.pc = IF r.kind = "delete" THEN "read" ELSE "rate", !.start = clock]
      /\ \A d \in Call \ {c} : call'[d] = call[d]
  BY <1>2 DEF Begin, LocksInv, RowsInv, Inv, Domains
<1>4. call'[c].pc \in {"read", "rate"}
  BY <1>2, <1>3
<1>5. held' = held /\ held[c] = {}
  BY <1>2 DEF Begin, LocksInv, RowsInv, Inv, CallInv, Unlocked, At
<1>6. Stage(c)'
  BY <1>4, <1>5 DEF Stage, At
<1> QED
  BY <1>3, <1>5, <1>6, StageElse

LEMMA StageStep ==
  ASSUME LocksInv, RowsInv', NEW c \in Call, Step(c)
  PROVE  LocksInv'
<1>1. Stage(c) /\ RowsInv /\ Inv /\ call[c] \in CallType
  BY DEF LocksInv, RowsInv, Inv, CallInv, Request
<1>2. ASSUME NEW code, Fail(c, code) \/ Return(c) PROVE LocksInv'
  BY <1>2, StageEnd DEF Fail, Return
<1>3. ASSUME NEW pc, NEW k, Goto(c, pc), Take(c, k) \/ (UNCHANGED held /\ k \in held[c]),
             pc = "root" => call[c].root # NoMsg, pc # "rate",
             \A m \in Msg : ClientKey(m) \in held[c] \cup {k} => pc \in {"root", "files", "commit"},
             \A m \in Msg : RowKey(m) \in held[c] \cup {k} => pc \in {"files", "commit"} \/ (pc = "count" /\ m = call[c].id),
             \A f \in File : FileKey(f) \in held[c] \cup {k} => pc = "commit",
             \A ch \in Channel : StateKey(ch) \in held[c] \cup {k} => pc = "commit",
             ~ At(c, "commit"), \A m \in Msg : \A u : k # FollowKey(m, u)
      PROVE  LocksInv'
  <2>1. /\ call'[c].pc = pc /\ call'[c].id = call[c].id /\ call'[c].root = call[c].root
        /\ \A d \in Call \ {c} : call'[d] = call[d]
    BY <1>1, <1>3, GotoFacts
  <2>2. held'[c] = held[c] \cup {k} /\ \A d \in Call \ {c} : held'[d] = held[d]
    BY <1>1, <1>3, TakeFacts
  <2>3. \A m \in Msg : \A u : FollowKey(m, u) \notin held'[c]
    BY <1>1, <1>3, <2>2 DEF Stage
  <2>4. Stage(c)'
    BY <1>3, <2>1, <2>2, <2>3 DEF Stage, At, ClientKey, RowKey, FileKey, StateKey, FollowKey
  <2> QED
    BY <2>1, <2>2, <2>4, StageElse
<1>4. CASE RateHit(c)
  <2> DEFINE pc == IF call[c].kind = "send" THEN "client" ELSE "read"
  <2>1. held[c] = {} /\ ~ At(c, "commit")
    BY <1>1, <1>4 DEF RateHit, Stage, At
  <2>2. CASE Take(c, RateKey(c)) /\ Goto(c, pc)
    <3>1. pc \in {"client", "read"}
      OBVIOUS
    <3> HIDE DEF pc
    <3> QED
      BY <1>3, <2>1, <2>2, <3>1, Keys
  <2> QED
    BY <1>2, <1>4, <2>2 DEF RateHit
<1>5. CASE SendLook(c)
  <2> DEFINE pc == IF call[c].root = NoMsg THEN "files" ELSE "root"
             k  == ClientKey(call[c].id)
  <2>1. call[c].pc = "client"
    BY <1>5 DEF SendLook, At
  <2>2. CASE Take(c, k) /\ Goto(c, pc)
    <3>1. pc \in {"files", "root"} /\ (pc = "root" => call[c].root # NoMsg)
      OBVIOUS
    <3>2. \A x : k # RowKey(x) /\ k # FileKey(x) /\ k # StateKey(x) /\ \A u : k # FollowKey(x, u)
      BY Keys
    <3> HIDE DEF pc, k
    <3> QED
      BY <1>1, <1>3, <2>1, <2>2, <3>1, <3>2 DEF Stage, At
  <2> QED
    BY <1>2, <1>5, <2>2 DEF SendLook, Look
<1>6. CASE SendLockRoot(c)
  <2> DEFINE k == RowKey(call[c].root)
  <2>1. call[c].pc = "root"
    BY <1>6 DEF SendLockRoot, At
  <2>2. CASE Take(c, k) /\ Goto(c, "files")
    <3>1. \A x : k # ClientKey(x) /\ k # FileKey(x) /\ k # StateKey(x) /\ \A u : k # FollowKey(x, u)
      BY Keys
    <3>2. \A f \in File : FileKey(f) \notin held[c]
      BY <1>1, <2>1 DEF Stage, At
    <3>3. \A ch \in Channel : StateKey(ch) \notin held[c]
      BY <1>1, <2>1 DEF Stage, At
    <3>4. ~ At(c, "commit")
      BY <2>1 DEF At
    <3> HIDE DEF k
    <3> QED
      BY <1>3, <2>2, <3>1, <3>2, <3>3, <3>4
  <2> QED
    BY <1>2, <1>6, <2>2 DEF SendLockRoot
<1>7. CASE SendLockFile(c)
  <2>1. call[c].pc = "files" /\ call' = call
    BY <1>7 DEF SendLockFile, At
  <2>2. PICK f \in ToLock(c) : NextFile(c, f) /\ Take(c, FileKey(f))
    BY <1>7 DEF SendLockFile
  <2>3. held'[c] = held[c] \cup {FileKey(f)} /\ \A d \in Call \ {c} : held'[d] = held[d]
    BY <1>1, <2>2, TakeFacts
  <2>4. call[c].files \subseteq File
    BY <1>1 DEF CallType
  <2>5. ASSUME NEW g \in ToLock(c)' PROVE g \in ToLock(c) /\ f < g
    <3>1. g \in ToLock(c) /\ g # f
      BY <2>1, <2>3, <2>5 DEF ToLock, FileKey
    <3>2. f <= g /\ f \in Nat /\ g \in Nat
      BY <2>2, <2>4, <3>1 DEF NextFile, ToLock
    <3> QED
      BY <3>1, <3>2
  <2>6. ASSUME NEW h \in File, FileKey(h) \in held'[c], NEW g \in ToLock(c)' PROVE h < g
    <3>1. CASE h = f
      BY <2>5, <2>6, <3>1
    <3>2. CASE FileKey(h) \in held[c]
      BY <1>1, <2>1, <2>5, <2>6, <3>2 DEF Stage, At
    <3> QED
      BY <2>3, <2>6, <3>1, <3>2, Keys
  <2>7. /\ \A m : RowKey(m) \in held'[c] => RowKey(m) \in held[c]
        /\ \A ch : StateKey(ch) \in held'[c] => StateKey(ch) \in held[c]
        /\ \A m, u : FollowKey(m, u) \in held'[c] => FollowKey(m, u) \in held[c]
    BY <2>3, Keys
  <2>8. Stage(c)'
    BY <1>1, <2>1, <2>6, <2>7 DEF Stage, At, ClientKey, RowKey, FileKey, StateKey, FollowKey
  <2> QED
    BY <2>1, <2>3, <2>8, StageElse
<1>8. CASE SendFilesTaken(c)
  BY <1>2, <1>8 DEF SendFilesTaken
<1>9. CASE SendInsert(c)
  <2>1. CASE Insert(c)
    <3>1. Goto(c, "commit") /\ Take(c, StateKey(call[c].ch)) /\ ~ At(c, "commit")
      BY <1>9, <2>1 DEF Insert, SendInsert, At
    <3>2. \A m, u : StateKey(call[c].ch) # FollowKey(m, u)
      BY Keys
    <3> QED
      BY <1>3, <3>1, <3>2
  <2> QED
    BY <1>2, <1>9, <2>1 DEF SendInsert
<1>10. CASE ChangeRead(c)
  <2>1. CASE Goto(c, "row") /\ UNCHANGED held
    <3>1. /\ call'[c].pc = "row" /\ \A d \in Call \ {c} : call'[d] = call[d]
      BY <1>1, <2>1, GotoFacts
    <3>2. Stage(c)'
      BY <1>1, <1>10, <2>1, <3>1 DEF ChangeRead, Stage, At, ClientKey, RowKey, FileKey, StateKey, FollowKey
    <3> QED
      BY <2>1, <3>1, <3>2, StageElse
  <2> QED
    BY <1>2, <1>10, <2>1 DEF ChangeRead
<1>11. CASE ChangeRow(c)
  <2> DEFINE k == RowKey(call[c].id)
  <2>1. call[c].pc = "row"
    BY <1>11 DEF ChangeRow, At
  <2>2. CASE Take(c, k) /\ \E pc \in {"count", "commit"} : Goto(c, pc)
    <3>1. \A x : /\ k # ClientKey(x) /\ k # FileKey(x) /\ k # StateKey(x)
                 /\ k = RowKey(x) => x = call[c].id
                 /\ \A u : k # FollowKey(x, u)
      BY Keys
    <3> HIDE DEF k
    <3> QED
      BY <1>1, <1>3, <2>1, <2>2, <3>1 DEF Stage, At
  <2> QED
    BY <1>2, <1>11, <2>2 DEF ChangeRow, Change
<1>12. CASE DeleteCount(c)
  <2> DEFINE k == RowKey(rows[call[c].id].root)
  <2>1. Goto(c, "commit") /\ Take(c, k) /\ ~ At(c, "commit")
    BY <1>12 DEF DeleteCount, At
  <2>2. \A m, u : k # FollowKey(m, u)
    BY Keys
  <2> HIDE DEF k
  <2> QED
    BY <1>3, <2>1, <2>2
<1>13. CASE Commit(c) \/ Abort(c)
  BY <1>13, StageEnd DEF Commit, Abort
\* A row of thread_follows is one of the thread that c replies in, unless c is an edit.
<1>14. CASE Follow(c)
  <2>1. At(c, "commit") /\ call' = call
    BY <1>14 DEF Follow
  <2>2. PICK u \in ToFollow(c) : Take(c, FollowKey(Thread(c), u))
    BY <1>14 DEF Follow
  <2>3. PICK k : k = FollowKey(Thread(c), u)
    OBVIOUS
  <2>4. held'[c] = held[c] \cup {k} /\ \A d \in Call \ {c} : held'[d] = held[d]
    BY <1>1, <2>2, <2>3, TakeFacts
  <2>5. call[c].kind = "edit" \/ (call[c].kind = "send" /\ call[c].root = Thread(c))
    BY <2>2 DEF ToFollow, Thread
  <2>6. \A m \in Msg : \A v : FollowKey(m, v) \in held'[c] =>
          call[c].kind = "edit" \/ (call[c].kind = "send" /\ call[c].root = m)
    BY <1>1, <2>3, <2>4, <2>5, Keys DEF Stage
  <2>7. \A m : k # ClientKey(m) /\ k # RowKey(m) /\ k # FileKey(m) /\ k # StateKey(m)
    BY <2>3, Keys
  <2>8. Stage(c)'
    BY <1>1, <2>1, <2>4, <2>6, <2>7 DEF Stage, At, ClientKey, RowKey, FileKey, StateKey, FollowKey
  <2> QED
    BY <2>1, <2>4, <2>8, StageElse
<1> QED
  BY <1>4, <1>5, <1>6, <1>7, <1>8, <1>9, <1>10, <1>11, <1>12, <1>13, <1>14 DEF Step

\* A transaction holds the locks of its place in the program, and no other.
THEOREM LocksInvariance == Spec => []LocksInv
<1>1. Init => LocksInv
  <2> SUFFICES ASSUME Init PROVE LocksInv
    OBVIOUS
  <2>1. Started = {}
    BY DEF Init, Started, At, Idle
  <2>2. IsFiniteSet(Started)
    BY <2>1, FS_EmptySet
  <2>3. ASSUME NEW c \in Call PROVE Stage(c)
    <3>1. call[c].pc = "idle" /\ held[c] = {}
      BY DEF Init, Idle
    <3> QED
      BY <3>1 DEF Stage, At
  <2> QED
    BY <2>2, <2>3, RowsInit DEF LocksInv
<1>2. LocksInv /\ [Next]_vars => LocksInv'
  <2> SUFFICES ASSUME LocksInv, [Next]_vars PROVE LocksInv'
    OBVIOUS
  <2>1. RowsInv'
    BY RowsNext DEF LocksInv
  <2>2. CASE UNCHANGED vars
    <3>1. call' = call /\ held' = held
      BY <2>2 DEF vars
    <3>2. ASSUME NEW c \in Call PROVE Stage(c)'
      BY <3>1 DEF LocksInv, Stage, At, ToLock, ClientKey, RowKey, FileKey, StateKey, FollowKey
    <3>3. Started' = Started
      BY <3>1 DEF Started, At
    <3> QED
      BY <2>1, <3>2, <3>3 DEF LocksInv
  <2>3. ASSUME NEW c \in Call, Start(c) PROVE LocksInv'
    BY <2>1, <2>3, StageStart
  <2>4. ASSUME NEW c \in Call, Step(c) PROVE LocksInv'
    BY <2>1, <2>4, StageStep
  <2> QED
    BY <2>2, <2>3, <2>4 DEF Next
<1> QED
  BY <1>1, <1>2, PTL DEF Spec

-----------------------------------------------------------------------------
(* Nobody waits in a circle.                                               *)

LEMMA Greatest ==
  ASSUME NEW W \in SUBSET Nat, IsFiniteSet(W), W # {}
  PROVE  \E x \in W : \A y \in W : y <= x
<1> DEFINE above(x) == {y \in W : y > x}
           C == {above(x) : x \in W}
<1>1. C \subseteq FiniteSubsetsOf(W) /\ C # {}
  <2>1. ASSUME NEW x \in W PROVE above(x) \in SUBSET W /\ IsFiniteSet(above(x))
    <3>1. above(x) \in SUBSET W
      OBVIOUS
    <3> HIDE DEF above
    <3> QED
      BY <3>1, FS_Subset
  <2>2. PICK x \in W : TRUE
    OBVIOUS
  <2>3. above(x) \in C
    OBVIOUS
  <2> HIDE DEF above
  <2>4. C \subseteq FiniteSubsetsOf(W)
    BY <2>1 DEF FiniteSubsetsOf
  <2> QED
    BY <2>3, <2>4
<1> HIDE DEF C
<1>2. PICK T \in C : \A U \in C : ~ (<<U, T>> \in StrictSubsetOrdering(W))
  <2>1. IsWellFoundedOn(StrictSubsetOrdering(W), FiniteSubsetsOf(W))
    BY FS_StrictSubsetOrderingWellFounded
  <2> QED
    BY <1>1, <2>1, WFMin
<1> USE DEF C
<1>3. PICK x \in W : T = above(x)
  BY <1>2
<1>4. ASSUME NEW y \in W, y > x PROVE FALSE
  <2>1. above(y) \subseteq above(x) /\ y \in above(x) /\ y \notin above(y)
    <3>1. \A z \in W : z > y => z > x
      BY <1>4
    <3>2. ~ (y > y)
      OBVIOUS
    <3> QED
      BY <1>4, <3>1, <3>2
  <2>2. <<above(y), above(x)>> \in StrictSubsetOrdering(W)
    <3>1. above(y) \in SUBSET W /\ above(x) \in SUBSET W
      OBVIOUS
    <3>2. above(y) # above(x)
      BY <2>1
    <3> HIDE DEF above
    <3>3. <<above(y), above(x)>> \in (SUBSET W) \X (SUBSET W)
      BY <3>1
    <3> QED
      BY <2>1, <3>2, <3>3 DEF StrictSubsetOrdering
  <2>3. above(y) \in C
    OBVIOUS
  <2> HIDE DEF C, above
  <2> QED
    BY <1>2, <1>3, <2>2, <2>3
<1> QED
  BY <1>4

\* Everyone in S may wait for a lock of another one in S.
Circle(S) ==
  /\ S \subseteq Call /\ S # {}
  /\ \A c \in S : ~ BringsIn(c) /\ \E k \in Wants(c) : \E d \in S : d # c /\ k \in held[d]

\* Who waits is at one of these places.
LEMMA WaitingAt ==
  ASSUME LocksInv, NEW S, Circle(S), NEW c \in S
  PROVE  /\ call[c].pc \in {"rate", "client", "root", "files", "row", "count", "commit"}
         /\ c \in Call /\ CallInv(c) /\ Own(c) /\ Stage(c) /\ call[c] \in CallType /\ ~ BringsIn(c)
         /\ \E k \in Wants(c) : \E d \in S : d # c /\ k \in held[d]
<1>1. c \in Call /\ CallInv(c) /\ Own(c) /\ Stage(c) /\ call[c] \in CallType /\ ~ BringsIn(c)
  BY DEF Circle, LocksInv, RowsInv, Inv, CallInv, Request
<1>2. \E k \in Wants(c) : \E d \in S : d # c /\ k \in held[d]
  BY DEF Circle
<1>3. call[c].pc \in {"rate", "client", "root", "files", "row", "count", "commit"}
  BY <1>2 DEF Wants, At
<1> QED
  BY <1>1, <1>2, <1>3

\* The top of the order: a reply waits for a row of its thread, which another reply would
\* hold together with the root, or an edit, which then waits for nothing.
LEMMA NobodyAtCommit ==
  ASSUME LocksInv, NEW S, Circle(S), NEW c \in S
  PROVE  ~ At(c, "commit")
<1> SUFFICES ASSUME At(c, "commit") PROVE FALSE
  OBVIOUS
<1>1. PICK k \in Wants(c), d \in S : d # c /\ k \in held[d]
  BY WaitingAt
<1>2. PICK u \in ToFollow(c) : k = FollowKey(Thread(c), u)
  BY <1>1 DEF Wants, At
<1>3. call[c].kind = "send" /\ call[c].root # NoMsg /\ Thread(c) = call[c].root
  <2>1. call[c].kind # "edit"
    BY <1>2, WaitingAt DEF BringsIn
  <2> QED
    BY <1>2, <2>1 DEF ToFollow, Thread
<1>4. call[c].root \in Msg /\ RowKey(call[c].root) \in held[c]
  BY <1>3, WaitingAt DEF CallType, Own, Rooted, At
<1>5. At(d, "commit") /\ (call[d].kind = "edit" \/ (call[d].kind = "send" /\ call[d].root = call[c].root))
  BY <1>1, <1>2, <1>3, <1>4, WaitingAt DEF Stage
<1>6. CASE call[d].kind = "edit"
  <2>1. ToFollow(d) = {}
    BY <1>5, <1>6, WaitingAt DEF BringsIn
  <2>2. Wants(d) = {}
    BY <1>5, <2>1 DEF Wants, At
  <2> QED
    BY <2>2, WaitingAt
<1>7. CASE call[d].kind = "send" /\ call[d].root = call[c].root
  <2>1. RowKey(call[c].root) \in held[d]
    BY <1>3, <1>5, <1>7, WaitingAt DEF Own, Rooted, At
  <2>2. c \in Call /\ d \in Call /\ Exclusive
    BY WaitingAt DEF LocksInv, RowsInv, Inv
  <2> QED
    BY <1>1, <1>4, <2>1, <2>2 DEF Exclusive
<1> QED
  BY <1>5, <1>6, <1>7

\* Then the counter, whose holder waits for nothing here, and the files: who waits for one
\* waits for a file with a greater id than those it holds.
LEMMA NobodyAtFiles ==
  ASSUME LocksInv, NEW S, Circle(S), NEW c \in S
  PROVE  ~ At(c, "files")
<1> DEFINE waiting == {d \in S : At(d, "files")}
           next(d) == CHOOSE f \in File : NextFile(d, f) /\ \E e \in S : FileKey(f) \in held[e]
           wanted == {next(d) : d \in waiting}
<1> SUFFICES ASSUME waiting # {} PROVE FALSE
  OBVIOUS
<1>1. ASSUME NEW d \in waiting
      PROVE  next(d) \in File /\ NextFile(d, next(d)) /\ \E e \in S : FileKey(next(d)) \in held[e]
  <2>1. At(d, "files") /\ d \in S /\ d \in Call /\ call[d] \in CallType
    BY <1>1, WaitingAt
  <2>2. PICK k \in Wants(d), e \in S : k \in held[e]
    BY <2>1, WaitingAt
  <2>3. CASE ToLock(d) = {}
    <3>1. k = StateKey(call[d].ch)
      BY <2>1, <2>2, <2>3 DEF Wants, At
    <3>2. call[d].ch \in Channel
      BY <2>1, WaitingAt DEF CallInv, Request, At
    <3>3. At(e, "commit")
      BY <2>2, <3>1, <3>2, WaitingAt DEF Stage
    <3> QED
      BY <3>3, NobodyAtCommit
  <2>4. CASE ToLock(d) # {}
    <3>1. Wants(d) = {FileKey(f) : f \in {g \in ToLock(d) : NextFile(d, g)}}
      BY <2>1, <2>4 DEF Wants, At
    <3>2. ToLock(d) \subseteq File
      BY <2>1 DEF ToLock, CallType
    <3>3. PICK f \in ToLock(d) : NextFile(d, f) /\ k = FileKey(f)
      BY <2>2, <3>1
    <3>4. f \in File /\ FileKey(f) \in held[e]
      BY <2>2, <3>2, <3>3
    <3> QED
      BY <3>3, <3>4
  <2> QED
    BY <2>3, <2>4
<1>2. wanted \in SUBSET Nat /\ wanted # {}
  BY <1>1
<1>3. IsFiniteSet(wanted)
  <2>1. IsFiniteSet(waiting)
    <3>1. waiting \in SUBSET Started
      BY DEF Circle, Started, At
    <3> QED
      BY <3>1, FS_Subset DEF LocksInv
  <2> DEFINE choice == [d \in waiting |-> next(d)]
  <2>2. choice \in Surjection(waiting, wanted)
    BY DEF Surjection
  <2> QED
    BY <2>1, <2>2, FS_Surjection
<1>4. PICK top \in wanted : \A f \in wanted : f <= top
  BY <1>2, <1>3, Greatest
<1>5. PICK d \in waiting : top = next(d)
  OBVIOUS
<1>6. PICK e \in S : FileKey(top) \in held[e]
  BY <1>1, <1>5
<1>7. e \in waiting /\ \A g \in ToLock(e) : top < g
  <2>1. top \in File /\ ~ At(e, "commit")
    BY <1>1, <1>5, NobodyAtCommit
  <2> QED
    BY <1>6, <2>1, WaitingAt DEF Stage
<1>8. next(e) \in ToLock(e) /\ next(e) \in wanted
  BY <1>1, <1>7 DEF NextFile
<1> HIDE DEF next, wanted
<1>9. next(e) \in Nat /\ top \in Nat /\ next(e) <= top /\ top < next(e)
  BY <1>2, <1>4, <1>7, <1>8
<1> QED
  BY <1>9

\* Down the order, to the rate bucket.
LEMMA NoCircle ==
  ASSUME LocksInv, NEW S, Circle(S)
  PROVE  FALSE
<1>1. /\ Shape /\ Tables /\ NoMsg \notin Msg
      /\ \A m \in Msg : IsRow(m) /\ rows[m].root # NoMsg => rows[m].root \in Msg /\ rows[rows[m].root].root = NoMsg
  BY RowTypeFacts DEF LocksInv, RowsInv, Shape, Inv, Tables, IsRow
<1>2. ASSUME NEW c \in S PROVE ~ At(c, "files") /\ ~ At(c, "commit")
  BY <1>2, NobodyAtFiles, NobodyAtCommit
\* A first message is locked by sends that wait for nobody here, and by changes of it
\* that wait for nothing.
<1>3. ASSUME NEW m \in Msg, rows[m].root = NoMsg, NEW d \in S PROVE RowKey(m) \notin held[d]
  <2> SUFFICES ASSUME RowKey(m) \in held[d] PROVE FALSE
    OBVIOUS
  <2>1. At(d, "count") /\ m = call[d].id
    BY <1>2, WaitingAt DEF Stage, At
  <2>2. rows[m].root # NoMsg
    BY <2>1, WaitingAt DEF CallInv, ChangeOK
  <2> QED
    BY <1>3, <2>2
<1>4. ASSUME NEW c \in S PROVE ~ At(c, "root")
  <2> SUFFICES ASSUME At(c, "root") PROVE FALSE
    OBVIOUS
  <2>1. call[c].root \in Msg /\ rows[call[c].root].root = NoMsg
    BY WaitingAt DEF Stage, CallType, Own, Rooted, Sending, At, CallInv, Request
  <2>2. Wants(c) = {RowKey(call[c].root)}
    BY DEF Wants, At
  <2> QED
    BY <1>3, <2>1, <2>2, WaitingAt
<1>5. ASSUME NEW c \in S PROVE ~ At(c, "count")
  <2> SUFFICES ASSUME At(c, "count") PROVE FALSE
    OBVIOUS
  <2>1. call[c].id \in Msg /\ IsRow(call[c].id) /\ rows[call[c].id].root # NoMsg
    BY WaitingAt DEF CallInv, Request, ChangeOK, At
  <2>2. Wants(c) = {RowKey(rows[call[c].id].root)}
    BY DEF Wants, At
  <2> QED
    BY <1>1, <1>3, <2>1, <2>2, WaitingAt
<1>6. ASSUME NEW c \in S PROVE ~ At(c, "row")
  <2> SUFFICES ASSUME At(c, "row") PROVE FALSE
    OBVIOUS
  <2>1. call[c].id \in Msg /\ Wants(c) = {RowKey(call[c].id)}
    BY WaitingAt DEF Wants, CallInv, Request, At
  <2>2. PICK d \in S : RowKey(call[c].id) \in held[d]
    BY <2>1, WaitingAt
  <2> QED
    BY <1>2, <1>5, <2>1, <2>2, WaitingAt DEF Stage, At
<1>7. ASSUME NEW c \in S PROVE ~ At(c, "client")
  <2> SUFFICES ASSUME At(c, "client") PROVE FALSE
    OBVIOUS
  <2>1. call[c].id \in Msg /\ Wants(c) = {ClientKey(call[c].id)}
    BY WaitingAt DEF Wants, CallInv, Request, At
  <2>2. PICK d \in S : ClientKey(call[c].id) \in held[d]
    BY <2>1, WaitingAt
  <2> QED
    BY <1>2, <1>4, <2>1, <2>2, WaitingAt DEF Stage, At
<1>8. PICK c \in S : TRUE
  BY DEF Circle
<1>9. At(c, "rate")
  BY <1>2, <1>4, <1>5, <1>6, <1>7, WaitingAt DEF At
<1>10. PICK d \in S : RateKey(c) \in held[d]
  <2>1. Wants(c) = {RateKey(c)}
    BY <1>9 DEF Wants, At
  <2> QED
    BY <2>1, WaitingAt
<1>11. ~ At(d, "rate")
  BY <1>10, WaitingAt DEF Stage
<1> QED
  BY <1>2, <1>4, <1>5, <1>6, <1>7, <1>11, WaitingAt DEF At

\* However many transactions run, whatever they lock: in every set of them without an edit
\* that still brings people into a thread, some transaction waits for no lock of the
\* others.  So a deadlock that the database has to break goes through such an edit.
THEOREM NeverADeadlock == Spec => []NoWaitCycle
<1>1. LocksInv => NoWaitCycle
  <2> SUFFICES ASSUME LocksInv, NEW S \in (SUBSET {c \in Call : ~ BringsIn(c)}) \ {{}},
                      ~ \E c \in S : Goes(c, S)
               PROVE  FALSE
    BY DEF NoWaitCycle
  <2>1. Circle(S)
    <3>1. S \subseteq Call /\ S # {} /\ \A c \in S : ~ BringsIn(c)
      OBVIOUS
    <3>2. ASSUME NEW c \in S PROVE \E k \in Wants(c) : \E d \in S : d # c /\ k \in held[d]
      BY DEF Goes
    <3> QED
      BY <3>1, <3>2 DEF Circle
  <2> QED
    BY <2>1, NoCircle
<1> QED
  BY <1>1, LocksInvariance, PTL
=============================================================================
