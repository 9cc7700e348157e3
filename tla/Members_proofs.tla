--------------------------- MODULE Members_proofs ---------------------------
(* Proofs about Members: for any number of people, transactions and calls.  The argument is
   the one the migrations make: a call that lets somebody go, or approves somebody, or uses
   an invitation, decides on rows it has locked, and what it decided on stays as it was until
   it commits, since every call that changes such a row has its lock by then or waits for
   it.  So the inductive invariant is about one call at a time, given that no two calls hold
   the same lock. *)
EXTENDS Members, TLAPS

USE MembersAssumption

OrgRole == {"owner", "admin", "member", "guest"}
OrgOps == Managing \cup {"leave", "delete"}
WaysIn == {"accept", "join", "add", "decide"}
Ops == OrgOps \cup WaysIn \cup {"revoke", "rank", "kick", "quit"}
Key == ({"member", "team", "request", "gone"} \X Person) \cup {<<"invite">>, <<"server">>, <<"share">>}

Places == {"owners", "target", "check", "strip", "part", "withdraw", "ask", "org", "role", "team",
           "seat", "settle", "mend", "judge", "finish"}

(* What a call under way is. *)
CallUnderWay ==
  [op : Ops, who : Person, to : Person,
   arg : OrgRole \cup {"", "approve", "reject", "outside"}, me : OrgRole \cup {"none"},
   pc : Places \cup {"start"},
   see : SUBSET Person, locks : SUBSET Key,
   add : BOOLEAN, put : {"none", "admin", "member"} \cup Pending, drop : BOOLEAN]

Busy(c) == rpc[c].pc # "idle"
MemberKey(p) == <<"member", p>>
RequestKey(p) == <<"request", p>>
GoneKey(p) == <<"gone", p>>

CallsOK ==
  /\ DOMAIN rpc = Rpc /\ rpc = [c \in Rpc |-> rpc[c]]
  /\ \A c \in Rpc : rpc[c] = NoCall \/ rpc[c] \in CallUnderWay
  /\ invite \in [by : Person, approval : BOOLEAN, uses : Nat, revoked : BOOLEAN]
  /\ crowned \in BOOLEAN

(* No row is locked by two calls; the row of the server may be shared. *)
OneHolder == \A c, d \in Rpc :
  c # d /\ Busy(c) /\ Busy(d) => rpc[c].locks \cap rpc[d].locks \subseteq {<<"share">>}

(* Where a call is once org_apply_grant has inserted the member, or found one. *)
Granted == {"role", "team", "seat", "settle", "finish"}

(* Where a call may be, by what it is called for. *)
Route(t) ==
  /\ t.op \in {"delete", "leave", "accept", "join"} => t.to = t.who
  /\ t.op = "role" => t.arg \in OrgRole
  /\ t.op \in {"add", "rank"} => t.arg \in {"admin", "member"}
  /\ t.arg = "outside" => t.op = "delete"
  /\ t.pc \in {"owners", "check", "strip"} => t.op \in OrgOps
  /\ t.pc = "target" => t.op \in OrgOps \ {"delete"}
  /\ t.pc = "ask" => t.op \in {"accept", "join"}
  /\ t.pc = "part" => t.op \in Departing
  /\ t.pc = "withdraw" => t.op \in Departing \cup {"quit"}
  /\ t.pc \in {"org", "role"} => t.op \in {"accept", "decide"}
  /\ t.pc \in {"team", "seat", "settle"} => t.op \in WaysIn
  /\ t.pc = "judge" => t.op = "decide"
  /\ t.pc = "mend" => t.op \in {"rank", "kick", "quit"}
  /\ t.op = "decide" /\ t.pc \in (Granted \cup {"org"}) \ {"finish"} => t.arg = "approve"

(* Whom a call manages is a member, whom it brings in is not, and it has their row. *)
HasTarget(t) ==
  /\ t.pc \in {"check", "strip", "part", "withdraw", "finish"} /\ t.op \in Managing =>
       MemberKey(t.to) \in t.locks /\ role[t.to] # "none"
  /\ t.add => /\ t.op \in {"accept", "decide"}
              /\ MemberKey(t.to) \in t.locks /\ role[t.to] = "none"

(* Whose membership a call has deleted is its own target, and it has their row. *)
HasGone(t) == \A p \in Person : GoneKey(p) \in t.locks =>
  /\ p = t.to /\ t.op \in Departing /\ t.pc \in {"withdraw", "finish"}
  /\ MemberKey(p) \in t.locks /\ role[p] # "none"

(* Whoever deletes an account and owns nothing locks no owners. *)
OwnsNothing(t) == t.op = "delete" /\ role[t.to] # "owner"
Takes(t) ==
  \/ t.op \in Departing \cup {"suspend"}
  \/ t.op = "role" /\ t.arg # "owner"

(* A call that minds the owners has seen them all, then holds them all, and when it takes one
   away there is another one. *)
HasOwners(t) == t.op \in OrgOps /\ ~crowned =>
  /\ t.pc # "start" => Owners \subseteq t.see \/ OwnsNothing(t)
  /\ t.pc \notin {"start", "owners"} =>
       (\A p \in Owners : MemberKey(p) \in t.locks) \/ OwnsNothing(t)
  /\ t.pc \in {"strip", "part", "withdraw", "finish"} /\ Takes(t) /\ role[t.to] = "owner" =>
       ~(ActiveOwners \subseteq {t.to})

(* A call that decides a request, or withdraws it, holds it. *)
HasRequest(t) ==
  /\ (\E p \in Person : RequestKey(p) \in t.locks) =>
       t.op \in WaysIn \/ (t.op \in Departing \cup {"quit"} /\ t.pc = "finish")
  /\ t.put \in Pending => t.op \in {"accept", "join"}
  /\ t.op = "decide" /\ t.arg = "approve" /\ t.pc \in Granted \cup {"org"} =>
       RequestKey(t.to) \in t.locks /\ request[t.to] \in Pending

(* A call that uses or revokes the invitation holds it. *)
HasInvite(t) ==
  /\ t.op = "accept" /\ t.pc # "start" => <<"invite">> \in t.locks /\ ~invite.revoked
  /\ t.op = "revoke" /\ t.pc # "start" => <<"invite">> \in t.locks

Claims(t) == Route(t) /\ HasTarget(t) /\ HasOwners(t) /\ HasRequest(t) /\ HasInvite(t)
Holding(t) == Claims(t) /\ HasGone(t)

(* Whoever is being approved, and had been in before, stays in: whoever lets them go has not
   withdrawn their request yet, and waits for it. *)
Granting(t) == t.op = "decide" /\ t.arg = "approve" /\ t.pc \in Granted /\ ~t.add
Decided == \A c \in Rpc : Busy(c) /\ Granting(rpc[c]) =>
  /\ role[rpc[c].to] # "none"
  /\ \A d \in Rpc \ {c} : Busy(d) /\ GoneKey(rpc[c].to) \in rpc[d].locks => rpc[d].pc = "withdraw"

MembersInv ==
  /\ MembersTypeOK /\ CallsOK /\ OneHolder /\ OwnerStays /\ Decided
  /\ \A c \in Rpc : Busy(c) => Holding(rpc[c])

-----------------------------------------------------------------------------
(* A call goes on, or ends, without publishing anything. *)

(* Entering the next place of a call changes where it is and what it holds. *)
LEMMA EnterFields ==
  ASSUME NEW c \in Rpc, rpc[c] \in CallUnderWay,
         NEW pc \in Places,
         NEW keys \in SUBSET Key, NEW r, r = Enter(c, pc, keys)
  PROVE  /\ r \in CallUnderWay /\ r.pc = pc /\ r.locks = rpc[c].locks \cup keys
         /\ r.op = rpc[c].op /\ r.who = rpc[c].who /\ r.to = rpc[c].to /\ r.arg = rpc[c].arg
         /\ r.see = rpc[c].see /\ r.add = rpc[c].add /\ r.put = rpc[c].put
BY DEF Enter, CallUnderWay

LEMMA EnterFreely ==
  ASSUME NEW c \in Rpc, rpc[c] \in CallUnderWay,
         NEW pc \in Places,
         NEW r, r = Enter(c, pc, {})
  PROVE  /\ r \in CallUnderWay /\ r.pc = pc /\ r.locks = rpc[c].locks
         /\ r.op = rpc[c].op /\ r.who = rpc[c].who /\ r.to = rpc[c].to /\ r.arg = rpc[c].arg
         /\ r.see = rpc[c].see /\ r.add = rpc[c].add /\ r.put = rpc[c].put
BY DEF Enter, CallUnderWay

(* What a step must heed when somebody is being approved: it does not begin to approve a
   person whose membership another call has deleted, and withdraws nothing others hold. *)
Heeds(c, r) ==
  /\ Granting(r) => \/ Granting(rpc[c]) /\ r.to = rpc[c].to
                    \/ role[r.to] # "none" /\ Available(c, GoneKey(r.to))
  /\ \A p \in Person : GoneKey(p) \in r.locks =>
       r.pc = "withdraw" \/ request[p] \notin Pending \/ Available(c, RequestKey(p))

LEMMA DecidedKeeps ==
  ASSUME NEW c \in Rpc, MembersInv, NEW r \in CallUnderWay \cup {NoCall},
         rpc'[c] = r, \A d \in Rpc \ {c} : rpc'[d] = rpc[d], UNCHANGED tables,
         r # NoCall => Holding(r) /\ Heeds(c, r)
  PROVE  Decided'
<1> SUFFICES ASSUME NEW a \in Rpc, Busy(a)', Granting(rpc'[a])
             PROVE  /\ role[rpc'[a].to] # "none"
                    /\ \A d \in Rpc \ {a} : Busy(d)' /\ GoneKey(rpc'[a].to) \in rpc'[d].locks =>
                         rpc'[d].pc = "withdraw"
  BY DEF Decided, tables, Granting
<1>1. CASE a = c
  <2>1. r # NoCall /\ Granting(r)
    BY <1>1 DEF Busy, NoCall
  <2>2. CASE Granting(rpc[c]) /\ r.to = rpc[c].to
    <3>1. Busy(c)
      BY <2>2 DEF Granting, Granted, Busy
    <3> QED  BY <1>1, <2>2, <3>1 DEF MembersInv, Decided, Busy
  <2>3. CASE role[r.to] # "none" /\ Available(c, GoneKey(r.to))
    BY <1>1, <2>3 DEF Available, Busy
  <2> QED  BY <2>1, <2>2, <2>3 DEF Heeds
<1>2. CASE a # c
  <2>1. rpc'[a] = rpc[a] /\ Busy(a) /\ Granting(rpc[a]) /\ rpc[a] \in CallUnderWay /\ HasRequest(rpc[a])
    BY <1>2 DEF Busy, MembersInv, CallsOK, NoCall, Holding, Claims
  <2>2. rpc[a].to \in Person /\ RequestKey(rpc[a].to) \in rpc[a].locks /\ request[rpc[a].to] \in Pending
    BY <2>1 DEF CallUnderWay, HasRequest, Granting, Departing, Granted, Managing, OrgOps, WaysIn
  <2>3. ASSUME Busy(c)', GoneKey(rpc[a].to) \in r.locks
        PROVE  r.pc = "withdraw"
    <3>1. r # NoCall
      BY <2>3 DEF Busy, NoCall
    <3>2. ~Available(c, RequestKey(rpc[a].to))
      BY <1>2, <2>1, <2>2 DEF Available, Busy
    <3> QED  BY <2>2, <2>3, <3>1, <3>2 DEF Heeds
  <2> QED  BY <1>2, <2>1, <2>3 DEF MembersInv, Decided, Busy
<1> QED  BY <1>1, <1>2

(* A call that changes only its own record keeps the invariant when it keeps it for itself
   and the keys it takes are free: no other call sees the difference. *)
LEMMA StepKeeps ==
  ASSUME NEW c \in Rpc, MembersInv, NEW r \in CallUnderWay \cup {NoCall},
         rpc' = [rpc EXCEPT ![c] = r], UNCHANGED <<tables, crowned>>,
         r # NoCall => Holding(r) /\ Heeds(c, r) /\ \A k \in r.locks :
           k = <<"share">> \/ (Busy(c) /\ k \in rpc[c].locks) \/ Available(c, k)
  PROVE  MembersInv'
<1>1. rpc'[c] = r /\ \A d \in Rpc \ {c} : rpc'[d] = rpc[d]
  BY DEF MembersInv, CallsOK
<1>2. MembersTypeOK' /\ OwnerStays'
  BY DEF MembersInv, MembersTypeOK, OwnerStays, ActiveOwners, Owners, tables
<1>3. CallsOK'
  BY <1>1 DEF MembersInv, CallsOK, tables
<1>4. OneHolder'
  <2> SUFFICES ASSUME NEW a \in Rpc, NEW b \in Rpc, a # b, Busy(a)', Busy(b)'
               PROVE  rpc'[a].locks \cap rpc'[b].locks \subseteq {<<"share">>}
    BY DEF OneHolder
  <2>1. CASE a # c /\ b # c
    BY <2>1, <1>1 DEF MembersInv, OneHolder, Busy
  <2>2. ASSUME NEW d \in Rpc \ {c}, Busy(c)', Busy(d)'
        PROVE  rpc'[c].locks \cap rpc'[d].locks \subseteq {<<"share">>}
    BY <2>2, <1>1 DEF MembersInv, OneHolder, Busy, Available, NoCall
  <2> QED  BY <2>1, <2>2
<1>5. ASSUME NEW d \in Rpc, Busy(d)'
      PROVE  Holding(rpc[d])'
  <2>1. Holding(rpc'[d])
    BY <1>1, <1>5 DEF Busy, NoCall, MembersInv
  <2> QED
    BY <2>1 DEF Holding, Claims, Route, HasTarget, HasGone, HasOwners, HasRequest, HasInvite,
       OwnsNothing, Owners, ActiveOwners, tables
<1>6. Decided'
  BY <1>1, DecidedKeeps
<1> QED  BY <1>2, <1>3, <1>4, <1>5, <1>6 DEF MembersInv

(* A call that is refused, or aborted, leaves nothing. *)
LEMMA EndKeeps ==
  ASSUME NEW c \in Rpc, MembersInv, Ends(c)
  PROVE  MembersInv'
BY StepKeeps DEF Ends, Becomes

(* A call under way is one. *)
LEMMA Working ==
  ASSUME NEW c \in Rpc, MembersInv, Busy(c)
  PROVE  rpc[c] \in CallUnderWay /\ Holding(rpc[c])
BY DEF MembersInv, CallsOK, Busy, NoCall

(* It goes on to another place, with more keys that were free, and deletes no membership. *)
LEMMA GoesOn ==
  ASSUME NEW c \in Rpc, MembersInv, Busy(c), rpc[c].pc \notin {"withdraw", "finish"},
         NEW r \in CallUnderWay, Becomes(c, r), NEW keys, r.locks = rpc[c].locks \cup keys,
         \A k \in keys : k = <<"share">> \/ Available(c, k),
         \A k \in keys, p \in Person : k # GoneKey(p), Claims(r),
         Granting(r) => \/ Granting(rpc[c]) /\ r.to = rpc[c].to
                        \/ role[r.to] # "none" /\ Available(c, GoneKey(r.to))
  PROVE  MembersInv'
<1>1. Holding(rpc[c])
  BY Working
<1>2. \A p \in Person : GoneKey(p) \notin r.locks
  BY <1>1 DEF Holding, Claims, HasGone
<1>3. Holding(r) /\ Heeds(c, r)
  BY <1>2 DEF Holding, Claims, HasGone, Heeds
<1> QED  BY <1>3, StepKeeps DEF Becomes

LEMMA GoesOnFreely ==
  ASSUME NEW c \in Rpc, MembersInv, Busy(c), rpc[c].pc \notin {"withdraw", "finish"},
         NEW r \in CallUnderWay, Becomes(c, r), r.locks = rpc[c].locks, Claims(r),
         Granting(r) => \/ Granting(rpc[c]) /\ r.to = rpc[c].to
                        \/ role[r.to] # "none" /\ Available(c, GoneKey(r.to))
  PROVE  MembersInv'
<1> DEFINE keys == {}
<1>1. r.locks = rpc[c].locks \cup keys /\ \A k \in keys : FALSE
  OBVIOUS
<1> HIDE DEF keys
<1> QED  BY <1>1, GoesOn

(* A call begins with nothing. *)
LEMMA CallingKeeps ==
  ASSUME NEW c \in Rpc, MembersInv, NEW op \in Ops, NEW p \in Person, NEW q \in Person,
         NEW arg \in OrgRole \cup {"", "approve", "reject"}, Calling(c, op, p, q, arg),
         op \in {"delete", "leave", "accept", "join"} => q = p,
         op = "role" => arg \in OrgRole, op \in {"add", "rank"} => arg \in {"admin", "member"}
  PROVE  MembersInv'
<1> DEFINE r == [op |-> op, who |-> p, to |-> q, arg |-> arg, me |-> role[p], pc |-> "start",
                 see |-> {}, locks |-> {}, add |-> FALSE, put |-> "none", drop |-> FALSE]
<1>1. r \in CallUnderWay
  BY DEF CallUnderWay, MembersInv, MembersTypeOK, OrgRole
<1>2. rpc' = [rpc EXCEPT ![c] = r] /\ UNCHANGED <<tables, crowned>>
  BY DEF Calling
<1>3. Holding(r) /\ Heeds(c, r) /\ r.locks = {}
  BY DEF Heeds, Granting, Granted, HasGone, Holding, Claims, Route, HasTarget, HasOwners, HasRequest, HasInvite, Pending, OrgRole, Departing, Managing, OrgOps, WaysIn
<1> HIDE DEF r
<1> QED  BY <1>1, <1>2, <1>3, StepKeeps

LEMMA BeginsKeeps ==
  ASSUME NEW c \in Rpc, MembersInv, Begins(c)
  PROVE  MembersInv'
<1>1. CASE SetOrgRole(c)
  BY <1>1, CallingKeeps DEF SetOrgRole, Ops, OrgOps, Managing, OrgRole
<1>2. CASE ManageMember(c)
  BY <1>2, CallingKeeps DEF ManageMember, Ops, OrgOps, Managing
<1>3. CASE \/ LeaveOrg(c) \/ DeleteAccount(c) \/ AcceptInvite(c) \/ RevokeInvite(c)
           \/ JoinServer(c) \/ LeaveServer(c)
  BY <1>3, CallingKeeps DEF LeaveOrg, DeleteAccount, AcceptInvite, RevokeInvite, JoinServer,
     LeaveServer, Ops, OrgOps, WaysIn
<1>4. CASE DecideRequest(c)
  BY <1>4, CallingKeeps DEF DecideRequest, Ops, WaysIn
<1>5. CASE AdministerServer(c)
  BY <1>5, CallingKeeps DEF AdministerServer, Ops, WaysIn, OrgRole
<1> QED  BY <1>1, <1>2, <1>3, <1>4, <1>5 DEF Begins

-----------------------------------------------------------------------------
(* The calls that mind the owners. *)

LEMMA SomeKeys ==
  ASSUME NEW p \in Person
  PROVE  /\ {MemberKey(p), RequestKey(p), <<"team", p>>, <<"invite">>, <<"server">>, <<"share">>}
             \subseteq Key
         /\ \A q : MemberKey(p) # GoneKey(q) /\ <<"team", p>> # GoneKey(q) /\ RequestKey(p) # GoneKey(q)
                  /\ GoneKey(q) \notin {<<"invite">>, <<"server">>, <<"share">>}
         /\ \A q : MemberKey(p) # RequestKey(q) /\ <<"team", p>> # RequestKey(q)
                  /\ (RequestKey(p) = RequestKey(q) => p = q)
                  /\ RequestKey(q) \notin {<<"invite">>, <<"server">>, <<"share">>}
BY DEF Key, MemberKey, RequestKey, GoneKey

(* What SeeOwners sees is all owners, or its caller is none. *)
LEMMA SeeOwnersKeeps ==
  ASSUME NEW c \in Rpc, MembersInv, SeeOwners(c)
  PROVE  MembersInv'
<1> DEFINE owns == rpc[c].op = "delete" => role[rpc[c].who] = "owner"
           r == [rpc[c] EXCEPT !.pc = "owners", !.see = IF owns THEN Owners ELSE {}]
<1>1. rpc[c] \in CallUnderWay /\ Busy(c) /\ Holding(rpc[c]) /\ rpc[c].op \in OrgOps
  BY Working DEF SeeOwners, Busy, MindsOwners, OrgOps
<1>2. Becomes(c, r) /\ rpc[c].pc = "start"
  BY DEF SeeOwners
<1>3. Owners \subseteq Person /\ (owns => Owners \subseteq r.see)
  BY <1>1 DEF Owners, CallUnderWay
<1>4. /\ r \in CallUnderWay /\ r.pc = "owners" /\ r.locks = rpc[c].locks
      /\ r.op = rpc[c].op /\ r.who = rpc[c].who /\ r.to = rpc[c].to /\ r.arg = rpc[c].arg
      /\ r.add = rpc[c].add /\ r.put = rpc[c].put
  BY <1>1, <1>3 DEF CallUnderWay, Places
<1>5. owns \/ OwnsNothing(rpc[c])
  BY <1>1 DEF OwnsNothing, Holding, Claims, Route, Departing, Granted
<1> HIDE DEF r, owns
<1>6. Route(r) /\ HasTarget(r) /\ HasRequest(r) /\ HasInvite(r)
  BY <1>1, <1>2, <1>4 DEF Holding, Claims, Route, HasTarget, HasRequest, HasInvite, OrgOps, Managing, Pending, Departing, Granted, WaysIn
<1>7. HasOwners(r)
  BY <1>3, <1>4, <1>5 DEF HasOwners, OwnsNothing
<1>8. Claims(r) /\ ~Granting(r)
  BY <1>1, <1>2, <1>4, <1>6, <1>7 DEF Claims, Granting, Granted, OrgOps, Managing
<1> QED  BY <1>1, <1>2, <1>4, <1>6, <1>7, <1>8, GoesOnFreely

(* LockOwners waits for what it saw, so what it then holds is every owner's row. *)
LEMMA LockOwnersKeeps ==
  ASSUME NEW c \in Rpc, MembersInv, LockOwners(c)
  PROVE  MembersInv'
<1> DEFINE keys == {<<"member", p>> : p \in rpc[c].see \cap Owners}
           pc == IF rpc[c].op = "delete" THEN "check" ELSE "target"
           r == Enter(c, pc, keys)
<1>1. rpc[c] \in CallUnderWay /\ Busy(c) /\ Holding(rpc[c])
  BY Working DEF LockOwners, Busy
<1>2. Becomes(c, r) /\ rpc[c].pc = "owners" /\ rpc[c].op \in OrgOps
  BY <1>1 DEF LockOwners, Holding, Claims, Route, Departing, Granted
<1>3. keys \in SUBSET Key
  <2>1. rpc[c].see \subseteq Person
    BY <1>1 DEF CallUnderWay
  <2> QED  BY <2>1, SomeKeys DEF MemberKey
<1>4. \A k \in keys : Available(c, k) /\ \A p \in Person : k # RequestKey(p) /\ k # GoneKey(p)
  BY DEF LockOwners, RequestKey, GoneKey
<1>5. \A p \in rpc[c].see \cap Owners : MemberKey(p) \in keys
  BY DEF MemberKey
<1>6. pc \in {"check", "target"} /\ (pc = "check" <=> rpc[c].op = "delete")
  OBVIOUS
<1> HIDE DEF keys, pc
<1>7. /\ r \in CallUnderWay /\ r.pc = pc /\ r.locks = rpc[c].locks \cup keys
      /\ r.op = rpc[c].op /\ r.who = rpc[c].who /\ r.to = rpc[c].to /\ r.arg = rpc[c].arg
      /\ r.see = rpc[c].see /\ r.add = rpc[c].add /\ r.put = rpc[c].put
  BY <1>1, <1>3, <1>6, EnterFields DEF Places
<1> HIDE DEF r
<1>8. Route(r) /\ HasTarget(r) /\ HasInvite(r)
  BY <1>1, <1>2, <1>6, <1>7 DEF Holding, Claims, Route, HasTarget, HasInvite, OrgOps, Managing, Departing, Granted
<1>9. HasRequest(r)
  BY <1>1, <1>2, <1>4, <1>6, <1>7 DEF Holding, Claims, HasRequest, OrgOps, Managing, Departing, Granted, WaysIn
<1>10. HasOwners(r)
  <2>1. ~crowned => (\A p \in Owners : MemberKey(p) \in r.locks) \/ OwnsNothing(rpc[c])
    BY <1>1, <1>2, <1>5, <1>7 DEF Holding, Claims, HasOwners
  <2> QED  BY <1>1, <1>2, <1>6, <1>7, <2>1 DEF Holding, Claims, HasOwners, OwnsNothing
<1>11. Claims(r) /\ ~Granting(r)
  BY <1>1, <1>2, <1>4, <1>7, <1>8, <1>9, <1>10 DEF Claims, Granting, Granted, OrgOps, Managing
<1> QED  BY <1>1, <1>2, <1>4, <1>7, <1>8, <1>9, <1>10, <1>11, GoesOn

(* The target is locked and read again; an owner is checked before anything else. *)
LEMMA LockTargetKeeps ==
  ASSUME NEW c \in Rpc, MembersInv, LockTarget(c)
  PROVE  MembersInv'
<1> DEFINE q == rpc[c].to
           keys == IF role[q] = "none" THEN {} ELSE {MemberKey(q)}
           pc == IF role[q] = "owner" /\ rpc[c].op # "restore" THEN "check" ELSE Checked(c)
           r == Enter(c, pc, keys)
<1>1. rpc[c] \in CallUnderWay /\ Busy(c) /\ Holding(rpc[c]) /\ rpc[c].pc = "target"
  BY Working DEF LockTarget, Busy
<1>2. rpc[c].op \in OrgOps \ {"delete"} /\ q \in Person
  BY <1>1 DEF Holding, Claims, Route, CallUnderWay, Departing, Granted
<1>3. CASE Ends(c)
  BY <1>3, EndKeeps
<1>4. CASE ~Ends(c)
  <2>1. Becomes(c, r) /\ (rpc[c].op # "leave" => role[q] # "none") /\ Available(c, MemberKey(q))
    BY <1>4 DEF LockTarget, MemberKey
  <2>2. keys \in SUBSET Key /\ \A k \in keys : Available(c, k) /\ \A p \in Person : k # RequestKey(p) /\ k # GoneKey(p)
    BY <1>2, <2>1, SomeKeys
  <2>3. /\ pc \in {"check", "strip", "finish"}
        /\ pc = "strip" => Strips(c)
        /\ role[q] = "owner" /\ Takes(rpc[c]) => pc = "check"
        /\ role[q] # "none" => MemberKey(q) \in keys
    BY DEF Checked, Takes, Departing
  <2> HIDE DEF keys, pc
  <2>4. /\ r \in CallUnderWay /\ r.pc = pc /\ r.locks = rpc[c].locks \cup keys
        /\ r.op = rpc[c].op /\ r.who = rpc[c].who /\ r.to = rpc[c].to /\ r.arg = rpc[c].arg
        /\ r.see = rpc[c].see /\ r.add = rpc[c].add /\ r.put = rpc[c].put
    BY <1>1, <2>2, <2>3, EnterFields DEF Places
  <2> HIDE DEF r
  <2>5. Route(r) /\ HasTarget(r) /\ HasInvite(r)
    BY <1>1, <1>2, <2>1, <2>3, <2>4 DEF Holding, Claims, Route, HasTarget, HasInvite, OrgOps, Managing, Departing, Granted
  <2>6. HasRequest(r)
    BY <1>1, <1>2, <2>2, <2>3, <2>4 DEF Holding, Claims, HasRequest, OrgOps, Managing, WaysIn, Departing, Granted
  <2>7. HasOwners(r)
    BY <1>1, <1>2, <2>3, <2>4 DEF Holding, Claims, HasOwners, OwnsNothing, Takes
  <2>8. Claims(r) /\ ~Granting(r)
    BY <1>2, <2>4, <2>5, <2>6, <2>7 DEF Claims, Granting, Granted, OrgOps, Managing
  <2> QED  BY <1>1, <2>1, <2>2, <2>4, <2>5, <2>6, <2>7, <2>8, GoesOn
<1> QED  BY <1>3, <1>4

(* Behind this check there is another active owner than the one who goes. *)
LEMMA AssertNotLastOwnerKeeps ==
  ASSUME NEW c \in Rpc, MembersInv, AssertNotLastOwner(c)
  PROVE  MembersInv'
<1> DEFINE pc == Checked(c)
           r == Enter(c, pc, {})
<1>1. rpc[c] \in CallUnderWay /\ Busy(c) /\ Holding(rpc[c]) /\ rpc[c].pc = "check"
  BY Working DEF AssertNotLastOwner, Busy
<1>2. CASE Ends(c)
  BY <1>2, EndKeeps
<1>3. CASE ~Ends(c)
  <2>1. Becomes(c, r) /\ ~(role[rpc[c].to] = "owner" /\ ActiveOwners \subseteq {rpc[c].to})
    BY <1>3 DEF AssertNotLastOwner
  <2>2. pc \in {"strip", "finish"} /\ rpc[c].op \in OrgOps /\ rpc[c].to \in Person
    BY <1>1 DEF Checked, Holding, Claims, Route, CallUnderWay, Departing, Granted
  <2> HIDE DEF pc
  <2>3. /\ r \in CallUnderWay /\ r.pc = pc /\ r.locks = rpc[c].locks
        /\ r.op = rpc[c].op /\ r.who = rpc[c].who /\ r.to = rpc[c].to /\ r.arg = rpc[c].arg
        /\ r.see = rpc[c].see /\ r.add = rpc[c].add /\ r.put = rpc[c].put
    BY <1>1, <2>2, EnterFreely DEF Places
  <2> HIDE DEF r
  <2>4. Route(r) /\ HasTarget(r) /\ HasInvite(r)
    BY <1>1, <2>2, <2>3 DEF Holding, Claims, Route, HasTarget, HasInvite, OrgOps, Managing, Departing, Granted
  <2>5. HasRequest(r)
    BY <1>1, <2>2, <2>3 DEF Holding, Claims, HasRequest, OrgOps, Managing, WaysIn, Departing, Granted
  <2>6. HasOwners(r)
    BY <1>1, <2>1, <2>2, <2>3 DEF Holding, Claims, HasOwners, OwnsNothing
  <2>7. Claims(r) /\ ~Granting(r)
    BY <2>2, <2>3, <2>4, <2>5, <2>6 DEF Claims, Granting, Granted, OrgOps, Managing
  <2> QED  BY <1>1, <2>1, <2>3, <2>4, <2>5, <2>6, <2>7, GoesOnFreely
<1> QED  BY <1>2, <1>3

(* The memberships of teams go first; a deletion skips an organization its caller is not in. *)
LEMMA StripKeeps ==
  ASSUME NEW c \in Rpc, MembersInv, Strip(c)
  PROVE  MembersInv'
<1> DEFINE q == rpc[c].to
           team_q == <<"team", q>>
<1>1. rpc[c] \in CallUnderWay /\ Busy(c) /\ Holding(rpc[c]) /\ rpc[c].pc = "strip"
  BY Working DEF Strip, Busy
<1>2. rpc[c].op \in OrgOps /\ q \in Person
  BY <1>1 DEF Holding, Claims, Route, CallUnderWay, Departing, Granted
<1>3. ASSUME NEW r \in CallUnderWay, Becomes(c, r), NEW keys, keys \subseteq {team_q},
             \/ r.pc = Stripped(c) /\ r.arg = rpc[c].arg
             \/ r.pc = "withdraw" /\ r.arg = "outside" /\ r.op = "delete",
             r.locks = rpc[c].locks \cup keys, \A k \in keys : Available(c, k),
             r.op = rpc[c].op, r.who = rpc[c].who, r.to = rpc[c].to,
             r.see = rpc[c].see, r.add = rpc[c].add, r.put = rpc[c].put
      PROVE  MembersInv'
  <2>1. \A k \in keys, p \in Person : k # GoneKey(p) /\ k # RequestKey(p)
    BY <1>2, <1>3, SomeKeys
  <2>2. /\ r.pc \in {"part", "withdraw", "finish"}
        /\ r.pc = "part" => r.op \in Departing
        /\ r.pc = "withdraw" => r.op \in Departing
    BY <1>3 DEF Stripped, Departing
  <2>3. Route(r) /\ HasTarget(r) /\ HasInvite(r)
    BY <1>1, <1>2, <1>3, <2>2 DEF Holding, Claims, Route, HasTarget, HasInvite, OrgOps, Managing, Granted, Departing
  <2>4. HasRequest(r)
    BY <1>1, <1>2, <1>3, <2>1 DEF Holding, Claims, HasRequest, OrgOps, Managing, WaysIn, Departing, Granted
  <2>5. HasOwners(r)
    BY <1>1, <1>2, <1>3, <2>2 DEF Holding, Claims, HasOwners, OwnsNothing, Takes, Departing
  <2>6. ~Granting(r)
    BY <1>2, <1>3 DEF Granting, OrgOps, Managing
  <2> QED  BY <1>1, <1>3, <2>1, <2>3, <2>4, <2>5, <2>6, GoesOn DEF Claims
<1>4. CASE rpc[c].op = "delete" /\ role[q] = "none"
  <2> DEFINE r == [rpc[c] EXCEPT !.pc = "withdraw", !.arg = "outside"]
  <2>1. Becomes(c, r)
    BY <1>4 DEF Strip
  <2>2. /\ r \in CallUnderWay /\ r.pc = "withdraw" /\ r.locks = rpc[c].locks \cup {}
        /\ r.op = rpc[c].op /\ r.who = rpc[c].who /\ r.to = rpc[c].to /\ r.arg = "outside"
        /\ r.see = rpc[c].see /\ r.add = rpc[c].add /\ r.put = rpc[c].put
    BY <1>1 DEF CallUnderWay, Places
  <2> HIDE DEF r
  <2> DEFINE keys == {}
  <2>3. r.locks = rpc[c].locks \cup keys /\ keys \subseteq {team_q} /\ \A k \in keys : FALSE
    BY <2>2
  <2> HIDE DEF keys
  <2> QED  BY <1>3, <1>4, <2>1, <2>2, <2>3
<1>5. CASE ~(rpc[c].op = "delete" /\ role[q] = "none") /\ team[q] = "none"
  <2> DEFINE r == Enter(c, Stripped(c), {})
  <2>1. Becomes(c, r) /\ Stripped(c) \in Places
    BY <1>5 DEF Strip, Stripped, Places
  <2>2. /\ r \in CallUnderWay /\ r.pc = Stripped(c) /\ r.locks = rpc[c].locks \cup {}
        /\ r.op = rpc[c].op /\ r.who = rpc[c].who /\ r.to = rpc[c].to /\ r.arg = rpc[c].arg
        /\ r.see = rpc[c].see /\ r.add = rpc[c].add /\ r.put = rpc[c].put
    BY <1>1, <2>1, EnterFreely DEF Places
  <2> HIDE DEF r
  <2> DEFINE keys == {}
  <2>3. r.locks = rpc[c].locks \cup keys /\ keys \subseteq {team_q} /\ \A k \in keys : FALSE
    BY <2>2
  <2> HIDE DEF keys
  <2> QED  BY <1>3, <2>1, <2>2, <2>3
<1>6. CASE ~(rpc[c].op = "delete" /\ role[q] = "none") /\ team[q] # "none"
  <2> DEFINE s == Enter(c, Stripped(c), {team_q})
             r == [s EXCEPT !.drop = TRUE]
  <2>1. Becomes(c, r) /\ Available(c, team_q) /\ Stripped(c) \in Places
    BY <1>6 DEF Strip, Stripped, Places
  <2>2. /\ s \in CallUnderWay /\ s.pc = Stripped(c) /\ s.locks = rpc[c].locks \cup {team_q}
        /\ s.op = rpc[c].op /\ s.who = rpc[c].who /\ s.to = rpc[c].to /\ s.arg = rpc[c].arg
        /\ s.see = rpc[c].see /\ s.add = rpc[c].add /\ s.put = rpc[c].put
    BY <1>1, <1>2, <2>1, SomeKeys, EnterFields DEF Places
  <2> HIDE DEF s
  <2>3. /\ r \in CallUnderWay /\ r.pc = s.pc /\ r.locks = s.locks
        /\ r.op = s.op /\ r.who = s.who /\ r.to = s.to /\ r.arg = s.arg
        /\ r.see = s.see /\ r.add = s.add /\ r.put = s.put
    BY <2>2 DEF CallUnderWay
  <2> HIDE DEF r
  <2> QED  BY <1>3, <2>1, <2>2, <2>3
<1> QED  BY <1>4, <1>5, <1>6

(* A membership is deleted behind its row's lock. *)
LEMMA PartKeeps ==
  ASSUME NEW c \in Rpc, MembersInv, Part(c)
  PROVE  MembersInv'
<1> DEFINE q == rpc[c].to
           keys == IF role[q] = "none" THEN {} ELSE {MemberKey(q), GoneKey(q)}
           r == Enter(c, "withdraw", keys)
<1>1. rpc[c] \in CallUnderWay /\ Busy(c) /\ Holding(rpc[c]) /\ rpc[c].pc = "part"
  BY Working DEF Part, Busy
<1>2. rpc[c].op \in Departing /\ rpc[c].op \in OrgOps /\ q \in Person
  BY <1>1 DEF Holding, Claims, Route, CallUnderWay, Departing, OrgOps, Managing, Granted
<1>3. Becomes(c, r) /\ (role[q] # "none" => Available(c, MemberKey(q)))
  BY DEF Part, MemberKey, GoneKey
<1>4. keys \in SUBSET Key /\ \A p \in Person : RequestKey(p) \notin keys
  BY <1>2 DEF Key, MemberKey, GoneKey, RequestKey
<1>5. \A k \in keys : k = GoneKey(q) \/ Available(c, k)
  BY <1>3
<1>6. \A p \in Person : GoneKey(p) \in keys => p = q /\ MemberKey(p) \in keys /\ role[p] # "none"
  BY <1>2, SomeKeys DEF GoneKey
<1>7. GoneKey(q) \in keys => MemberKey(q) \in keys /\ Available(c, MemberKey(q))
  BY <1>3, <1>6
<1> HIDE DEF keys
<1>8. /\ r \in CallUnderWay /\ r.pc = "withdraw" /\ r.locks = rpc[c].locks \cup keys
      /\ r.op = rpc[c].op /\ r.who = rpc[c].who /\ r.to = rpc[c].to /\ r.arg = rpc[c].arg
      /\ r.see = rpc[c].see /\ r.add = rpc[c].add /\ r.put = rpc[c].put
  BY <1>1, <1>4, EnterFields DEF Places
<1> HIDE DEF r
<1>9. Route(r) /\ HasTarget(r) /\ HasInvite(r)
  BY <1>1, <1>2, <1>8 DEF Holding, Claims, Route, HasTarget, HasInvite, OrgOps, Managing, Departing, Granted
<1>10. HasRequest(r) /\ HasOwners(r)
  <2>1. HasRequest(r)
    BY <1>1, <1>2, <1>4, <1>8 DEF Holding, Claims, HasRequest, Departing, WaysIn
  <2>2. HasOwners(r)
    BY <1>1, <1>2, <1>8 DEF Holding, Claims, HasOwners, OwnsNothing, Takes
  <2> QED  BY <2>1, <2>2
<1>11. HasGone(r)
  BY <1>1, <1>2, <1>6, <1>8 DEF Holding, Claims, HasGone
<1>12. Heeds(c, r)
  BY <1>2, <1>8 DEF Heeds, Granting, Departing
<1>13. GoneKey(q) \in keys => \/ Busy(c) /\ GoneKey(q) \in rpc[c].locks
                              \/ Available(c, GoneKey(q))
  <2> SUFFICES ASSUME GoneKey(q) \in keys, NEW d \in Rpc \ {c}, Busy(d)
               PROVE  GoneKey(q) \notin rpc[d].locks
    BY DEF Available, Busy
  <2>1. MemberKey(q) \notin rpc[d].locks
    BY <1>7 DEF Available, Busy
  <2> QED  BY <1>2, <2>1, Working DEF Holding, Claims, HasGone
<1>14. \A k \in r.locks : (Busy(c) /\ k \in rpc[c].locks) \/ Available(c, k)
  BY <1>1, <1>5, <1>8, <1>13
<1>15. Holding(r)
  BY <1>9, <1>10, <1>11 DEF Holding, Claims
<1> QED  BY <1>3, <1>8, <1>12, <1>14, <1>15, StepKeeps DEF Becomes

(* A request is withdrawn behind its lock, so nobody is approving it. *)
LEMMA WithdrawKeeps ==
  ASSUME NEW c \in Rpc, MembersInv, Withdraw(c)
  PROVE  MembersInv'
<1> DEFINE q == rpc[c].to
           keys == {RequestKey(p) : p \in {x \in {q} : request[x] \in Pending}}
           r == Enter(c, "finish", keys)
<1>1. rpc[c] \in CallUnderWay /\ Busy(c) /\ Holding(rpc[c]) /\ rpc[c].pc = "withdraw"
  BY Working DEF Withdraw, Busy
<1>2. rpc[c].op \in Departing \cup {"quit"} /\ q \in Person
  BY <1>1 DEF Holding, Claims, Route, CallUnderWay, Departing, Granted
<1>3. Becomes(c, r) /\ \A k \in keys : Available(c, k)
  BY DEF Withdraw, RequestKey
<1>4. keys \in SUBSET Key /\ \A p \in Person : GoneKey(p) \notin keys
  BY <1>2, SomeKeys
<1>5. request[q] \in Pending => RequestKey(q) \in keys
  OBVIOUS
<1> HIDE DEF keys
<1>6. /\ r \in CallUnderWay /\ r.pc = "finish" /\ r.locks = rpc[c].locks \cup keys
      /\ r.op = rpc[c].op /\ r.who = rpc[c].who /\ r.to = rpc[c].to /\ r.arg = rpc[c].arg
      /\ r.see = rpc[c].see /\ r.add = rpc[c].add /\ r.put = rpc[c].put
  BY <1>1, <1>4, EnterFields DEF Places
<1> HIDE DEF r
<1>7. Route(r) /\ HasTarget(r) /\ HasInvite(r)
  BY <1>1, <1>2, <1>6 DEF Holding, Claims, Route, HasTarget, HasInvite, OrgOps, Managing, Departing, Granted
<1>8. HasRequest(r) /\ HasOwners(r)
  <2>1. HasRequest(r)
    BY <1>1, <1>2, <1>6 DEF Holding, Claims, HasRequest, Departing, WaysIn
  <2>2. HasOwners(r)
    BY <1>1, <1>2, <1>6 DEF Holding, Claims, HasOwners, OwnsNothing, Takes
  <2> QED  BY <2>1, <2>2
<1>9. HasGone(r)
  BY <1>1, <1>4, <1>6 DEF Holding, Claims, HasGone
<1>10. Heeds(c, r)
  <2>1. ~Granting(r)
    BY <1>2, <1>6 DEF Granting, Departing
  <2>2. \A p \in Person : GoneKey(p) \in r.locks => p = q
    BY <1>6, <1>9 DEF HasGone
  <2>3. request[q] \notin Pending \/ Available(c, RequestKey(q))
    BY <1>3, <1>5
  <2> QED  BY <2>1, <2>2, <2>3 DEF Heeds
<1>11. Holding(r)
  BY <1>7, <1>8, <1>9 DEF Holding, Claims
<1> QED  BY <1>1, <1>3, <1>6, <1>10, <1>11, StepKeeps DEF Becomes

-----------------------------------------------------------------------------
(* Ways in. *)

LEMMA AcceptLookKeeps ==
  ASSUME NEW c \in Rpc, MembersInv, AcceptLook(c)
  PROVE  MembersInv'
<1> DEFINE pc == IF invite.approval \/ ~open THEN "ask" ELSE "org"
           keys == {<<"invite">>}
           r == Enter(c, pc, keys)
<1>1. /\ rpc[c] \in CallUnderWay /\ Busy(c) /\ Holding(rpc[c])
      /\ rpc[c].op = "accept" /\ rpc[c].pc = "start" /\ Available(c, <<"invite">>)
  BY Working DEF AcceptLook, Busy
<1>2. CASE Ends(c)
  BY <1>2, EndKeeps
<1>3. CASE ~Ends(c)
  <2>1. Becomes(c, r) /\ ~invite.revoked
    BY <1>3 DEF AcceptLook, InviteProblem
  <2>2. pc \in {"ask", "org"} /\ keys \in SUBSET Key
    BY DEF Key
  <2>3. \A k \in keys : Available(c, k) /\ \A p \in Person : k # RequestKey(p) /\ k # GoneKey(p)
    BY <1>1 DEF RequestKey, GoneKey
  <2>4. <<"invite">> \in keys
    OBVIOUS
  <2> HIDE DEF pc, keys
  <2>5. /\ r \in CallUnderWay /\ r.pc = pc /\ r.locks = rpc[c].locks \cup keys
        /\ r.op = rpc[c].op /\ r.who = rpc[c].who /\ r.to = rpc[c].to /\ r.arg = rpc[c].arg
        /\ r.see = rpc[c].see /\ r.add = rpc[c].add /\ r.put = rpc[c].put
    BY <1>1, <2>2, EnterFields DEF Places
  <2> HIDE DEF r
  <2>6. Route(r) /\ HasInvite(r)
    BY <1>1, <2>1, <2>2, <2>4, <2>5 DEF Holding, Claims, Route, HasInvite, Departing, Granted
  <2>7. HasTarget(r) /\ HasOwners(r)
    BY <1>1, <2>2, <2>5 DEF Holding, Claims, HasTarget, HasOwners, OrgOps, Managing
  <2>8. HasRequest(r)
    BY <1>1, <2>2, <2>3, <2>5 DEF Holding, Claims, HasRequest, WaysIn, Departing, Granted, Managing, OrgOps
  <2>9. Claims(r) /\ ~Granting(r)
    BY <1>1, <2>1, <2>3, <2>5, <2>6, <2>7, <2>8 DEF Claims, Granting, Granted, OrgOps, Managing
  <2> QED  BY <1>1, <2>1, <2>3, <2>5, <2>6, <2>7, <2>8, <2>9, GoesOn
<1> QED  BY <1>2, <1>3

LEMMA JoinLookKeeps ==
  ASSUME NEW c \in Rpc, MembersInv, JoinLook(c)
  PROVE  MembersInv'
<1> DEFINE pc == IF open \/ OrgAdmin(rpc[c].who) THEN "team" ELSE "ask"
           r == Enter(c, pc, {})
<1>1. rpc[c] \in CallUnderWay /\ Busy(c) /\ Holding(rpc[c]) /\ rpc[c].op = "join" /\ rpc[c].pc = "start"
  BY Working DEF JoinLook, Busy
<1>2. CASE Ends(c)
  BY <1>2, EndKeeps
<1>3. CASE ~Ends(c)
  <2>1. Becomes(c, r) /\ pc \in {"team", "ask"}
    BY <1>3 DEF JoinLook
  <2> HIDE DEF pc
  <2>2. /\ r \in CallUnderWay /\ r.pc = pc /\ r.locks = rpc[c].locks
        /\ r.op = rpc[c].op /\ r.who = rpc[c].who /\ r.to = rpc[c].to /\ r.arg = rpc[c].arg
        /\ r.see = rpc[c].see /\ r.add = rpc[c].add /\ r.put = rpc[c].put
    BY <1>1, <2>1, EnterFreely DEF Places
  <2> HIDE DEF r
  <2>3. Route(r) /\ HasInvite(r) /\ HasTarget(r) /\ HasOwners(r)
    BY <1>1, <2>1, <2>2 DEF Holding, Claims, Route, HasInvite, HasTarget, HasOwners, OrgOps, Managing, WaysIn, Departing, Granted
  <2>4. HasRequest(r)
    BY <1>1, <2>1, <2>2 DEF Holding, Claims, HasRequest, WaysIn, Departing, Granted, Managing, OrgOps
  <2>5. Claims(r) /\ ~Granting(r)
    BY <1>1, <2>1, <2>2, <2>3, <2>4 DEF Claims, Granting, Granted, OrgOps, Managing
  <2> QED  BY <1>1, <2>1, <2>2, <2>3, <2>4, <2>5, GoesOnFreely
<1> QED  BY <1>2, <1>3

(* Who asks writes a request nobody else has. *)
LEMMA AskToJoinKeeps ==
  ASSUME NEW c \in Rpc, MembersInv, AskToJoin(c)
  PROVE  MembersInv'
<1> DEFINE q == rpc[c].to
           put == IF rpc[c].op = "accept" THEN "invited" ELSE "asked"
           keys == {RequestKey(q), <<"share">>}
           s == Enter(c, "finish", keys)
           r == [s EXCEPT !.put = put]
<1>1. rpc[c] \in CallUnderWay /\ Busy(c) /\ Holding(rpc[c]) /\ rpc[c].pc = "ask"
  BY Working DEF AskToJoin, Busy
<1>2. rpc[c].op \in {"accept", "join"} /\ rpc[c].who = q /\ q \in Person
  BY <1>1 DEF Holding, Claims, Route, CallUnderWay, Departing, Granted
<1>3. CASE Ends(c)
  BY <1>3, EndKeeps
<1>4. CASE ~Ends(c)
  <2>1. Becomes(c, r) /\ Available(c, RequestKey(q))
    BY <1>2, <1>4 DEF AskToJoin, RequestKey
  <2>2. keys \in SUBSET Key /\ put \in Pending
    BY <1>2, SomeKeys DEF Pending
  <2>3. /\ RequestKey(q) \in keys /\ \A k \in keys : k = <<"share">> \/ Available(c, k)
        /\ \A k \in keys, p \in Person : k # GoneKey(p)
    BY <1>2, <2>1, SomeKeys
  <2> HIDE DEF keys, put
  <2>4. /\ s \in CallUnderWay /\ s.pc = "finish" /\ s.locks = rpc[c].locks \cup keys
        /\ s.op = rpc[c].op /\ s.who = rpc[c].who /\ s.to = rpc[c].to /\ s.arg = rpc[c].arg
        /\ s.see = rpc[c].see /\ s.add = rpc[c].add /\ s.put = rpc[c].put
    BY <1>1, <2>2, EnterFields DEF Places
  <2> HIDE DEF s
  <2>5. /\ r \in CallUnderWay /\ r.pc = s.pc /\ r.locks = s.locks /\ r.op = s.op
        /\ r.who = s.who /\ r.to = s.to /\ r.arg = s.arg /\ r.add = s.add /\ r.put = put
    BY <2>2, <2>4 DEF CallUnderWay
  <2> HIDE DEF r
  <2>6. Route(r) /\ HasInvite(r) /\ HasTarget(r) /\ HasOwners(r)
    BY <1>1, <1>2, <2>4, <2>5 DEF Holding, Claims, Route, HasInvite, HasTarget, HasOwners, OrgOps, Managing, Departing, Granted
  <2>7. HasRequest(r)
    BY <1>2, <2>2, <2>3, <2>4, <2>5 DEF HasRequest, WaysIn, Departing, Granted, Managing, OrgOps
  <2>8. Claims(r) /\ ~Granting(r)
    BY <1>2, <2>4, <2>5, <2>6, <2>7 DEF Claims, Granting, Granted, OrgOps, Managing
  <2> QED  BY <1>1, <2>1, <2>3, <2>4, <2>5, <2>6, <2>7, <2>8, GoesOn
<1> QED  BY <1>3, <1>4

(* The row of a new member is the call's own. *)
LEMMA GrantOrgKeeps ==
  ASSUME NEW c \in Rpc, MembersInv, GrantOrg(c)
  PROVE  MembersInv'
<1> DEFINE q == rpc[c].to
<1>1. rpc[c] \in CallUnderWay /\ Busy(c) /\ Holding(rpc[c]) /\ rpc[c].pc = "org"
  BY Working DEF GrantOrg, Busy
<1>2. rpc[c].op \in {"accept", "decide"} /\ q \in Person
  BY <1>1 DEF Holding, Claims, Route, CallUnderWay, Departing, Granted
<1>3. CASE role[q] # "none"
  <2> DEFINE r == Enter(c, "role", {})
  <2>1. Becomes(c, r) /\ Available(c, GoneKey(q))
    BY <1>3 DEF GrantOrg, GoneKey
  <2>2. /\ r \in CallUnderWay /\ r.pc = "role" /\ r.locks = rpc[c].locks
        /\ r.op = rpc[c].op /\ r.who = rpc[c].who /\ r.to = rpc[c].to /\ r.arg = rpc[c].arg
        /\ r.see = rpc[c].see /\ r.add = rpc[c].add /\ r.put = rpc[c].put
    BY <1>1, EnterFreely DEF Places
  <2> HIDE DEF r
  <2>3. Route(r) /\ HasInvite(r) /\ HasTarget(r) /\ HasOwners(r)
    BY <1>1, <1>2, <2>2 DEF Holding, Claims, Route, HasInvite, HasTarget, HasOwners, OrgOps, Managing, WaysIn, Departing, Granted
  <2>4. HasRequest(r)
    BY <1>1, <1>2, <2>2 DEF Holding, Claims, HasRequest, WaysIn, Departing, Granted, Managing, OrgOps
  <2> QED  BY <1>1, <1>3, <2>1, <2>2, <2>3, <2>4, GoesOnFreely DEF Claims
<1>4. CASE role[q] = "none"
  <2> DEFINE keys == {MemberKey(q)}
             s == Enter(c, "role", keys)
             r == [s EXCEPT !.add = TRUE]
  <2>1. Becomes(c, r) /\ Available(c, MemberKey(q))
    BY <1>4 DEF GrantOrg, MemberKey
  <2>2. keys \in SUBSET Key /\ \A p \in Person : RequestKey(p) \notin keys /\ GoneKey(p) \notin keys
    BY <1>2, SomeKeys
  <2>3. MemberKey(q) \in keys /\ \A k \in keys : Available(c, k)
    BY <2>1
  <2> HIDE DEF keys
  <2>4. /\ s \in CallUnderWay /\ s.pc = "role" /\ s.locks = rpc[c].locks \cup keys
        /\ s.op = rpc[c].op /\ s.who = rpc[c].who /\ s.to = rpc[c].to /\ s.arg = rpc[c].arg
        /\ s.see = rpc[c].see /\ s.add = rpc[c].add /\ s.put = rpc[c].put
    BY <1>1, <2>2, EnterFields DEF Places
  <2> HIDE DEF s
  <2>5. /\ r \in CallUnderWay /\ r.pc = s.pc /\ r.locks = s.locks /\ r.op = s.op
        /\ r.who = s.who /\ r.to = s.to /\ r.arg = s.arg /\ r.add = TRUE /\ r.put = s.put
    BY <2>4 DEF CallUnderWay
  <2> HIDE DEF r
  <2>6. Route(r) /\ HasInvite(r) /\ HasTarget(r) /\ HasOwners(r)
    BY <1>1, <1>2, <1>4, <2>3, <2>4, <2>5 DEF Holding, Claims, Route, HasInvite, HasTarget, HasOwners,
       OrgOps, Managing, WaysIn
  <2>7. HasRequest(r)
    BY <1>1, <1>2, <2>2, <2>4, <2>5 DEF Holding, Claims, HasRequest, WaysIn, Departing, Granted, Managing, OrgOps
  <2>8. Claims(r) /\ ~Granting(r)
    BY <1>1, <2>1, <2>2, <2>3, <2>4, <2>5, <2>6, <2>7 DEF Claims, Granting, Granted, OrgOps, Managing
  <2> QED  BY <1>1, <2>1, <2>2, <2>3, <2>4, <2>5, <2>6, <2>7, <2>8, GoesOn
<1> QED  BY <1>3, <1>4

(* Whether it goes on with the grant, or has nothing more to give. *)
LEMMA GrantRoleKeeps ==
  ASSUME NEW c \in Rpc, MembersInv, GrantRole(c)
  PROVE  MembersInv'
<1> DEFINE pc == IF ~rpc[c].add /\ role[rpc[c].to] = "guest" THEN "finish" ELSE "team"
           r == Enter(c, pc, {})
<1>1. rpc[c] \in CallUnderWay /\ Busy(c) /\ Holding(rpc[c]) /\ rpc[c].pc = "role"
  BY Working DEF GrantRole, Busy
<1>2. rpc[c].op \in {"accept", "decide"} /\ (rpc[c].op = "decide" => rpc[c].arg = "approve")
  BY <1>1 DEF Holding, Claims, Route, Granted, Departing
<1>3. CASE Ends(c)
  BY <1>3, EndKeeps
<1>4. CASE ~Ends(c)
  <2>1. Becomes(c, r) /\ pc \in {"team", "finish"} /\ pc \in Places
    BY <1>4 DEF GrantRole, Places
  <2> HIDE DEF pc
  <2>2. /\ r \in CallUnderWay /\ r.pc = pc /\ r.locks = rpc[c].locks
        /\ r.op = rpc[c].op /\ r.who = rpc[c].who /\ r.to = rpc[c].to /\ r.arg = rpc[c].arg
        /\ r.see = rpc[c].see /\ r.add = rpc[c].add /\ r.put = rpc[c].put
    BY <1>1, <2>1, EnterFreely DEF Places
  <2> HIDE DEF r
  <2>3. Route(r) /\ HasInvite(r) /\ HasTarget(r) /\ HasOwners(r)
    BY <1>1, <1>2, <2>1, <2>2 DEF Holding, Claims, Route, HasInvite, HasTarget, HasOwners, OrgOps,
       Managing, WaysIn, Granted
  <2>4. HasRequest(r) /\ (Granting(r) => Granting(rpc[c]))
    BY <1>1, <1>2, <2>1, <2>2 DEF Holding, Claims, HasRequest, WaysIn, Granting, Granted, Departing, Managing, OrgOps
  <2> QED  BY <1>1, <2>1, <2>2, <2>3, <2>4, GoesOnFreely DEF Claims
<1> QED  BY <1>3, <1>4

LEMMA GrantTeamKeeps ==
  ASSUME NEW c \in Rpc, MembersInv, GrantTeam(c)
  PROVE  MembersInv'
<1> DEFINE r == Enter(c, "seat", {})
<1>1. rpc[c] \in CallUnderWay /\ Busy(c) /\ Holding(rpc[c]) /\ rpc[c].pc = "team"
  BY Working DEF GrantTeam, Busy
<1>2. rpc[c].op \in WaysIn /\ (rpc[c].op = "decide" => rpc[c].arg = "approve")
  BY <1>1 DEF Holding, Claims, Route, Granted, Departing
<1>3. CASE Ends(c)
  BY <1>3, EndKeeps
<1>4. CASE ~Ends(c)
  <2>1. Becomes(c, r)
    BY <1>4 DEF GrantTeam
  <2>2. /\ r \in CallUnderWay /\ r.pc = "seat" /\ r.locks = rpc[c].locks
        /\ r.op = rpc[c].op /\ r.who = rpc[c].who /\ r.to = rpc[c].to /\ r.arg = rpc[c].arg
        /\ r.see = rpc[c].see /\ r.add = rpc[c].add /\ r.put = rpc[c].put
    BY <1>1, EnterFreely DEF Places
  <2> HIDE DEF r
  <2>3. Route(r) /\ HasInvite(r) /\ HasTarget(r) /\ HasOwners(r)
    BY <1>1, <1>2, <2>2 DEF Holding, Claims, Route, HasInvite, HasTarget, HasOwners, OrgOps,
       Managing, WaysIn, Granted
  <2>4. HasRequest(r) /\ (Granting(r) => Granting(rpc[c]))
    BY <1>1, <1>2, <2>2 DEF Holding, Claims, HasRequest, WaysIn, Granting, Granted, Departing, Managing, OrgOps
  <2> QED  BY <1>1, <2>1, <2>2, <2>3, <2>4, GoesOnFreely DEF Claims
<1> QED  BY <1>3, <1>4

(* The row of a new member of the team is the call's own. *)
LEMMA GrantSeatKeeps ==
  ASSUME NEW c \in Rpc, MembersInv, GrantSeat(c)
  PROVE  MembersInv'
<1> DEFINE q == rpc[c].to
<1>1. rpc[c] \in CallUnderWay /\ Busy(c) /\ Holding(rpc[c]) /\ rpc[c].pc = "seat"
  BY Working DEF GrantSeat, Busy
<1>2. rpc[c].op \in WaysIn /\ (rpc[c].op = "decide" => rpc[c].arg = "approve") /\ q \in Person
  BY <1>1 DEF Holding, Claims, Route, Granted, CallUnderWay, Departing
<1>3. ASSUME NEW r \in CallUnderWay, Becomes(c, r), NEW keys, keys \subseteq {<<"team", q>>, <<"share">>},
             r.pc \in {"settle", "finish"}, r.locks = rpc[c].locks \cup keys,
             \A k \in keys : k = <<"share">> \/ Available(c, k),
             r.op = rpc[c].op, r.who = rpc[c].who, r.to = rpc[c].to, r.arg = rpc[c].arg,
             r.see = rpc[c].see, r.add = rpc[c].add, r.put = rpc[c].put \/ r.put \in {"admin", "member"}
      PROVE  MembersInv'
  <2>1. \A k \in keys, p \in Person : k # GoneKey(p) /\ k # RequestKey(p)
    BY <1>2, <1>3, SomeKeys
  <2>2. Route(r) /\ HasInvite(r) /\ HasTarget(r) /\ HasOwners(r)
    BY <1>1, <1>2, <1>3 DEF Holding, Claims, Route, HasInvite, HasTarget, HasOwners, OrgOps, Managing,
       WaysIn, Granted
  <2>3. HasRequest(r) /\ (Granting(r) => Granting(rpc[c]))
    BY <1>1, <1>2, <1>3, <2>1 DEF Holding, Claims, HasRequest, WaysIn, Granting, Granted, Pending, Departing, Managing, OrgOps
  <2> QED  BY <1>1, <1>3, <2>1, <2>2, <2>3, GoesOn DEF Claims
<1>4. CASE team[q] # "none"
  <2> DEFINE r == Enter(c, "finish", {})
  <2>1. Becomes(c, r)
    BY <1>4 DEF GrantSeat
  <2>2. /\ r \in CallUnderWay /\ r.pc = "finish" /\ r.locks = rpc[c].locks \cup {}
        /\ r.op = rpc[c].op /\ r.who = rpc[c].who /\ r.to = rpc[c].to /\ r.arg = rpc[c].arg
        /\ r.see = rpc[c].see /\ r.add = rpc[c].add /\ r.put = rpc[c].put
    BY <1>1, EnterFreely DEF Places
  <2> HIDE DEF r
  <2> DEFINE keys == {}
  <2>3. /\ r.locks = rpc[c].locks \cup keys /\ keys \subseteq {<<"team", q>>, <<"share">>}
        /\ \A k \in keys : FALSE
    BY <2>2
  <2> HIDE DEF keys
  <2> QED  BY <1>3, <2>1, <2>2, <2>3
<1>5. CASE team[q] = "none"
  <2> DEFINE keys == {<<"team", q>>, <<"share">>}
             put == IF rpc[c].op = "add" THEN rpc[c].arg ELSE "member"
             s == Enter(c, "settle", keys)
             r == [s EXCEPT !.put = put]
  <2>1. Becomes(c, r) /\ Available(c, <<"team", q>>)
    BY <1>5 DEF GrantSeat
  <2>2. keys \in SUBSET Key /\ keys \subseteq {<<"team", q>>, <<"share">>}
        /\ \A k \in keys : k = <<"share">> \/ Available(c, k)
    BY <1>2, <2>1, SomeKeys
  <2>3. put \in {"admin", "member"}
    BY <1>1 DEF Holding, Claims, Route, Departing, Granted
  <2> HIDE DEF keys, put
  <2>4. /\ s \in CallUnderWay /\ s.pc = "settle" /\ s.locks = rpc[c].locks \cup keys
        /\ s.op = rpc[c].op /\ s.who = rpc[c].who /\ s.to = rpc[c].to /\ s.arg = rpc[c].arg
        /\ s.see = rpc[c].see /\ s.add = rpc[c].add /\ s.put = rpc[c].put
    BY <1>1, <2>2, EnterFields DEF Places
  <2> HIDE DEF s
  <2>5. /\ r \in CallUnderWay /\ r.pc = s.pc /\ r.locks = s.locks /\ r.op = s.op /\ r.see = s.see
        /\ r.who = s.who /\ r.to = s.to /\ r.arg = s.arg /\ r.add = s.add /\ r.put = put
    BY <2>3, <2>4 DEF CallUnderWay
  <2> HIDE DEF r
  <2> QED  BY <1>3, <2>1, <2>2, <2>3, <2>4, <2>5
<1> QED  BY <1>4, <1>5

(* A pending request that joining settles is the call's own. *)
LEMMA SettleKeeps ==
  ASSUME NEW c \in Rpc, MembersInv, Settle(c)
  PROVE  MembersInv'
<1> DEFINE q == rpc[c].to
           keys == {RequestKey(p) : p \in {x \in {q} : request[x] \in Pending}}
           r == Enter(c, "finish", keys)
<1>1. rpc[c] \in CallUnderWay /\ Busy(c) /\ Holding(rpc[c]) /\ rpc[c].pc = "settle"
  BY Working DEF Settle, Busy
<1>2. rpc[c].op \in WaysIn /\ (rpc[c].op = "decide" => rpc[c].arg = "approve") /\ q \in Person
  BY <1>1 DEF Holding, Claims, Route, Granted, CallUnderWay, Departing
<1>3. Becomes(c, r) /\ \A k \in keys : Available(c, k)
  BY DEF Settle, RequestKey
<1>4. keys \in SUBSET Key /\ \A k \in keys, p \in Person : k # GoneKey(p)
  BY <1>2, SomeKeys
<1> HIDE DEF keys
<1>5. /\ r \in CallUnderWay /\ r.pc = "finish" /\ r.locks = rpc[c].locks \cup keys
      /\ r.op = rpc[c].op /\ r.who = rpc[c].who /\ r.to = rpc[c].to /\ r.arg = rpc[c].arg
      /\ r.see = rpc[c].see /\ r.add = rpc[c].add /\ r.put = rpc[c].put
  BY <1>1, <1>4, EnterFields DEF Places
<1> HIDE DEF r
<1>6. Route(r) /\ HasInvite(r) /\ HasTarget(r) /\ HasOwners(r)
  BY <1>1, <1>2, <1>5 DEF Holding, Claims, Route, HasInvite, HasTarget, HasOwners, OrgOps, Managing,
     WaysIn, Granted
<1>7. HasRequest(r) /\ (Granting(r) => Granting(rpc[c]))
  BY <1>1, <1>2, <1>5 DEF Holding, Claims, HasRequest, WaysIn, Granting, Granted, Departing, Managing, OrgOps
<1> QED  BY <1>1, <1>3, <1>4, <1>5, <1>6, <1>7, GoesOn DEF Claims

-----------------------------------------------------------------------------
(* Calls of the server's administrators, and the revocation of the invitation. *)

LEMMA LockServerKeeps ==
  ASSUME NEW c \in Rpc, MembersInv, LockServer(c)
  PROVE  MembersInv'
<1> DEFINE pc == CASE rpc[c].op = "decide" -> "judge" [] rpc[c].op = "add" -> "team" [] OTHER -> "mend"
           keys == {<<"server">>}
           r == Enter(c, pc, keys)
<1>1. /\ rpc[c] \in CallUnderWay /\ Busy(c) /\ Holding(rpc[c])
      /\ rpc[c].op \in {"add", "rank", "kick", "quit", "decide"} /\ rpc[c].pc = "start"
      /\ Available(c, <<"server">>)
  BY Working DEF LockServer, Busy
<1>2. CASE Ends(c)
  BY <1>2, EndKeeps
<1>3. CASE ~Ends(c)
  <2>1. Becomes(c, r)
    BY <1>3 DEF LockServer
  <2>2. /\ pc \in {"judge", "team", "mend"} /\ keys \in SUBSET Key
        /\ pc = "judge" => rpc[c].op = "decide" 
        /\ pc = "team" => rpc[c].op = "add"
        /\ pc = "mend" => rpc[c].op \in {"rank", "kick", "quit"}
    BY <1>1 DEF Key
  <2>3. \A k \in keys : Available(c, k) /\ \A p \in Person : k # RequestKey(p) /\ k # GoneKey(p)
    BY <1>1 DEF RequestKey, GoneKey
  <2> HIDE DEF pc, keys
  <2>4. /\ r \in CallUnderWay /\ r.pc = pc /\ r.locks = rpc[c].locks \cup keys
        /\ r.op = rpc[c].op /\ r.who = rpc[c].who /\ r.to = rpc[c].to /\ r.arg = rpc[c].arg
        /\ r.see = rpc[c].see /\ r.add = rpc[c].add /\ r.put = rpc[c].put
    BY <1>1, <2>2, EnterFields DEF Places
  <2> HIDE DEF r
  <2>5. Route(r) /\ HasInvite(r)
    BY <1>1, <2>2, <2>4 DEF Holding, Claims, Route, HasInvite, WaysIn, Departing, Granted
  <2>6. HasTarget(r) /\ HasOwners(r)
    BY <1>1, <2>2, <2>4 DEF Holding, Claims, HasTarget, HasOwners, OrgOps, Managing
  <2>7. HasRequest(r)
    BY <1>1, <2>2, <2>3, <2>4 DEF Holding, Claims, HasRequest, Departing, Granted, Managing, OrgOps, WaysIn
  <2>8. Claims(r) /\ ~Granting(r)
    BY <1>1, <2>2, <2>4, <2>5, <2>6, <2>7 DEF Claims, Granting, Granted, OrgOps, Managing
  <2> QED  BY <1>1, <2>1, <2>3, <2>4, <2>5, <2>6, <2>7, <2>8, GoesOn
<1> QED  BY <1>2, <1>3

LEMMA MendServerKeeps ==
  ASSUME NEW c \in Rpc, MembersInv, MendServer(c)
  PROVE  MembersInv'
<1> DEFINE q == rpc[c].to
           drop == rpc[c].op # "rank" /\ team[q] # "none"
           put == IF rpc[c].op = "rank" THEN rpc[c].arg ELSE "none"
           keys == {<<"team", q>>}
           pc == IF rpc[c].op = "quit" THEN "withdraw" ELSE "finish"
           s == Enter(c, pc, keys)
           r == [s EXCEPT !.drop = drop, !.put = put]
<1>1. rpc[c] \in CallUnderWay /\ Busy(c) /\ Holding(rpc[c]) /\ rpc[c].pc = "mend"
  BY Working DEF MendServer, Busy
<1>2. rpc[c].op \in {"rank", "kick", "quit"} /\ q \in Person
  BY <1>1 DEF Holding, Claims, Route, CallUnderWay, Departing, Granted
<1>3. CASE Ends(c)
  BY <1>3, EndKeeps
<1>4. CASE ~Ends(c)
  <2>1. Becomes(c, r) /\ Available(c, <<"team", q>>)
    BY <1>4 DEF MendServer
  <2>2. keys \in SUBSET Key /\ \A k \in keys : Available(c, k) /\ \A p \in Person : k # RequestKey(p) /\ k # GoneKey(p)
    BY <1>2, <2>1, SomeKeys
  <2>3. /\ put \in {"none", "admin", "member"} /\ drop \in BOOLEAN /\ pc \in Places
        /\ pc = "finish" \/ (pc = "withdraw" /\ rpc[c].op = "quit")
    BY <1>1 DEF Holding, Claims, Route, Places, Departing, Granted
  <2> HIDE DEF keys, put, drop, pc
  <2>4. /\ s \in CallUnderWay /\ s.pc = pc /\ s.locks = rpc[c].locks \cup keys
        /\ s.op = rpc[c].op /\ s.who = rpc[c].who /\ s.to = rpc[c].to /\ s.arg = rpc[c].arg
        /\ s.see = rpc[c].see /\ s.add = rpc[c].add /\ s.put = rpc[c].put
    BY <1>1, <2>2, <2>3, EnterFields DEF Places
  <2> HIDE DEF s
  <2>5. /\ r \in CallUnderWay /\ r.pc = s.pc /\ r.locks = s.locks /\ r.op = s.op
        /\ r.who = s.who /\ r.to = s.to /\ r.arg = s.arg /\ r.add = s.add /\ r.put = put
    BY <2>3, <2>4 DEF CallUnderWay
  <2> HIDE DEF r
  <2>6. Route(r) /\ HasInvite(r) /\ HasTarget(r) /\ HasOwners(r)
    BY <1>1, <1>2, <2>3, <2>4, <2>5 DEF Holding, Claims, Route, HasInvite, HasTarget, HasOwners, OrgOps, Managing, WaysIn, Departing, Granted
  <2>7. HasRequest(r)
    BY <1>1, <1>2, <2>2, <2>3, <2>4, <2>5 DEF Holding, Claims, HasRequest, WaysIn, Pending, Departing, Granted, Managing, OrgOps
  <2>8. Claims(r) /\ ~Granting(r)
    BY <1>2, <2>4, <2>5, <2>6, <2>7 DEF Claims, Granting, Granted, OrgOps, Managing
  <2> QED  BY <1>1, <2>1, <2>2, <2>4, <2>5, <2>6, <2>7, <2>8, GoesOn
<1> QED  BY <1>3, <1>4

(* Who decides holds the request, which is still pending. *)
LEMMA JudgeRequestKeeps ==
  ASSUME NEW c \in Rpc, MembersInv, JudgeRequest(c)
  PROVE  MembersInv'
<1> DEFINE q == rpc[c].to
           pc == IF rpc[c].arg = "approve" THEN "org" ELSE "finish"
           keys == {RequestKey(q)}
           r == Enter(c, pc, keys)
<1>1. rpc[c] \in CallUnderWay /\ Busy(c) /\ Holding(rpc[c]) /\ rpc[c].pc = "judge"
  BY Working DEF JudgeRequest, Busy
<1>2. rpc[c].op = "decide" /\ q \in Person
  BY <1>1 DEF Holding, Claims, Route, CallUnderWay, Departing, Granted
<1>3. CASE Ends(c)
  BY <1>3, EndKeeps
<1>4. CASE ~Ends(c)
  <2>1. Becomes(c, r) /\ Available(c, RequestKey(q)) /\ request[q] \in Pending
    BY <1>4 DEF JudgeRequest, RequestKey
  <2>2. /\ keys \in SUBSET Key /\ pc \in {"org", "finish"} /\ RequestKey(q) \in keys
        /\ pc = "org" <=> rpc[c].arg = "approve"
        /\ \A k \in keys : Available(c, k) /\ \A p \in Person : k # GoneKey(p)
    BY <1>2, <2>1, SomeKeys
  <2> HIDE DEF keys, pc
  <2>3. /\ r \in CallUnderWay /\ r.pc = pc /\ r.locks = rpc[c].locks \cup keys
        /\ r.op = rpc[c].op /\ r.who = rpc[c].who /\ r.to = rpc[c].to /\ r.arg = rpc[c].arg
        /\ r.see = rpc[c].see /\ r.add = rpc[c].add /\ r.put = rpc[c].put
    BY <1>1, <2>2, EnterFields DEF Places
  <2> HIDE DEF r
  <2>4. Route(r) /\ HasInvite(r) /\ HasTarget(r) /\ HasOwners(r)
    BY <1>1, <1>2, <2>2, <2>3 DEF Holding, Claims, Route, HasInvite, HasTarget, HasOwners, OrgOps, Managing, Departing, Granted
  <2>5. HasRequest(r)
    BY <1>1, <1>2, <2>1, <2>2, <2>3 DEF Holding, Claims, HasRequest, WaysIn, Granted, Departing, Managing, OrgOps
  <2>6. Claims(r) /\ ~Granting(r)
    BY <1>1, <2>1, <2>2, <2>3, <2>4, <2>5 DEF Claims, Granting, Granted, OrgOps, Managing
  <2> QED  BY <1>1, <2>1, <2>2, <2>3, <2>4, <2>5, <2>6, GoesOn
<1> QED  BY <1>3, <1>4

LEMMA RevokeLookKeeps ==
  ASSUME NEW c \in Rpc, MembersInv, RevokeLook(c)
  PROVE  MembersInv'
<1> DEFINE keys == {<<"invite">>}
           r == Enter(c, "finish", keys)
<1>1. /\ rpc[c] \in CallUnderWay /\ Busy(c) /\ Holding(rpc[c])
      /\ rpc[c].op = "revoke" /\ rpc[c].pc = "start" /\ rpc[c].to \in Person /\ Available(c, <<"invite">>)
  BY Working DEF RevokeLook, Busy, CallUnderWay
<1>2. CASE Ends(c)
  BY <1>2, EndKeeps
<1>3. CASE ~Ends(c)
  <2>1. Becomes(c, r) /\ keys \in SUBSET Key /\ <<"invite">> \in keys
    BY <1>3 DEF RevokeLook, Key
  <2>2. \A k \in keys : Available(c, k) /\ \A p \in Person : k # RequestKey(p) /\ k # GoneKey(p)
    BY <1>1 DEF RequestKey, GoneKey
  <2> HIDE DEF keys
  <2>3. /\ r \in CallUnderWay /\ r.pc = "finish" /\ r.locks = rpc[c].locks \cup keys
        /\ r.op = rpc[c].op /\ r.who = rpc[c].who /\ r.to = rpc[c].to /\ r.arg = rpc[c].arg
        /\ r.see = rpc[c].see /\ r.add = rpc[c].add /\ r.put = rpc[c].put
    BY <1>1, <2>1, EnterFields DEF Places
  <2> HIDE DEF r
  <2>4. Route(r) /\ HasInvite(r) /\ HasTarget(r) /\ HasOwners(r)
    BY <1>1, <2>1, <2>3 DEF Holding, Claims, Route, HasInvite, HasTarget, HasOwners, OrgOps, Managing, Departing, Granted
  <2>5. HasRequest(r)
    BY <1>1, <2>2, <2>3 DEF Holding, Claims, HasRequest, WaysIn, Departing, Granted, Managing, OrgOps
  <2>6. Claims(r) /\ ~Granting(r)
    BY <1>1, <2>1, <2>2, <2>3, <2>4, <2>5 DEF Claims, Granting, Granted, OrgOps, Managing
  <2> QED  BY <1>1, <2>1, <2>2, <2>3, <2>4, <2>5, <2>6, GoesOn
<1> QED  BY <1>2, <1>3

-----------------------------------------------------------------------------
(* The commit of a call. *)

(* A commit is on the row of one member and on one request, and every other call that has
   locked either still finds it as it was. *)
Commits(c) == Finish(c) /\ ~Ends(c)

LEMMA CommitFacts ==
  ASSUME NEW c \in Rpc, MembersInv, Commits(c)
  PROVE  /\ rpc[c] \in CallUnderWay /\ Busy(c) /\ Holding(rpc[c]) /\ rpc[c].pc = "finish"
         /\ rpc[c].to \in Person
         /\ rpc[c].op = "accept" => invite.uses < MaxUses
         /\ Departs(c) <=> GoneKey(rpc[c].to) \in rpc[c].locks
         /\ Departs(c) => rpc[c].op \in Departing /\ MemberKey(rpc[c].to) \in rpc[c].locks
         /\ role' = [role EXCEPT ![rpc[c].to] = NewRole(c)]
         /\ team' = [team EXCEPT ![rpc[c].to] = NewTeam(c)]
         /\ request' = [request EXCEPT ![rpc[c].to] = NewRequest(c)]
         /\ rpc' = [rpc EXCEPT ![c] = NoCall]
         /\ crowned' = (crowned \/ Crowns(c))
<1>1. rpc[c] \in CallUnderWay /\ Busy(c) /\ Holding(rpc[c]) /\ rpc[c].pc = "finish"
  BY Working DEF Commits, Finish, Busy
<1>2. rpc[c].to \in Person
  BY <1>1 DEF CallUnderWay
<1>3. rpc[c].op = "accept" => invite.uses < MaxUses
  BY DEF Commits, Finish, MembersInv, CallsOK
<1>4. Departs(c) <=> GoneKey(rpc[c].to) \in rpc[c].locks
  BY DEF Departs, GoneKey
<1>5. Departs(c) => rpc[c].op \in Departing /\ MemberKey(rpc[c].to) \in rpc[c].locks
  BY <1>1, <1>2, <1>4 DEF Holding, HasGone
<1> QED  BY <1>1, <1>2, <1>3, <1>4, <1>5 DEF Commits, Finish

(* Its new role is its old one, unless it has the row of its target. *)
LEMMA RoleChange ==
  ASSUME NEW c \in Rpc, MembersInv, Commits(c)
  PROVE  /\ NewRole(c) \in OrgRole \cup {"none"}
         /\ NewRole(c) = "none" => Departs(c) \/ role[rpc[c].to] = "none"
         /\ NewRole(c) = "owner" => (rpc[c].op = "role" /\ rpc[c].arg = "owner") \/ role[rpc[c].to] = "owner"
         /\ rpc[c].op \in Managing => ~rpc[c].add
         /\ \/ NewRole(c) = role[rpc[c].to] /\ rpc[c].op \notin {"suspend", "restore"} /\ ~Departs(c)
            \/ MemberKey(rpc[c].to) \in rpc[c].locks
<1>1. /\ rpc[c] \in CallUnderWay /\ Route(rpc[c]) /\ HasTarget(rpc[c]) /\ rpc[c].pc = "finish"
      /\ rpc[c].to \in Person /\ (Departs(c) => MemberKey(rpc[c].to) \in rpc[c].locks)
  BY CommitFacts DEF Holding, Claims
<1>2. role[rpc[c].to] \in OrgRole \cup {"none"}
  BY <1>1 DEF MembersInv, MembersTypeOK, OrgRole
<1>3. rpc[c].op = "role" => rpc[c].arg \in OrgRole
  BY <1>1 DEF Route, Departing, Granted
<1>4. /\ rpc[c].op \in Managing => MemberKey(rpc[c].to) \in rpc[c].locks
      /\ rpc[c].add => rpc[c].op \in {"accept", "decide"} /\ MemberKey(rpc[c].to) \in rpc[c].locks
  BY <1>1 DEF HasTarget
<1> QED  BY <1>1, <1>2, <1>3, <1>4 DEF NewRole, OrgRole, Managing

LEMMA MemberStill ==
  ASSUME NEW c \in Rpc, MembersInv, Commits(c), NEW d \in Rpc \ {c}, Busy(d),
         NEW p \in Person, MemberKey(p) \in rpc[d].locks
  PROVE  role'[p] = role[p] /\ (p \in suspended' <=> p \in suspended)
<1>1. role' = [role EXCEPT ![rpc[c].to] = NewRole(c)] /\ Busy(c) /\ rpc[c].to \in Person
  BY CommitFacts
<1>2. CASE p = rpc[c].to
  <2>1. MemberKey(p) \notin rpc[c].locks
    BY <1>1 DEF MembersInv, OneHolder, MemberKey
  <2>2. NewRole(c) = role[p] /\ rpc[c].op \notin {"suspend", "restore"} /\ ~Departs(c)
    BY <1>2, <2>1, RoleChange
  <2>3. suspended' = suspended
    BY <2>2 DEF Commits, Finish
  <2> QED  BY <1>1, <1>2, <2>2, <2>3
<1>3. CASE p # rpc[c].to
  <2>1. p \in suspended' <=> p \in suspended
    BY <1>3 DEF Commits, Finish
  <2> QED  BY <1>1, <1>3, <2>1 DEF MembersInv, MembersTypeOK
<1> QED  BY <1>2, <1>3

LEMMA RequestStill ==
  ASSUME NEW c \in Rpc, MembersInv, Commits(c), NEW d \in Rpc \ {c}, Busy(d),
         NEW p \in Person, RequestKey(p) \in rpc[d].locks
  PROVE  request'[p] = request[p]
<1>1. request' = [request EXCEPT ![rpc[c].to] = NewRequest(c)] /\ Busy(c) /\ rpc[c].to \in Person
  BY CommitFacts
<1>2. RequestKey(p) \notin rpc[c].locks
  BY <1>1 DEF MembersInv, OneHolder, RequestKey
<1>3. p = rpc[c].to => NewRequest(c) = request[p]
  BY <1>2 DEF NewRequest, RequestKey
<1> QED  BY <1>1, <1>3 DEF MembersInv, MembersTypeOK

(* While a call minds the owners and nobody is crowned behind its back, no owner is new. *)
LEMMA NoNewOwner ==
  ASSUME NEW c \in Rpc, MembersInv, Commits(c), NEW d \in Rpc \ {c}, rpc[d].op \in OrgOps,
         rpc[d].pc # "start", ~crowned'
  PROVE  ~crowned /\ Owners' \subseteq Owners
<1>1. ~Crowns(c) /\ ~crowned
  BY CommitFacts
<1>2. ~(rpc[c].op = "role" /\ rpc[c].arg = "owner")
  BY <1>1 DEF Crowns, MindsOwners, OrgOps
<1>3. role' = [role EXCEPT ![rpc[c].to] = NewRole(c)] /\ rpc[c].to \in Person
  BY CommitFacts
<1>4. NewRole(c) = "owner" => role[rpc[c].to] = "owner"
  BY <1>2, RoleChange
<1> QED  BY <1>1, <1>3, <1>4 DEF Owners, MembersInv, MembersTypeOK

(* So what another call relies on still holds. *)
LEMMA StillHolding ==
  ASSUME NEW t \in CallUnderWay, Holding(t), MembersInv, t.to \in Person,
         \A p \in Person : MemberKey(p) \in t.locks =>
           role'[p] = role[p] /\ (p \in suspended' <=> p \in suspended),
         \A p \in Person : RequestKey(p) \in t.locks =>
           request'[p] = request[p],
         t.op \in OrgOps /\ t.pc # "start" /\ ~crowned' => ~crowned /\ Owners' \subseteq Owners,
         <<"invite">> \in t.locks => invite'.revoked = invite.revoked
  PROVE  Holding(t)'
<1>1. Route(t)' /\ HasInvite(t)'
  BY DEF Holding, Claims, Route, HasInvite, Departing, Granted
<1>2. HasTarget(t)' /\ HasGone(t)'
  BY DEF Holding, Claims, HasTarget, HasGone
<1>3. HasRequest(t)'
  BY DEF Holding, Claims, HasRequest, Departing, Granted, Managing, OrgOps, WaysIn
<1>4. HasOwners(t)'
  <2> SUFFICES ASSUME t.op \in OrgOps, ~crowned', t.pc # "start"
               PROVE  /\ Owners' \subseteq t.see \/ OwnsNothing(t)'
                      /\ t.pc # "owners" =>
                           (\A p \in Owners' : MemberKey(p) \in t.locks) \/ OwnsNothing(t)'
                      /\ t.pc \in {"strip", "part", "withdraw", "finish"} /\ Takes(t) /\ role'[t.to] = "owner" =>
                           ~(ActiveOwners' \subseteq {t.to})
    BY DEF HasOwners, Takes
  <2>1. ~crowned /\ Owners' \subseteq Owners /\ HasOwners(t)
    BY DEF Holding, Claims
  <2>2. OwnsNothing(t) => OwnsNothing(t)'
    BY <2>1 DEF OwnsNothing, Owners
  <2>3. ASSUME t.pc \in {"strip", "part", "withdraw", "finish"}, Takes(t), role'[t.to] = "owner"
        PROVE  ~(ActiveOwners' \subseteq {t.to})
    <3>1. role[t.to] = "owner"
      BY <2>1, <2>3 DEF Owners
    <3>2. \A p \in Owners : MemberKey(p) \in t.locks
      BY <2>1, <2>3, <3>1 DEF HasOwners, OwnsNothing
    <3>3. ActiveOwners \subseteq ActiveOwners'
      BY <3>2 DEF ActiveOwners, Owners
    <3> QED  BY <2>1, <2>3, <3>1, <3>3 DEF HasOwners
  <2> QED  BY <2>1, <2>2, <2>3 DEF HasOwners
<1> QED  BY <1>1, <1>2, <1>3, <1>4 DEF Holding, Claims

LEMMA OthersHold ==
  ASSUME NEW c \in Rpc, MembersInv, Commits(c), NEW d \in Rpc \ {c}, Busy(d)
  PROVE  rpc'[d] = rpc[d] /\ Holding(rpc[d])'
<1>1. rpc'[d] = rpc[d] /\ rpc[d] \in CallUnderWay /\ Holding(rpc[d]) /\ rpc[d].to \in Person
  <2>1. rpc'[d] = rpc[d]
    BY CommitFacts DEF MembersInv, CallsOK
  <2> QED  BY <2>1, Working DEF CallUnderWay
<1>2. <<"invite">> \in rpc[d].locks => invite'.revoked = invite.revoked
  <2>1. <<"invite">> \in rpc[d].locks => <<"invite">> \notin rpc[c].locks
    BY CommitFacts DEF MembersInv, OneHolder
  <2>2. rpc[c].op = "revoke" => <<"invite">> \in rpc[c].locks
    BY CommitFacts DEF Holding, Claims, HasInvite
  <2> QED  BY <2>1, <2>2 DEF Commits, Finish, MembersInv, CallsOK
<1>3. ASSUME NEW t, t = rpc[d]
      PROVE  Holding(t)'
  <2>1. t \in CallUnderWay /\ Holding(t) /\ t.to \in Person
    BY <1>1, <1>3
  <2>2. \A p \in Person : MemberKey(p) \in t.locks =>
          role'[p] = role[p] /\ (p \in suspended' <=> p \in suspended)
    BY <1>3, MemberStill
  <2>3. \A p \in Person : RequestKey(p) \in t.locks =>
          request'[p] = request[p]
    BY <1>3, RequestStill
  <2>4. t.op \in OrgOps /\ t.pc # "start" /\ ~crowned' => ~crowned /\ Owners' \subseteq Owners
    BY <1>3, NoNewOwner
  <2>5. <<"invite">> \in t.locks => invite'.revoked = invite.revoked
    BY <1>2, <1>3
  <2> QED  BY <2>1, <2>2, <2>3, <2>4, <2>5, StillHolding
<1>4. Holding(rpc[d])'
  BY <1>1, <1>3 DEF Holding, Claims, Route, HasTarget, HasGone, HasOwners, HasRequest, HasInvite, OwnsNothing, Departing, Granted, Managing, OrgOps, WaysIn
<1> QED  BY <1>1, <1>4

(* Nor does it let anybody go who is being approved. *)
LEMMA CommitDecided ==
  ASSUME NEW c \in Rpc, MembersInv, Commits(c)
  PROVE  Decided'
<1>1. /\ rpc'[c] = NoCall /\ \A d \in Rpc \ {c} : rpc'[d] = rpc[d]
      /\ role' = [role EXCEPT ![rpc[c].to] = NewRole(c)] /\ rpc[c].to \in Person
      /\ Busy(c) /\ rpc[c].pc = "finish"
  BY CommitFacts DEF MembersInv, CallsOK
<1> SUFFICES ASSUME NEW a \in Rpc, Busy(a)', Granting(rpc'[a])
             PROVE  /\ role'[rpc'[a].to] # "none"
                    /\ \A d \in Rpc \ {a} : Busy(d)' /\ GoneKey(rpc'[a].to) \in rpc'[d].locks =>
                         rpc'[d].pc = "withdraw"
  BY DEF Decided, Granting
<1>2. a # c /\ rpc'[a] = rpc[a] /\ Busy(a) /\ Granting(rpc[a])
  BY <1>1 DEF Busy, NoCall
<1>3. role[rpc[a].to] # "none" /\ rpc[a].to \in Person
  BY <1>2, Working DEF MembersInv, Decided, CallUnderWay
<1>4. rpc[a].to = rpc[c].to => NewRole(c) # "none"
  <2>1. rpc[a].to = rpc[c].to => ~Departs(c)
    BY <1>1, <1>2, CommitFacts DEF MembersInv, Decided
  <2> QED  BY <1>3, <2>1, RoleChange
<1>5. role'[rpc[a].to] # "none"
  BY <1>1, <1>3, <1>4 DEF MembersInv, MembersTypeOK
<1>6. ASSUME NEW d \in Rpc \ {a}, Busy(d)', GoneKey(rpc[a].to) \in rpc'[d].locks
      PROVE  rpc'[d].pc = "withdraw"
  <2>1. d # c /\ Busy(d) /\ rpc'[d] = rpc[d]
    BY <1>1, <1>6 DEF Busy, NoCall
  <2> QED  BY <1>2, <1>6, <2>1 DEF MembersInv, Decided
<1> QED  BY <1>2, <1>5, <1>6

(* What a commit leaves of the tables has their types, and who is suspended is a member. *)
LEMMA CommitTypes ==
  ASSUME NEW c \in Rpc, MembersInv, Commits(c)
  PROVE  MembersTypeOK'
<1> DEFINE q == rpc[c].to
<1>1. /\ rpc[c] \in CallUnderWay /\ Holding(rpc[c]) /\ q \in Person /\ rpc[c].pc = "finish"
      /\ role' = [role EXCEPT ![q] = NewRole(c)]
      /\ team' = [team EXCEPT ![q] = NewTeam(c)]
      /\ request' = [request EXCEPT ![q] = NewRequest(c)]
  BY CommitFacts
<1>2. NewRole(c) \in {"owner", "admin", "member", "guest", "none"}
  BY RoleChange DEF OrgRole
<1>3. NewTeam(c) \in {"admin", "member", "none"}
  BY <1>1 DEF NewTeam, MembersInv, MembersTypeOK
<1>4. NewRequest(c) \in Pending \cup {"none", "approved", "rejected", "withdrawn"}
  BY <1>1 DEF NewRequest, MembersInv, MembersTypeOK
<1>5. suspended' \cup banned' \cup usedBy' \cup gone' \subseteq Person
  BY <1>1 DEF Commits, Finish, MembersInv, MembersTypeOK
<1>6. suspended' \subseteq {p \in Person : role'[p] # "none"}
  <2>1. rpc[c].op = "suspend" => NewRole(c) # "none"
    BY <1>1, RoleChange, CommitFacts DEF Holding, Claims, HasTarget, Managing, Departing
  <2>2. q \in suspended /\ ~Departs(c) => NewRole(c) # "none"
    BY <1>1, RoleChange DEF MembersInv, MembersTypeOK
  <2>3. /\ rpc[c].op = "suspend" => suspended' = suspended \cup {q}
        /\ rpc[c].op # "suspend" => suspended' \subseteq suspended
        /\ Departs(c) => q \notin suspended'
    BY CommitFacts DEF Commits, Finish, Departing
  <2>4. suspended \subseteq {p \in Person : role[p] # "none"} /\ role \in [Person -> {"owner", "admin", "member", "guest", "none"}]
    BY DEF MembersInv, MembersTypeOK
  <2> QED  BY <1>1, <2>1, <2>2, <2>3, <2>4
<1> QED  BY <1>1, <1>2, <1>3, <1>4, <1>5, <1>6 DEF MembersInv, MembersTypeOK

(* The last active owner stays: whoever takes an owner away knows of another one. *)
LEMMA CommitOwner ==
  ASSUME NEW c \in Rpc, MembersInv, Commits(c)
  PROVE  OwnerStays'
<1> DEFINE q == rpc[c].to
<1> SUFFICES ASSUME ~crowned' PROVE ActiveOwners' # {}
  BY DEF OwnerStays
<1>1. /\ rpc[c] \in CallUnderWay /\ Holding(rpc[c]) /\ q \in Person /\ rpc[c].pc = "finish"
      /\ role' = [role EXCEPT ![q] = NewRole(c)] /\ ~crowned
  BY CommitFacts
<1>2. \A p \in Person \ {q} : role'[p] = role[p] /\ (p \in suspended => p \in suspended') /\ (p \in suspended' => p \in suspended)
  BY <1>1 DEF Commits, Finish, MembersInv, MembersTypeOK
<1>3. PICK o \in ActiveOwners : TRUE
  BY <1>1 DEF MembersInv, OwnerStays
<1>4. CASE \E p \in ActiveOwners : p # q
  BY <1>2, <1>4 DEF ActiveOwners, Owners
<1>5. CASE ActiveOwners \subseteq {q}
  <2>1. role[q] = "owner" /\ q \notin suspended
    BY <1>3, <1>5 DEF ActiveOwners, Owners
  <2>2. ~Takes(rpc[c])
    BY <1>1, <1>5, <2>1 DEF Holding, Claims, HasOwners, Takes, OrgOps, Managing, Departing
  <2>3. NewRole(c) = "owner"
    BY <1>1, <2>1, <2>2, CommitFacts DEF NewRole, Takes, Holding, Claims, HasTarget
  <2>4. q \notin suspended'
    BY <2>1, <2>2, CommitFacts DEF Commits, Finish, Takes
  <2>5. role'[q] = "owner"
    BY <1>1, <2>3 DEF MembersInv, MembersTypeOK
  <2> QED  BY <1>1, <2>4, <2>5 DEF ActiveOwners, Owners
<1> QED  BY <1>4, <1>5

LEMMA FinishKeeps ==
  ASSUME NEW c \in Rpc, MembersInv, Finish(c)
  PROVE  MembersInv'
<1>1. CASE Ends(c)
  BY <1>1, EndKeeps
<1>2. CASE ~Ends(c)
  <2>1. Commits(c)
    BY <1>2 DEF Commits
  <2>2. /\ rpc' = [rpc EXCEPT ![c] = NoCall] /\ rpc'[c] = NoCall
        /\ \A d \in Rpc \ {c} : rpc'[d] = rpc[d]
    BY <2>1, CommitFacts DEF MembersInv, CallsOK
  <2>3. CallsOK'
    <3>1. /\ invite' \in [by : Person, approval : BOOLEAN, uses : Nat, revoked : BOOLEAN]
          /\ crowned' \in BOOLEAN
      <4> DEFINE u == IF rpc[c].op = "accept" THEN invite.uses + 1 ELSE invite.uses
                 v == invite.revoked \/ rpc[c].op = "revoke"
      <4>1. invite' = [invite EXCEPT !.uses = u, !.revoked = v]
        BY <2>1 DEF Commits, Finish
      <4>2. invite \in [by : Person, approval : BOOLEAN, uses : Nat, revoked : BOOLEAN]
        BY DEF MembersInv, CallsOK
      <4>3. u \in Nat /\ v \in BOOLEAN
        BY <4>2
      <4> HIDE DEF u, v
      <4>4. invite' \in [by : Person, approval : BOOLEAN, uses : Nat, revoked : BOOLEAN]
        BY <4>1, <4>2, <4>3
      <4> QED  BY <2>1, <4>4, CommitFacts DEF MembersInv, CallsOK
    <3>2. DOMAIN rpc' = Rpc /\ rpc' = [d \in Rpc |-> rpc'[d]]
      BY <2>2 DEF MembersInv, CallsOK
    <3>3. \A d \in Rpc : rpc'[d] = NoCall \/ rpc'[d] \in CallUnderWay
      BY <2>2 DEF MembersInv, CallsOK
    <3> QED  BY <3>1, <3>2, <3>3 DEF CallsOK
  <2>4. OneHolder'
    BY <2>2 DEF OneHolder, Busy, NoCall, MembersInv
  <2>5. ASSUME NEW d \in Rpc, Busy(d)'
        PROVE  Holding(rpc[d])'
    <3>1. d # c /\ Busy(d)
      BY <2>2, <2>5 DEF Busy, NoCall
    <3> QED  BY <2>1, <3>1, OthersHold
  <2> QED  BY <2>1, <2>3, <2>4, <2>5, CommitTypes, CommitOwner, CommitDecided DEF MembersInv
<1> QED  BY <1>1, <1>2

-----------------------------------------------------------------------------
(* The invariant, and what follows from it. *)

LEMMA MembersInitInv == MembersInit => MembersInv
<1> SUFFICES ASSUME MembersInit PROVE MembersInv
  OBVIOUS
<1>1. MembersTypeOK /\ OneHolder /\ Decided /\ \A c \in Rpc : ~Busy(c)
  BY DEF MembersInit, MembersTypeOK, OneHolder, Decided, Busy, NoCall, Pending
<1>2. CallsOK
  <2>1. rpc = [c \in Rpc |-> NoCall]
    BY DEF MembersInit
  <2>2. PICK p \in Person : invite \in [by : {p}, approval : BOOLEAN, uses : {0}, revoked : {FALSE}]
    BY DEF MembersInit
  <2>3. invite \in [by : Person, approval : BOOLEAN, uses : Nat, revoked : BOOLEAN]
    <3>1. invite.by \in Person /\ invite.approval \in BOOLEAN /\ invite.uses \in Nat
      BY <2>2
    <3>2. invite.revoked \in {FALSE}
      BY <2>2
    <3>3. invite.revoked \in BOOLEAN
      BY <3>2
    <3>4. invite = [by |-> invite.by, approval |-> invite.approval, uses |-> invite.uses, revoked |-> invite.revoked]
      BY <2>2
    <3> QED  BY <3>1, <3>3, <3>4
  <2>4. DOMAIN rpc = Rpc /\ \A c \in Rpc : rpc[c] = NoCall
    BY <2>1
  <2>5. rpc = [c \in Rpc |-> rpc[c]]
    BY <2>1, <2>4
  <2>6. crowned \in BOOLEAN
    BY DEF MembersInit
  <2> QED  BY <2>3, <2>4, <2>5, <2>6 DEF CallsOK
<1>3. OwnerStays
  BY DEF MembersInit, OwnerStays, ActiveOwners, Owners
<1> QED  BY <1>1, <1>2, <1>3 DEF MembersInv

LEMMA MembersStep == MembersInv /\ [MembersNext]_membersVars => MembersInv'
<1> SUFFICES ASSUME MembersInv, [MembersNext]_membersVars PROVE MembersInv'
  OBVIOUS
<1>1. ASSUME NEW c \in Rpc, Begins(c)
      PROVE  MembersInv'
  BY <1>1, BeginsKeeps
<1>2. ASSUME NEW c \in Rpc, Proceeds(c)
      PROVE  MembersInv'
  BY <1>2, SeeOwnersKeeps, LockOwnersKeeps, LockTargetKeeps, AssertNotLastOwnerKeeps,
     StripKeeps, PartKeeps, WithdrawKeeps, AcceptLookKeeps, JoinLookKeeps, AskToJoinKeeps, GrantOrgKeeps,
     GrantRoleKeeps, GrantTeamKeeps, GrantSeatKeeps, SettleKeeps,
     LockServerKeeps, MendServerKeeps, JudgeRequestKeeps, RevokeLookKeeps, FinishKeeps DEF Proceeds
<1>3. ASSUME NEW c \in Rpc, CallAborts(c)
      PROVE  MembersInv'
  BY <1>3, EndKeeps DEF CallAborts
<1>4. CASE UNCHANGED membersVars
  BY <1>4 DEF membersVars, tables, MembersInv, MembersTypeOK, CallsOK, OneHolder, OwnerStays, Busy,
     Decided, HasGone,
     Holding, Claims, Route, HasTarget, HasGone, HasOwners, HasRequest, HasInvite, OwnsNothing, Owners, ActiveOwners
<1> QED  BY <1>1, <1>2, <1>3, <1>4 DEF MembersNext

(* What a call has decided on stays as it was until it commits, in every state. *)
THEOREM MembersInvariance == MembersSpec => []MembersInv
BY MembersInitInv, MembersStep, PTL DEF MembersSpec

(* The tables keep their types, and who is suspended is a member. *)
THEOREM MembersTypes == MembersSpec => []MembersTypeOK
<1>1. MembersInv => MembersTypeOK
  BY DEF MembersInv
<1> QED  BY <1>1, MembersInvariance, PTL

(* Owners who go, or let each other go, at the same moment do not leave the organization
   without an active owner, unless one was made behind their backs. *)
THEOREM AnOwnerStays == MembersSpec => []OwnerStays
<1>1. MembersInv => OwnerStays
  BY DEF MembersInv
<1> QED  BY <1>1, MembersInvariance, PTL

(* Only a commit changes the tables. *)
LEMMA OnlyCommits ==
  ASSUME NEW c \in Rpc, Begins(c) \/ Proceeds(c) \/ CallAborts(c), ~Commits(c)
  PROVE  UNCHANGED tables
<1>1. Begins(c) => UNCHANGED tables
  BY DEF Begins, SetOrgRole, ManageMember, LeaveOrg, DeleteAccount, AcceptInvite, RevokeInvite,
     DecideRequest, JoinServer, LeaveServer, AdministerServer, Calling
<1>2. Proceeds(c) /\ ~Finish(c) => UNCHANGED tables
  BY DEF Proceeds, SeeOwners, LockOwners, LockTarget, AssertNotLastOwner, Strip, Part, Withdraw,
     AcceptLook, JoinLook, AskToJoin, GrantOrg, GrantRole, GrantTeam, GrantSeat, Settle,
     LockServer, MendServer, JudgeRequest, RevokeLook, Ends, Becomes
<1>3. Ends(c) => UNCHANGED tables
  BY DEF Ends, Becomes
<1> QED  BY <1>1, <1>2, <1>3 DEF Commits, CallAborts

(* Who approves holds the request, and nobody whose request is held so is let go. *)
LEMMA StepApproves ==
  ASSUME MembersInv, MembersNext, NEW c \in Rpc, Approves(c), request'[rpc[c].to] = "approved"
  PROVE  role'[rpc[c].to] # "none"
<1> DEFINE q == rpc[c].to
<1>1. /\ rpc[c] \in CallUnderWay /\ Busy(c) /\ Holding(rpc[c]) /\ q \in Person
      /\ RequestKey(q) \in rpc[c].locks /\ request[q] \in Pending /\ request[q] # "approved"
  BY Working DEF Approves, Busy, Holding, Claims, HasRequest, Granted, CallUnderWay, Pending, Departing, Managing, OrgOps, WaysIn
<1>2. PICK d \in Rpc : Begins(d) \/ Proceeds(d) \/ CallAborts(d)
  BY DEF MembersNext
<1>3. Commits(d)
  BY <1>1, <1>2, OnlyCommits DEF tables
<1>4. d = c
  BY <1>1, <1>3, RequestStill
<1>5. rpc[c].add \/ role[q] # "none"
  BY <1>1 DEF MembersInv, Decided, Granting, Granted, Approves
<1>6. ~Departs(c) /\ role' = [role EXCEPT ![q] = NewRole(c)]
  BY <1>3, <1>4, CommitFacts DEF Approves, Departing
<1>7. NewRole(c) # "none"
  BY <1>5, <1>6 DEF NewRole, Approves
<1> QED  BY <1>1, <1>6, <1>7 DEF MembersInv, MembersTypeOK

(* People an administrator approves are in, whatever happens to them meanwhile, for any number
   of calls that overlap. *)
THEOREM ApprovedPeopleAreIn == MembersSpec => ApprovedIsIn
<1>1. MembersInv /\ [MembersNext]_membersVars =>
        [\A c \in Rpc : Approves(c) /\ request'[rpc[c].to] = "approved" =>
           role'[rpc[c].to] # "none"]_membersVars
  BY StepApproves
<1> QED  BY <1>1, MembersInvariance, PTL DEF MembersSpec, ApprovedIsIn

(* A call that uses the invitation holds it since it found it open. *)
LEMMA StepKeepsClosed ==
  ASSUME MembersInv, MembersNext, invite.revoked \/ invite.uses = MaxUses
  PROVE  invite'.uses = invite.uses /\ usedBy' = usedBy
<1>1. PICK c \in Rpc : Begins(c) \/ Proceeds(c) \/ CallAborts(c)
  BY DEF MembersNext
<1>2. CASE Commits(c)
  <2>1. rpc[c].op # "accept"
    BY <1>2, CommitFacts DEF Holding, Claims, HasInvite
  <2>2. usedBy' = usedBy /\ invite' = [invite EXCEPT !.revoked = @ \/ rpc[c].op = "revoke"]
    BY <2>1, <1>2 DEF Commits, Finish, MembersInv, CallsOK
  <2> QED  BY <2>2 DEF MembersInv, CallsOK
<1>3. CASE ~Commits(c)
  BY <1>1, <1>3, OnlyCommits DEF tables
<1> QED  BY <1>2, <1>3

(* An invitation that is revoked or used up lets nobody use it any more. *)
THEOREM InviteStaysClosed == MembersSpec => ClosedInvite
<1>1. MembersInv /\ [MembersNext]_membersVars =>
        [(invite.revoked \/ invite.uses = MaxUses) => invite'.uses = invite.uses /\ usedBy' = usedBy]_membersVars
  BY StepKeepsClosed
<1> QED  BY <1>1, MembersInvariance, PTL DEF MembersSpec, ClosedInvite
=============================================================================
