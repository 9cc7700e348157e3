------------------------------ MODULE Members ------------------------------
(* Who belongs to an organization: the transactions that bring people in, change what they
   may do and let them go, on one organization with one team server and one invitation to
   it.  A call is one RPC, and one transaction at READ COMMITTED: every statement sees what
   is committed when it begins, and waits for rows another transaction has locked.  One
   action is what a call does between two waits, or between two looks at the tables that
   decide different things; what it writes is published when it commits, in Finish.
   Moderators, channels, bans from the server alone and invitations by mail are left out. *)
EXTENDS Naturals, FiniteSets

CONSTANTS Person, Rpc,   \* the people; the transactions that may be open at a time
          MaxUses,       \* dek.invites.max_uses
          MaxCalls       \* bound: calls in a behaviour

ASSUME MembersAssumption == MaxUses \in Nat \ {0} /\ MaxCalls \in Nat

VARIABLES
  role,      \* dek.org_members.role, "none": no row
  suspended, \* dek.org_members.status is 'suspended'
  team,      \* dek.server_members.role
  banned,    \* dek.org_bans
  request,   \* the last dek.join_requests row of each: "asked" and "invited" are pending
  invite,    \* dek.invites: its creator, whether it asks for approval, use_count, revoked_at
  usedBy,    \* dek.invite_uses
  open,      \* dek.servers.join_policy is 'open', else 'approval'
  gone,      \* profiles.deleted_at is set
  rpc, begun, \* the calls under way, and how many there were
  crowned    \* history: somebody was made an owner between a call's look at the owners and
             \* its end

tables == <<role, suspended, team, banned, request, invite, usedBy, open, gone>>
membersVars == <<tables, rpc, begun, crowned>>

Pending == {"asked", "invited"}
Managing == {"role", "suspend", "restore", "remove", "ban"}
Departing == {"remove", "ban", "leave", "delete"}

NoCall == [op |-> "none", pc |-> "idle"]

MembersInit ==
  /\ role \in [Person -> {"owner", "member", "none"}]
  /\ \E p \in Person :
       /\ role[p] = "owner"
       /\ team = [q \in Person |-> IF q = p THEN "admin" ELSE "none"]
       /\ invite \in [by : {p}, approval : BOOLEAN, uses : {0}, revoked : {FALSE}]
  /\ open \in BOOLEAN
  /\ request \in [Person -> {"none", "asked"}]
  /\ \A p \in Person : request[p] = "asked" => role[p] = "member"
  /\ suspended = {} /\ banned = {} /\ usedBy = {} /\ gone = {}
  /\ rpc = [c \in Rpc |-> NoCall] /\ begun = 0 /\ crowned = FALSE

-----------------------------------------------------------------------------
(* What the access rules answer on the committed tables. *)

Active(p) == role[p] # "none" /\ p \notin suspended
OrgAdmin(p) == Active(p) /\ role[p] \in {"owner", "admin"}
ServerAdmin(p) == OrgAdmin(p) \/ (Active(p) /\ role[p] # "guest" /\ team[p] = "admin")
Owners == {p \in Person : role[p] = "owner"}
ActiveOwners == Owners \ suspended
OtherTeamAdmins(p) == {q \in Person \ {p} : team[q] = "admin" /\ Active(q) /\ role[q] # "guest"}

-----------------------------------------------------------------------------
(* Locks and the ends of a transaction. *)

Available(c, k) == \A d \in Rpc \ {c} : rpc[d].pc # "idle" => k \notin rpc[d].locks
\* A foreign key to a server takes a shared lock of its row, an administrator's call the row.
ShareServer(c) == Available(c, <<"server">>)
Enter(c, pc, keys) == [rpc[c] EXCEPT !.pc = pc, !.locks = @ \cup keys]
Becomes(c, r) == rpc' = [rpc EXCEPT ![c] = r] /\ UNCHANGED <<tables, begun, crowned>>
Ends(c) == Becomes(c, NoCall)

(* Every call first asks who calls; a call that is refused there does nothing. *)
Calling(c, op, who, to, arg) ==
  /\ rpc[c].pc = "idle" /\ begun < MaxCalls /\ begun' = begun + 1
  /\ who \notin gone
  /\ rpc' = [rpc EXCEPT ![c] =
       [op |-> op, who |-> who, to |-> to, arg |-> arg, me |-> role[who], pc |-> "start",
        see |-> {}, locks |-> {}, add |-> FALSE, put |-> "none", drop |-> FALSE]]
  /\ UNCHANGED <<tables, crowned>>

SetOrgRole(c) == \E p \in Person, q \in Person, r \in {"owner", "admin", "member", "guest"} :
  OrgAdmin(p) /\ Calling(c, "role", p, q, r)
ManageMember(c) == \E p \in Person, q \in Person, op \in Managing \ {"role"} :
  OrgAdmin(p) /\ Calling(c, op, p, q, "")
LeaveOrg(c) == \E p \in Person : Active(p) /\ Calling(c, "leave", p, p, "")
DeleteAccount(c) == \E p \in Person : Calling(c, "delete", p, p, "")
AcceptInvite(c) == \E p \in Person : Calling(c, "accept", p, p, "")
RevokeInvite(c) == \E p \in Person : Calling(c, "revoke", p, p, "")
DecideRequest(c) == \E p \in Person, q \in Person, yes \in {"approve", "reject"} :
  ServerAdmin(p) /\ request[q] # "none" /\ Calling(c, "decide", p, q, yes)
JoinServer(c) == \E p \in Person : Active(p) /\ Calling(c, "join", p, p, "")
LeaveServer(c) == \E p \in Person : Active(p) /\ Calling(c, "quit", p, p, "")
AdministerServer(c) == \E p \in Person, q \in Person, op \in {"add", "rank", "kick"} :
  \E r \in IF op = "kick" THEN {""} ELSE {"admin", "member"} :
    ServerAdmin(p) /\ Calling(c, op, p, q, r)

-----------------------------------------------------------------------------
(* Members of the organization. *)

\* The calls that look who the owners are before they let anybody go.
MindsOwners(c) == rpc[c].op \in Managing \cup {"leave", "delete"}

\* The statement that locks the owners takes its snapshot ...
SeeOwners(c) ==
  /\ rpc[c].pc = "start" /\ MindsOwners(c)
  /\ LET owns == rpc[c].op = "delete" => role[rpc[c].who] = "owner"
     IN  Becomes(c, [rpc[c] EXCEPT !.pc = "owners", !.see = IF owns THEN Owners ELSE {}])

\* A slip: the owners are read without "for update".
LockOwners_Unlocked(c) ==
  /\ rpc[c].pc = "owners"
  /\ Becomes(c, Enter(c, IF rpc[c].op = "delete" THEN "check" ELSE "target", {}))

\* ... waits for each row, and keeps those that still are an owner's.
LockOwners(c) ==
  /\ rpc[c].pc = "owners"
  /\ \A p \in rpc[c].see : Available(c, <<"member", p>>)
  /\ Becomes(c, Enter(c, IF rpc[c].op = "delete" THEN "check" ELSE "target",
                      {<<"member", p>> : p \in rpc[c].see \cap Owners}))

MayManage(c) ==
  LET q == rpc[c].to
      below == {"member", "guest"}
  IN  CASE rpc[c].op = "role" -> rpc[c].me = "owner" \/ {role[q], rpc[c].arg} \subseteq below
        [] rpc[c].op = "leave" -> TRUE
        [] OTHER -> q # rpc[c].who /\ (rpc[c].me = "owner" \/ role[q] \in below)
AlreadySo(c) ==
  \/ rpc[c].op = "role" /\ role[rpc[c].to] = rpc[c].arg
  \/ rpc[c].op = "suspend" /\ rpc[c].to \in suspended
  \/ rpc[c].op = "restore" /\ rpc[c].to \notin suspended
Strips(c) == rpc[c].op \in Departing \/ (rpc[c].op = "role" /\ rpc[c].arg = "guest")
Checked(c) == IF Strips(c) THEN "strip" ELSE "finish"
Stripped(c) == IF rpc[c].op \in Departing THEN "part" ELSE "finish"

LockTarget(c) ==
  /\ rpc[c].pc = "target"
  /\ Available(c, <<"member", rpc[c].to>>)
  /\ LET q == rpc[c].to IN
     IF (role[q] = "none" /\ rpc[c].op # "leave") \/ ~MayManage(c) \/ AlreadySo(c)
     THEN Ends(c)
     ELSE Becomes(c, Enter(c, IF role[q] = "owner" /\ rpc[c].op # "restore"
                              THEN "check" ELSE Checked(c),
                           IF role[q] = "none" THEN {} ELSE {<<"member", q>>}))

AssertNotLastOwner(c) ==
  /\ rpc[c].pc = "check"
  /\ IF role[rpc[c].to] = "owner" /\ ActiveOwners \subseteq {rpc[c].to}
     THEN Ends(c)
     ELSE Becomes(c, Enter(c, Checked(c), {}))

\* revoke_server_membership of what the loop over the memberships finds.
Strip(c) ==
  /\ rpc[c].pc = "strip"
  /\ LET q == rpc[c].to IN
     IF rpc[c].op = "delete" /\ role[q] = "none"
     THEN Becomes(c, [rpc[c] EXCEPT !.pc = "withdraw", !.arg = "outside"])
     ELSE IF team[q] = "none" THEN Becomes(c, Enter(c, Stripped(c), {}))
     ELSE /\ Available(c, <<"team", q>>)
          /\ Becomes(c, [Enter(c, Stripped(c), {<<"team", q>>}) EXCEPT !.drop = TRUE])

\* revoke_org_membership deletes the row, if it sees one; who inserts the same row waits for
\* the end of the transaction that has deleted it.
Part(c) ==
  /\ rpc[c].pc = "part"
  /\ LET q == rpc[c].to IN
     \/ role[q] = "none" /\ Becomes(c, Enter(c, "withdraw", {}))
     \/ /\ role[q] # "none" /\ Available(c, <<"member", q>>)
        /\ Becomes(c, Enter(c, "withdraw", {<<"member", q>>, <<"gone", q>>}))

\* A slip: only leaving a server withdraws requests.
Withdraw_OnlyQuit(c) ==
  /\ rpc[c].pc = "withdraw"
  /\ LET mine == {p \in {rpc[c].to} : rpc[c].op = "quit" /\ request[p] \in Pending} IN
     /\ \A p \in mine : Available(c, <<"request", p>>)
     /\ Becomes(c, Enter(c, "finish", {<<"request", p>> : p \in mine}))

\* org_withdraw_requests: a request that another call has not committed yet is not seen.
Withdraw(c) ==
  /\ rpc[c].pc = "withdraw"
  /\ LET mine == {p \in {rpc[c].to} : request[p] \in Pending} IN
     /\ \A p \in mine : Available(c, <<"request", p>>)
     /\ Becomes(c, Enter(c, "finish", {<<"request", p>> : p \in mine}))

-----------------------------------------------------------------------------
(* Ways in. *)

InviteProblem ==
  invite.revoked \/ invite.uses >= MaxUses \/ ~ServerAdmin(invite.by)

\* What the invitation would still give.
WantsInvite(p) == role[p] = "none" \/ (role[p] # "guest" /\ team[p] = "none")

\* A slip: the invitation is read without "for update".
AcceptLook_Unlocked(c) ==
  /\ rpc[c].pc = "start" /\ rpc[c].op = "accept"
  /\ LET p == rpc[c].who IN
     IF p \in suspended \/ ~WantsInvite(p) \/ InviteProblem \/ p \in banned
     THEN Ends(c)
     ELSE Becomes(c, Enter(c, IF invite.approval \/ ~open THEN "ask" ELSE "org", {}))

AcceptLook(c) ==
  /\ rpc[c].pc = "start" /\ rpc[c].op = "accept"
  /\ Available(c, <<"invite">>)
  /\ LET p == rpc[c].who IN
     IF p \in suspended \/ ~WantsInvite(p) \/ InviteProblem \/ p \in banned
     THEN Ends(c)
     ELSE Becomes(c, Enter(c, IF invite.approval \/ ~open THEN "ask" ELSE "org",
                           {<<"invite">>}))

JoinLook(c) ==
  /\ rpc[c].pc = "start" /\ rpc[c].op = "join"
  /\ LET p == rpc[c].who IN
     IF team[p] # "none" \/ ~Active(p) \/ role[p] = "guest"
     THEN Ends(c)
     ELSE Becomes(c, Enter(c, IF open \/ OrgAdmin(p) THEN "team" ELSE "ask", {}))

\* insert into join_requests ... on conflict do nothing: a pending one stands.
AskToJoin(c) ==
  /\ rpc[c].pc = "ask"
  /\ LET p == rpc[c].who IN
     \/ request[p] \in Pending /\ Ends(c)
     \/ /\ request[p] \notin Pending
        /\ Available(c, <<"request", p>>) /\ ShareServer(c)
        /\ Becomes(c, [Enter(c, "finish", {<<"request", p>>, <<"share">>}) EXCEPT
             !.put = IF rpc[c].op = "accept" THEN "invited" ELSE "asked"])

\* insert into org_members ... on conflict do nothing: a row whose deletion has not committed
\* is waited for.
GrantOrg(c) ==
  /\ rpc[c].pc = "org"
  /\ LET q == rpc[c].to IN
     IF role[q] # "none"
     THEN Available(c, <<"gone", q>>) /\ Becomes(c, Enter(c, "role", {}))
     ELSE /\ Available(c, <<"member", q>>)
          /\ Becomes(c, [Enter(c, "role", {<<"member", q>>}) EXCEPT !.add = TRUE])

\* The role after it, as org_apply_grant sees it: a guest comes no further.
GrantRole(c) ==
  /\ rpc[c].pc = "role"
  /\ LET q == rpc[c].to IN
     IF ~rpc[c].add /\ ~Active(q) THEN Ends(c)
     ELSE Becomes(c, Enter(c, IF ~rpc[c].add /\ role[q] = "guest" THEN "finish" ELSE "team", {}))

\* org_grant_server_membership is three statements with a snapshot each: it asks for the
\* role once more ...
GrantTeam(c) ==
  /\ rpc[c].pc = "team"
  /\ IF rpc[c].add \/ (Active(rpc[c].to) /\ role[rpc[c].to] # "guest")
     THEN Becomes(c, Enter(c, "seat", {}))
     ELSE Ends(c)

\* ... inserts the row, on conflict do nothing ...
GrantSeat(c) ==
  /\ rpc[c].pc = "seat"
  /\ LET q == rpc[c].to IN
     /\ Available(c, <<"team", q>>)
     /\ IF team[q] # "none" THEN Becomes(c, Enter(c, "finish", {}))
        ELSE /\ ShareServer(c)
             /\ Becomes(c, [Enter(c, "settle", {<<"team", q>>, <<"share">>}) EXCEPT
                  !.put = IF rpc[c].op = "add" THEN rpc[c].arg ELSE "member"])

\* ... and settles the pending request it sees.
Settle(c) ==
  /\ rpc[c].pc = "settle"
  /\ LET mine == {p \in {rpc[c].to} : request[p] \in Pending} IN
     /\ \A p \in mine : Available(c, <<"request", p>>)
     /\ Becomes(c, Enter(c, "finish", {<<"request", p>> : p \in mine}))

-----------------------------------------------------------------------------
(* Calls of the server's administrators, behind its row. *)

LockServer(c) ==
  /\ rpc[c].pc = "start" /\ rpc[c].op \in {"add", "rank", "kick", "quit", "decide"}
  /\ Available(c, <<"server">>) /\ Available(c, <<"share">>)
  /\ IF rpc[c].op # "quit" /\ ~ServerAdmin(rpc[c].who) THEN Ends(c)
     ELSE Becomes(c, Enter(c, CASE rpc[c].op = "decide" -> "judge"
                                [] rpc[c].op = "add" -> "team"
                                [] OTHER -> "mend", {<<"server">>}))

\* set_server_role, remove_server_member, leave_server: the last administrator stays.
MendServer(c) ==
  /\ rpc[c].pc = "mend"
  /\ LET q == rpc[c].to
         rank == rpc[c].op = "rank"
         quit == rpc[c].op = "quit"
         steps == team[q] = "admin" /\ ~(rank /\ rpc[c].arg = "admin")
     IN  /\ Available(c, <<"team", q>>)
         /\ IF \/ ~quit /\ (team[q] = "none" \/ q = rpc[c].who \/ role[q] \in {"owner", "admin"})
               \/ steps /\ (quit => Active(q)) /\ OtherTeamAdmins(q) = {}
            THEN Ends(c)
            ELSE Becomes(c, [Enter(c, IF quit THEN "withdraw" ELSE "finish", {<<"team", q>>}) EXCEPT
                   !.drop = ~rank /\ team[q] # "none",
                   !.put = IF rank THEN rpc[c].arg ELSE "none"])

JudgeRequest(c) ==
  /\ rpc[c].pc = "judge"
  /\ LET q == rpc[c].to
         void == request[q] = "invited" /\ (invite.revoked \/ ~ServerAdmin(invite.by))
     IN  /\ Available(c, <<"request", q>>)
         /\ IF \/ request[q] \notin Pending
               \/ rpc[c].arg = "approve" /\ (q \in banned \/ q \in suspended \/ void)
            THEN Ends(c)
            ELSE Becomes(c, Enter(c, IF rpc[c].arg = "approve" THEN "org" ELSE "finish",
                                  {<<"request", q>>}))

RevokeLook(c) ==
  /\ rpc[c].pc = "start" /\ rpc[c].op = "revoke"
  /\ Available(c, <<"invite">>)
  /\ LET p == rpc[c].who IN
     IF Active(p) /\ (ServerAdmin(p) \/ invite.by = p)
     THEN Becomes(c, Enter(c, "finish", {<<"invite">>}))
     ELSE Ends(c)

-----------------------------------------------------------------------------
(* The rest of a call, and its commit. *)

\* The call has deleted the membership.
Departs(c) == <<"gone", rpc[c].to>> \in rpc[c].locks

NewRole(c) ==
  IF Departs(c) THEN "none"
  ELSE IF rpc[c].op = "role" THEN rpc[c].arg
  ELSE IF rpc[c].add THEN "member" ELSE role[rpc[c].to]
NewTeam(c) ==
  IF rpc[c].drop THEN "none"
  ELSE IF rpc[c].put \in {"admin", "member"} THEN rpc[c].put ELSE team[rpc[c].to]
NewRequest(c) ==
  IF <<"request", rpc[c].to>> \notin rpc[c].locks THEN request[rpc[c].to]
  ELSE IF rpc[c].put \in Pending THEN rpc[c].put
  ELSE IF rpc[c].op \in Departing \cup {"quit"} THEN "withdrawn"
  ELSE IF rpc[c].op = "decide" /\ rpc[c].arg = "reject" THEN "rejected" ELSE "approved"

Crowns(c) ==
  /\ rpc[c].op = "role" /\ rpc[c].arg = "owner"
  /\ \E d \in Rpc \ {c} : MindsOwners(d) /\ rpc[d].pc # "start"

\* An acceptance counts itself only below the limit.
Finish(c) ==
  /\ rpc[c].pc = "finish"
  /\ LET q == rpc[c].to
         op == rpc[c].op
         accepts == op = "accept"
     IN  IF accepts /\ invite.uses >= MaxUses THEN Ends(c) ELSE
         /\ role' = [role EXCEPT ![q] = NewRole(c)]
         /\ team' = [team EXCEPT ![q] = NewTeam(c)]
         /\ request' = [request EXCEPT ![q] = NewRequest(c)]
         /\ suspended' = IF op = "suspend" THEN suspended \cup {q}
                         ELSE IF Departs(c) \/ op = "restore" THEN suspended \ {q}
                         ELSE suspended
         /\ banned' = IF op = "ban" THEN banned \cup {q} ELSE banned
         /\ gone' = IF op = "delete" THEN gone \cup {q} ELSE gone
         /\ invite' = [invite EXCEPT !.uses = IF accepts THEN @ + 1 ELSE @,
                                     !.revoked = @ \/ op = "revoke"]
         /\ usedBy' = IF accepts THEN usedBy \cup {q} ELSE usedBy
         /\ rpc' = [rpc EXCEPT ![c] = NoCall]
         /\ crowned' = (crowned \/ Crowns(c))
         /\ UNCHANGED <<open, begun>>

\* A statement timeout, a lost connection, or the victim of a deadlock: nothing happened.
CallAborts(c) == rpc[c].pc # "idle" /\ Ends(c)

Begins(c) ==
  \/ SetOrgRole(c) \/ ManageMember(c) \/ LeaveOrg(c) \/ DeleteAccount(c)
  \/ AcceptInvite(c) \/ RevokeInvite(c) \/ DecideRequest(c)
  \/ JoinServer(c) \/ LeaveServer(c) \/ AdministerServer(c)
Proceeds(c) ==
  \/ SeeOwners(c) \/ LockOwners(c) \/ LockTarget(c) \/ AssertNotLastOwner(c) \/ Strip(c)
  \/ Part(c) \/ Withdraw(c)
  \/ AcceptLook(c) \/ JoinLook(c) \/ AskToJoin(c) \/ GrantOrg(c) \/ GrantRole(c)
  \/ GrantTeam(c) \/ GrantSeat(c) \/ Settle(c)
  \/ LockServer(c) \/ MendServer(c) \/ JudgeRequest(c) \/ RevokeLook(c) \/ Finish(c)

MembersNext == \E c \in Rpc : Begins(c) \/ Proceeds(c) \/ CallAborts(c)
MembersSpec == MembersInit /\ [][MembersNext]_membersVars

-----------------------------------------------------------------------------
(* Properties. *)

(* Types of the tables; a suspended person is a member. *)
MembersTypeOK ==
  /\ role \in [Person -> {"owner", "admin", "member", "guest", "none"}]
  /\ team \in [Person -> {"admin", "member", "none"}]
  /\ request \in [Person -> Pending \cup {"none", "approved", "rejected", "withdrawn"}]
  /\ suspended \cup banned \cup usedBy \cup gone \subseteq Person
  /\ suspended \subseteq {p \in Person : role[p] # "none"}

(* Two owners who go, or let each other go, at the same moment must not both pass the check
   (org_lock_owners, org_assert_not_last_owner): the organization keeps an active owner, as
   long as nobody is made an owner behind the back of a call that has looked who they are. *)
OwnerStays == ~crowned => ActiveOwners # {}

(* A request is approved by an administrator only while the person is in, or comes in by it,
   whatever happens to them meanwhile: who decides holds the request, a call that lets its
   author go waits for it after it has deleted the membership, and who grants one waits for
   such a deletion (decide_join_request, revoke_org_membership, org_withdraw_requests). *)
Approves(c) == rpc[c].op = "decide" /\ rpc[c].arg = "approve" /\ rpc[c].pc = "finish"
ApprovedIsIn == [][\A c \in Rpc :
  Approves(c) /\ request'[rpc[c].to] = "approved" => role'[rpc[c].to] # "none"]_membersVars

(* An invitation that is revoked or used up lets nobody use it any more, also not a call
   that had read it before (accept_invite, revoke_invite). *)
ClosedInvite == [][(invite.revoked \/ invite.uses = MaxUses) =>
  invite'.uses = invite.uses /\ usedBy' = usedBy]_membersVars

(* What comments of the code say and calls that overlap do not keep: no run checks these,
   the README describes what happens.  An organization always keeps an active owner. *)
OwnerRemains == ActiveOwners # {}
(* Who is banned is not a member. *)
BannedIsOut == \A p \in banned : role[p] = "none"
(* Guests and people outside are in no team server. *)
TeamIsInside == \A p \in Person : team[p] # "none" => role[p] \notin {"none", "guest"}
(* A request of somebody who was a member does not outlive the membership. *)
OutsidersDoNotAsk == \A p \in Person : request[p] = "asked" => role[p] # "none"
(* Whoever a request is approved for is in, also when joining settles it. *)
SettledIsIn == [][\A p \in Person :
  request'[p] = "approved" /\ request[p] # "approved" => role'[p] # "none"]_membersVars
(* Who is suspended cannot leave. *)
SuspendedStays == [][\A p \in suspended : role'[p] = "none" =>
  \E c \in Rpc : rpc[c].op \in {"remove", "ban", "delete"} /\ rpc[c].to = p]_membersVars
=============================================================================
