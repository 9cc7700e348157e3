----------------------------- MODULE MCDatabase -----------------------------
(* Two parts of the database that are checked side by side, since no transaction of the one
   waits for the other: a behaviour is one of changes to a message, or one of calls that
   bring people into an organization and let them go.  Of these there are few of any kind, or
   MaxCalls of those that a request to join goes through. *)
EXTENDS MCMessageServer, Members

CONSTANT FewCalls    \* bound: calls of any kind in a behaviour

RequestOps == {"join", "accept", "decide", "remove"}

VARIABLE which
databaseVars == <<which, vars, membersVars>>

\* The part that is not followed rests: no transaction there has begun, or ever will.
NoMembers ==
  /\ role = [p \in Person |-> "none"] /\ team = role /\ request = role
  /\ suspended = {} /\ banned = {} /\ usedBy = {} /\ gone = {} /\ open = TRUE
  /\ invite = [by |-> "nobody", approval |-> FALSE, uses |-> 0, revoked |-> TRUE]
  /\ rpc = [c \in Rpc |-> NoCall] /\ begun = 0 /\ crowned = TRUE
InitDatabase ==
  /\ Init
  /\ \/ which = "messages" /\ NoMembers
     \/ which \in {"members", "requests"} /\ MembersInit
NextDatabase ==
  /\ UNCHANGED which
  /\ \/ which = "messages" /\ Next /\ UNCHANGED membersVars
     \/ /\ which \in {"members", "requests"} /\ MembersNext /\ UNCHANGED vars
        /\ which = "members" => begun' <= FewCalls
        /\ which = "requests" => \A c \in Rpc : rpc'[c].op \in RequestOps \cup {"none"}

Database == InitDatabase /\ [][NextDatabase]_databaseVars

\* The calls of both parts are the same three.
AllAlike == Symmetry \cup Permutations(Person)
=============================================================================
