----------------------------- MODULE ChannelLog -----------------------------
(***************************************************************************)
(* What the message server promises, seen from outside: every channel is   *)
(* an append-only sequence of messages, and one send (one client_id) is in *)
(* one channel, at one place, for ever, however often it is replayed.      *)
(* MessageServer.tla shows that the write transactions of the database     *)
(* implement this; Outbox.tla takes it as the server it sends to.          *)
(***************************************************************************)
EXTENDS Sequences, Functions

CONSTANTS Channel,     \* conversations
          Msg          \* sends: one client_id each

VARIABLE log           \* log[ch]: the committed messages of ch, in seq order

Posted(m) == \E ch \in Channel : m \in Range(log[ch])

Init == log = [ch \in Channel |-> <<>>]

\* The one step: a send that is in no channel yet becomes the last message of one.
Post(m, ch) == /\ ~ Posted(m)
               /\ log' = [log EXCEPT ![ch] = Append(@, m)]

Next == \E m \in Msg, ch \in Channel : Post(m, ch)

Spec == Init /\ [][Next]_log
=============================================================================
