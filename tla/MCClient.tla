------------------------------ MODULE MCClient ------------------------------
(* Three parts of a client that share no state, checked side by side: a behaviour is one
   of the session's, of the read state's or of the media links of a call. *)
EXTENDS Session, ReadState, Links

\* What happens to two links. A screen that was shared stays out of what takes one side's
\* connection away, see LinksSettle.
Story(may, times) == [may |-> may, times |-> times]
NoStory == Story({}, 0)
StoriesHere ==
  {Story({"share", "share again", "lose"}, 3), Story({"drop", "lose", "leave"}, 3),
   Story({"silent", "drop", "lose"}, 2), NoStory}

VARIABLE which
vars == <<which, sessionVars, readVars, linkVars>>

\* A part that is not followed rests in one of its initial states.
Init ==
  /\ SessionInit /\ ReadInit /\ LinksInit
  /\ which \in {"session", "read", "links"}
  /\ which # "session" => auth = Nobody
  /\ which # "read" => last = 1
  /\ (which = "links") <=> (story # NoStory)
Next ==
  /\ UNCHANGED which
  /\ \/ which = "session" /\ SessionNext /\ UNCHANGED <<readVars, linkVars>>
     \/ which = "read" /\ ReadNext /\ UNCHANGED <<sessionVars, linkVars>>
     \/ which = "links" /\ LinksNext /\ UNCHANGED <<sessionVars, readVars>>

\* A part that rests owes nothing: LinksFairness where the links are followed, and what
\* ReadFairness asks for is not enabled in the state the read position rests in.
Spec == /\ Init /\ [][Next]_vars
        /\ ReadFairness
        /\ \A s \in Side : WF_linkVars(which = "links" /\ Proceeds(s))

\* LinksSettle of Links, where the links are followed: two sessions in a call come to be
\* connected, and who left is let go.
LinksComeTogether == []<>(which = "links" => Together)
=============================================================================
