----------------------------- MODULE MCServices -----------------------------
(* Two services that share no state, checked side by side: a behaviour is one of the
   dispatch of a notification or one of the uploads of a composer.  The dispatch is
   followed with the Few devices and all that people may do meanwhile, and with all
   devices, more than one claim takes, of people who leave their settings alone. *)
EXTENDS Push, Uploads

CONSTANT Few            \* bound: the devices of the first of these

VARIABLE which
servicesVars == <<which, vars, uploadVars>>

\* The part that is not followed rests: no file yet, an intent that has expired.
NoDispatch ==
  /\ intent = [status |-> "expired", attempts |-> 0, locked |-> FALSE] /\ old = TRUE
  /\ row = [d \in Device |-> "none"] /\ device = [d \in Device |-> "on"]
  /\ wanted = {} /\ quiet = {} /\ run = [r \in Run |-> Idle] /\ lost = 0 /\ cut = {}
InitServices ==
  /\ UploadInit
  /\ \/ which = "push" /\ Init /\ wanted \cup quiet \subseteq Few
     \/ which = "crowd" /\ Init /\ wanted = Device /\ quiet \subseteq Few
     \/ which = "uploads" /\ NoDispatch
NextServices ==
  /\ UNCHANGED which
  /\ \/ which = "push" /\ Next /\ UNCHANGED uploadVars
        /\ quiet' \subseteq Few /\ \A d \in Device \ Few : device'[d] = "on"
     \/ which = "crowd" /\ Next /\ UNCHANGED uploadVars
        /\ UNCHANGED <<wanted, quiet>> /\ \A d \in Device : device'[d] # "gone"
     \/ which = "uploads" /\ UploadNext /\ UNCHANGED vars

Services ==
  InitServices /\ [][NextServices]_servicesVars /\ Fairness /\ UploadFairness
=============================================================================
