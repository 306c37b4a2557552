----------------------------- MODULE SessionLink -----------------------------
(***************************************************************************)
(* What the Transport Session promises its users, stated without sockets  *)
(* or timers: one logical link that moves through the explicit state       *)
(* machine of spec 4.1 and 9 (idle, connecting, open, closing, waiting for *)
(* the single reconnect), publishing CONNECTED when it opens and           *)
(* DISCONNECTED when it closes, and feeding the store only while it is     *)
(* open.  The store stops changing once the view is unmounted.             *)
(*                                                                         *)
(* OmsSession implements this specification in a production build (no     *)
(* StrictMode) through the mapping OmsSession!LinkState.  The spec leaves  *)
(* open whether a close after unmount is followed by a reconnect: that is  *)
(* checked by OmsSession's TeardownStopsReconnect, not here.               *)
(***************************************************************************)
EXTENDS OmsReducer

CONSTANT DataActions   \* the reducer actions the server's messages produce

VARIABLES
    link,    \* the state of the one logical connection
    store,   \* the OmsState the link feeds
    phase    \* "rendered", "mounted", "unmounted"

LinkState == {"idle", "connecting", "open", "closing", "waiting"}

(* Dispatch into the store while the view is alive.                       *)
Publish(action) ==
    store' = IF phase # "unmounted" THEN omsReducer(store, action) ELSE store

Init ==
    /\ link = "idle"
    /\ store = INITIAL_STATE
    /\ phase = "rendered"

(* The view mounts and dials.                                              *)
Start ==
    /\ phase = "rendered" /\ phase' = "mounted"
    /\ link = "idle" /\ link' = "connecting"
    /\ UNCHANGED store

Opened ==
    /\ link = "connecting" /\ link' = "open"
    /\ Publish([type |-> "CONNECTED"])
    /\ UNCHANGED phase

(* The peer starts to close the link; the close will be reported.          *)
Closing ==
    /\ link = "open" /\ link' = "closing"
    /\ UNCHANGED <<store, phase>>

(* A failure: the link drops at once, is reported closed, and the single   *)
(* reconnect is scheduled (spec 4.1: an error takes the path of a close).  *)
Fail ==
    /\ link \in {"connecting", "open"} /\ link' = "waiting"
    /\ Publish([type |-> "DISCONNECTED"])
    /\ UNCHANGED phase

(* A close completes: it is reported and one reconnect is scheduled.       *)
Closed ==
    /\ link = "closing" /\ link' = "waiting"
    /\ Publish([type |-> "DISCONNECTED"])
    /\ UNCHANGED phase

Retry ==
    /\ link = "waiting" /\ link' = "connecting"
    /\ UNCHANGED <<store, phase>>

(* Teardown: a scheduled reconnect is cancelled and a connection in use is *)
(* closed.                                                                 *)
Stop ==
    /\ phase = "mounted" /\ phase' = "unmounted"
    /\ link' = CASE link \in {"connecting", "open"} -> "closing"
                 [] link = "waiting"                 -> "idle"
                 [] OTHER                            -> link
    /\ UNCHANGED store

Deliver(a) ==
    /\ link = "open"
    /\ Publish(a)
    /\ UNCHANGED <<link, phase>>

Next ==
    \/ Start \/ Opened \/ Closing \/ Fail \/ Closed \/ Retry \/ Stop
    \/ \E a \in DataActions : Deliver(a)

Spec == Init /\ [][Next]_<<link, store, phase>>
=============================================================================
