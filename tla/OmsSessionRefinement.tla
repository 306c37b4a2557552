------------------------ MODULE OmsSessionRefinement ------------------------
(***************************************************************************)
(* Proof that, without StrictMode, the hook implements SessionLink under   *)
(* the mapping LinkOf: every step of OmsSession is a step of the abstract  *)
(* link or leaves the link, the store and the phase unchanged.  The        *)
(* argument rests on SessionInv: each socket event comes from wsRef's      *)
(* socket, which is the only live one, and a reconnect is pending exactly  *)
(* when no socket is live and the view has mounted.                        *)
(***************************************************************************)
EXTENDS OmsSessionProofs

absVars == <<LinkOf, store, phase>>

(* A step of the abstract link, or a stutter of it.                        *)
AbsStep == [Link!Next]_absVars

(* The link's copy of the reducer is the reducer.                          *)
LEMMA SameReducer ==
    ASSUME NEW st, NEW a
    PROVE  Link!omsReducer(st, a) = omsReducer(st, a)
BY DEF omsReducer, Link!omsReducer, SnapshotOrders, Link!SnapshotOrders,
       MapSet, Link!MapSet, PrependExecution, Link!PrependExecution, Take, Link!Take

(* The link is the readyState of the live socket, which is wsRef's.        *)
LEMMA LinkOfLive ==
    ASSUME TypeOK, SessionInv, NEW s \in Sockets, Live(s)
    PROVE  s = wsRef /\ LinkOf = sock[s]
BY SessionAssumption DEF SessionInv, LinkOf, TypeOK

(* With no live socket the link waits exactly while a timer is pending.    *)
LEMMA LinkOfNoLive ==
    ASSUME wsRef \in Sockets \cup {NoSocket}, \A s \in Sockets : ~Live(s)
    PROVE  LinkOf = IF \E t \in Timers : timer[t] = "pending"
                      THEN "waiting" ELSE "idle"
BY DEF LinkOf

(* The same after a step.                                                  *)
LEMMA LinkOfNoLivePrimed ==
    ASSUME wsRef' \in Sockets \cup {NoSocket}, \A s \in Sockets : ~Live(s)'
    PROVE  LinkOf' = IF \E t \in Timers : timer'[t] = "pending"
                       THEN "waiting" ELSE "idle"
BY DEF LinkOf

(* connect() makes the new socket, in wsRef, the live one.                 *)
LEMMA ConnectLink ==
    ASSUME TypeOK, NEW ft \in Timers \cup {NoTimer}, Connect(ft)
    PROVE  LinkOf' = "connecting"
<1>1. FreeSocket \in Sockets
  BY DEF Connect, FreeSocket
<1>. QED
  BY <1>1, SessionAssumption DEF Connect, LinkOf, Live, TypeOK

LEMMA LinkStep ==
    ASSUME ~StrictMode, TypeOK, SessionInv, [Next]_vars
    PROVE  AbsStep
<1>. USE SessionAssumption
<1>1. CASE Mount
  <2>1. LinkOf = "idle"
    BY <1>1, LinkOfNoLive DEF Mount, SessionInv, TypeOK
  <2>2. Connect(NoTimer)
    BY <1>1 DEF Mount
  <2>3. LinkOf' = "connecting"
    BY <2>2, ConnectLink
  <2>. QED
    BY <1>1, <2>1, <2>3 DEF AbsStep, Mount, Link!Next, Link!Start
<1>2. CASE Unmount
  <2>1. \A t \in Timers : timer'[t] = "idle"
    BY <1>2 DEF Unmount, SessionInv, TypeOK
  <2>2. CASE wsRef # NoSocket /\ sock[wsRef] \in {"connecting", "open"}
    <3>1. LinkOf = sock[wsRef] /\ LinkOf' = "closing"
      BY <1>2, <2>2 DEF Unmount, LinkOf, Live, TypeOK
    <3>. QED
      BY <1>2, <2>2, <3>1 DEF AbsStep, Unmount, Link!Next, Link!Stop
  <2>3. CASE wsRef # NoSocket /\ sock[wsRef] = "closing"
    <3>1. LinkOf = "closing" /\ LinkOf' = "closing"
      BY <1>2, <2>3 DEF Unmount, LinkOf, Live, TypeOK
    <3>. QED
      BY <1>2, <3>1 DEF AbsStep, Unmount, Link!Next, Link!Stop
  <2>4. CASE ~(wsRef # NoSocket /\ sock[wsRef] \in {"connecting", "open", "closing"})
    <3>1. \A s \in Sockets : ~Live(s) /\ ~Live(s)'
      BY <1>2, <2>4 DEF Unmount, SessionInv, Live, TypeOK
    <3>2. LinkOf \in {"waiting", "idle"}
      BY <3>1, LinkOfNoLive DEF TypeOK
    <3>3. LinkOf' = "idle"
      BY <1>2, <2>1, <3>1, LinkOfNoLivePrimed DEF Unmount, TypeOK
    <3>. QED
      BY <1>2, <3>2, <3>3 DEF AbsStep, Unmount, Link!Next, Link!Stop
  <2>. QED
    BY <2>2, <2>3, <2>4
<1>3. ASSUME NEW s \in Sockets, OnOpen(s) PROVE AbsStep
  <2>1. s = wsRef /\ LinkOf = "connecting"
    BY <1>3, LinkOfLive DEF OnOpen, Live
  <2>2. LinkOf' = "open"
    BY <1>3, <2>1 DEF OnOpen, LinkOf, Live, TypeOK
  <2>. QED
    BY <1>3, <2>1, <2>2 DEF AbsStep, OnOpen, Dispatch, Alive, Link!Next, Link!Opened, Link!Publish,
       omsReducer, Link!omsReducer
<1>4. ASSUME NEW s \in Sockets, ServerClose(s) PROVE AbsStep
  <2>1. s = wsRef /\ LinkOf = "open"
    BY <1>4, LinkOfLive DEF ServerClose, Live
  <2>2. LinkOf' = "closing"
    BY <1>4, <2>1 DEF ServerClose, LinkOf, Live, TypeOK
  <2>. QED
    BY <1>4, <2>1, <2>2 DEF AbsStep, ServerClose, Link!Next, Link!Closing
(* Both ws.onclose paths: the link drops to waiting for the reconnect and  *)
(* DISCONNECTED is published.                                              *)
<1>5. ASSUME NEW s \in Sockets, Live(s), CloseEvent(s)
      PROVE  /\ s = wsRef /\ LinkOf = sock[s] /\ LinkOf' = "waiting"
             /\ Link!Publish([type |-> "DISCONNECTED"]) /\ phase' = phase
  <2>1. s = wsRef /\ LinkOf = sock[s]
    BY <1>5, LinkOfLive
  <2>2. \A x \in Sockets : ~Live(x)'
    BY <1>5, <2>1 DEF CloseEvent, SessionInv, Live, TypeOK
  <2>3. FreeTimer \in Timers /\ timer'[FreeTimer] = "pending"
    BY <1>5 DEF CloseEvent, FreeTimer, TypeOK
  <2>4. LinkOf' = "waiting"
    BY <1>5, <2>2, <2>3, LinkOfNoLivePrimed DEF CloseEvent, TypeOK
  <2>. QED
    BY <1>5, <2>1, <2>4 DEF CloseEvent, Dispatch, Alive, Link!Publish, omsReducer,
       Link!omsReducer
<1>12. ASSUME NEW s \in Sockets, OnError(s) PROVE AbsStep
  <2>1. Live(s) /\ CloseEvent(s) /\ sock[s] \in {"connecting", "open"}
    BY <1>12 DEF OnError, Live
  <2>. QED
    BY <1>5, <2>1 DEF AbsStep, Link!Next, Link!Fail
<1>13. ASSUME NEW s \in Sockets, OnClose(s) PROVE AbsStep
  <2>1. Live(s) /\ CloseEvent(s) /\ sock[s] = "closing"
    BY <1>13 DEF OnClose, Live
  <2>. QED
    BY <1>5, <2>1 DEF AbsStep, Link!Next, Link!Closed
<1>6. ASSUME NEW t \in Timers, ReconnectTimerFires(t) PROVE AbsStep
  <2>1. \A x \in Sockets : ~Live(x)
    BY <1>6 DEF ReconnectTimerFires, SessionInv
  <2>2. LinkOf = "waiting"
    BY <1>6, <2>1, LinkOfNoLive DEF ReconnectTimerFires, TypeOK
  <2>3. LinkOf' = "connecting"
    BY <1>6, ConnectLink DEF ReconnectTimerFires
  <2>. QED
    BY <1>6, <2>2, <2>3 DEF AbsStep, ReconnectTimerFires, Link!Next, Link!Retry
<1>7. ASSUME NEW s \in Sockets, NEW msg \in ServerMsgs, OnMessage(s, msg)
      PROVE AbsStep
  <2>1. s = wsRef /\ LinkOf = "open"
    BY <1>7, LinkOfLive DEF OnMessage, Live
  <2>2. LinkOf' = LinkOf
    BY <1>7 DEF OnMessage, LinkOf, Live
  <2>3. MessageAction(msg) \in {MessageAction(m) : m \in ServerMsgs}
    OBVIOUS
  <2>4. Link!Deliver(MessageAction(msg))
    BY <1>7, <2>1, <2>2, SameReducer DEF OnMessage, Dispatch, Alive, Link!Deliver,
       Link!Publish
  <2>. QED
    BY <2>3, <2>4 DEF AbsStep, Link!Next
(* The view's own steps leave the sockets, the timers, the store and the  *)
(* phase alone.                                                            *)
<1>8. ASSUME UNCHANGED <<sock, wsRef, timer, store, phase>> PROVE AbsStep
  BY <1>8 DEF AbsStep, absVars, LinkOf, Live
<1>9. CASE SubmitOrder \/ Quiescent \/ UNCHANGED vars
  BY <1>8, <1>9 DEF SubmitOrder, Quiescent, vars
<1>10. ASSUME NEW sym \in Symbols, SelectSymbol(sym) PROVE AbsStep
  BY <1>8, <1>10 DEF SelectSymbol
<1>11. ASSUME NEW id \in OrderIds, NEW type \in {"cancel_order", "replace_order"},
              BlotterCommand(id, type)
       PROVE  AbsStep
  BY <1>8, <1>11 DEF BlotterCommand
<1>. QED
  BY <1>1, <1>2, <1>3, <1>4, <1>6, <1>7, <1>9, <1>10, <1>11, <1>12, <1>13 DEF Next

(* Without StrictMode, useOmsWebSocket implements the single logical       *)
(* connection of spec 4.1 and 9 (LinkRefinement): its initial state is the *)
(* idle link, and every step is a transition of the link or a stutter.     *)
THEOREM LinkImplemented ==
    ASSUME ~StrictMode
    PROVE  Spec => LinkRefinement
<1>1. Init => Link!Init
  BY DEF Init, Link!Init, LinkOf, Live, INITIAL_STATE, Link!INITIAL_STATE
<1>2. TypeOK /\ SessionInv /\ [Next]_vars => [Link!Next]_absVars
  BY LinkStep DEF AbsStep
<1>3. Init => TypeOK /\ SessionInv
  BY InitTypeOK, SessionInvInit
<1>4. TypeOK /\ SessionInv /\ [Next]_vars => TypeOK' /\ SessionInv'
  BY TypeInvariance, SessionInvariance
<1>. QED
  BY <1>1, <1>2, <1>3, <1>4, PTL DEF Spec, LinkRefinement, Link!Spec, absVars
=============================================================================
