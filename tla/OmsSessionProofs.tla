-------------------------- MODULE OmsSessionProofs --------------------------
(***************************************************************************)
(* Proofs about the Transport Session composed with the State Store.       *)
(*                                                                         *)
(*   TypeCorrect   : every reachable state is well typed; in particular    *)
(*                   the execution log never exceeds MAX_EXECUTIONS and    *)
(*                   the store stays an OmsState whatever the server sends *)
(*   SingleSession : without StrictMode, at most one socket is live and    *)
(*                   at most one reconnect timer is pending, from any      *)
(*                   number of slots and any server behaviour.             *)
(***************************************************************************)
EXTENDS OmsSession, OmsReducerProofs, TLAPS

(* Each message the server may send dispatches a well-formed action.       *)
LEMMA MessageActionType ==
    ASSUME NEW msg \in ServerMessage
    PROVE  MessageAction(msg) \in OmsAction
BY DEF ServerMessage, MessageAction, OmsAction

(* dispatch keeps the store an OmsState.                                   *)
LEMMA DispatchType ==
    ASSUME NEW a \in OmsAction, store \in OmsState, Dispatch(a)
    PROVE  store' \in OmsState
BY ReducerTyped DEF Dispatch

LEMMA InitTypeOK == Init => TypeOK
<1> SUFFICES ASSUME Init PROVE TypeOK
  OBVIOUS
<1>1. INITIAL_STATE \in OmsState
  <2>1. <<>> \in MapOf(OrderIds, Order) /\ <<>> \in MapOf(Symbols, OrderBookSnapshot)
    <3>1. <<>> \in [{} -> Order] /\ <<>> \in [{} -> OrderBookSnapshot]
      OBVIOUS
    <3>. QED
      BY <3>1 DEF MapOf
  <2>2. <<>> \in SeqUpTo(Execution, MaxExecutions)
    BY MaxExecutionsAssumption DEF SeqUpTo
  <2>. QED
    BY <2>1, <2>2 DEF INITIAL_STATE, OmsState
<1>. QED
  BY <1>1, SessionAssumption DEF Init, TypeOK, SocketState

(* Both the error path and the close event of a socket run ws.onclose on  *)
(* a live socket.                                                          *)
LEMMA CloseEventOf ==
    ASSUME NEW s \in Sockets, OnError(s) \/ OnClose(s)
    PROVE  Live(s) /\ CloseEvent(s)
BY DEF OnError, OnClose, Live

(* A step of Next keeps TypeOK, one step per action.                       *)
LEMMA TypeInvariance == TypeOK /\ [Next]_vars => TypeOK'
<1> SUFFICES ASSUME TypeOK, [Next]_vars PROVE TypeOK'
  OBVIOUS
<1>. USE SessionAssumption DEF TypeOK
<1>1. ASSUME NEW ft \in Timers \cup {NoTimer}, Connect(ft)
      PROVE  /\ sock' \in [Sockets -> SocketState]
             /\ wsRef' \in Sockets \cup {NoSocket}
             /\ timer' \in [Timers -> {"idle", "pending"}]
             /\ reconnectRef' \in Timers \cup {NoTimer}
             /\ subs' \in [Sockets -> SUBSET Symbols]
             /\ cmds' \in [Sockets -> SUBSET OrderCommand]
  <2>1. FreeSocket \in Sockets
    BY <1>1 DEF Connect, FreeSocket
  <2>. QED
    BY <1>1, <2>1 DEF Connect, SocketState
<1>2. CASE Mount
  <2>1. CASE StrictMode
    <3>1. PICK s1, s2 \in Sockets : s1 # s2 /\ sock[s1] = "closed" /\ sock[s2] = "closed"
      BY <1>2, <2>1 DEF Mount
    <3>2. FreeSocket \in Sockets /\ SecondFreeSocket \in Sockets
      BY <3>1 DEF FreeSocket, SecondFreeSocket
    <3>. QED
      BY <1>2, <2>1, <3>2 DEF Mount, SocketState
  <2>2. CASE ~StrictMode
    BY <1>1, <1>2, <2>2 DEF Mount
  <2>. QED
    BY <2>1, <2>2
<1>3. CASE Unmount
  BY <1>3 DEF Unmount, SocketState
<1>4. ASSUME NEW s \in Sockets, OnOpen(s) PROVE TypeOK'
  BY <1>4, DispatchType DEF OnOpen, OmsAction, SocketState
<1>5. ASSUME NEW s \in Sockets, ServerClose(s) PROVE TypeOK'
  BY <1>5 DEF ServerClose, SocketState
<1>6. ASSUME NEW s \in Sockets, OnError(s) \/ OnClose(s) PROVE TypeOK'
  <2>1. CloseEvent(s)
    BY <1>6, CloseEventOf
  <2>2. FreeTimer \in Timers
    BY <2>1 DEF CloseEvent, FreeTimer
  <2>3. store' \in OmsState
    BY <2>1, DispatchType DEF CloseEvent, OmsAction
  <2>. QED
    BY <2>1, <2>2, <2>3 DEF CloseEvent, SocketState
<1>7. ASSUME NEW t \in Timers, ReconnectTimerFires(t) PROVE TypeOK'
  BY <1>1, <1>7 DEF ReconnectTimerFires
<1>8. ASSUME NEW s \in Sockets, NEW msg \in ServerMsgs, OnMessage(s, msg)
      PROVE TypeOK'
  <2>1. MessageAction(msg) \in OmsAction
    BY MessageActionType, ServerMsgsAssumption
  <2>. QED
    BY <1>8, <2>1, DispatchType DEF OnMessage
<1>9. CASE SubmitOrder
  BY <1>9 DEF SubmitOrder, WsOpen
<1>10. CASE Quiescent \/ UNCHANGED vars
  BY <1>10 DEF Quiescent, vars
<1>11. ASSUME NEW sym \in Symbols, SelectSymbol(sym) PROVE TypeOK'
  <2>1. subs' \in [Sockets -> SUBSET Symbols]
    BY <1>11 DEF SelectSymbol, SendBook, WsOpen
  <2>. QED
    BY <1>11, <2>1 DEF SelectSymbol
<1>12. ASSUME NEW id \in OrderIds, NEW type \in {"cancel_order", "replace_order"},
              BlotterCommand(id, type)
       PROVE  TypeOK'
  <2>1. cmds' \in [Sockets -> SUBSET OrderCommand]
    BY <1>12 DEF BlotterCommand, SendOrderCommand, WsOpen, OrderCommand
  <2>. QED
    BY <1>12, <2>1 DEF BlotterCommand
<1>. QED
  BY <1>2, <1>3, <1>4, <1>5, <1>6, <1>7, <1>8, <1>9, <1>10, <1>11, <1>12 DEF Next

(* Every reachable state is well typed.                                    *)
THEOREM TypeCorrect == Spec => []TypeOK
BY InitTypeOK, TypeInvariance, PTL DEF Spec

-----------------------------------------------------------------------------
(* SingleSession.  The four conjuncts of SessionInv are preserved together *)
(* with TypeOK when StrictMode is off.                                      *)

LEMMA SessionInvInit == Init => SessionInv
BY DEF Init, SessionInv, Live

(* connect() run with no live socket and no pending timer other than the  *)
(* one that fires leaves exactly the new socket live and no timer pending. *)
LEMMA ConnectSessionInv ==
    ASSUME TypeOK, SessionInv, NEW ft \in Timers \cup {NoTimer}, Connect(ft),
           \A s \in Sockets : ~Live(s),
           \A t \in Timers : timer[t] = "pending" => t \in {ft, reconnectRef}
    PROVE  /\ \A s \in Sockets : Live(s)' => s = wsRef'
           /\ \A t \in Timers : timer'[t] = "idle"
<1>1. FreeSocket \in Sockets /\ sock[FreeSocket] = "closed"
  BY DEF Connect, FreeSocket
<1>2. \A s \in Sockets : Live(s)' => s = wsRef'
  BY <1>1, SessionAssumption DEF Connect, Live, TypeOK
<1>3. \A t \in Timers : timer'[t] = "idle"
  BY DEF Connect, TypeOK
<1>. QED
  BY <1>2, <1>3

LEMMA SessionInvariance ==
    ASSUME ~StrictMode, TypeOK, SessionInv, [Next]_vars
    PROVE  SessionInv'
<1>. USE SessionAssumption
<1>1. CASE Mount
  <2>1. Connect(NoTimer) /\ phase' = "mounted"
    BY <1>1 DEF Mount
  <2>2. /\ \A s \in Sockets : ~Live(s)
        /\ \A t \in Timers : timer[t] = "pending" => t \in {NoTimer, reconnectRef}
    BY <1>1 DEF Mount, SessionInv, TypeOK
  <2>3. /\ \A s \in Sockets : Live(s)' => s = wsRef'
        /\ \A t \in Timers : timer'[t] = "idle"
    BY <2>1, <2>2, ConnectSessionInv
  <2>. QED
    BY <2>1, <2>3 DEF SessionInv
<1>2. CASE Unmount
  <2>1. \A t \in Timers : timer'[t] = "idle"
    BY <1>2 DEF Unmount, SessionInv, TypeOK
  <2>2. \A s \in Sockets : Live(s)' => Live(s)
    BY <1>2 DEF Unmount, Live, TypeOK
  <2>. QED
    BY <1>2, <2>1, <2>2 DEF Unmount, SessionInv
<1>3. ASSUME NEW s \in Sockets, OnOpen(s) PROVE SessionInv'
  <2>1. \A x \in Sockets : Live(x)' <=> Live(x)
    BY <1>3 DEF OnOpen, Live, TypeOK
  <2>. QED
    BY <1>3, <2>1 DEF OnOpen, SessionInv
<1>4. ASSUME NEW s \in Sockets, ServerClose(s) PROVE SessionInv'
  <2>1. \A x \in Sockets : Live(x)' <=> Live(x)
    BY <1>4 DEF ServerClose, Live, TypeOK
  <2>. QED
    BY <1>4, <2>1 DEF ServerClose, SessionInv
<1>5. ASSUME NEW s \in Sockets, OnError(s) \/ OnClose(s) PROVE SessionInv'
  <2>0. Live(s) /\ CloseEvent(s)
    BY <1>5, CloseEventOf
  <2>1. s = wsRef /\ phase # "rendered"
    BY <2>0 DEF SessionInv
  <2>2. \A t \in Timers : timer[t] = "idle"
    BY <2>0, <2>1 DEF SessionInv, TypeOK
  <2>3. \A x \in Sockets : ~Live(x)'
    BY <2>0, <2>1 DEF CloseEvent, Live, SessionInv, TypeOK
  <2>4. FreeTimer \in Timers
    BY <2>0 DEF CloseEvent, FreeTimer
  <2>5. \A t \in Timers : timer'[t] = "pending" => t = reconnectRef'
    BY <2>0, <2>2, <2>4 DEF CloseEvent, TypeOK
  <2>. QED
    BY <2>0, <2>1, <2>3, <2>5 DEF CloseEvent, SessionInv
<1>6. ASSUME NEW t \in Timers, ReconnectTimerFires(t) PROVE SessionInv'
  <2>1. t = reconnectRef /\ phase # "rendered"
    BY <1>6 DEF ReconnectTimerFires, SessionInv
  <2>2. /\ \A s \in Sockets : ~Live(s)
        /\ \A u \in Timers : timer[u] = "pending" => u \in {t, reconnectRef}
    BY <1>6 DEF ReconnectTimerFires, SessionInv
  <2>3. /\ \A s \in Sockets : Live(s)' => s = wsRef'
        /\ \A u \in Timers : timer'[u] = "idle"
    BY <1>6, <2>2, ConnectSessionInv DEF ReconnectTimerFires
  <2>. QED
    BY <1>6, <2>1, <2>3 DEF ReconnectTimerFires, SessionInv
<1>7. ASSUME NEW s \in Sockets, NEW msg \in ServerMsgs, OnMessage(s, msg)
      PROVE SessionInv'
  BY <1>7 DEF OnMessage, SessionInv, Live
<1>8. CASE SubmitOrder
  BY <1>8 DEF SubmitOrder, SessionInv, Live
<1>9. CASE Quiescent \/ UNCHANGED vars
  BY <1>9 DEF Quiescent, vars, SessionInv, Live
<1>10. ASSUME NEW sym \in Symbols, SelectSymbol(sym) PROVE SessionInv'
  BY <1>10 DEF SelectSymbol, SessionInv, Live
<1>11. ASSUME NEW id \in OrderIds, NEW type \in {"cancel_order", "replace_order"},
              BlotterCommand(id, type)
       PROVE  SessionInv'
  BY <1>11 DEF BlotterCommand, SendOrderCommand, SessionInv, Live
<1>. QED
  BY <1>1, <1>2, <1>3, <1>4, <1>5, <1>6, <1>7, <1>8, <1>9, <1>10, <1>11 DEF Next

LEMMA SessionInvImplies ==
    SessionInv => SingleLiveSocket /\ AtMostOneReconnectTimer
BY DEF SessionInv, SingleLiveSocket, AtMostOneReconnectTimer

(* Without StrictMode the hook keeps at most one live WebSocket and at     *)
(* most one pending reconnect timer, for any number of socket and timer    *)
(* slots: connect() replaces a socket only after its onclose has fired,    *)
(* and onclose schedules a timer only when none is pending.               *)
THEOREM SingleSession ==
    ASSUME ~StrictMode
    PROVE  Spec => [](SingleLiveSocket /\ AtMostOneReconnectTimer)
<1>1. Init => TypeOK /\ SessionInv
  BY InitTypeOK, SessionInvInit
<1>2. TypeOK /\ SessionInv /\ [Next]_vars => TypeOK' /\ SessionInv'
  BY TypeInvariance, SessionInvariance
<1>3. TypeOK /\ SessionInv => SingleLiveSocket /\ AtMostOneReconnectTimer
  BY SessionInvImplies
<1>. QED
  BY <1>1, <1>2, <1>3, PTL DEF Spec

(* Without StrictMode, SessionInv holds in every reachable state: the only *)
(* live socket is wsRef's, the only pending timer is reconnectRef's, and a *)
(* live socket and a pending reconnect never coexist (connect() after      *)
(* onclose and the timer callback hand the one over to the other).         *)
THEOREM SessionInvCorrect ==
    ASSUME ~StrictMode
    PROVE  Spec => []SessionInv
<1>1. Init => TypeOK /\ SessionInv
  BY InitTypeOK, SessionInvInit
<1>2. TypeOK /\ SessionInv /\ [Next]_vars => TypeOK' /\ SessionInv'
  BY TypeInvariance, SessionInvariance
<1>. QED
  BY <1>1, <1>2, PTL DEF Spec

(* Without StrictMode no two reconnect timers are ever pending at once     *)
(* (spec 4.1/5): onclose of wsRef's socket schedules a timer only when no  *)
(* other is pending, so reconnectRef never loses a timer it held.          *)
THEOREM ReconnectTimerUnique ==
    ASSUME ~StrictMode
    PROVE  Spec => []AtMostOneReconnectTimer
<1>1. SessionInv => AtMostOneReconnectTimer
  BY SessionInvImplies
<1>. QED
  BY <1>1, SessionInvCorrect, PTL

(* The step of ConnectOnlyWhenIdle: only connect() turns a closed slot     *)
(* into a connecting socket, and it runs either from the mount, before     *)
(* anything is live, or from a pending reconnect timer, which SessionInv   *)
(* says never coexists with a live socket.  Every other handler moves a    *)
(* socket away from connecting or leaves it alone.                         *)
LEMMA ConnectIdleStep ==
    ASSUME ~StrictMode, TypeOK, SessionInv, [Next]_vars,
           NEW s \in Sockets, sock[s] = "closed", sock'[s] = "connecting"
    PROVE  \A r \in Sockets : ~Live(r)
<1>. USE SessionAssumption
<1>1. CASE Mount
  BY <1>1 DEF Mount, SessionInv
<1>2. ASSUME NEW t \in Timers, ReconnectTimerFires(t) PROVE \A r \in Sockets : ~Live(r)
  BY <1>2 DEF ReconnectTimerFires, SessionInv
<1>3. CASE Unmount
  BY <1>3 DEF Unmount, TypeOK
<1>4. ASSUME NEW x \in Sockets, OnOpen(x) \/ ServerClose(x) \/ OnError(x) \/ OnClose(x)
      PROVE  FALSE
  BY <1>4 DEF OnOpen, ServerClose, OnError, OnClose, CloseEvent, TypeOK
<1>5. ASSUME NEW x \in Sockets, NEW msg \in ServerMsgs, OnMessage(x, msg)
      PROVE  FALSE
  BY <1>5 DEF OnMessage
<1>6. CASE SubmitOrder \/ Quiescent \/ UNCHANGED vars
  BY <1>6 DEF SubmitOrder, Quiescent, vars
<1>7. ASSUME NEW sym \in Symbols, SelectSymbol(sym) PROVE FALSE
  BY <1>7 DEF SelectSymbol
<1>8. ASSUME NEW id \in OrderIds, NEW type \in {"cancel_order", "replace_order"},
             BlotterCommand(id, type)
      PROVE  FALSE
  BY <1>8 DEF BlotterCommand
<1>. QED
  BY <1>1, <1>2, <1>3, <1>4, <1>5, <1>6, <1>7, <1>8 DEF Next

(* Without StrictMode the hook creates a WebSocket only when no socket is *)
(* live (spec 4.1): connect() never runs beside a socket it would leak.   *)
THEOREM ConnectIdle ==
    ASSUME ~StrictMode
    PROVE  Spec => ConnectOnlyWhenIdle
<1>1. TypeOK /\ SessionInv /\ [Next]_vars =>
        [\A s \in Sockets :
            sock[s] = "closed" /\ sock'[s] = "connecting" =>
                \A r \in Sockets : ~Live(r)]_vars
  BY ConnectIdleStep
<1>2. Init => TypeOK /\ SessionInv
  BY InitTypeOK, SessionInvInit
<1>3. TypeOK /\ SessionInv /\ [Next]_vars => TypeOK' /\ SessionInv'
  BY TypeInvariance, SessionInvariance
<1>. QED
  BY <1>1, <1>2, <1>3, PTL DEF Spec, ConnectOnlyWhenIdle

-----------------------------------------------------------------------------
(* ConnectedCorrect.  ConnectedReflectsSocket is inductive together with   *)
(* TypeOK and SessionInv: every socket event comes from wsRef's socket, so *)
(* CONNECTED and DISCONNECTED track its readyState, and the data messages  *)
(* leave the flag alone.                                                   *)

(* A data message never touches the connection flag.                       *)
LEMMA MessageKeepsConnected ==
    ASSUME NEW st \in OmsState, NEW msg \in ServerMessage
    PROVE  omsReducer(st, MessageAction(msg)).connected = st.connected
BY DEF ServerMessage, MessageAction, omsReducer, OmsState

(* dispatch(CONNECTED) and dispatch(DISCONNECTED) set the flag while the   *)
(* view is alive.                                                          *)
LEMMA DispatchConnection ==
    ASSUME NEW st \in OmsState, NEW b \in BOOLEAN
    PROVE  omsReducer(st, [type |-> IF b THEN "CONNECTED" ELSE "DISCONNECTED"]).connected = b
BY DEF omsReducer, OmsState

LEMMA ConnectedInvariance ==
    ASSUME ~StrictMode, TypeOK, SessionInv, ConnectedReflectsSocket, [Next]_vars
    PROVE  ConnectedReflectsSocket'
<1>. USE SessionAssumption
<1>1. CASE Mount
  <2>1. ~store.connected
    BY <1>1 DEF Mount, SessionInv, ConnectedReflectsSocket, Alive, Live, TypeOK
  <2>2. Connect(NoTimer) /\ store' = store
    BY <1>1 DEF Mount
  <2>3. sock'[wsRef'] = "connecting"
    BY <2>2 DEF Connect, FreeSocket, TypeOK
  <2>. QED
    BY <2>1, <2>2, <2>3 DEF ConnectedReflectsSocket, WsOpen
<1>2. CASE Unmount
  BY <1>2 DEF Unmount, ConnectedReflectsSocket, Alive
<1>3. ASSUME NEW s \in Sockets, OnOpen(s) PROVE ConnectedReflectsSocket'
  <2>1. s = wsRef
    BY <1>3 DEF OnOpen, SessionInv, Live
  <2>2. Alive => store'.connected
    BY <1>3, DispatchConnection DEF OnOpen, Dispatch, Alive, TypeOK
  <2>. QED
    BY <1>3, <2>1, <2>2 DEF OnOpen, ConnectedReflectsSocket, Alive, WsOpen, TypeOK
<1>4. ASSUME NEW s \in Sockets, ServerClose(s) PROVE ConnectedReflectsSocket'
  <2>1. s = wsRef
    BY <1>4 DEF ServerClose, SessionInv, Live
  <2>. QED
    BY <1>4, <2>1 DEF ServerClose, ConnectedReflectsSocket, Alive, WsOpen, TypeOK
<1>5. ASSUME NEW s \in Sockets, OnError(s) \/ OnClose(s) PROVE ConnectedReflectsSocket'
  <2>0. Live(s) /\ CloseEvent(s)
    BY <1>5, CloseEventOf
  <2>1. s = wsRef
    BY <2>0 DEF SessionInv
  <2>2. Alive => ~store'.connected
    BY <2>0, DispatchConnection DEF CloseEvent, Dispatch, Alive, TypeOK
  <2>. QED
    BY <2>0, <2>1, <2>2 DEF CloseEvent, ConnectedReflectsSocket, Alive, WsOpen, TypeOK
<1>6. ASSUME NEW t \in Timers, ReconnectTimerFires(t) PROVE ConnectedReflectsSocket'
  <2>1. \A x \in Sockets : ~Live(x)
    BY <1>6 DEF ReconnectTimerFires, SessionInv
  <2>2. Alive => ~store.connected
    BY <2>1 DEF ConnectedReflectsSocket, Live, TypeOK
  <2>3. sock'[wsRef'] = "connecting"
    BY <1>6 DEF ReconnectTimerFires, Connect, FreeSocket, TypeOK
  <2>. QED
    BY <1>6, <2>2, <2>3 DEF ReconnectTimerFires, ConnectedReflectsSocket, Alive, WsOpen
<1>7. ASSUME NEW s \in Sockets, NEW msg \in ServerMsgs, OnMessage(s, msg)
      PROVE ConnectedReflectsSocket'
  <2>1. store'.connected = store.connected
    BY <1>7, MessageKeepsConnected, ServerMsgsAssumption DEF OnMessage, Dispatch, TypeOK
  <2>. QED
    BY <1>7, <2>1 DEF OnMessage, ConnectedReflectsSocket, Alive, WsOpen
<1>8. CASE SubmitOrder
  BY <1>8 DEF SubmitOrder, ConnectedReflectsSocket, Alive, WsOpen
<1>9. CASE Quiescent \/ UNCHANGED vars
  BY <1>9 DEF Quiescent, vars, ConnectedReflectsSocket, Alive, WsOpen
<1>10. ASSUME NEW sym \in Symbols, SelectSymbol(sym) PROVE ConnectedReflectsSocket'
  BY <1>10 DEF SelectSymbol, ConnectedReflectsSocket, Alive, WsOpen
<1>11. ASSUME NEW id \in OrderIds, NEW type \in {"cancel_order", "replace_order"},
              BlotterCommand(id, type)
       PROVE  ConnectedReflectsSocket'
  BY <1>11 DEF BlotterCommand, ConnectedReflectsSocket, Alive, WsOpen
<1>. QED
  BY <1>1, <1>2, <1>3, <1>4, <1>5, <1>6, <1>7, <1>8, <1>9, <1>10, <1>11 DEF Next

(* Without StrictMode the Connected indicator agrees with the socket       *)
(* send() tests: an OPEN wsRef socket shows Connected, and Connected is    *)
(* shown only while that socket is open or its close event is pending.    *)
THEOREM ConnectedCorrect ==
    ASSUME ~StrictMode
    PROVE  Spec => []ConnectedReflectsSocket
<1>1. Init => TypeOK /\ SessionInv /\ ConnectedReflectsSocket
  BY InitTypeOK, SessionInvInit DEF Init, ConnectedReflectsSocket, INITIAL_STATE, WsOpen
<1>2. TypeOK /\ SessionInv /\ ConnectedReflectsSocket /\ [Next]_vars
        => TypeOK' /\ SessionInv' /\ ConnectedReflectsSocket'
  BY TypeInvariance, SessionInvariance, ConnectedInvariance
<1>. QED
  BY <1>1, <1>2, PTL DEF Spec

-----------------------------------------------------------------------------
(* BookSubscriptionsCorrect.  SubscriptionsWithinSelection is strengthened *)
(* by the fact that a connection still connecting carries no subscription: *)
(* connect() starts each connection with none and send() reaches only an   *)
(* OPEN socket, so the socket that opens next is clean.                    *)
SubsInv ==
    \A s \in Sockets :
        /\ sock[s] = "open" => subs[s] \subseteq {selected}
        /\ sock[s] = "connecting" => subs[s] = {}

LEMMA SubsInvInit == Init => SubsInv
BY DEF Init, SubsInv

(* connect() leaves every other socket as it was and the new one clean.   *)
LEMMA ConnectSubsInv ==
    ASSUME TypeOK, SubsInv, NEW ft \in Timers \cup {NoTimer}, Connect(ft),
           selected' = selected
    PROVE  SubsInv'
<1>1. FreeSocket \in Sockets /\ sock[FreeSocket] = "closed"
  BY DEF Connect, FreeSocket
<1>. QED
  BY <1>1 DEF Connect, SubsInv, TypeOK

LEMMA SubsInvariance ==
    ASSUME ~StrictMode, TypeOK, SessionInv, SubsInv, [Next]_vars
    PROVE  SubsInv'
<1>. USE SessionAssumption
<1>1. CASE Mount
  BY <1>1, ConnectSubsInv DEF Mount
<1>2. CASE Unmount
  BY <1>2 DEF Unmount, SubsInv, TypeOK
<1>3. ASSUME NEW s \in Sockets, OnOpen(s) PROVE SubsInv'
  BY <1>3 DEF OnOpen, SubsInv, TypeOK
<1>4. ASSUME NEW s \in Sockets, ServerClose(s) PROVE SubsInv'
  BY <1>4 DEF ServerClose, SubsInv, TypeOK
<1>5. ASSUME NEW s \in Sockets, OnError(s) \/ OnClose(s) PROVE SubsInv'
  <2>1. CloseEvent(s)
    BY <1>5, CloseEventOf
  <2>. QED
    BY <2>1 DEF CloseEvent, SubsInv, TypeOK
<1>6. ASSUME NEW t \in Timers, ReconnectTimerFires(t) PROVE SubsInv'
  BY <1>6, ConnectSubsInv DEF ReconnectTimerFires
<1>7. ASSUME NEW s \in Sockets, NEW msg \in ServerMsgs, OnMessage(s, msg)
      PROVE SubsInv'
  BY <1>7 DEF OnMessage, SubsInv
<1>8. CASE SubmitOrder
  BY <1>8 DEF SubmitOrder, SubsInv
<1>9. CASE Quiescent \/ UNCHANGED vars
  BY <1>9 DEF Quiescent, vars, SubsInv
<1>10. ASSUME NEW sym \in Symbols, SelectSymbol(sym) PROVE SubsInv'
  <2>1. \A x \in Sockets : sock[x] \in {"connecting", "open"} => x = wsRef
    BY DEF SessionInv, Live
  <2>2. CASE WsOpen
    <3>1. subs'[wsRef] = (subs[wsRef] \ {selected}) \cup {sym}
      BY <1>10, <2>2 DEF SelectSymbol, SendBook, WsOpen, TypeOK
    <3>2. subs'[wsRef] \subseteq {sym}
      BY <2>2, <3>1 DEF SubsInv, WsOpen, TypeOK
    <3>. QED
      BY <1>10, <2>1, <2>2, <3>2 DEF SelectSymbol, SendBook, SubsInv, WsOpen, TypeOK
  <2>3. CASE ~WsOpen
    BY <1>10, <2>1, <2>3 DEF SelectSymbol, SendBook, SubsInv, WsOpen, TypeOK
  <2>. QED
    BY <2>2, <2>3
<1>11. ASSUME NEW id \in OrderIds, NEW type \in {"cancel_order", "replace_order"},
              BlotterCommand(id, type)
       PROVE  SubsInv'
  BY <1>11 DEF BlotterCommand, SubsInv
<1>. QED
  BY <1>1, <1>2, <1>3, <1>4, <1>5, <1>6, <1>7, <1>8, <1>9, <1>10, <1>11 DEF Next

(* Without StrictMode every open connection carries at most the book       *)
(* subscription of the selected symbol: switching symbols unsubscribes the *)
(* previous one on the same connection, and a new connection starts with   *)
(* none.                                                                   *)
THEOREM BookSubscriptionsCorrect ==
    ASSUME ~StrictMode
    PROVE  Spec => []SubscriptionsWithinSelection
<1>1. Init => TypeOK /\ SessionInv /\ SubsInv
  BY InitTypeOK, SessionInvInit, SubsInvInit
<1>2. TypeOK /\ SessionInv /\ SubsInv /\ [Next]_vars
        => TypeOK' /\ SessionInv' /\ SubsInv'
  BY TypeInvariance, SessionInvariance, SubsInvariance
<1>3. SubsInv => SubscriptionsWithinSelection
  BY DEF SubsInv, SubscriptionsWithinSelection
<1>. QED
  BY <1>1, <1>2, <1>3, PTL DEF Spec
=============================================================================
