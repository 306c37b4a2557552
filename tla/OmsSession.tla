----------------------------- MODULE OmsSession -----------------------------
(***************************************************************************)
(* The Transport Session of the OMS dashboard composed with its State      *)
(* Store: the hook useOmsWebSocket (hooks/useOmsWebSocket.ts) with the     *)
(* browser WebSocket objects and setTimeout timers it creates, the         *)
(* effect that connects on mount and tears down on cleanup, the socket     *)
(* handlers that dispatch into omsReducer, and the order-entry submit      *)
(* (components/OrderEntryPanel.tsx) that sends through the hook.           *)
(*                                                                         *)
(* Sockets and timers live in finite sets of slots.  A slot is reused only *)
(* once the object in it can raise no further event: a socket whose close  *)
(* event has fired, a timer that fired or was cleared.  Everything runs on *)
(* the browser's single event loop, so each handler is one atomic step;    *)
(* the interleaving is between the handlers of different sockets, the      *)
(* timers and the React effect lifecycle.                                  *)
(***************************************************************************)
EXTENDS OmsReducer, Integers

CONSTANTS
    Sockets,      \* slots for WebSocket objects
    Timers,       \* slots for setTimeout handles
    NoSocket,     \* wsRef.current = null
    NoTimer,      \* reconnectRef.current = null
    StrictMode,   \* React StrictMode: the effect is run, cleaned up, run again
    ServerMsgs,   \* the server messages a run lets the server send
    NoSymbol      \* selectedSymbol = null, and the order form's empty symbol

ASSUME SessionAssumption ==
    /\ NoSocket \notin Sockets
    /\ NoTimer \notin Timers
    /\ Sockets # {}
    /\ StrictMode \in BOOLEAN
    /\ NoSymbol \notin Symbols

VARIABLES
    store,         \* the useReducer state (OmsState)
    sock,          \* sock[s]: the readyState of the socket in slot s
    wsRef,         \* wsRef.current
    timer,         \* timer[t]: whether the timeout in slot t is pending
    reconnectRef,  \* reconnectRef.current
    phase,         \* "rendered", then "mounted" (effect ran), "unmounted"
    entry,         \* the order-entry panel's last result
    selected,      \* OrderBookPanel's selectedSymbol
    subs,          \* subs[s]: the book subscriptions the server holds for the
                   \* connection of socket s (what subscribe_book and
                   \* unsubscribe_book sent on it have left)
    cmds           \* cmds[s]: the cancel and replace commands the connection
                   \* of socket s delivered to the server

vars == <<store, sock, wsRef, timer, reconnectRef, phase, entry, selected, subs,
          cmds>>

(* "closing": the socket is closed or closing and its close event has not  *)
(* yet been delivered; "closed": the close event has been delivered.       *)
SocketState == {"connecting", "open", "closing", "closed"}

Live(s) == sock[s] \in {"connecting", "open", "closing"}

(* websocket.ts: the server messages that reach dispatch.  The messages    *)
(* 'connected', 'cancel_reject', 'business_reject', 'error' and frames    *)
(* JSON.parse rejects only log, change no state, and are left out.         *)
ServerMessage ==
         [type : {"instrument_list"}, data : SUBSET Symbols]
    \cup [type : {"account_list"}, data : SUBSET AccountNames]
    \cup [type : {"order_snapshot"}, data : Seq(Order)]
    \cup [type : {"order_update"}, data : Order]
    \cup [type : {"execution_report"}, data : Execution]
    \cup [type : {"book_update"}, data : OrderBookSnapshot]

ASSUME ServerMsgsAssumption == ServerMsgs \subseteq ServerMessage

(* websocket.ts: the cancel_order and replace_order client messages, as    *)
(* the order blotter sends them: the order id and no other field.          *)
OrderCommand == [type : {"cancel_order", "replace_order"}, orderId : OrderIds]

(* The switch of ws.onmessage: the reducer action each message dispatches. *)
MessageAction(msg) ==
    LET kind == CASE msg.type = "instrument_list"  -> "INSTRUMENT_LIST"
                  [] msg.type = "account_list"     -> "ACCOUNT_LIST"
                  [] msg.type = "order_snapshot"   -> "ORDER_SNAPSHOT"
                  [] msg.type = "order_update"     -> "ORDER_UPDATE"
                  [] msg.type = "execution_report" -> "EXECUTION_REPORT"
                  [] msg.type = "book_update"      -> "BOOK_UPDATE"
    IN  [type |-> kind, data |-> msg.data]

(* The component that owns the reducer is alive until the cleanup of its   *)
(* effect on unmount; after that React drops its dispatches.               *)
Alive == phase # "unmounted"

(* dispatch(action).                                                       *)
Dispatch(action) ==
    store' = IF Alive THEN omsReducer(store, action) ELSE store

(* wsRef.current?.readyState === WebSocket.OPEN, the test of send().       *)
WsOpen == wsRef # NoSocket /\ sock[wsRef] = "open"

TypeOK ==
    /\ store \in OmsState
    /\ sock \in [Sockets -> SocketState]
    /\ wsRef \in Sockets \cup {NoSocket}
    /\ timer \in [Timers -> {"idle", "pending"}]
    /\ reconnectRef \in Timers \cup {NoTimer}
    /\ phase \in {"rendered", "mounted", "unmounted"}
    /\ entry \in [result : {"none", "error", "submitted"}, delivered : BOOLEAN]
    /\ selected \in Symbols \cup {NoSymbol}
    /\ subs \in [Sockets -> SUBSET Symbols]
    /\ cmds \in [Sockets -> SUBSET OrderCommand]

Init ==
    /\ store = INITIAL_STATE
    /\ sock = [s \in Sockets |-> "closed"]
    /\ wsRef = NoSocket
    /\ timer = [t \in Timers |-> "idle"]
    /\ reconnectRef = NoTimer
    /\ phase = "rendered"
    /\ entry = [result |-> "none", delivered |-> FALSE]
    /\ selected = NoSymbol
    /\ subs = [s \in Sockets |-> {}]
    /\ cmds = [s \in Sockets |-> {}]

-----------------------------------------------------------------------------
(* connect(): clear the pending reconnect named by reconnectRef, open a    *)
(* new WebSocket in a free slot and store it in wsRef.  The socket that    *)
(* wsRef held before is neither closed nor detached from its handlers.     *)
(* firedTimer is the timer whose callback runs connect (NoTimer if none).  *)
(* The slot bound: connect is enabled only while a slot is free.           *)
FreeSocket == CHOOSE s \in Sockets : sock[s] = "closed"

Connect(firedTimer) ==
    /\ \E s \in Sockets : sock[s] = "closed"
    /\ timer' = [t \in Timers |->
                    IF t \in {firedTimer, reconnectRef} THEN "idle" ELSE timer[t]]
    /\ reconnectRef' = NoTimer
    /\ sock' = [sock EXCEPT ![FreeSocket] = "connecting"]
    /\ subs' = [subs EXCEPT ![FreeSocket] = {}]
    /\ cmds' = [cmds EXCEPT ![FreeSocket] = {}]
    /\ wsRef' = FreeSocket

(* useEffect body: connect().  Under StrictMode React runs the effect, its *)
(* cleanup and the effect again in one commit: the first socket is closed  *)
(* while still CONNECTING and a second one is opened; the store survives.  *)
(* No timer is pending on mount, so the cleanup in between clears nothing. *)
SecondFreeSocket == CHOOSE s \in Sockets : sock[s] = "closed" /\ s # FreeSocket

Mount ==
    /\ phase = "rendered"
    /\ phase' = "mounted"
    /\ IF StrictMode
         THEN /\ \E s1, s2 \in Sockets :
                    s1 # s2 /\ sock[s1] = "closed" /\ sock[s2] = "closed"
              /\ sock' = [sock EXCEPT ![FreeSocket] = "closing",
                                      ![SecondFreeSocket] = "connecting"]
              /\ subs' = [subs EXCEPT ![FreeSocket] = {}, ![SecondFreeSocket] = {}]
              /\ cmds' = [cmds EXCEPT ![FreeSocket] = {}, ![SecondFreeSocket] = {}]
              /\ wsRef' = SecondFreeSocket
              /\ UNCHANGED <<timer, reconnectRef>>
         ELSE Connect(NoTimer)
    /\ UNCHANGED <<store, entry, selected>>

(* useEffect cleanup: clear the pending reconnect, wsRef.current?.close(). *)
(* OrderBookPanel's cleanup unsubscribes its symbol in the same commit;    *)
(* the socket is closing by then or closes right after, so no connection   *)
(* that can still carry a book update keeps a different subscription set.  *)
Unmount ==
    /\ phase = "mounted"
    /\ phase' = "unmounted"
    /\ timer' = IF reconnectRef # NoTimer
                  THEN [timer EXCEPT ![reconnectRef] = "idle"] ELSE timer
    /\ reconnectRef' = NoTimer
    /\ sock' = IF wsRef # NoSocket /\ sock[wsRef] \in {"connecting", "open"}
                 THEN [sock EXCEPT ![wsRef] = "closing"] ELSE sock
    /\ UNCHANGED <<store, wsRef, entry, selected, subs, cmds>>

(* ws.onopen: dispatch CONNECTED.                                          *)
OnOpen(s) ==
    /\ sock[s] = "connecting"
    /\ sock' = [sock EXCEPT ![s] = "open"]
    /\ Dispatch([type |-> "CONNECTED"])
    /\ UNCHANGED <<wsRef, timer, reconnectRef, phase, entry, selected, subs, cmds>>

(* The server starts the closing handshake of an open connection: the      *)
(* browser sets readyState to CLOSING and runs no handler; the close event *)
(* comes later (OnClose).  Until then the store still says connected.      *)
ServerClose(s) ==
    /\ sock[s] = "open"
    /\ sock' = [sock EXCEPT ![s] = "closing"]
    /\ UNCHANGED <<store, wsRef, timer, reconnectRef, phase, entry, selected, subs, cmds>>

(* ws.onclose: dispatch DISCONNECTED and schedule connect after            *)
(* RECONNECT_DELAY, storing the new handle in reconnectRef without         *)
(* clearing the one it held.  The timer-slot bound: a slot must be free.   *)
FreeTimer == CHOOSE t \in Timers : timer[t] = "idle"

CloseEvent(s) ==
    /\ \E t \in Timers : timer[t] = "idle"
    /\ sock' = [sock EXCEPT ![s] = "closed"]
    /\ Dispatch([type |-> "DISCONNECTED"])
    /\ timer' = [timer EXCEPT ![FreeTimer] = "pending"]
    /\ reconnectRef' = FreeTimer
    /\ UNCHANGED <<wsRef, phase, entry, selected, subs, cmds>>

(* Mutant: ws.onerror calls connect() to retry at once instead of          *)
(* ws.close(); the close event of the failed socket follows in the same    *)
(* task and schedules a reconnect as well.                                 *)
OnErrorReconnects(s) ==
    /\ sock[s] \in {"connecting", "open"}
    /\ \E f \in Sockets : f # s /\ sock[f] = "closed"
    /\ \E t \in Timers : timer[t] = "idle"
    /\ LET f == CHOOSE f \in Sockets : f # s /\ sock[f] = "closed" IN
         /\ sock' = [sock EXCEPT ![s] = "closed", ![f] = "connecting"]
         /\ subs' = [subs EXCEPT ![f] = {}]
         /\ cmds' = [cmds EXCEPT ![f] = {}]
         /\ wsRef' = f
    /\ Dispatch([type |-> "DISCONNECTED"])
    /\ timer' = [timer EXCEPT ![FreeTimer] = "pending"]
    /\ reconnectRef' = FreeTimer
    /\ UNCHANGED <<phase, entry, selected>>

(* The connection fails (refused, dropped, or a protocol error): the       *)
(* browser sets readyState to CLOSED and, in one task, fires error, whose  *)
(* handler's ws.close() does nothing on a CLOSED socket, then close, whose *)
(* handler ws.onclose runs.  Spec 4.1: an error takes the reconnect path   *)
(* of a normal close.                                                      *)
OnError(s) ==
    /\ sock[s] \in {"connecting", "open"}
    /\ CloseEvent(s)

(* Mutant: ws.onclose schedules the reconnect but does not dispatch        *)
(* DISCONNECTED.                                                           *)
OnCloseNoDispatch(s) ==
    /\ sock[s] = "closing"
    /\ \E t \in Timers : timer[t] = "idle"
    /\ sock' = [sock EXCEPT ![s] = "closed"]
    /\ timer' = [timer EXCEPT ![FreeTimer] = "pending"]
    /\ reconnectRef' = FreeTimer
    /\ UNCHANGED <<store, wsRef, phase, entry, selected, subs, cmds>>

(* Mutant: ws.onclose dispatches DISCONNECTED but schedules no reconnect. *)
OnCloseNoReconnect(s) ==
    /\ sock[s] = "closing"
    /\ sock' = [sock EXCEPT ![s] = "closed"]
    /\ Dispatch([type |-> "DISCONNECTED"])
    /\ UNCHANGED <<wsRef, timer, reconnectRef, phase, entry, selected, subs, cmds>>

(* The close event of a closing socket (its closing handshake, started by  *)
(* close() or by the server, has completed): ws.onclose runs.              *)
OnClose(s) ==
    /\ sock[s] = "closing"
    /\ CloseEvent(s)

(* setTimeout(connect, RECONNECT_DELAY) fires.                             *)
ReconnectTimerFires(t) ==
    /\ timer[t] = "pending"
    /\ Connect(t)
    /\ UNCHANGED <<store, phase, entry, selected>>

(* ws.onmessage with a frame that parses to msg.                           *)
OnMessage(s, msg) ==
    /\ sock[s] = "open"
    /\ Dispatch(MessageAction(msg))
    /\ UNCHANGED <<sock, wsRef, timer, reconnectRef, phase, entry, selected, subs, cmds>>

(* OrderEntryPanel's form, as validate() reads it: the selected symbol     *)
(* (NoSymbol for ''), the order type, and the numbers parseInt(orderQty),   *)
(* parseFloat(price) and parseFloat(stopPx) return.  NaN is represented    *)
(* by 0: the code tests each with !x || x <= 0, for which both are falsy.  *)
NumInputs == {-1, 0, 1}

OrderForm == [symbol : Symbols \cup {NoSymbol}, ordType : OrderType,
              qty : NumInputs, price : NumInputs, stopPx : NumInputs]

needsPrice(form) == form.ordType \in {"LIMIT", "STOPLIMIT"}

needsStopPx(form) == form.ordType \in {"STOP", "STOPLIMIT"}

(* validate() returns null: every check it makes passes.                  *)
validate(form) ==
    /\ form.symbol # NoSymbol
    /\ form.qty > 0
    /\ needsPrice(form) => form.price > 0
    /\ needsStopPx(form) => form.stopPx > 0

(* OrderEntryPanel handleSubmit, reachable while the Submit button is      *)
(* enabled (disabled={!connected}): on a validation failure it reports the *)
(* error; otherwise sendOrder -> send(), which sends only if wsRef's       *)
(* socket is OPEN and silently drops the message otherwise, and the panel  *)
(* reports 'Order submitted' either way.  delivered records what send did. *)
SubmitOrder ==
    /\ Alive
    /\ store.connected
    /\ \E form \in OrderForm :
          entry' = IF validate(form)
                     THEN [result |-> "submitted", delivered |-> WsOpen]
                     ELSE [entry EXCEPT !.result = "error"]
    /\ UNCHANGED <<store, sock, wsRef, timer, reconnectRef, phase, selected, subs, cmds>>

(* send() of a book command: the server applies it to the subscriptions   *)
(* of wsRef's connection if that socket is OPEN; otherwise it is dropped.  *)
SendBook(newSubs) ==
    subs' = IF WsOpen THEN [subs EXCEPT ![wsRef] = newSubs] ELSE subs

(* Mutant: the selection effect returns no cleanup, so the previous        *)
(* symbol is never unsubscribed.                                           *)
SelectSymbolNoCleanup(sym) ==
    /\ phase = "mounted"
    /\ sym \in store.instruments
    /\ sym # selected
    /\ selected' = sym
    /\ SendBook(subs[wsRef] \cup {sym})
    /\ UNCHANGED <<store, sock, wsRef, timer, reconnectRef, phase, entry, cmds>>

(* OrderBookPanel: clicking an instrument of the list sets selectedSymbol; *)
(* in the commit that follows React runs the previous effect's cleanup,   *)
(* unsubscribeBook(previous), then the effect, subscribeBook(sym).  The   *)
(* first selection has no cleanup (the effect returned early on null).     *)
(* Selecting the selected symbol again re-renders nothing.                 *)
SelectSymbol(sym) ==
    /\ phase = "mounted"
    /\ sym \in store.instruments
    /\ sym # selected
    /\ selected' = sym
    /\ SendBook((subs[wsRef] \ {selected}) \cup {sym})
    /\ UNCHANGED <<store, sock, wsRef, timer, reconnectRef, phase, entry, cmds>>

(* cancelOrder / replaceOrder: send() of the command on wsRef's connection *)
(* if that socket is OPEN; dropped otherwise.                              *)
SendOrderCommand(cmd) ==
    cmds' = IF WsOpen THEN [cmds EXCEPT ![wsRef] = @ \cup {cmd}] ELSE cmds

(* OrderBlotter: the Cancel and Replace buttons of an order whose status   *)
(* is in CANCELABLE_STATUSES call cancelOrder(orderId) and                 *)
(* replaceOrder({orderId}), which send() delivers on wsRef's connection if *)
(* that socket is OPEN and drops otherwise.  Unlike Submit the buttons are *)
(* not disabled while disconnected, and nothing reports a dropped command. *)
BlotterCommand(id, type) ==
    /\ phase = "mounted"
    /\ id \in DOMAIN store.orders
    /\ store.orders[id].status \in CANCELABLE_STATUSES
    /\ SendOrderCommand([type |-> type, orderId |-> id])
    /\ UNCHANGED <<store, sock, wsRef, timer, reconnectRef, phase, entry, selected, subs>>

(* The page is gone: the last cleanup has run and no socket or timer can   *)
(* raise another event.                                                    *)
Quiescent ==
    /\ ~Alive
    /\ \A s \in Sockets : ~Live(s)
    /\ \A t \in Timers : timer[t] = "idle"
    /\ UNCHANGED vars

Next ==
    \/ Mount
    \/ Unmount
    \/ \E s \in Sockets : OnOpen(s) \/ ServerClose(s) \/ OnError(s) \/ OnClose(s)
    \/ \E t \in Timers : ReconnectTimerFires(t)
    \/ \E s \in Sockets, msg \in ServerMsgs : OnMessage(s, msg)
    \/ SubmitOrder
    \/ \E sym \in Symbols : SelectSymbol(sym)
    \/ \E id \in OrderIds, type \in {"cancel_order", "replace_order"} :
          BlotterCommand(id, type)
    \/ Quiescent

Spec == Init /\ [][Next]_vars

(* The browser delivers the close event of a socket whose closing         *)
(* handshake began (by close() or by the server), and runs a setTimeout   *)
(* callback once its delay has passed, as long as the page lives: weak     *)
(* fairness on both.                                                       *)
(* Nothing is assumed of the server: a socket may stay connecting or open  *)
(* forever, and may fail at any time.                                      *)
Fairness ==
    /\ \A s \in Sockets : WF_vars(OnClose(s))
    /\ \A t \in Timers : WF_vars(ReconnectTimerFires(t))

FairSpec == Spec /\ Fairness

-----------------------------------------------------------------------------
(* Properties.                                                             *)

(* Spec 4.1/5: never two simultaneous reconnect timers.  Broken if a       *)
(* socket other than the one connect replaced can still fire onclose,      *)
(* which overwrites reconnectRef without clearing the timer it held.       *)
AtMostOneReconnectTimer ==
    \A t1, t2 \in Timers :
        timer[t1] = "pending" /\ timer[t2] = "pending" => t1 = t2

(* The same while the hook is mounted, the period in which the code's      *)
(* single-slot reconnectRef is meant to hold the only pending reconnect.    *)
MountedAtMostOneReconnectTimer ==
    phase = "mounted" => AtMostOneReconnectTimer

(* Spec 4.1: one persistent connection.  connect() never closes the socket *)
(* wsRef held, so a second live socket would leak with its handlers.       *)
SingleLiveSocket ==
    \A s1, s2 \in Sockets : Live(s1) /\ Live(s2) => s1 = s2

(* Spec 4.1: a new WebSocket is created (a slot goes from closed to        *)
(* connecting) only when no socket is live.  connect() overwrites wsRef    *)
(* without closing or detaching the socket it held, so a connect beside a  *)
(* live socket leaks it with handlers that still dispatch; broken by a     *)
(* reconnect that does not wait for the close event.                       *)
ConnectOnlyWhenIdle ==
    [][\A s \in Sockets :
          sock[s] = "closed" /\ sock'[s] = "connecting" =>
              \A r \in Sockets : ~Live(r)]_vars

(* The Connected indicator (App.tsx, store.connected) agrees with the      *)
(* socket send() uses: an OPEN wsRef socket shows Connected, and Connected *)
(* is shown only while the wsRef socket is open or its close event is      *)
(* still pending.  A close or open event of another socket breaks it.      *)
ConnectedReflectsSocket ==
    Alive =>
      /\ WsOpen => store.connected
      /\ store.connected => wsRef # NoSocket /\ sock[wsRef] \in {"open", "closing"}

(* The inductive strengthening of SingleLiveSocket and                    *)
(* AtMostOneReconnectTimer without StrictMode: the only live socket is the *)
(* one wsRef holds, the only pending timer the one reconnectRef holds, a   *)
(* pending reconnect and a live socket never coexist (onclose turns the    *)
(* one into the other and the timer's connect turns it back), and nothing  *)
(* is live before the effect first runs.                                   *)
SessionInv ==
    /\ \A s \in Sockets : Live(s) => s = wsRef
    /\ \A t \in Timers : timer[t] = "pending" => t = reconnectRef
    /\ \A s \in Sockets, t \in Timers : ~(Live(s) /\ timer[t] = "pending")
    /\ phase = "rendered" =>
          /\ \A s \in Sockets : ~Live(s)
          /\ \A t \in Timers : timer[t] = "idle"

(* Spec 4.5: the book view holds at most one subscription, the selected   *)
(* symbol's, on any connection that can deliver book updates.  Broken if   *)
(* switching symbols failed to unsubscribe the previous one, or if a       *)
(* leaked socket kept an older subscription.                               *)
SubscriptionsWithinSelection ==
    \A s \in Sockets : sock[s] = "open" => subs[s] \subseteq {selected}

(* Spec 4.5: the panel subscribes to the selected symbol's depth: while    *)
(* the session is open, its connection carries that subscription, so the   *)
(* book shown keeps updating.  Violated after a reconnect, which opens a   *)
(* connection with no subscription and nothing subscribes again.           *)
BookSubscribedWhileOpen ==
    Alive /\ selected # NoSymbol /\ WsOpen => selected \in subs[wsRef]

(* Spec 4.1 and 7: the system always attempts to stay live and reconnect *)
(* rather than halt: while the view is mounted, a connection is always     *)
(* eventually being attempted or in use.  Needs the close event to be      *)
(* handled and the reconnect it schedules to run connect(); broken if      *)
(* onclose scheduled nothing or a timer could be lost.                     *)
ConnectionRetried ==
    [](phase = "mounted" =>
         <>(phase = "unmounted" \/ \E s \in Sockets : sock[s] \in {"connecting", "open"}))

(* Spec 5: teardown cancels pending timers and closes the connection, so   *)
(* no reconnect loop outlives the component.                               *)
TeardownStopsReconnect ==
    ~Alive => \A t \in Timers : timer[t] = "idle"

(* Spec 4.6: the success indicator is shown when the command has been      *)
(* dispatched.  Violated when the panel reports 'Order submitted' for an   *)
(* order send() dropped because the socket was no longer OPEN.             *)
SubmittedMeansSent ==
    entry.result = "submitted" => entry.delivered

-----------------------------------------------------------------------------
(* The refinement mapping to SessionLink: the logical link is the state of *)
(* the live socket wsRef holds; with no live socket it is waiting while a  *)
(* reconnect is pending and idle otherwise.                                *)
LinkOf ==
    IF wsRef # NoSocket /\ Live(wsRef) THEN sock[wsRef]
    ELSE IF \E t \in Timers : timer[t] = "pending" THEN "waiting" ELSE "idle"

Link == INSTANCE SessionLink
            WITH link <- LinkOf,
                 DataActions <- {MessageAction(m) : m \in ServerMsgs}

(* Spec 4.1 and 9: the hook behaves as one logical connection that goes    *)
(* connecting, open, closing, waiting for its single reconnect, and        *)
(* connecting again, publishing CONNECTED and DISCONNECTED at its own      *)
(* transitions and feeding the store only while open.  Broken if connect() *)
(* could run beside a live socket, if a stale socket's event reached the   *)
(* store, or if a handler dispatched the wrong event.                      *)
LinkRefinement == Link!Spec
=============================================================================
