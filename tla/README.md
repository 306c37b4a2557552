# TLA+ models of the OMS dashboard front end

This directory holds the formal models of the React OMS dashboard under
`src/src/oms-frontend/src/`. They cover the WebSocket transport session, the
state store, the position deriver, order entry, the order-book subscription,
the blotter commands and the CSV export. Each model is checked with TLC on
small instances, and the central invariants are proved with TLAPS for every
value of the constants.

## The system

The dashboard is one page with one WebSocket connection to the OMS gateway.

- **Transport Session** (`hooks/useOmsWebSocket.ts`):
  - `connect()` opens a socket and stores it in `wsRef`. `onopen`, `onmessage`,
    `onerror` and `onclose` drive the store.
  - `onerror` calls `ws.close()`. When a connection fails the browser has
    already set the socket CLOSED, so this call does nothing: the browser
    fires `error` and then `close` in one task, and `onclose` takes the
    reconnect path (spec 4.1). A socket is CLOSING with its close event
    still to come only after `close()` (the cleanup) or when the server
    starts the closing handshake.
  - `onclose` dispatches `DISCONNECTED` and schedules a reconnect after 3 s in
    `reconnectRef`.
  - The mount effect calls `connect()`. Its cleanup clears the timer and closes
    the socket.
  - `send()` writes a message only when the socket in `wsRef` is `OPEN`;
    otherwise it drops the message silently.
- **State Store** (`omsReducer` in the same file): connection flag,
  instruments, accounts, an order map, an execution log capped at
  `MAX_EXECUTIONS` newest-first, and the book map.
- **Position Deriver** (`components/PositionSummary.tsx`): a fold over the
  execution log that computes per symbol the net quantity, trade count and
  VWAP.
- **Order Entry** (`OrderEntryPanel.tsx`): `validate()`, then `send()`, then
  the "Order submitted" message. The Submit button is disabled while the store
  says disconnected.
- **Order Book View** (`OrderBookPanel.tsx`): when the selected symbol changes,
  it sends `unsubscribe_book` for the old symbol and `subscribe_book` for the
  new one. A staleness span colours the book by `Date.now() -
  snapshot.timestamp` (green below 5 s, amber below 30 s, red after that).
  A 2-second `setInterval` re-renders the panel so that the colour ages.
- **Order Blotter** (`OrderBlotter.tsx`): Cancel and Replace buttons on orders
  in `CANCELABLE_STATUSES`. They send through `send()`.
- **CSV export** (`utils/csv.ts`, `ExecutionBlotter.tsx`): `escapeCsvField`,
  and `downloadCsv` joining the fields with `,` and the lines with `\n`.

How the parts interact: the session feeds server messages into the store, the
panels read the store, and every command the panels send goes through the
session's `send()`.

## Modules

| Module | Models | State | Actions |
|---|---|---|---|
| `OmsReducer` | types, enums, `INITIAL_STATE`, `omsReducer` | none (operators) | `omsReducer(state, action)` as a CASE over the action types |
| `OmsSession` | the hook together with Order Entry, the book effect and the blotter buttons | `store`; `sock[s]` (readyState of socket slot `s`); `wsRef`; `timer[t]` (idle, pending, cancelled); `reconnectRef`; `phase` (rendered, mounted, unmounted); `entry` (form result); `selected`; `subs[s]` and `cmds[s]` (what connection `s` has received) | `Mount` (with a StrictMode branch: mount, cleanup, mount), `Unmount`, `OnOpen`, `ServerClose` (the server starts the closing handshake: OPEN to CLOSING, no handler runs), `OnError` (failure: `onerror`, then `onclose`, in one step), `OnClose` (the close event of a CLOSING socket), `ReconnectTimerFires`, `OnMessage`, `SubmitOrder`, `SelectSymbol`, `BlotterCommand` |
| `PositionDeriver` | the PositionSummary fold; a reference defined as sums (spec 4.4) | none | `Positions = FoldLeft(PositionStep, ...)` |
| `StoreFeed` | the store driven by the order and execution feed | `store`; `received` (history of reports); `applied` (history: the orders applied since the last snapshot, an update is taken while it is shorter than `UpdateBound`) | `OrderSnapshot`, `OrderUpdate`, `ExecutionReport` |
| `StoreFeedPositions` | the positions `PositionSummary` derives from the `StoreFeed` store | as `StoreFeed` | as `StoreFeed` |
| `CsvExport` | `escapeCsvField`, `downloadCsv`; an RFC 4180 reference decoder | `table`, `exported` | `AddRow`, `ExportCsv` |
| `SessionLink` | the abstract Transport Session of spec 4.1 and 9: one logical link, with no sockets or timers | `link` (idle, connecting, open, closing, waiting), `store`, `phase` | `Start`, `Opened`, `Closing`, `Fail`, `Closed`, `Retry`, `Stop`, `Deliver` |
| `BookView` | the staleness indicator of `OrderBookPanel` | `now` (browser clock, ms); `snapshot` (`snapshot.timestamp` of the selected book); `produced` (history: when the server produced it, on the browser clock); `shown` (the colour last rendered); `nextTick`; `selected` | `SelectInstrument`, `Advance`, `IntervalFires`, `BookUpdate(lat)`, `OtherRender` |
| `OmsReducerProofs`, `OmsSessionProofs`, `OmsSessionRefinement`, `BookViewProofs`, `StoreFeedProofs` | TLAPS proofs | | |

Each module has an `MC*` module that gives its constants values for TLC.

Abstractions used across the modules:

- Sockets and timers are finite slots. A slot is reused only when its socket
  is closed or its timer is idle. A run keeps 3 sockets and 2 timers.
- Each handler is one atomic step, because JavaScript runs one event-loop task
  at a time. The socket events of different slots interleave freely.
- Order, execution and book payloads are cut down to the fields a property
  reads. Prices are integer ticks.
- `validate()` reads `parseFloat` of the inputs. The model represents NaN as 0,
  because the code's test `!x || x <= 0` treats the two alike.
- `Quiescent` is a stuttering step taken once the component is unmounted and
  nothing is pending. The page really stops there, so the runs still check
  deadlock.

`PROJECT.json` `map` gives the source lines of every definition.

## Runs

| Run | Config | Expect | Shows |
|---|---|---|---|
| session | `MCOmsSession.cfg` | pass | Without StrictMode, the hook keeps one live socket and one pending reconnect timer (`AtMostOneReconnectTimer`, `SingleLiveSocket`, inductive `SessionInv`). The Connected indicator is true exactly when the current socket is open (`ConnectedReflectsSocket`). Each connection is subscribed at most to the selected book (`SubscriptionsWithinSelection`). The hook implements `SessionLink` under the mapping `LinkOf` (`LinkRefinement`). A new socket is created only when no socket is live, so `connect()` never overwrites `wsRef` beside a socket that can still dispatch (`ConnectOnlyWhenIdle`, an action property). |
| session_teardown | `MCOmsSession_teardown.cfg` | violation | After unmount, the close event of the socket the cleanup closed schedules a reconnect that runs anyway (`TeardownStopsReconnect`). |
| session_strict | `MCOmsSession_strict.cfg` | violation | Under StrictMode, two reconnect timers are pending while mounted (`MountedAtMostOneReconnectTimer`). |
| session_submit | `MCOmsSession_submit.cfg` | violation | "Order submitted" is shown for an order that `send()` dropped (`SubmittedMeansSent`). The trace: the socket opens, the server starts the closing handshake (CLOSING, still shown Connected until the close event), and Submit sends into it. |
| session_book | `MCOmsSession_book.cfg` | violation | After a reconnect, the new connection has no subscription for the selected book (`BookSubscribedWhileOpen`). |
| session_live | `MCOmsSession_live.cfg` | pass | Under the fairness below, a mounted hook always gets back to a connecting or open socket (`ConnectionRetried`). |
| store_feed | `MCStoreFeed.cfg` | pass | The log is the newest `MAX_EXECUTIONS` reports, newest first (`ExecutionLogNewestFirst`). The fold equals the per-symbol sums of spec 4.4 (`PositionsMatchReference`). The map holds, per distinct orderId applied since the last snapshot, the order applied last, as spec 8 states (`OrderMapLastWriteWins`). |
| csv_export | `MCCsvExport.cfg` | pass | Every export decodes by RFC 4180 to the header and the rows (`ExportRoundTrips`). |
| book_view | `MCBookView.cfg` | pass | With the server's and browser's clocks equal, the colour shown is the bucket of the book's true age at some instant in the last 2 s, however book updates and other renders interleave (`ShownMatchesAge`). The inductive invariant of its proof, `BookInv`, holds too. |
| book_skew | `MCBookView_skew.cfg` | violation | With the server's clock 10 s ahead, a book produced 7 s ago is still shown green (`ShownMatchesAge`). |

Each property of a passing run is also run against a mutant of the code, and
TLC finds that mutant's violation. The mutants are:

| Mutant | Bug it stands for |
|---|---|
| `OnErrorReconnects` | `onerror` calls `connect()` to retry at once, and the close event schedules a reconnect too |
| `OnCloseNoDispatch` | no `DISCONNECTED` on close |
| `SelectSymbolNoCleanup` | the effect's cleanup is forgotten |
| `PrependExecutionUncapped`, `AppendExecution` | a wrong slice |
| `ApplyExecCountsCorrect` | CORRECT counted as a trade |
| `EscapeNoNewline` | newlines not quoted |
| `OnCloseNoReconnect` | `onclose` does not schedule the reconnect |
| `MapSetFresh` | `ORDER_UPDATE` builds a new map instead of copying the old one |
| `bookAgeExtraZero` | the aging threshold is written 10 times too large |
| `IntervalFiresNoRender` | the interval callback does not re-render |

### Bounds

The session run uses:

- 3 socket slots and 2 timer slots;
- 2 symbols;
- 1 order with two statuses (one cancelable, one not), 1 execution, 1 book
  update;
- `MaxExecutions = 1`, so the cap is reached.

Why these bounds are enough:

- Three sockets allow a live socket, a socket still closing (after the
  cleanup or the server's closing handshake), and the
  reconnect's new socket at once.
- Two timers allow the double-timer case.
- Two symbols allow a switch with cleanup.
- Every failure above needs at most two overlapping sockets and two timers.

The store_feed run uses:

- 2 orders: one buy-class, one sell-class;
- 4 reports: a TRADE, a zero-quantity CORRECT, a TRADE on the other symbol and
  a CANCEL;
- a snapshot that drops an order, and a snapshot that repeats an id with a
  different status, so that the later entry must win;
- an update that changes that order's status, and up to 3 updates;
- `MAX_EXECUTIONS = 2` and up to 3 reports, so eviction happens. Positions
  are derived from the bounded log, as spec 3, 4.4 and 9 intend, so an
  evicted trade leaves the positions by design. `PositionsMatchReference`
  compares the fold with the sums over the same log.

The book_view run advances the clock in 1 s steps up to 40 s. That passes
the 30 s threshold by more than one tick, so every bucket and every
transition between buckets happens. Books arrive with a latency of 0 or 1 s,
before or after the instrument is selected.

The CSV run uses 2 columns and up to 2 rows. Its cells are drawn from 11
strings: the empty string, every one-character string over `a , " LF CR`, and
mixed two-character strings.

### Fairness

`OmsSession!FairSpec` adds weak fairness to two kinds of step:

- `OnClose(s)`: the browser delivers the close event of a socket that is
  closing.
- `ReconnectTimerFires(t)`: it runs a timer that is due.

Both are duties of the browser, not of the server. `OnError` and
`ServerClose` get no fairness: a socket may stay connecting or open for
ever. Nothing is assumed about the server: it may refuse or drop every
connection. So `ConnectionRetried` promises
only that the hook keeps retrying, not that a connection ever opens. The
session_live run checks it. All the other runs check safety under `Spec`,
without fairness.

`BookView` assumes that the interval fires on time. `Advance` cannot move the
clock past `nextTick`. This holds in a foreground tab. Browsers throttle the
timers of background tabs, and then the colour can lag by more than one tick.

## Proofs

- `OmsReducerProofs`:
  - `ReducerTyped`: `omsReducer` maps a well-typed state and action to a
    well-typed state.
  - Lemmas: `MapSetType`; `SnapshotOrdersLastWins` (the snapshot's map sends
    each id to its last entry in the list); `SnapshotOrdersType` (through `LastIndexExists`, a
    well-founded-minimum argument that every id in a snapshot list has a last
    index); `PrependExecutionType` (the log stays within `MaxExecutions`).
- `OmsSessionProofs`:
  - `TypeCorrect`: `Spec => []TypeOK`, for all values of the constants, under
    the named assumptions `MaxExecutionsAssumption` and `SessionAssumption`.
  - `SingleSession`: without StrictMode,
    `Spec => [](SingleLiveSocket /\ AtMostOneReconnectTimer)`.

  `SingleLiveSocket` and `AtMostOneReconnectTimer` are not inductive on their
  own. A close event can create a timer only if the closing socket is the one
  in `wsRef`, and a timer firing can connect only if no socket is live. The
  proof therefore uses the strengthening `SessionInv`, which says:

  - every live socket is `wsRef`;
  - every pending timer is `reconnectRef`;
  - a live socket and a pending timer never coexist;
  - before mount, nothing is live.

  The three facts proved are `Init => SessionInv`,
  `TypeOK /\ SessionInv /\ [Next]_vars => SessionInv'` (one step per action),
  and `SessionInv => SingleLiveSocket /\ AtMostOneReconnectTimer`. TLC checks
  `SessionInv` as an invariant of the session run.

  - `ConnectedCorrect`: without StrictMode,
    `Spec => []ConnectedReflectsSocket`. It rests on `SessionInv`: only
    `wsRef`'s socket can open or close, so the `CONNECTED` and `DISCONNECTED`
    it dispatches track `sock[wsRef]`.
  - `BookSubscriptionsCorrect`: without StrictMode,
    `Spec => []SubscriptionsWithinSelection`. It uses the strengthening
    `SubsInv`: an open socket is subscribed at most to the selected symbol,
    and a connecting socket to nothing. The second conjunct is needed because
    `onopen` does not subscribe, and TLC checked `SubsInv` first.
- `OmsSessionRefinement`:
  - `LinkImplemented`: without StrictMode, `Spec => LinkRefinement`.
    `Init` maps to the idle link. The lemma `LinkStep` shows, with one step per
    action, that each step maps to a `SessionLink` step or a stutter. It needs
    `SessionInv`: every socket event comes from the one live socket, which is
    `wsRef`, and a reconnect is pending exactly when nothing is live. The
    `SessionLink` instance has its own copy of the reducer, and the lemma
    `SameReducer` identifies that copy with the reducer. `ServerClose` maps
    to `Closing`, a failure (`OnError`) to `Fail`, which drops the link to
    waiting at once, and the close event of a closing socket (`OnClose`) to
    `Closed`. The two `onclose` paths share the lemma `CloseEventOf`.

- `OmsSessionProofs` (continued):
  - `SessionInvCorrect`: without StrictMode, `Spec => []SessionInv`.
  - `ReconnectTimerUnique`: without StrictMode,
    `Spec => []AtMostOneReconnectTimer`. It follows from `SessionInvCorrect`.
- `OmsReducerProofs` (continued), two lemmas about reducer steps:
  - `OrdersShrinkOnlyBySnapshot`: every action except `ORDER_SNAPSHOT` keeps
    every key of the order map (spec 4.3's invariant, for one reducer step).
    No run checks it as a property of its own: `OrderMapLastWriteWins`
    implies it for the feed.
  - `PrependExecutionOfTake`: prepending a report to the capped log and capping
    again gives the same log as prepending it to the whole history and capping
    once.
- `StoreFeedProofs`:
  - `LogNewestFirst`: `Spec => [](TypeOK /\ ExecutionLogNewestFirst)`, for
    every `MAX_EXECUTIONS` and every feed.
    - `ExecutionLogNewestFirst` is inductive together with `TypeOK`.
    - An execution report turns `Take(NewestFirst(received), n)` into
      `Take(<<e>> \o Take(NewestFirst(received), n), n)`. By
      `PrependExecutionOfTake` this is `Take(NewestFirst(Append(received, e)), n)`.
    - `NewestFirstAppend` gives that last equality.
    - Order snapshots and updates leave the log alone (`OrderActionKeepsLog`).
  - The lemma `FeedTyped`: `Spec => []TypeOK` for the feed, a corollary of
    `LogNewestFirst`. The store_feed run does not check `TypeOK` separately:
    it says no more than the session run's `TypeOK` and
    `ExecutionLogNewestFirst`.
  - `OrderMapCorrect`: `Spec => [](TypeOK /\ OrderMapLastWriteWins)`, for
    every feed. The property compares the map with `LatestById(applied)`,
    the map from each id of the history to its latest entry. It is inductive
    together with `TypeOK`, and `LastWriteWinsStep` shows it with one step per
    action:
    - a snapshot: `SnapshotIsLatest` shows that the reducer's loop builds
      `LatestById(list)`. It rests on `SnapshotOrdersLastWins` in
      `OmsReducerProofs` (each id maps to the entry after which no entry has
      that id) and on `LatestValue`;
    - an update: `LatestAppend` shows that
      `LatestById(Append(ev, o)) = MapSet(LatestById(ev), o.orderId, o)`. The
      new id's latest index is the last one, and every other id keeps its
      latest index;
    - an execution report leaves the map and the history alone.

    `LatestExists` and `LatestUnique` say that each id of a sequence has
    exactly one latest index, so the CHOOSE in `LatestById` is determined.
- `OmsSessionProofs` (continued):
  - `ConnectIdle`: without StrictMode, `Spec => ConnectOnlyWhenIdle`, an
    action property. `ConnectIdleStep` shows that only `Mount` and
    `ReconnectTimerFires` create a socket, and `SessionInv` says that
    nothing is live before mount or while a reconnect is pending.
- `BookViewProofs`:
  - `BookInvariant`: `Spec => []BookInv`, for every clock granularity,
    horizon, skew and set of latencies.
  - `ShownCorrectWithoutSkew`: under the hypothesis `ClockSkew = 0`,
    `Spec => []ShownMatchesAge`. The hypothesis is needed: the book_skew run
    refutes the property with the server 10 s ahead.

  `ShownMatchesAge` is not inductive. Its window is measured from `now`, and
  the clock can advance without a render. The strengthening `BookInv`, which
  TLC checks in the book_view run, measures the window from the last tick
  instead. It says:

  - the clock never passes the next tick: `now <= nextTick <= now + 2000`;
  - a book is held exactly when its production time is known;
  - the book was produced in the past, and its stamp is its production time
    plus the skew;
  - with a book selected, the colour is `AgeBucket(t, snapshot)` for some
    render instant `t` in `nextTick - 2000 .. now`.

  Each action that renders sets `t` to `now` (`RenderColour`). `Advance` keeps
  the old witness, which stays in the window because `nextTick` is unchanged.
  `IntervalFires` moves the window by one tick and renders at `now`. With no
  skew, `snapshot = produced` and `nextTick - 2000 >= now - 2000`, so
  `ShownMatchesAge` follows. `BookInv` itself holds whatever the skew.

Only model-checked:

- Liveness and ENABLED are out of the prover's reach, so `ConnectionRetried`
  is checked by TLC only.
- `PositionDeriver` and `CsvExport` use `FoldLeft`, `MapThenSumSet` and a
  RECURSIVE decoder. Modules that reach RECURSIVE definitions lose the SMT
  backend. What a recursive definition computes for every input would need
  induction that the provers cannot instantiate. So `PositionsMatchReference`
  and `ExportRoundTrips` are shown by TLC only.
  For the same reason the feed's state machine and its store properties are
  kept in `StoreFeed`, which reaches no RECURSIVE declaration: its reversal
  of the history, `NewestFirst`, is written as a function rather than taken
  from SequencesExt. The positions properties are in `StoreFeedPositions`.
- `BookSubscribedWhileOpen`, `TeardownStopsReconnect`, `SubmittedMeansSent`
  and `MountedAtMostOneReconnectTimer` are false of the code. Their violation runs show this, and there is nothing to prove.

## Not modelled

- Date, number and label formatting (`format.ts`, most of `constants.ts`), and
  the App shell's layout.
- The label text of the staleness span (`Math.floor(age / 1000)`), and the
  depth tables (8 levels per side), which are display only.
- The App shell (`App.tsx`): the tab bar and the count badges are display of
  store data that the other modules already model.
- `lastTradeTime`.
- IEEE-754 arithmetic. Spec 8's claim that the VWAP does not depend on the
  order of the log is false for doubles, and it is not checked here.
- `toISOString` throwing on bad timestamps.
- JSON parse failures, which are only logged.
- The server, except as a nondeterministic source of messages.

## Plan for later sittings

1. Model order-update ordering (see the hazard list) once the gateway's
   sequence numbers are known.
2. Model background-tab timer throttling in `BookView`, with `Advance`
   allowed to pass an overdue tick.
