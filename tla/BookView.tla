------------------------------ MODULE BookView ------------------------------
(***************************************************************************)
(* The staleness indicator of the Order Book View                          *)
(* (components/OrderBookPanel.tsx) for the selected symbol: bookAge        *)
(* buckets Date.now() - snapshot.timestamp into fresh (< 5 s), aging       *)
(* (< 30 s) and stale, and the colour is recomputed at each render.  A     *)
(* render follows each store change (a book update, or any other message   *)
(* that re-renders App) and each firing of the 2-second setInterval the    *)
(* panel starts on mount.                                                  *)
(*                                                                         *)
(* Time is the browser's clock in milliseconds, advancing in steps of      *)
(* TimeStep.  snapshot.timestamp is set by the server from its own clock, *)
(* which runs ClockSkew ms ahead of the browser's; a book update reaches   *)
(* the browser some latency after the server produced it.  The interval    *)
(* fires on time (a foreground tab).  The label text is left out.          *)
(***************************************************************************)
EXTENDS Integers

CONSTANTS
    TimeStep,    \* the clock's granularity, in ms
    MaxClock,    \* the last instant a run explores, in ms
    ClockSkew,   \* server clock minus browser clock, in ms
    Latencies,   \* delays between producing and receiving a book update
    NoBook       \* bookData.get(selectedSymbol) is undefined

ASSUME BookViewAssumption ==
    /\ TimeStep \in Nat \ {0}
    /\ MaxClock \in Nat
    /\ ClockSkew \in Int
    /\ Latencies \subseteq Nat
    /\ NoBook \notin Int

VARIABLES
    now,        \* Date.now() in the browser
    snapshot,   \* snapshot.timestamp of the selected book, or NoBook
    produced,   \* history: the browser-clock instant the server produced it
    shown,      \* the colour bucket of the last render ("none": no book)
    nextTick,   \* when the setInterval callback fires next
    selected    \* selectedSymbol is set

vars == <<now, snapshot, produced, shown, nextTick, selected>>

(* setInterval(..., 2000) and the thresholds of bookAge.                   *)
TICK_MS == 2000
FRESH_MS == 5000
AGING_MS == 30000

Bucket == {"fresh", "aging", "stale"}

(* Mutant: the aging threshold written with an extra zero (300000 ms).   *)
bookAgeExtraZero(timestamp) ==
    LET age == now - timestamp IN
    IF age < FRESH_MS THEN "fresh"
    ELSE IF age < AGING_MS * 10 THEN "aging"
    ELSE "stale"

(* bookAge(timestamp).color: the bucket of Date.now() - timestamp.         *)
bookAge(timestamp) ==
    LET age == now - timestamp IN
    IF age < FRESH_MS THEN "fresh"
    ELSE IF age < AGING_MS THEN "aging"
    ELSE "stale"

(* The render of the depth pane: 'Select an instrument' or 'Waiting for   *)
(* data...' without a snapshot of the selected symbol, otherwise the       *)
(* staleness span coloured by bookAge.                                     *)
Render ==
    shown' = IF selected' /\ snapshot' # NoBook THEN bookAge(snapshot') ELSE "none"

TypeOK ==
    /\ now \in Nat
    /\ snapshot \in Int \cup {NoBook}
    /\ produced \in Int \cup {NoBook}
    /\ shown \in Bucket \cup {"none"}
    /\ nextTick \in Nat
    /\ selected \in BOOLEAN

(* The panel mounts with no symbol selected and no book in the store; the  *)
(* tick effect starts the interval.                                        *)
Init ==
    /\ now = 0
    /\ snapshot = NoBook
    /\ produced = NoBook
    /\ shown = "none"
    /\ nextTick = TICK_MS
    /\ selected = FALSE

(* A click on the instrument: setSelectedSymbol, then a re-render.        *)
SelectInstrument ==
    /\ ~selected
    /\ selected' = TRUE
    /\ UNCHANGED <<now, snapshot, produced, nextTick>>
    /\ Render

(* The browser clock advances; the interval is never overdue.              *)
Advance ==
    /\ now + TimeStep <= MaxClock
    /\ now + TimeStep <= nextTick
    /\ now' = now + TimeStep
    /\ UNCHANGED <<snapshot, produced, shown, nextTick, selected>>

(* Mutant: the interval callback runs but does not call setTick, so no    *)
(* re-render happens.                                                      *)
IntervalFiresNoRender ==
    /\ now = nextTick
    /\ nextTick' = nextTick + TICK_MS
    /\ UNCHANGED <<now, snapshot, produced, shown, selected>>

(* The setInterval callback: setTick(t => t + 1), which re-renders.        *)
IntervalFires ==
    /\ now = nextTick
    /\ nextTick' = nextTick + TICK_MS
    /\ UNCHANGED <<now, snapshot, produced, selected>>
    /\ Render

(* book_update for the symbol: BOOK_UPDATE replaces its snapshot in the    *)
(* store (before or after the selection) and the store change re-renders  *)
(* the panel.  The server stamped it with its clock when it produced it,  *)
(* lat ms ago by the browser's clock.                                      *)
BookUpdate(lat) ==
    /\ lat <= now
    /\ snapshot' = now - lat + ClockSkew
    /\ produced' = now - lat
    /\ UNCHANGED <<now, nextTick, selected>>
    /\ Render

(* Any other store change re-renders App and with it the panel.            *)
OtherRender ==
    /\ UNCHANGED <<now, snapshot, produced, nextTick, selected>>
    /\ Render

Next ==
    \/ SelectInstrument
    \/ Advance
    \/ IntervalFires
    \/ \E lat \in Latencies : BookUpdate(lat)
    \/ OtherRender

Spec == Init /\ [][Next]_vars

-----------------------------------------------------------------------------
(* The bucket a book produced at time p has when the browser clock reads t *)
(* (spec 4.5's "snapshot age").                                            *)
AgeBucket(t, p) ==
    IF t - p < FRESH_MS THEN "fresh"
    ELSE IF t - p < AGING_MS THEN "aging"
    ELSE "stale"

(* Spec 4.5: the indicator buckets the snapshot's age and is recomputed on *)
(* a fixed 2-second tick independent of data arrival: the colour shown is *)
(* the bucket of the book's true age at some instant of the last TICK_MS.  *)
(* Broken if the tick did not re-render, if a threshold were wrong, or if  *)
(* the age were measured on a clock other than the one that stamped it.  *)
ShownMatchesAge ==
    selected /\ snapshot # NoBook =>
        \E t \in (now - TICK_MS)..now :
            t >= produced /\ shown = AgeBucket(t, produced)

(* Whatever the skew, what the panel shows is bookAge's bucket of the       *)
(* server's stamp, taken at a render no earlier than the last tick: the    *)
(* interval is never overdue, the received book was produced in the past,  *)
(* and its stamp is the production time moved by the skew.  This is the    *)
(* inductive form of ShownMatchesAge; it fails if a tick or a store change *)
(* skipped the re-render or if bookAge bucketed wrongly.                   *)
BookInv ==
    /\ TypeOK
    /\ now <= nextTick /\ nextTick <= now + TICK_MS
    /\ (snapshot = NoBook) = (produced = NoBook)
    /\ snapshot # NoBook => produced <= now /\ snapshot = produced + ClockSkew
    /\ selected /\ snapshot # NoBook =>
          \E t \in (nextTick - TICK_MS)..now :
              t >= produced /\ shown = AgeBucket(t, snapshot)
=============================================================================
