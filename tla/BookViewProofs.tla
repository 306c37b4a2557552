---------------------------- MODULE BookViewProofs ----------------------------
(***************************************************************************)
(* Proofs about the staleness indicator of the Order Book View, for every *)
(* clock granularity, horizon, skew and set of latencies.  BookInv, the    *)
(* inductive invariant, holds whatever the skew: each render colours the   *)
(* book by bookAge at that instant, and the interval keeps the last render *)
(* within one tick.  With no skew the stamp is the production time and     *)
(* ShownMatchesAge follows.                                                *)
(***************************************************************************)
EXTENDS BookView, TLAPS

USE DEF TICK_MS, FRESH_MS, AGING_MS

(* bookAge at the current instant is the bucket of the stamp's age.        *)
LEMMA BookAgeIsBucket ==
    ASSUME NEW x
    PROVE  bookAge(x) = AgeBucket(now, x)
BY DEF bookAge, AgeBucket

LEMMA InitBookInv == Init => BookInv
<1> SUFFICES ASSUME Init PROVE BookInv
  OBVIOUS
<1>1. now \in Nat /\ nextTick \in Nat
  BY DEF Init
<1>2. selected \in BOOLEAN
  BY Zenon DEF Init
<1>3. snapshot = NoBook /\ produced = NoBook /\ shown \in Bucket \cup {"none"}
  BY DEF Init, Bucket
<1>4. now <= nextTick /\ nextTick <= now + TICK_MS
  BY DEF Init
<1>. QED
  BY <1>1, <1>2, <1>3, <1>4 DEF BookInv, TypeOK

(* A render leaves a well-typed colour.                                    *)
LEMMA RenderType ==
    ASSUME Render PROVE shown' \in Bucket \cup {"none"}
BY DEF Render, bookAge, Bucket

(* A render colours the selected book by its stamp's age at this instant. *)
LEMMA RenderColour ==
    ASSUME Render
    PROVE  selected' /\ snapshot' # NoBook => shown' = AgeBucket(now, snapshot')
BY BookAgeIsBucket, Zenon DEF Render

(* The facts of BookInv about the book and the clock, one step later.      *)
BookFacts ==
    /\ now \in Nat /\ nextTick \in Nat
    /\ snapshot \in Int \cup {NoBook} /\ produced \in Int \cup {NoBook}
    /\ now <= nextTick /\ nextTick <= now + TICK_MS
    /\ (snapshot = NoBook) = (produced = NoBook)
    /\ snapshot # NoBook => produced <= now /\ snapshot = produced + ClockSkew

(* BookInv is BookFacts, the colour's and the selection's types, and the   *)
(* render witness.                                                         *)
LEMMA BookInvSplit ==
    BookInv <=> /\ BookFacts
                /\ shown \in Bucket \cup {"none"}
                /\ selected \in BOOLEAN
                /\ (selected /\ snapshot # NoBook =>
                      \E t \in (nextTick - TICK_MS)..now :
                          t >= produced /\ shown = AgeBucket(t, snapshot))
BY DEF BookInv, BookFacts, TypeOK

(* The same split, one step later.                                         *)
LEMMA BookInvSplitPrimed ==
    BookInv' <=> (/\ BookFacts
                  /\ shown \in Bucket \cup {"none"}
                  /\ selected \in BOOLEAN
                  /\ (selected /\ snapshot # NoBook =>
                        \E t \in (nextTick - TICK_MS)..now :
                            t >= produced /\ shown = AgeBucket(t, snapshot)))'
BY DEF BookInv, BookFacts, TypeOK

LEMMA BookInvStep == BookInv /\ [Next]_vars => BookInv'
<1> SUFFICES ASSUME BookInv, [Next]_vars PROVE BookInv'
  OBVIOUS
<1>0. BookFacts /\ shown \in Bucket \cup {"none"} /\ selected \in BOOLEAN
  BY BookInvSplit
<1>1. CASE SelectInstrument
  <2>1. BookFacts'
    BY <1>0, <1>1 DEF SelectInstrument, BookFacts
  <2>2. selected' \in BOOLEAN
    BY <1>1, Zenon DEF SelectInstrument
  <2>3. shown' \in Bucket \cup {"none"}
    BY <1>1, RenderType DEF SelectInstrument
  <2>4. selected' /\ snapshot' # NoBook =>
          \E t \in (nextTick' - TICK_MS)..now' :
              t >= produced' /\ shown' = AgeBucket(t, snapshot')
    <3>0. SUFFICES ASSUME selected', snapshot' # NoBook
                 PROVE  \E t \in (nextTick' - TICK_MS)..now' :
                            t >= produced' /\ shown' = AgeBucket(t, snapshot')
      OBVIOUS
    <3>1. now \in (nextTick' - TICK_MS)..now' /\ now >= produced'
      BY <3>0, <1>0, <1>1 DEF SelectInstrument, BookFacts
    <3>2. shown' = AgeBucket(now, snapshot')
      BY <3>0, <1>1, RenderColour, Zenon DEF SelectInstrument
    <3>. QED
      BY <3>1, <3>2
  <2>. QED
    BY <2>1, <2>2, <2>3, <2>4, BookInvSplitPrimed
<1>2. CASE Advance
  <2>1. BookFacts'
    BY <1>0, <1>2, BookViewAssumption DEF Advance, BookFacts
  <2>2. selected' \in BOOLEAN /\ shown' \in Bucket \cup {"none"}
    BY <1>0, <1>2 DEF Advance
  <2>3. selected' /\ snapshot' # NoBook =>
          \E t \in (nextTick' - TICK_MS)..now' :
              t >= produced' /\ shown' = AgeBucket(t, snapshot')
    <3>0. SUFFICES ASSUME selected', snapshot' # NoBook
                 PROVE  \E t \in (nextTick' - TICK_MS)..now' :
                            t >= produced' /\ shown' = AgeBucket(t, snapshot')
      OBVIOUS
    <3>1. selected' = selected /\ snapshot' = snapshot /\ produced' = produced
          /\ shown' = shown /\ nextTick' = nextTick /\ now' = now + TimeStep
      BY <1>2 DEF Advance
    <3>2. PICK t \in (nextTick - TICK_MS)..now :
                 t >= produced /\ shown = AgeBucket(t, snapshot)
      BY <3>0, <3>1, BookInvSplit
    <3>3. t \in (nextTick' - TICK_MS)..now'
      BY <1>0, <3>1, <3>2, BookViewAssumption DEF BookFacts
    <3>. QED
      BY <3>1, <3>2, <3>3
  <2>. QED
    BY <2>1, <2>2, <2>3, BookInvSplitPrimed
<1>3. CASE IntervalFires
  <2>1. BookFacts'
    BY <1>0, <1>3 DEF IntervalFires, BookFacts
  <2>2. selected' \in BOOLEAN
    BY <1>0, <1>3 DEF IntervalFires
  <2>3. shown' \in Bucket \cup {"none"}
    BY <1>3, RenderType DEF IntervalFires
  <2>4. selected' /\ snapshot' # NoBook =>
          \E t \in (nextTick' - TICK_MS)..now' :
              t >= produced' /\ shown' = AgeBucket(t, snapshot')
    <3>0. SUFFICES ASSUME selected', snapshot' # NoBook
                 PROVE  \E t \in (nextTick' - TICK_MS)..now' :
                            t >= produced' /\ shown' = AgeBucket(t, snapshot')
      OBVIOUS
    <3>1. now \in (nextTick' - TICK_MS)..now' /\ now >= produced'
      BY <3>0, <1>0, <1>3 DEF IntervalFires, BookFacts
    <3>2. shown' = AgeBucket(now, snapshot')
      BY <3>0, <1>3, RenderColour, Zenon DEF IntervalFires
    <3>. QED
      BY <3>1, <3>2
  <2>. QED
    BY <2>1, <2>2, <2>3, <2>4, BookInvSplitPrimed
<1>4. ASSUME NEW lat \in Latencies, BookUpdate(lat) PROVE BookInv'
  <2>0. lat \in Nat /\ ClockSkew \in Int /\ NoBook \notin Int
    BY BookViewAssumption
  <2>1. BookFacts'
    BY <1>0, <1>4, <2>0 DEF BookUpdate, BookFacts
  <2>2. selected' \in BOOLEAN
    BY <1>0, <1>4 DEF BookUpdate
  <2>3. shown' \in Bucket \cup {"none"}
    BY <1>4, RenderType DEF BookUpdate
  <2>4. selected' /\ snapshot' # NoBook =>
          \E t \in (nextTick' - TICK_MS)..now' :
              t >= produced' /\ shown' = AgeBucket(t, snapshot')
    <3>0. SUFFICES ASSUME selected', snapshot' # NoBook
                 PROVE  \E t \in (nextTick' - TICK_MS)..now' :
                            t >= produced' /\ shown' = AgeBucket(t, snapshot')
      OBVIOUS
    <3>1. now \in (nextTick' - TICK_MS)..now' /\ now >= produced'
      BY <3>0, <1>0, <1>4, <2>0 DEF BookUpdate, BookFacts
    <3>2. shown' = AgeBucket(now, snapshot')
      BY <3>0, <1>4, RenderColour, Zenon DEF BookUpdate
    <3>. QED
      BY <3>1, <3>2
  <2>. QED
    BY <2>1, <2>2, <2>3, <2>4, BookInvSplitPrimed
<1>5. CASE OtherRender
  <2>1. BookFacts'
    BY <1>0, <1>5 DEF OtherRender, BookFacts
  <2>2. selected' \in BOOLEAN
    BY <1>0, <1>5 DEF OtherRender
  <2>3. shown' \in Bucket \cup {"none"}
    BY <1>5, RenderType DEF OtherRender
  <2>4. selected' /\ snapshot' # NoBook =>
          \E t \in (nextTick' - TICK_MS)..now' :
              t >= produced' /\ shown' = AgeBucket(t, snapshot')
    <3>0. SUFFICES ASSUME selected', snapshot' # NoBook
                 PROVE  \E t \in (nextTick' - TICK_MS)..now' :
                            t >= produced' /\ shown' = AgeBucket(t, snapshot')
      OBVIOUS
    <3>1. now \in (nextTick' - TICK_MS)..now' /\ now >= produced'
      BY <3>0, <1>0, <1>5 DEF OtherRender, BookFacts
    <3>2. shown' = AgeBucket(now, snapshot')
      BY <3>0, <1>5, RenderColour, Zenon DEF OtherRender
    <3>. QED
      BY <3>1, <3>2
  <2>. QED
    BY <2>1, <2>2, <2>3, <2>4, BookInvSplitPrimed
<1>6. CASE UNCHANGED vars
  BY <1>6 DEF vars, BookInv, TypeOK, BookFacts
<1>. QED
  BY <1>1, <1>2, <1>3, <1>4, <1>5, <1>6 DEF Next

(* For every clock, skew and latency, the panel's colour is bookAge's      *)
(* bucket of the server's stamp at a render since the last tick of the     *)
(* 2-second interval (BookInv).                                            *)
THEOREM BookInvariant == Spec => []BookInv
BY InitBookInv, BookInvStep, PTL DEF Spec

(* When the server's and the browser's clocks agree, the staleness colour  *)
(* is the bucket of the book's true age at some instant of the last two    *)
(* seconds (ShownMatchesAge, spec 4.5).  The skew hypothesis is needed:    *)
(* the book_skew run refutes the property with the server 10 s ahead.      *)
THEOREM ShownCorrectWithoutSkew ==
    ASSUME ClockSkew = 0
    PROVE  Spec => []ShownMatchesAge
<1>1. BookInv => ShownMatchesAge
  <2> SUFFICES ASSUME BookInv, selected, snapshot # NoBook
               PROVE  \E t \in (now - TICK_MS)..now :
                          t >= produced /\ shown = AgeBucket(t, produced)
    BY DEF ShownMatchesAge
  <2>1. PICK t \in (nextTick - TICK_MS)..now :
               t >= produced /\ shown = AgeBucket(t, snapshot)
    BY BookInvSplit
  <2>2. snapshot = produced /\ t \in (now - TICK_MS)..now
    BY <2>1, BookInvSplit DEF BookFacts
  <2>. QED
    BY <2>1, <2>2
<1>. QED
  BY <1>1, BookInvariant, PTL
=============================================================================
