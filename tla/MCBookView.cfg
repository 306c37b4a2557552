\* Staleness indicator of the Order Book View, server and browser clocks equal.
CONSTANTS
    TimeStep <- MCTimeStep
    MaxClock <- MCMaxClock
    ClockSkew <- MCNoSkew
    Latencies <- MCLatencies
    NoBook = NoBook
SPECIFICATION Spec
INVARIANT ShownMatchesAge
INVARIANT BookInv
