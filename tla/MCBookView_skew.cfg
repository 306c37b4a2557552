\* Staleness indicator with the server clock 10 s ahead of the browser clock.
CONSTANTS
    TimeStep <- MCTimeStep
    MaxClock <- MCMaxClock
    ClockSkew <- MCServerAhead
    Latencies <- MCLatencies
    NoBook = NoBook
SPECIFICATION Spec
INVARIANT ShownMatchesAge
