\* Two threads, under per-thread weak fairness: every cached or returned
\* xpub is its path's, no get fails spuriously, and every call ends.
\* No symmetry: it is unsound for liveness checking.
CONSTANTS
    Threads = {t1, t2}
    Index <- MCIndex
    Hardened <- MCHardened
    Paths <- MCPaths
    LoadPaths <- MCLoadPaths
    NoThread = NoThread
SPECIFICATION FairSpec
INVARIANT TypeOK
INVARIANT XpubsCorrect
INVARIANT NoSpuriousFailure
PROPERTY CallReturns
