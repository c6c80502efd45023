\* See README.md, "Runs".
SPECIFICATION Spec
CONSTANTS
    k1 = k1
    k2 = k2
    c1 = c1
    c2 = c2
    NoKeg = NoKeg
    BadToken = BadToken
    NoConn = NoConn
    NoRow = NoRow
    Kegs = {k1, k2}
    Conns = {c1, c2}
    Handlers = {h1}
    StoreFails = FALSE
    Networks <- SafetyNetworks
INVARIANT GoroutineInv
INVARIANT RegistryTracksLive
INVARIANT OpenIsReachable
INVARIANT NoPhantomKeg
INVARIANT PourEndsWithConnection
INVARIANT StaleBadgeExplained
INVARIANT MetadataKept
PROPERTY OnlyPacketsCreate
PROPERTY DirectoryKept
