SPECIFICATION Spec
CONSTANTS
    recover = recover
    trim = trim
    session = session
    audit = audit
    Middleware = {recover, trim, session, audit}
    Recover = recover
    Terminable = {trim, audit}
    Globals <- MCGlobals
    RouteChains <- MCRoutes
    Dispatch = Dispatch
    Handler = Handler
    MaxNext = 1
    MaxUploads = 2
    MaxStores = 2
    MaxFaults = 1
INVARIANTS
    ShortCircuitStops
    TerminatesWhatRan
    NoPanicEscapes
    NoTempFileLeft
    StoredFilesStay
