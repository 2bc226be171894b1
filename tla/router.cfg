SPECIFICATION Spec
CONSTANTS
    photos = photos
    comments = comments
    adminPhotos = adminPhotos
    profile = profile
    showPhoto = showPhoto
    archive = archive
    Word <- MCWord
    Cut <- MCCut
    Unescaped <- MCUnescaped
    Missing = Missing
    Resource = {photos, comments, adminPhotos, profile}
    Declaration <- MCDeclaration
    Plain = {showPhoto, archive}
    PlainRoute <- MCPlainRoute
    NoRoute = NoRoute
    Selection <- MCSelection
    MaxCalls = 5
    Path <- MCPath
    Value = {"7", "create", "7?x", "%37"}
INVARIANTS
    ExactRoutes
    StaticFirst
    UrlsMatch
PROPERTIES
    CallsAreLocal
    NamesReachRoutes
CHECK_DEADLOCK FALSE
