SPECIFICATION LibrarySpec
CONSTANTS
    c1 = c1
    s1 = s1
    s2 = s2
    e1 = e1
    e2 = e2
    p1 = p1
    p2 = p2
    b1 = b1
    b2 = b2
    k1 = k1
    w = w
    Cats = {c1}
    Streams = {s1, s2}
    Films = {1, 2, 3}
    Shows = {11, 12, 13}
    Episodes = {e1, e2}
    Programmes = {p1, p2}
    EpgIds = {n1, n2}
    Bids = {b1, b2}
    Words = {w}
    Packages = {k1}
    Scopes <- MCScopes
    NULL = NULL
    WebLimit = 1
    CatalogLimit = 2
    PlayerLimit = 2
    ShortLimit = 1
    MagGuideLimit = 1
    EnigmaGuideLimit = 1
    LastTime = 1
    Day = 1
INVARIANTS MenusLead OffersAreListed GuidesAgree EpisodesAgree ScopeIsWhatViewersGet LinkedGuides
