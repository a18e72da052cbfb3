SPECIFICATION DeliverySpec
CONSTANTS
    b1 = b1
    b2 = b2
    w = w
    vlc = vlc
    box = box
    inland = inland
    abroad = abroad
    Bids = {b1, b2}
    Streams = {s}
    Words = {w}
    Users = {ann}
    Home = Home
    Mac = Mac
    Agents = {vlc, box}
    Countries = {inland, abroad, unknown}
    Unknown = unknown
    Allowed = {inland}
    BlockRestream = TRUE
    FormatLists <- MCFormatLists
    AgentLists = {{}, {vlc}}
    Clients <- MCClients
    Worlds <- MCWorlds
SYMMETRY Symmetry
INVARIANTS
    OffersPlay
    PlayableIsListed
    CheckingDoorsAgree
    PicturesForThePermitted
