------------------------------ MODULE Portals ------------------------------
(***************************************************************************)
(* What the portals offer a user and what the live route then plays: the   *)
(* MAG portal, the Enigma2 API, the Xtream player API with its playlist,   *)
(* the web player (all under src/src/public/controllers) and StreamAuth.   *)
(* Each has its own code for accounts, streams and bouquets, over the same *)
(* rows; administrators and the clock change the rows in between.          *)
(*                                                                         *)
(* Abstracted: passwords and tokens are right; titles and pages;           *)
(* categories, the guide, movies and series (module Library); the          *)
(* connection limit (module Connections), and the limits only the          *)
(* streaming routes know: formats, players, countries (module Delivery).   *)
(*                                                                         *)
(* An operator X_what beside a definition X is X with a bug a maintainer   *)
(* could make; no specification uses it.                                   *)
(***************************************************************************)
EXTENDS BouquetAccess

CONSTANTS
    Users,    \* user ids
    Home,     \* the address a viewer calls from
    Mac       \* the hardware address of a viewer's MAG box

ASSUME HomeIsNoMac == Home # Mac

VARIABLES
    users,    \* the table of users
    streams,  \* the table of streams
    rows      \* the table of bouquets

vars == <<users, streams, rows>>

(* is_mag stands for is_mag or is_stalker. *)
UserRow ==
    [enabled : BOOLEAN, expired : BOOLEAN, is_admin : BOOLEAN, is_mag : BOOLEAN,
     bouquet : BouquetStrings, allowed_ips : SUBSET {Home, Mac}]

(* No row, a disabled stream, an enabled one of type 1 or of another type. *)
StreamStates == {"none", "off", "live", "radio"}

TypeOK ==
    /\ users \in [Users -> UserRow]
    /\ streams \in [Streams -> StreamStates]
    /\ rows \in [Bids -> BouquetRow]

Init ==
    /\ \E admin, mag \in [Users -> BOOLEAN] :
          users = [u \in Users |->
              [enabled |-> TRUE, expired |-> FALSE, is_admin |-> admin[u],
               is_mag |-> mag[u], bouquet |-> {}, allowed_ips |-> {}]]
    /\ streams = [s \in Streams |-> "none"]
    /\ rows = [b \in Bids |-> NoBouquet]

-----------------------------------------------------------------------------
(* StreamAuth and the live route                                           *)

Authenticate(u) == users[u].enabled /\ ~users[u].expired

CheckIpAllowed(u, ip) == users[u].allowed_ips = {} \/ ip \in users[u].allowed_ips

AuthorizeStream_allowsDisabled(u, s) ==
    /\ streams[s] # "none"
    /\ CheckBouquetAccess(users[u].is_admin, users[u].bouquet, rows, s)

(* authorize_stream, and the live route's own test for a disabled stream. *)
AuthorizeStream(u, s) ==
    /\ streams[s] \in {"live", "radio"}
    /\ CheckBouquetAccess(users[u].is_admin, users[u].bouquet, rows, s)

LivePlays(u, s, ip) == Authenticate(u) /\ CheckIpAllowed(u, ip) /\ AuthorizeStream(u, s)

-----------------------------------------------------------------------------
(* The portals                                                             *)

(* StreamService.get_live_streams *)
LiveStreams == {s \in Streams : streams[s] = "live"}

(* _find_mag_user and _ensure_account_ok.  The box is known by a hardware  *)
(* address, the user's name or one of his allowed addresses, or by name    *)
(* and password; nothing compares the address it calls from.               *)
MagUser(u) == users[u].enabled /\ ~users[u].expired /\ users[u].is_mag

MagChannels_skipsDeleted(u) ==
    IF MagUser(u)
    THEN {s \in LiveStreams :
              \/ \A b \in users[u].bouquet \cap Bids : rows[b].state # "row"
              \/ MagAllows(users[u].bouquet, rows, s)}
    ELSE {}

(* itv/get_ordered_list, and itv/create_link for each of its channels. *)
MagChannels(u) ==
    IF MagUser(u) THEN {s \in LiveStreams : MagAllows(users[u].bouquet, rows, s)} ELSE {}

(* _authenticate *)
EnigmaUser(u) == users[u].enabled /\ ~users[u].expired

(* get_channels of every bouquet that get_bouquets names. *)
EnigmaChannels(u) ==
    IF EnigmaUser(u)
    THEN {s \in LiveStreams :
              \E b \in BouquetsForUser(users[u].bouquet, rows) : s \in rows[b].channels}
    ELSE {}

(* _authenticate_user, with a password or with a token, which is the       *)
(* player_api_token of a user or his name and password encoded.            *)
PlayerUser(u) == users[u].enabled /\ ~users[u].expired

(* get_live_streams, get.php and the web player do not look at bouquets. *)
PlayerChannels(u) == IF PlayerUser(u) THEN LiveStreams ELSE {}

-----------------------------------------------------------------------------
(* What changes the rows                                                   *)

Change(u, row) == users' = [users EXCEPT ![u] = row] /\ UNCHANGED <<streams, rows>>

ToggleStatus(u) == Change(u, [users[u] EXCEPT !.enabled = ~@])
Expire(u) == ~users[u].expired /\ Change(u, [users[u] EXCEPT !.expired = TRUE])
Extend(u) == users[u].expired /\ Change(u, [users[u] EXCEPT !.expired = FALSE])

(* cron:users, one UPDATE for all whose date is past; a user whose date is *)
(* moved again stays disabled until somebody toggles him.                  *)
CronUsers ==
    /\ \E u \in Users : users[u].enabled /\ users[u].expired
    /\ users' = [u \in Users |-> [users[u] EXCEPT !.enabled = @ /\ ~users[u].expired]]
    /\ UNCHANGED <<streams, rows>>

BatchToggleUsers ==
    \E us \in SUBSET Users, on \in BOOLEAN :
        /\ users' = [u \in Users |-> [users[u] EXCEPT !.enabled = IF u \in us THEN on ELSE @]]
        /\ UNCHANGED <<streams, rows>>

ChangeBouquet(u) == \E t \in BouquetStrings : Change(u, [users[u] EXCEPT !.bouquet = t])

ChangeIps(u) ==
    \E ips \in SUBSET {Home, Mac} : Change(u, [users[u] EXCEPT !.allowed_ips = ips])

CreateStream(s) ==
    /\ streams[s] = "none"
    /\ \E t \in {"off", "live", "radio"} : streams' = [streams EXCEPT ![s] = t]
    /\ UNCHANGED <<users, rows>>

(* PUT may also change the type; a toggle changes only enabled. *)
UpdateStream(s) ==
    /\ streams[s] # "none"
    /\ \E t \in {"off", "live", "radio"} : streams' = [streams EXCEPT ![s] = t]
    /\ UNCHANGED <<users, rows>>

(* The id stays in the channel lists. *)
DeleteStream(s) ==
    /\ streams[s] # "none"
    /\ streams' = [streams EXCEPT ![s] = "none"]
    /\ UNCHANGED <<users, rows>>

(* The outcome of the requests of module Bouquets on one row. *)
WriteBouquet(b) ==
    /\ rows[b].state # "gone"
    /\ \E l \in SUBSET Streams : rows' = [rows EXCEPT ![b] = [state |-> "row", channels |-> l]]
    /\ UNCHANGED <<users, streams>>

DeleteBouquet(b) ==
    /\ rows[b].state = "row"
    /\ rows' = [rows EXCEPT ![b] = [state |-> "gone", channels |-> {}]]
    /\ UNCHANGED <<users, streams>>

Next ==
    \/ \E u \in Users : \/ ToggleStatus(u) \/ Expire(u) \/ Extend(u)
                        \/ ChangeBouquet(u) \/ ChangeIps(u)
    \/ CronUsers \/ BatchToggleUsers
    \/ \E s \in Streams : CreateStream(s) \/ UpdateStream(s) \/ DeleteStream(s)
    \/ \E b \in Bids : WriteBouquet(b) \/ DeleteBouquet(b)

Spec == Init /\ [][Next]_vars

-----------------------------------------------------------------------------
(* Properties *)

(* What the MAG portal or the Enigma2 API offers, the live route plays, in *)
(* every state of the rows: for junk in the bouquet string, for ids of     *)
(* deleted bouquets and streams, for administrators.  The viewer's address *)
(* must be allowed: a box that is known by its hardware address in         *)
(* allowed_ips alone is offered streams that the live route refuses.       *)
OffersPlay ==
    \A u \in Users : \A s \in MagChannels(u) \cup EnigmaChannels(u) :
        CheckIpAllowed(u, Home) => LivePlays(u, s, Home)

(* No stream plays as live television that the player API, the playlist    *)
(* and the web player hide.                                                *)
PlayableIsListed ==
    \A u \in Users, s \in Streams :
        (LivePlays(u, s, Home) /\ streams[s] # "radio") => s \in PlayerChannels(u)

(* A viewer whose bouquet string names a bouquet sees the same channels on *)
(* his MAG box and on his Enigma2 receiver.                                *)
BoxesAgree ==
    \A u \in Users :
        (MagUser(u) /\ users[u].bouquet \cap Bids # {}) => MagChannels(u) = EnigmaChannels(u)
=============================================================================
