------------------------------ MODULE Delivery ------------------------------
(***************************************************************************)
(* How the streaming routes answer a viewer                                *)
(* (src/src/public/controllers/api/streaming_routes.py): the live route    *)
(* and the routes around it, for HLS segments, subtitles, thumbnails, keys *)
(* of encrypted streams, RTMP and the archive.  Each route repeats the     *)
(* checks of StreamAuth (src/src/streaming/auth/stream_auth.py) in its own *)
(* code; the live route then finds something to play.  Two more routes,    *)
(* below /hls, take the same files from the content directory and check    *)
(* nothing.                                                                *)
(*                                                                         *)
(* The rows are those of module Portals, and the two limits of a user that *)
(* only these routes know.  What the stream's row, the servers and the     *)
(* content directory hold besides is a parameter of the answers (World).   *)
(*                                                                         *)
(* Abstracted: passwords are right; the connection limit (Connections);    *)
(* the starting of FFmpeg (StreamEngine); URLs and contents of files; the  *)
(* choice among several online servers, and the load it looks at.          *)
(*                                                                         *)
(* An operator X_what is X with a bug; no specification uses it.           *)
(***************************************************************************)
EXTENDS Portals

CONSTANTS
    Agents,        \* the players a viewer may use
    Countries,     \* what the country of an address may be, Unknown included
    Unknown,       \* no database of countries, or an address it does not have
    Allowed,       \* STREAMING_ALLOW_COUNTRIES
    BlockRestream, \* STREAMING_BLOCK_RESTREAM_DETECT
    FormatLists,   \* what the column of output formats may hold
    AgentLists,    \* what the column of players may hold
    Clients,       \* the requests considered
    Worlds         \* the surroundings considered

VARIABLE limits    \* user -> his output formats and players

deliveryVars == <<vars, limits>>

Containers == {"ts", "m3u8", "rtmp"}

(* A request: its address, its player, the country of the address, and     *)
(* whether it carries the header X-Restream-Detect.                        *)
Client == [ip : {Home, Mac}, agent : Agents, country : Countries, relay : BOOLEAN]

(* direct_source, a source, what there is for HLS (the playlist and the    *)
(* segments FFmpeg has put into the stream's directory, other renditions   *)
(* that its row names), the kinds of servers that have the stream, and     *)
(* what is shown when it is off the air.                                   *)
World == [direct : BOOLEAN, source : BOOLEAN, hls : SUBSET {"playlist", "variants"},
          servers : SUBSET {"main", "online", "offline"}, offAir : {"none", "image", "ts"}]

ASSUME Settings ==
    /\ BlockRestream \in BOOLEAN /\ Unknown \notin Allowed
    /\ FormatLists \subseteq SUBSET (Containers \cup Words)
    /\ AgentLists \subseteq SUBSET Agents
    /\ Clients \subseteq Client /\ Worlds \subseteq World

DeliveryInit == Init /\ limits = [u \in Users |-> [formats |-> {}, agents |-> {}]]

(* Both columns are comma-separated; nothing in one is no limit. *)
ChangeLimits(u) ==
    /\ \/ \E l \in FormatLists : limits' = [limits EXCEPT ![u].formats = l]
       \/ \E l \in AgentLists : limits' = [limits EXCEPT ![u].agents = l]
    /\ UNCHANGED vars

DeliveryNext ==
    \/ Next /\ UNCHANGED limits
    \/ \E u \in Users : ChangeLimits(u)

DeliverySpec == DeliveryInit /\ [][DeliveryNext]_deliveryVars

-----------------------------------------------------------------------------
(* StreamAuth                                                              *)

CheckOutputFormatAllowed(u, f) ==
    /\ f \in Containers
    /\ limits[u].formats = {} \/ f \in limits[u].formats

CheckUserAgentAllowed(u, agent) == limits[u].agents = {} \/ agent \in limits[u].agents

(* A country that is not known is allowed. *)
CheckGeoipAllowed(country) == Allowed = {} \/ country \in Allowed \cup {Unknown}

RestreamPolicy(c) == BlockRestream => ~c.relay

(* authorize_stream with allow_disabled_stream, for a stream with a row. *)
Permits(u, s, c) ==
    /\ CheckBouquetAccess(users[u].is_admin, users[u].bouquet, rows, s)
    /\ CheckUserAgentAllowed(u, c.agent)
    /\ CheckGeoipAllowed(c.country)

(* The same for an enabled stream only. *)
Authorizes(u, s, c) == streams[s] \in {"live", "radio"} /\ Permits(u, s, c)

Admits(u, c) == Authenticate(u) /\ CheckIpAllowed(u, c.ip)

-----------------------------------------------------------------------------
(* The routes around the live route: do they serve what they have?         *)

SubtitleServes(u, s, c) == Admits(u, c) /\ Authorizes(u, s, c)
ThumbServes(u, s, c) == Admits(u, c) /\ Authorizes(u, s, c)
KeyServes(u, s, c) == Admits(u, c) /\ Authorizes(u, s, c)

SegmentServes_anyFormat(u, s, c) ==
    /\ Admits(u, c)
    /\ RestreamPolicy(c)
    /\ Authorizes(u, s, c)

SegmentServes(u, s, c) ==
    /\ Admits(u, c)
    /\ RestreamPolicy(c)
    /\ CheckOutputFormatAllowed(u, "m3u8")
    /\ Authorizes(u, s, c)

(* The archive: the channel must have one, and the moment must be in it. *)
TimeshiftServes(u, s, c, archive) ==
    /\ Admits(u, c)
    /\ Authorizes(u, s, c)
    /\ archive \in {"here", "remote"}

-----------------------------------------------------------------------------
(* The live route and the RTMP route                                       *)

(* _off_air_live_response, or the error. *)
OffAir(f, w, otherwise) ==
    IF (f = "m3u8" /\ w.offAir # "none") \/ (f = "ts" /\ w.offAir = "ts")
    THEN "off_air" ELSE otherwise

(* _stream_on_local_server *)
OnLocalServer(w) == "main" \in w.servers

(* ProxySelector.select_server, without the main server. *)
SelectServer(w) == "online" \in w.servers

HlsAnswer(f, w) ==
    IF f # "m3u8" \/ (w.hls = {} /\ ~w.source) THEN "none"
    ELSE IF "variants" \in w.hls THEN "variants"
    ELSE IF "playlist" \in w.hls THEN "playlist" ELSE "started"

(* What a permitted request for an enabled stream gets. *)
Play_offAirFirst(f, w) ==
    IF ~OnLocalServer(w) THEN OffAir(f, w, "503")
    ELSE IF HlsAnswer(f, w) # "none" THEN HlsAnswer(f, w)
    ELSE IF w.source THEN "source" ELSE OffAir(f, w, "404")

Play(f, w) ==
    IF w.direct THEN IF w.source THEN "source" ELSE OffAir(f, w, "404")
    ELSE IF ~OnLocalServer(w) THEN IF SelectServer(w) THEN "edge" ELSE OffAir(f, w, "503")
    ELSE IF HlsAnswer(f, w) # "none" THEN HlsAnswer(f, w)
    ELSE IF w.source THEN "source" ELSE OffAir(f, w, "404")

(* The checks that both routes make, in their order, before `play'. *)
Checked(u, s, f, c, w, play) ==
    IF ~Admits(u, c) \/ ~RestreamPolicy(c) \/ ~CheckOutputFormatAllowed(u, f) THEN "403"
    ELSE IF streams[s] = "none" THEN OffAir(f, w, "404")
    ELSE IF ~Permits(u, s, c) THEN "403"
    ELSE IF streams[s] = "off" THEN OffAir(f, w, "503")
    ELSE play

Live(u, s, f, c, w) == Checked(u, s, f, c, w, Play(f, w))

(* The source as an rtmp URL, whichever server has the stream. *)
Rtmp(u, s, c, w) ==
    Checked(u, s, "rtmp", c, w, IF w.source THEN "source" ELSE OffAir("rtmp", w, "404"))

Pictures == {"source", "edge", "playlist", "variants", "started"}

(* /hls/{stream_id}/index.m3u8 and /hls/{stream_id}/{segment}: to anybody, *)
(* what is in the directory, whatever the rows of users and streams say.   *)
OpenServes(w) == "playlist" \in w.hls

-----------------------------------------------------------------------------
(* Properties *)

Served == [direct |-> FALSE, source |-> TRUE, hls |-> {}, servers |-> {"main"}, offAir |-> "none"]

(* Of the nine doors to a stream seven ask who is there, each with its own *)
(* copy of the checks, and these let the same requests in.  What the live  *)
(* route plays as HLS has segments, and only that; whoever is served in    *)
(* any format, or over RTMP, gets keys, subtitles and thumbnails too; the  *)
(* archive is open to exactly those who get these, in whatever format they *)
(* may watch.  The other two are open: the playlist that the live route    *)
(* reads from the directory for a permitted viewer they serve to anybody.  *)
CheckingDoorsAgree ==
    \A u \in Users, s \in Streams, c \in Clients :
        LET plays(f) == Live(u, s, f, c, Served) \in Pictures
            rtmp     == Rtmp(u, s, c, Served) \in Pictures
            extras   == <<SubtitleServes(u, s, c), ThumbServes(u, s, c), KeyServes(u, s, c)>>
        IN  /\ SegmentServes(u, s, c) <=> plays("m3u8")
            /\ plays("ts") \/ plays("m3u8") \/ rtmp => extras = <<TRUE, TRUE, TRUE>>
            /\ extras \in {<<TRUE, TRUE, TRUE>>, <<FALSE, FALSE, FALSE>>}
            /\ TimeshiftServes(u, s, c, "here") <=> extras[1]
            /\ \A w \in Worlds : Live(u, s, "m3u8", c, w) = "playlist" => OpenServes(w)

(* Whatever the servers, the sources and the files are, the live route     *)
(* (not the open routes, which show the files to everybody) shows a        *)
(* picture to those only whom StreamAuth permits it; and it shows          *)
(* one to each of them when the stream has a source and is played from it  *)
(* directly, by the main server, or by another server that is online.      *)
(* Nobody is sent to a server that cannot play the stream.                 *)
PicturesForThePermitted ==
    \A u \in Users, s \in Streams, f \in {"ts", "m3u8"}, c \in Clients :
        LET may == Admits(u, c) /\ Authorizes(u, s, c) /\ RestreamPolicy(c)
                   /\ CheckOutputFormatAllowed(u, f)
        IN  \A w \in Worlds :
                LET a == Live(u, s, f, c, w)
                IN  /\ a \in Pictures => may
                    /\ (may /\ w.source /\ (w.direct \/ w.servers \cap {"main", "online"} # {})) =>
                           a \in Pictures
                    /\ a = "edge" => "main" \notin w.servers /\ "online" \in w.servers
=============================================================================
