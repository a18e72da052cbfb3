--------------------------- MODULE PortalsProofs ---------------------------
(***************************************************************************)
(* The agreement of the portals with the live route and of the streaming   *)
(* routes with one another, for any users, streams, bouquets, strings,     *)
(* clients, limits and surroundings.  The properties need no invariant but *)
(* the types: they hold for all rows the tables can have, whatever the     *)
(* order of the writes that made them.                                     *)
(***************************************************************************)
EXTENDS Delivery, TLAPS

(* A bouquet row that is written or deleted is a bouquet row. *)
LEMMA WrittenRows ==
  /\ \A l \in SUBSET Streams : [state |-> "row", channels |-> l] \in BouquetRow
  /\ [state |-> "gone", channels |-> {}] \in BouquetRow
  /\ NoBouquet \in BouquetRow
  BY DEF BouquetRow, RowStates, NoBouquet

(* Changing one field of a user's row leaves a user's row. *)
LEMMA ChangedUser ==
  ASSUME TypeOK, NEW u \in Users,
         ToggleStatus(u) \/ Expire(u) \/ Extend(u) \/ ChangeBouquet(u) \/ ChangeIps(u)
  PROVE  users' \in [Users -> UserRow] /\ UNCHANGED <<streams, rows>>
<1> DEFINE row == users[u]
<1>1. row \in UserRow
  BY DEF TypeOK
<1>2. ASSUME NEW r \in UserRow, Change(u, r)
      PROVE  users' \in [Users -> UserRow] /\ UNCHANGED <<streams, rows>>
  BY <1>2 DEF TypeOK, Change
<1>3. /\ [row EXCEPT !.enabled = ~@] \in UserRow
      /\ [row EXCEPT !.expired = TRUE] \in UserRow
      /\ [row EXCEPT !.expired = FALSE] \in UserRow
  BY <1>1 DEF UserRow
<1>4. \A t \in BouquetStrings : [row EXCEPT !.bouquet = t] \in UserRow
  BY <1>1 DEF UserRow
<1>5. \A ips \in SUBSET {Home, Mac} : [row EXCEPT !.allowed_ips = ips] \in UserRow
  BY <1>1 DEF UserRow
<1> QED
  BY <1>2, <1>3, <1>4, <1>5 DEF ToggleStatus, Expire, Extend, ChangeBouquet, ChangeIps

(* So does enabling or disabling several at once. *)
LEMMA ChangedUsers ==
  ASSUME TypeOK, CronUsers \/ BatchToggleUsers
  PROVE  users' \in [Users -> UserRow] /\ UNCHANGED <<streams, rows>>
<1>1. \A r \in UserRow, on \in BOOLEAN : [r EXCEPT !.enabled = on] \in UserRow
  BY DEF UserRow
<1>2. \A r \in UserRow : r.enabled \in BOOLEAN /\ r.expired \in BOOLEAN
  BY DEF UserRow
<1>3. \A u \in Users : users[u] \in UserRow
  BY DEF TypeOK
<1>4. CASE CronUsers
  <2>1. \A u \in Users : (users[u].enabled /\ ~users[u].expired) \in BOOLEAN
    BY <1>2, <1>3
  <2> QED
    BY <1>1, <1>3, <1>4, <2>1 DEF CronUsers
<1>5. CASE BatchToggleUsers
  <2> PICK us \in SUBSET Users, on \in BOOLEAN :
        /\ users' = [u \in Users |-> [users[u] EXCEPT !.enabled = IF u \in us THEN on ELSE @]]
        /\ UNCHANGED <<streams, rows>>
    BY <1>5 DEF BatchToggleUsers
  <2>1. \A u \in Users : (IF u \in us THEN on ELSE users[u].enabled) \in BOOLEAN
    BY <1>2, <1>3
  <2> QED
    BY <1>1, <1>3, <2>1
<1> QED
  BY <1>4, <1>5

(* The rows keep their types. *)
THEOREM TypeCorrect == Spec => []TypeOK
<1>1. Init => TypeOK
  BY WrittenRows DEF Init, TypeOK, UserRow, StreamStates, BouquetStrings
<1>2. TypeOK /\ [Next]_vars => TypeOK'
  <2> SUFFICES ASSUME TypeOK, [Next]_vars PROVE TypeOK'
    OBVIOUS
  <2>1. CASE UNCHANGED vars
    BY <2>1 DEF vars, TypeOK
  <2>2. ASSUME NEW u \in Users,
               ToggleStatus(u) \/ Expire(u) \/ Extend(u) \/ ChangeBouquet(u) \/ ChangeIps(u)
        PROVE  TypeOK'
    BY <2>2, ChangedUser DEF TypeOK
  <2>5. CASE CronUsers \/ BatchToggleUsers
    BY <2>5, ChangedUsers DEF TypeOK
  <2>3. ASSUME NEW s \in Streams, CreateStream(s) \/ UpdateStream(s) \/ DeleteStream(s)
        PROVE  TypeOK'
    BY <2>3 DEF TypeOK, StreamStates, CreateStream, UpdateStream, DeleteStream
  <2>4. ASSUME NEW b \in Bids, WriteBouquet(b) \/ DeleteBouquet(b)
        PROVE  TypeOK'
    BY <2>4, WrittenRows DEF TypeOK, WriteBouquet, DeleteBouquet
  <2> QED
    BY <2>1, <2>2, <2>3, <2>4, <2>5 DEF Next
<1> QED
  BY <1>1, <1>2, PTL DEF Spec

(* A MAG channel is a live stream of the user's bouquets, or the user has  *)
(* none: then StreamAuth does not restrict him either.                     *)
LEMMA MagIsPlayed ==
  ASSUME NEW u \in Users, NEW s \in MagChannels(u), CheckIpAllowed(u, Home)
  PROVE  LivePlays(u, s, Home)
<1>1. MagUser(u) /\ s \in LiveStreams /\ MagAllows(users[u].bouquet, rows, s)
  BY DEF MagChannels
<1>2. CheckBouquetAccess(users[u].is_admin, users[u].bouquet, rows, s)
  BY <1>1 DEF MagAllows, CheckBouquetAccess
<1> QED
  BY <1>1, <1>2 DEF LivePlays, Authenticate, AuthorizeStream, MagUser, LiveStreams

(* An Enigma2 channel is in a bouquet the string names, or the string      *)
(* names none.                                                             *)
LEMMA EnigmaIsPlayed ==
  ASSUME NEW u \in Users, NEW s \in EnigmaChannels(u), CheckIpAllowed(u, Home)
  PROVE  LivePlays(u, s, Home)
<1>1. /\ Authenticate(u) /\ s \in LiveStreams
      /\ \E b \in BouquetsForUser(users[u].bouquet, rows) : s \in rows[b].channels
  BY DEF EnigmaChannels, EnigmaUser, Authenticate
<1>2. CheckBouquetAccess(users[u].is_admin, users[u].bouquet, rows, s)
  BY <1>1 DEF BouquetsForUser, CheckBouquetAccess, Listed
<1> QED
  BY <1>1, <1>2 DEF LivePlays, AuthorizeStream, LiveStreams

(* What a portal offers, the live route plays. *)
THEOREM OffersArePlayed == Spec => []OffersPlay
<1>1. OffersPlay
  BY MagIsPlayed, EnigmaIsPlayed DEF OffersPlay
<1> QED
  BY <1>1, PTL

(* What plays as live television is on the unrestricted lists. *)
THEOREM PlayableStreamsAreListed == Spec => []PlayableIsListed
<1>1. PlayableIsListed
  BY DEF PlayableIsListed, LivePlays, AuthorizeStream, PlayerChannels,
         PlayerUser, Authenticate, LiveStreams
<1> QED
  BY <1>1, PTL

(* The MAG portal and the Enigma2 API show a restricted user the same. *)
THEOREM BoxesShowTheSame == Spec => []BoxesAgree
<1>1. BoxesAgree
  <2> SUFFICES ASSUME NEW u \in Users, MagUser(u), users[u].bouquet \cap Bids # {}
               PROVE  MagChannels(u) = EnigmaChannels(u)
    BY DEF BoxesAgree
  <2>1. EnigmaUser(u)
    BY DEF MagUser, EnigmaUser
  <2>2. ASSUME NEW s \in LiveStreams
        PROVE  MagAllows(users[u].bouquet, rows, s) <=>
                 \E b \in BouquetsForUser(users[u].bouquet, rows) : s \in rows[b].channels
    BY <2>2 DEF MagAllows, BouquetsForUser, Listed
  <2> QED
    BY <2>1, <2>2 DEF MagChannels, EnigmaChannels
<1> QED
  BY <1>1, PTL

-----------------------------------------------------------------------------
(* The streaming routes                                                    *)

(* The tables of Delivery change as those of Portals do.                   *)
THEOREM RoutesOnlyRead == DeliverySpec => Spec
<1>1. DeliveryInit => Init
  BY DEF DeliveryInit
<1>2. [DeliveryNext]_deliveryVars => [Next]_vars
  BY DEF DeliveryNext, deliveryVars, vars, ChangeLimits
<1> QED
  BY <1>1, <1>2, PTL DEF DeliverySpec, Spec

(* Nothing a viewer is shown in place of a stream is a picture of it. *)
LEMMA OffAirIsNoPicture ==
  ASSUME NEW f, NEW w, NEW e \in {"403", "404", "503"}
  PROVE  OffAir(f, w, e) \notin Pictures /\ e \notin Pictures /\ OffAir(f, w, e) # "edge"
  BY DEF OffAir, Pictures

(* A route that plays has made all its checks.                             *)
LEMMA CheckedPlays ==
  ASSUME TypeOK, NEW u \in Users, NEW s \in Streams, NEW f, NEW c, NEW w, NEW play
  PROVE  Checked(u, s, f, c, w, play) \in Pictures <=>
           /\ Admits(u, c) /\ RestreamPolicy(c) /\ CheckOutputFormatAllowed(u, f)
           /\ Authorizes(u, s, c)
           /\ play \in Pictures
<1>1. streams[s] \in {"none", "off", "live", "radio"}
  BY DEF TypeOK, StreamStates
<1>2. /\ OffAir(f, w, "404") \notin Pictures /\ OffAir(f, w, "503") \notin Pictures
      /\ "403" \notin Pictures
  BY OffAirIsNoPicture
<1> QED
  BY <1>1, <1>2 DEF Checked, Authorizes

(* What is played in surroundings where the stream runs on the main server *)
LEMMA PlaysWhenServed ==
  /\ Play("m3u8", Served) \in Pictures
  /\ Play("ts", Served) \in Pictures
  BY DEF Play, Served, OnLocalServer, HlsAnswer, Pictures

(* The open routes serve whatever playlist the live route reads. *)
LEMMA OpenDoors ==
  ASSUME NEW u \in Users, NEW s \in Streams, NEW c, NEW w,
         Live(u, s, "m3u8", c, w) = "playlist"
  PROVE  OpenServes(w)
<1>1. OffAir("m3u8", w, "404") # "playlist" /\ OffAir("m3u8", w, "503") # "playlist"
  BY DEF OffAir
<1>2. Play("m3u8", w) = "playlist"
  BY <1>1 DEF Live, Checked
<1>3. HlsAnswer("m3u8", w) = "playlist"
  BY <1>1, <1>2 DEF Play
<1> QED
  BY <1>3 DEF HlsAnswer, OpenServes

(* The seven routes that ask who is there let the same requests in; the    *)
(* other two are open to everybody.                                        *)
THEOREM SevenDoorsAgree == DeliverySpec => []CheckingDoorsAgree
<1>1. TypeOK => CheckingDoorsAgree
  <2> SUFFICES ASSUME TypeOK, NEW u \in Users, NEW s \in Streams, NEW c \in Clients
               PROVE  LET plays(f) == Live(u, s, f, c, Served) \in Pictures
                          rtmp     == Rtmp(u, s, c, Served) \in Pictures
                          extras   == <<SubtitleServes(u, s, c), ThumbServes(u, s, c),
                                        KeyServes(u, s, c)>>
                      IN  /\ SegmentServes(u, s, c) <=> plays("m3u8")
                          /\ plays("ts") \/ plays("m3u8") \/ rtmp => extras = <<TRUE, TRUE, TRUE>>
                          /\ extras \in {<<TRUE, TRUE, TRUE>>, <<FALSE, FALSE, FALSE>>}
                          /\ TimeshiftServes(u, s, c, "here") <=> extras[1]
                          /\ \A w \in Worlds :
                                Live(u, s, "m3u8", c, w) = "playlist" => OpenServes(w)
    BY DEF CheckingDoorsAgree
  <2> DEFINE e == Admits(u, c) /\ Authorizes(u, s, c)
             extras == <<SubtitleServes(u, s, c), ThumbServes(u, s, c), KeyServes(u, s, c)>>
  <2>1. SegmentServes(u, s, c) <=> Live(u, s, "m3u8", c, Served) \in Pictures
    BY CheckedPlays, PlaysWhenServed DEF Live, SegmentServes
  <2>2. /\ Live(u, s, "ts", c, Served) \in Pictures => e
        /\ Live(u, s, "m3u8", c, Served) \in Pictures => e
        /\ Rtmp(u, s, c, Served) \in Pictures => e
    BY CheckedPlays DEF Live, Rtmp
  <2>3. extras = <<e, e, e>>
    BY DEF SubtitleServes, ThumbServes, KeyServes
  <2>4. e \in BOOLEAN
    OBVIOUS
  <2>5. e = TRUE \/ e = FALSE
    BY <2>4
  <2>6. TimeshiftServes(u, s, c, "here") <=> e
    BY DEF TimeshiftServes
  <2>10. \A w \in Worlds : Live(u, s, "m3u8", c, w) = "playlist" => OpenServes(w)
    BY OpenDoors
  <2> HIDE DEF e, extras
  <2>7. extras = <<TRUE, TRUE, TRUE>> \/ extras = <<FALSE, FALSE, FALSE>>
    BY <2>3, <2>5
  <2>8. extras[1] <=> e
    BY <2>3, <2>4
  <2>9. e => extras = <<TRUE, TRUE, TRUE>>
    BY <2>3, <2>4
  <2> QED
    BY <2>1, <2>2, <2>6, <2>7, <2>8, <2>9, <2>10 DEF extras
<1> QED
  BY <1>1, TypeCorrect, RoutesOnlyRead, PTL

(* What Play finds in any surroundings.                                    *)
LEMMA PlayFinds ==
  ASSUME NEW f \in {"ts", "m3u8"}, NEW w \in World
  PROVE  /\ w.source /\ (w.direct \/ w.servers \cap {"main", "online"} # {}) =>
              Play(f, w) \in Pictures
         /\ Play(f, w) = "edge" => "main" \notin w.servers /\ "online" \in w.servers
<1>1. w.direct \in BOOLEAN /\ w.source \in BOOLEAN
  BY DEF World
<1>2. HlsAnswer(f, w) \in {"none", "playlist", "variants", "started"}
  BY <1>1 DEF HlsAnswer
<1>3. OffAir(f, w, "404") # "edge" /\ OffAir(f, w, "503") # "edge"
  BY OffAirIsNoPicture
<1> QED
  BY <1>1, <1>2, <1>3 DEF Play, OnLocalServer, SelectServer, Pictures

(* The live route shows a picture to those whom StreamAuth permits it, and *)
(* to each of them when there is something to play.                        *)
THEOREM PermittedSeePictures == DeliverySpec => []PicturesForThePermitted
<1>1. TypeOK => PicturesForThePermitted
  <2> SUFFICES ASSUME TypeOK, NEW u \in Users, NEW s \in Streams, NEW f \in {"ts", "m3u8"},
                      NEW c \in Clients, NEW w \in Worlds
               PROVE  LET may == Admits(u, c) /\ Authorizes(u, s, c) /\ RestreamPolicy(c)
                                 /\ CheckOutputFormatAllowed(u, f)
                          a == Live(u, s, f, c, w)
                      IN  /\ a \in Pictures => may
                          /\ (may /\ w.source /\ (w.direct \/ w.servers \cap {"main", "online"} # {}))
                                => a \in Pictures
                          /\ a = "edge" => "main" \notin w.servers /\ "online" \in w.servers
    BY DEF PicturesForThePermitted
  <2> DEFINE a == Live(u, s, f, c, w)
  <2>1. w \in World
    BY Settings
  <2>2. a \in Pictures <=>
          /\ Admits(u, c) /\ RestreamPolicy(c) /\ CheckOutputFormatAllowed(u, f)
          /\ Authorizes(u, s, c)
          /\ Play(f, w) \in Pictures
    BY CheckedPlays DEF Live
  <2>3. a = "edge" => Play(f, w) = "edge"
    <3>1. "edge" \in Pictures
      BY DEF Pictures
    <3>2. a \in Pictures => a = Play(f, w)
      BY OffAirIsNoPicture DEF Live, Checked
    <3> QED
      BY <3>1, <3>2
  <2> HIDE DEF a
  <2> QED
    BY <2>1, <2>2, <2>3, PlayFinds DEF a
<1> QED
  BY <1>1, TypeCorrect, RoutesOnlyRead, PTL
=============================================================================
