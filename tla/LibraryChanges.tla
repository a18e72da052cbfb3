--------------------------- MODULE LibraryChanges ---------------------------
(***************************************************************************)
(* What the reseller API shows of the Library, the administrators'         *)
(* requests that change its rows, and what the doors owe one another.  An  *)
(* operator X_what is X with a bug; no specification uses it.              *)
(***************************************************************************)
EXTENDS Library

-----------------------------------------------------------------------------
(* The reseller API                                                        *)

(* _reseller_content_scope: an id without a row gives nothing. *)
ContentScope(list) ==
    UNION {rec[b][list] :
              b \in Stored(UNION {rec[p].bouquets : p \in Stored(allowed)})}

InScope_emptyIsAll(ids, list) ==
    IF allowed = NULL \/ ContentScope(list) = {} THEN ids ELSE ids \cap ContentScope(list)

(* No allowed packages at all is no restriction. *)
InScope(ids, list) == IF allowed = NULL THEN ids ELSE ids \cap ContentScope(list)

ResellerPackages == IF allowed = NULL THEN Stored(Packages) ELSE Stored(allowed)
ResellerStreams(category) == InScope(GetLiveStreams(category), "channels")
ResellerMovies(category) == InScope(GetMovies(category), "movies")
ResellerRadios == InScope({s \in Stored(Streams) : rec[s].type = "radio"}, "radios")
ResellerChannels == InScope({s \in Stored(Streams) : rec[s].type = "channel"}, "channels")
ResellerEpisodes ==
    IF allowed = NULL THEN Stored(Episodes)
    ELSE {e \in Stored(Episodes) : rec[e].series \in ContentScope("series")}

(* The guide goes by the channel the programmes are linked to. *)
ResellerGuide(s, channel) ==
    {p \in Stored(Programmes) : channel[p] = s /\ (allowed = NULL \/ s \in ContentScope("channels"))}

-----------------------------------------------------------------------------
(* Requests that change the rows                                           *)

(* the stored rows, and what lists and strings hold *)
InUse ==
    Stored(Ids)
        \cup UNION {rec[b].channels \cup rec[b].movies \cup rec[b].radios \cup rec[b].series :
                      b \in Stored(Bids)}
        \cup UNION {rec[p].bouquets : p \in Stored(Packages)}
        \cup bouquet
        \cup (IF allowed = NULL THEN {} ELSE allowed)
Fits == {scope \in Scopes : InUse' \subseteq scope} # {}

(* bound: a bouquet gets lists of ids that fit together with the rows *)
Room(i) == UNION {scope \in Scopes : Stored(Ids) \cup {i} \subseteq scope}
RowsWithin(i, ids) ==
    IF i \notin Bids THEN Rows(i)
    ELSE [channels : SUBSET (Streams \cap ids), movies : SUBSET (Films \cap ids),
          radios : SUBSET (Streams \cap ids), series : SUBSET (Shows \cap ids)]

(* A row is created or overwritten; what it refers to is stored. *)
Save(i) ==
    /\ Room(i) # {}
    /\ \E row \in RowsWithin(i, Room(i)) : Refers(i, row) /\ rec' = [rec EXCEPT ![i] = row]
    /\ UNCHANGED <<bouquet, allowed>>
    /\ Fits

(* The keys of Schema: a category is cleared from the rows in it, episodes *)
(* go with their series, programmes of a stream lose it or go with it; the *)
(* JSON lists and strings keep the id.                                     *)
DeleteRow(i) ==
    /\ rec[i] # NULL
    /\ \E programmes \in {"cleared", "deleted"} :
          rec' = [j \in Ids |->
              IF j = i \/ rec[j] = NULL THEN NULL
              ELSE IF j \in Streams \cup Films \cup Shows /\ rec[j].category = i
                   THEN [rec[j] EXCEPT !.category = NULL]
              ELSE IF j \in Episodes /\ rec[j].series = i THEN NULL
              ELSE IF j \in Programmes /\ rec[j].channel = i
                   THEN IF programmes = "cleared" THEN [rec[j] EXCEPT !.channel = NULL] ELSE NULL
              ELSE rec[j]]
    /\ UNCHANGED <<bouquet, allowed>>

(* The streams that may get a name: whichever comes last of those that have it. *)
ChannelsOf(name) ==
    LET named == {s \in Stored(Streams) : rec[s].epg_channel_id = name}
    IN  IF named = {} THEN {NULL} ELSE named

Links_onlyNew ==
    {[p \in Stored(Programmes) |->
         IF rec[p].channel = NULL THEN channelOf[rec[p].epg_id] ELSE rec[p].channel] :
        channelOf \in {f \in [EpgIds -> Streams \cup {NULL}] : \A n \in EpgIds : f[n] \in ChannelsOf(n)}}

(* What EpgService.link_channels gives the programmes for channels; one    *)
(* whose name no stream has keeps the channel it had.                      *)
Links ==
    {[p \in Stored(Programmes) |->
         IF channelOf[rec[p].epg_id] # NULL THEN channelOf[rec[p].epg_id] ELSE rec[p].channel] :
        channelOf \in {f \in [EpgIds -> Streams \cup {NULL}] : \A n \in EpgIds : f[n] \in ChannelsOf(n)}}

LinkChannels ==
    /\ \E links \in Links :
          rec' = [j \in Ids |->
                    IF j \in Stored(Programmes) THEN [rec[j] EXCEPT !.channel = links[j]] ELSE rec[j]]
    /\ UNCHANGED <<bouquet, allowed>>

(* cron:epg: the programmes that ended a week ago go, the others are linked. *)
CronEpg ==
    /\ \E old \in SUBSET Stored(Programmes), links \in Links :
          rec' = [j \in Ids |->
                    IF j \in old THEN NULL
                    ELSE IF j \in Stored(Programmes) THEN [rec[j] EXCEPT !.channel = links[j]]
                    ELSE rec[j]]
    /\ UNCHANGED <<bouquet, allowed>>

(* The viewer's string and the reseller's packages are edited freely. *)
EditBouquet == bouquet' \in BouquetStrings /\ UNCHANGED <<rec, allowed>> /\ Fits
AllowPackages == allowed' \in {NULL} \cup SUBSET Packages /\ UNCHANGED <<rec, bouquet>> /\ Fits

LibraryNext ==
    \/ \E i \in Ids : Save(i) \/ DeleteRow(i)
    \/ LinkChannels
    \/ CronEpg
    \/ EditBouquet
    \/ AllowPackages

LibrarySpec == LibraryInit /\ [][LibraryNext]_libraryVars

LibraryTypeOK ==
    /\ rec = [i \in Ids |-> rec[i]]
    /\ \A i \in Stored(Ids) : rec[i] \in Rows(i)
    /\ bouquet \in BouquetStrings
    /\ allowed \in {NULL} \cup SUBSET Packages

(* Whatever is deleted, no row refers to one that is gone, and what is     *)
(* stored has the shape of its table.                                      *)
LibraryIInv == LibraryTypeOK /\ \A i \in Stored(Ids) : Refers(i, rec[i])

-----------------------------------------------------------------------------
(* A restricted viewer's MAG menus lead somewhere and leave nothing out:   *)
(* every genre and category he is offered has something in it for him, and *)
(* whatever is in a category of its type is under one of them.             *)
MenusLead ==
    bouquet # {} =>
        /\ \A c \in Stored(Cats) :
              /\ c \in MagGenres <=> rec[c].type = "live" /\ MagChannels(c) # {}
              /\ c \in MagVodCategories <=> rec[c].type = "movie" /\ MagMovies(c) # {}
              /\ c \in MagSeriesCategories <=> rec[c].type = "series" /\ MagSeries(c) # {}

(* A film, or series, is on a list that holds so many, or at least as many *)
(* newer ones are stored that belong on it.                                *)
Fit(i, list, limit, ids) == i \in list \/ Cardinality(NewerIn(ids, i)) >= limit

(* Whatever a box is offered under a category, the player API and the web  *)
(* player list under the same category, which they name in their menus,    *)
(* and the playlist has it: a channel always, a film or a series as long   *)
(* as no list's fill of newer ones is there.  Of two lists the one that    *)
(* holds less shows nothing the other does not, and what is on the web     *)
(* player's list of everything is on that of its category.                 *)
OffersAreListed ==
    /\ \A c \in Stored(Cats) \cup {NULL} :
          /\ MagChannels(c) \cup UNION {EnigmaChannels(b) \cap GetLiveStreams(c) : b \in Stored(Bids)}
                \subseteq PlayerLists(c) \cap WebLists(c) \cap Playlist
          /\ \A f \in MagMovies(c) :
                /\ Fit(f, PlayerLists(c), PlayerLimit, GetMovies(c))
                /\ Fit(f, WebLists(c), WebLimit, GetMovies(c))
                /\ Fit(f, Playlist, CatalogLimit, GetMovies(NULL))
          /\ \A h \in MagSeries(c) :
                /\ Fit(h, PlayerLists(c), PlayerLimit, GetSeries(c))
                /\ Fit(h, WebLists(c), WebLimit, GetSeries(c))
          /\ WebLists(c) \subseteq PlayerLists(c)
          /\ \A i \in WebLists(NULL) : rec[i].category = c => i \in WebLists(c)
    /\ \A c \in Stored(Cats) :
          WebLists(c) \cap Shows \subseteq EnigmaSeries(c) /\ EnigmaSeries(c) \subseteq PlayerLists(c)
    /\ WebLists(NULL) \ Shows \subseteq Playlist
    /\ MagGenres \subseteq PlayerCategories.live \cap WebCategories
    /\ MagVodCategories \subseteq PlayerCategories.movie \cap WebCategories
    /\ MagSeriesCategories \subseteq PlayerCategories.series \cap WebCategories

(* A guide lists a programme, or as many as it holds that start no later. *)
Reaches(guide, limit, p) ==
    p \in guide \/ (Cardinality(guide) = limit /\ \A q \in guide : rec[q].start <= rec[p].start)

(* For a channel a box is offered, the XMLTV file has the whole guide, the *)
(* others show nothing else under that channel, and a box misses of it     *)
(* only what follows as many programmes as its guide holds; the short      *)
(* guide, the same on MAG and the player API, likewise of what the player  *)
(* API shows from now on.                                                  *)
GuidesAgree ==
    /\ \A s \in MagChannels(NULL) \cup UNION {EnigmaChannels(b) : b \in Stored(Bids)} :
          LET guide == {p \in Xmltv : rec[p].epg_id = rec[s].epg_channel_id}
          IN  /\ s \in Playlist
              /\ \A shown \in EnigmaGuides(s) :
                    shown \subseteq guide /\ \A p \in guide : Reaches(shown, EnigmaGuideLimit, p)
              /\ s \in MagChannels(NULL) =>
                    \A shown \in MagGuides(s) :
                        shown \subseteq guide /\ \A p \in guide : Reaches(shown, MagGuideLimit, p)
              /\ \A from, until \in Times : PlayerGuide(s, from, until) \subseteq guide
              /\ \A now, until \in Times :
                    /\ s \in MagChannels(NULL) => MagShortGuides(s, now) = ShortGuides(s, now)
                    /\ \A shown \in ShortGuides(s, now) :
                          /\ shown \subseteq guide
                          /\ \A p \in PlayerGuide(s, now, until) : Reaches(shown, ShortLimit, p)
    /\ Xmltv = UNION {StreamGuide(s) : s \in GetLiveStreams(NULL)}

(* The seasons the Enigma2 API names hold, each with its own list, exactly *)
(* the episodes the player API and the web player show of the series.      *)
EpisodesAgree ==
    \A h \in Stored(Shows) :
        /\ DOMAIN PlayerSeriesInfo(h) = EnigmaSeasons(h)
        /\ \A n \in EnigmaSeasons(h) : EnigmaEpisodes(h, n) = PlayerSeriesInfo(h)[n]
        /\ UNION {EnigmaEpisodes(h, n) : n \in EnigmaSeasons(h)} = WebEpisodes(h)

(* A reseller is shown the channels, films and episodes that a viewer with *)
(* the bouquets of the packages he sells finds on his boxes, neither more  *)
(* nor less, whatever was deleted meanwhile.  Of the created channels he   *)
(* is shown, the enabled ones and no others are those the live route plays *)
(* for such a viewer; a disabled one is on his list and plays for nobody.  *)
(* The radios, enabled or not, are those of the bouquets' radio lists,     *)
(* which no door asks about on behalf of a viewer.                         *)
ScopeIsWhatViewersGet ==
    LET granted == UNION {rec[p].bouquets : p \in ResellerPackages}
        created == {s \in Stored(Streams) : rec[s].type = "channel"}
        radios == {s \in Stored(Streams) : rec[s].type = "radio"}
    IN  (allowed # NULL /\ granted # {} /\ bouquet = granted) =>
            /\ ResellerStreams(NULL) = MagChannels(NULL)
            /\ ResellerStreams(NULL) = UNION {EnigmaChannels(b) : b \in Bids}
            /\ ResellerMovies(NULL) = MagMovies(NULL)
            /\ {s \in ResellerChannels : rec[s].enabled} = {s \in created : LivePlays(s)}
            /\ ResellerRadios =
                  {s \in radios : CheckBouquetAccess(FALSE, bouquet, Lists("radios"), s)}
            /\ ResellerEpisodes = UNION {GetEpisodes(h) : h \in MagSeries(NULL)}

(* Whenever link_channels runs, a reseller then finds under a channel the  *)
(* programmes his viewers find there, when no other channel has its name.  *)
LinkedGuides ==
    \A links \in Links, s \in Stored(Streams) :
        (/\ \A t \in Stored(Streams) \ {s} : rec[t].epg_channel_id # rec[s].epg_channel_id
         /\ allowed = NULL \/ s \in ContentScope("channels"))
        => StreamGuide(s) \subseteq ResellerGuide(s, links)
=============================================================================
