------------------------------ MODULE Library ------------------------------
(***************************************************************************)
(* What the doors of the program show of the library: categories, films,   *)
(* series with their episodes, radios, created channels and the programme  *)
(* guide, to viewers (MAG portal, Enigma2 API, player API with playlist    *)
(* and XMLTV, web player) and to resellers (reseller API), all over rows   *)
(* that administrators change in between.                                  *)
(*                                                                         *)
(* The account itself is in order here: Portals is about enabled, expired  *)
(* and addresses.  A list that pages to its end is the set of its entries; *)
(* one that is cut off is cut off in its order, and a guide has its window *)
(* of time.  Abstracted: titles, the order in which entries are shown, the *)
(* source of a stream and the file behind a film or an episode.            *)
(*                                                                         *)
(* An operator X_what is X with a bug; no specification uses it.           *)
(***************************************************************************)
EXTENDS BouquetAccess, Integers, FiniteSets

CONSTANTS
    Cats,        \* category ids
    Films,       \* movie ids
    Shows,       \* series ids
    Episodes,    \* episode ids
    Programmes,  \* ids of rows of the guide
    EpgIds,      \* the names XMLTV gives channels
    Packages,    \* package ids
    Scopes,      \* bound: the ids in use are always within one of these sets
    NULL,
    WebLimit,          \* films, and series, on a list of the web player: 500
    CatalogLimit,      \* films of the playlist, series of an Enigma2 list: 10,000
    PlayerLimit,       \* films, and series, a list of the player API pages through: 500,000
    ShortLimit,        \* programmes of a short guide: 10
    MagGuideLimit,     \* of the guide of a MAG box: 100
    EnigmaGuideLimit,  \* of that of an Enigma2 box: 200
    LastTime,          \* bound: programmes and requests are in 0..LastTime
    Day                \* the length of a day

Ids == Cats \cup Streams \cup Films \cup Shows \cup Episodes \cup Programmes \cup Bids \cup Packages

ASSUME LibraryAssumption == NULL \notin Ids \cup EpgIds /\ Scopes \subseteq SUBSET (Ids \cup Words)

(* Every table has its own ids. *)
TableOfIds == [cat |-> Cats, stream |-> Streams, film |-> Films, show |-> Shows,
               episode |-> Episodes, programme |-> Programmes, bid |-> Bids, package |-> Packages]
ASSUME TablesApart ==
    \A t, u \in DOMAIN TableOfIds : t # u => TableOfIds[t] \cap TableOfIds[u] = {}

(* The newer of two films, or series, is the one with the higher id.       *)
ASSUME Numbered ==
    /\ Films \cup Shows \subseteq Nat
    /\ IsFiniteSet(Films) /\ IsFiniteSet(Shows) /\ IsFiniteSet(Programmes)

ASSUME LimitsInOrder ==
    /\ {WebLimit, CatalogLimit, PlayerLimit, ShortLimit, MagGuideLimit, EnigmaGuideLimit} \subseteq Nat
    /\ WebLimit <= CatalogLimit /\ CatalogLimit <= PlayerLimit
    /\ LastTime \in Nat /\ Day \in Nat

Times == 0..LastTime

VARIABLES
    rec,      \* the stored rows: id |-> record, NULL when there is none
    bouquet,  \* the viewer's bouquet string
    allowed   \* allowed_packages of the reseller, NULL when it is empty

libraryVars == <<rec, bouquet, allowed>>

Stored(ids) == {i \in ids : rec[i] # NULL}

StreamCategory == [type : {"live", "movie", "series", "radio"}]
(* Types 2 and 5 are created channels; 3 is treated like them nowhere and left out. *)
Stream ==
    [type : {"live", "channel", "radio"}, enabled : BOOLEAN,
     category : Cats \cup {NULL}, epg_channel_id : EpgIds \cup {NULL}]
Movie == [category : Cats \cup {NULL}]
Series == [category : Cats \cup {NULL}]
SeriesEpisode == [series : Shows, season : 0..2]
(* Nothing asks that a programme ends after it starts. *)
EpgData == [epg_id : EpgIds, channel : Streams \cup {NULL}, start : Times, end : Times]
Bouquet ==
    [channels : SUBSET Streams, movies : SUBSET Films,
     radios : SUBSET Streams, series : SUBSET Shows]
Package == [bouquets : SUBSET Bids]

Rows(i) ==
    CASE i \in Cats -> StreamCategory
      [] i \in Streams -> Stream
      [] i \in Films -> Movie
      [] i \in Shows -> Series
      [] i \in Episodes -> SeriesEpisode
      [] i \in Programmes -> EpgData
      [] i \in Bids -> Bouquet
      [] i \in Packages -> Package

ASSUME RowsAreStored == \A i \in Ids : NULL \notin Rows(i)

(* The foreign keys: what the row of i refers to is stored.  The lists of  *)
(* a bouquet and of a package are JSON, which the database does not check. *)
Refers(i, row) ==
    /\ i \in Streams \cup Films \cup Shows => row.category \in Stored(Cats) \cup {NULL}
    /\ i \in Episodes => row.series \in Stored(Shows)
    /\ i \in Programmes => row.channel \in Stored(Streams) \cup {NULL}

LibraryInit ==
    /\ rec = [i \in Ids |-> NULL]
    /\ bouquet = {}
    /\ allowed = NULL

-----------------------------------------------------------------------------
(* The services every door reads through                                   *)

(* CategoryService.get_all(category_type) *)
CategoriesOf(type) == {c \in Stored(Cats) : rec[c].type = type}

(* category_id = NULL stands for a request without one *)
InCategory(ids, category) == {i \in ids : category = NULL \/ rec[i].category = category}

GetLiveStreams(category) ==
    InCategory({s \in Stored(Streams) : rec[s].type = "live" /\ rec[s].enabled}, category)
GetMovies(category) == InCategory(Stored(Films), category)
GetSeries(category) == InCategory(Stored(Shows), category)

(* get_all(per_page = limit): the first page, newest first *)
NewerIn(ids, i) == {j \in ids : j > i}
Newest(limit, ids) == {i \in ids : Cardinality(NewerIn(ids, i)) < limit}

GetEpisodes(show) == {e \in Stored(Episodes) : rec[e].series = show}

(* EpgService.get_programs and its siblings go by the XMLTV name *)
Guide(epg) == {p \in Stored(Programmes) : rec[p].epg_id = epg}
StreamGuide(s) ==
    IF s \in Stored(Streams) /\ rec[s].epg_channel_id # NULL THEN Guide(rec[s].epg_channel_id) ELSE {}

(* What a query by start may answer that is cut off: any of those that     *)
(* start together may be the last.                                         *)
Earliest(limit, programmes) ==
    {T \in SUBSET programmes :
        /\ Cardinality(T) <= limit
        /\ T # programmes => Cardinality(T) = limit
        /\ \A p \in T, q \in programmes \ T : rec[p].start <= rec[q].start}

(* EpgService.get_programs: what is not over *)
ShortGuides(s, now) == Earliest(ShortLimit, {p \in StreamGuide(s) : rec[p].end >= now})

(* `ep.season_number or 1' *)
Season(e) == IF rec[e].season = 0 THEN 1 ELSE rec[e].season

(* One of a bouquet's lists, as the rows BouquetAccess is about. *)
Lists(list) ==
    [b \in Bids |->
        IF rec[b] = NULL THEN [NoBouquet EXCEPT !.state = "gone"]
        ELSE [state |-> "row", channels |-> rec[b][list]]]

-----------------------------------------------------------------------------
(* The MAG portal                                                          *)

MagMay(list, i) == MagAllows(bouquet, Lists(list), i)

MagChannels(category) == {s \in GetLiveStreams(category) : MagMay("channels", s)}
MagMovies_other(category) == {f \in Stored(Films) : MagMay("movies", f)}

MagMovies(category) == {f \in GetMovies(category) : MagMay("movies", f)}
MagSeries(category) == {h \in GetSeries(category) : MagMay("series", h)}

(* Without a restriction all categories of the type, with one those that   *)
(* have something in them for the viewer.                                  *)
CategoriesFor(type, ids) ==
    IF bouquet = {} THEN CategoriesOf(type)
    ELSE CategoriesOf(type) \cap {rec[i].category : i \in ids}

MagGenres_anyChannel == CategoriesFor("live", Stored(Streams))

MagGenres == CategoriesFor("live", MagChannels(NULL))
MagVodCategories == CategoriesFor("movie", MagMovies(NULL))
MagSeriesCategories == CategoriesFor("series", MagSeries(NULL))

MagShortGuides(s, now) == IF MagMay("channels", s) THEN ShortGuides(s, now) ELSE {{}}
(* get_epg takes the earliest of all, what is over included. *)
MagGuides(s) ==
    IF MagMay("channels", s) THEN Earliest(MagGuideLimit, StreamGuide(s)) ELSE {{}}

-----------------------------------------------------------------------------
(* The Enigma2 API                                                         *)

EnigmaChannels(b) ==
    IF b \in BouquetsForUser(bouquet, Lists("channels"))
    THEN GetLiveStreams(NULL) \cap rec[b].channels ELSE {}

EnigmaGuides_all(s) == Earliest(EnigmaGuideLimit, Stored(Programmes))

EnigmaGuides(s) ==
    IF s \in Stored(Streams) /\ rec[s].enabled
    THEN Earliest(EnigmaGuideLimit, StreamGuide(s)) ELSE {{}}
EnigmaSeries(category) == Newest(CatalogLimit, GetSeries(category))

EnigmaSeasons_raw(show) == {rec[e].season : e \in GetEpisodes(show)}

EnigmaSeasons(show) == {Season(e) : e \in GetEpisodes(show)}
EnigmaEpisodes(show, season) == {e \in GetEpisodes(show) : Season(e) = season}

-----------------------------------------------------------------------------
(* The player API, its playlist and XMLTV file, and the web player         *)

PlayerCategories ==
    [live |-> CategoriesOf("live") \cup CategoriesOf("radio"),
     movie |-> CategoriesOf("movie"), series |-> CategoriesOf("series")]
PlayerLists(category) ==
    GetLiveStreams(category)
        \cup Newest(PlayerLimit, GetMovies(category)) \cup Newest(PlayerLimit, GetSeries(category))
PlayerSeriesInfo(show) ==
    [n \in {Season(e) : e \in GetEpisodes(show)} |-> {e \in GetEpisodes(show) : Season(e) = n}]
(* get_epg within what the client asks for, or the week from now;          *)
(* get_simple_data_table from six hours ago to the day after tomorrow.     *)
PlayerGuide(s, from, until) ==
    LET last == IF until <= from THEN from + Day ELSE until
    IN  {p \in StreamGuide(s) : rec[p].end > from /\ rec[p].start < last}

Playlist == GetLiveStreams(NULL) \cup Newest(CatalogLimit, GetMovies(NULL))
Xmltv ==
    UNION {Guide(rec[s].epg_channel_id) :
              s \in {t \in GetLiveStreams(NULL) : rec[t].epg_channel_id # NULL}}

WebCategories == CategoriesOf("live") \cup CategoriesOf("movie") \cup CategoriesOf("series")
WebLists(category) ==
    GetLiveStreams(category)
        \cup Newest(WebLimit, GetMovies(category)) \cup Newest(WebLimit, GetSeries(category))
WebEpisodes(show) == GetEpisodes(show)

(* The live route asks the bouquets of a created channel like of any other. *)
LivePlays(s) ==
    /\ s \in Stored(Streams)
    /\ rec[s].enabled
    /\ CheckBouquetAccess(FALSE, bouquet, Lists("channels"), s)
=============================================================================
