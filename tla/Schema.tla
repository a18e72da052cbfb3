------------------------------- MODULE Schema -------------------------------
(***************************************************************************)
(* The foreign keys of the database, as src/src/domain/models.py declares  *)
(* them.  A row is a pair <<table, id>>; of its columns only the foreign   *)
(* keys are kept.  Each definition below stands for one model class.       *)
(*                                                                         *)
(* A key says whether the column is required, what the database does to a  *)
(* referring row when the row it names goes ("CASCADE" deletes it,         *)
(* "SET_NULL" clears the column), and what SQLAlchemy does to it when that *)
(* row is deleted through a session: "orphans" when the relationship on    *)
(* the named class has cascade "all, delete-orphan", "nullify" when it has *)
(* no cascade, "database" when the named class has no such relationship.   *)
(* No relationship has passive_deletes.  The classes no code creates rows  *)
(* of (StreamLog, the Enigma2 and Ticket tables) are left out.             *)
(*                                                                         *)
(* A definition X_what is X with another declaration a maintainer could    *)
(* have written; nothing uses it.                                          *)
(***************************************************************************)
Key(of, column, to, required, rule, orm) ==
    [of |-> of, column |-> column, to |-> to,
     required |-> required, rule |-> rule, orm |-> orm]

Optional(of, column, to, orm) == Key(of, column, to, FALSE, "SET_NULL", orm)
Required(of, column, to, orm) == Key(of, column, to, TRUE, "CASCADE", orm)

StreamCategory == {Optional("categories", "parent", "categories", "nullify")}

Server == {Optional("servers", "parent", "servers", "nullify")}

Stream_goesWithCategory ==
    {Key("streams", "category", "categories", FALSE, "SET_NULL", "orphans"),
     Optional("streams", "archive_server", "servers", "database"),
     Optional("streams", "profile", "profiles", "nullify")}

Stream ==
    {Optional("streams", "category", "categories", "nullify"),
     Optional("streams", "archive_server", "servers", "database"),
     Optional("streams", "profile", "profiles", "nullify")}

User ==
    {Optional("users", "force_server", "servers", "nullify"),
     Optional("users", "reseller", "resellers", "database"),
     Optional("users", "group", "groups", "nullify")}

Line ==
    {Required("lines", "user", "users", "orphans"),
     Required("lines", "server", "servers", "nullify"),
     Required("lines", "stream", "streams", "nullify")}

ServerStream ==
    {Required("server_streams", "server", "servers", "orphans"),
     Required("server_streams", "stream", "streams", "orphans")}

EpgData == {Key("epg", "channel", "streams", FALSE, "CASCADE", "nullify")}

Movie == {Optional("movies", "category", "categories", "nullify")}

Series == {Optional("series", "category", "categories", "nullify")}

SeriesEpisode == {Required("episodes", "series", "series", "orphans")}

Package == {Optional("packages", "force_server", "servers", "nullify")}

Reseller == {Optional("resellers", "owner", "resellers", "nullify")}

UserActivity_setsNull ==
    {Required("activity", "user", "users", "orphans"),
     Key("activity", "stream", "streams", TRUE, "SET_NULL", "database"),
     Required("activity", "server", "servers", "nullify")}

UserActivity ==
    {Required("activity", "user", "users", "orphans"),
     Required("activity", "stream", "streams", "nullify"),
     Required("activity", "server", "servers", "nullify")}

Proxy == {Optional("proxies", "server", "servers", "nullify")}

MagDevice_keptByUser == {Required("mag_devices", "user", "users", "nullify")}

MagDevice == {Required("mag_devices", "user", "users", "orphans")}

StreamQueue ==
    {Required("queue", "stream", "streams", "database"),
     Required("queue", "server", "servers", "database")}

ScheduledRecording ==
    {Required("recordings", "stream", "streams", "database")}

Keys ==
    UNION {StreamCategory, Server, Stream, User, Line, ServerStream, EpgData,
           Movie, Series, SeriesEpisode, Package, Reseller, UserActivity,
           Proxy, MagDevice, StreamQueue, ScheduledRecording}

Tables == {k.of : k \in Keys} \cup {"groups", "profiles"}

KeyOf ==
    [t \in Tables |->
        [c \in {k.column : k \in {j \in Keys : j.of = t}} |->
            CHOOSE k \in Keys : k.of = t /\ k.column = c]]
Columns(table) == DOMAIN KeyOf[table]
=============================================================================
