--------------------------- MODULE BackofficeProofs ---------------------------
(***************************************************************************)
(* The back office keeps its rows together, for any rows and any bounds:   *)
(* Integrity is inductive.  Every request adds a row, rewrites some, or    *)
(* removes some with what the keys take along (Grown, Rewritten, Shrunk);  *)
(* the lemmas below say of each which it is, and that each keeps           *)
(* Integrity.                                                              *)
(***************************************************************************)
EXTENDS Backoffice, TLAPS

-----------------------------------------------------------------------------
(* The keys of the schema *)

(* The tables whose rows a service deletes before the row they refer to,   *)
(* and the columns that no request writes after it has created the row.    *)
PurgedTables == {"lines", "activity", "server_streams", "episodes"}
Fixed(t, c) == t \in {"activity", "server_streams"} \/ (t = "lines" /\ c = "user")

(* A required key cascades; one that a session would clear belongs to the  *)
(* lines or the activity of a stream or a server; and the columns that     *)
(* requests write by name refer to the tables they should.  What goes with *)
(* a row as its orphan also goes with it by a cascade, and it stays its    *)
(* own, unless it is a device, which moves to another user, or an episode. *)
Sound(k) ==
    /\ k.required => k.rule = "CASCADE"
    /\ k.required /\ k.orm = "nullify" =>
          k.of \in {"lines", "activity"} /\ k.to \in {"streams", "servers"}
    /\ k.of = "users" /\ k.column = "force_server" => k.to = "servers"
    /\ k.of = "users" /\ k.column = "group" => k.to = "groups" /\ ~k.required
    /\ k.of = "streams" /\ k.column = "category" => k.to = "categories"
    /\ k.of = "epg" => k.column = "channel" /\ k.to = "streams"
    /\ k.of \in PurgedTables => k.rule = "CASCADE"
    /\ k.to \in {"users", "series"} => k.orm # "nullify"
    /\ k.orm = "orphans" =>
          /\ k.rule = "CASCADE"
          /\ \/ Fixed(k.of, k.column)
             \/ k.of = "mag_devices" /\ k.to = "users"
             \/ k.of = "episodes" /\ k.to = "series"
    /\ Fixed(k.of, k.column) => k.required

(* So is every key of the schema. *)
LEMMA KeysAreSound == \A k \in Keys : Sound(k)
<1>1. \A k \in StreamCategory : Sound(k)
  BY DEF StreamCategory, Optional, Required, Key, Sound, PurgedTables, Fixed
<1>2. \A k \in Server : Sound(k)
  BY DEF Server, Optional, Required, Key, Sound, PurgedTables, Fixed
<1>3. \A k \in Stream : Sound(k)
  BY DEF Stream, Optional, Required, Key, Sound, PurgedTables, Fixed
<1>4. \A k \in User : Sound(k)
  BY DEF User, Optional, Required, Key, Sound, PurgedTables, Fixed
<1>5. \A k \in Line : Sound(k)
  BY DEF Line, Optional, Required, Key, Sound, PurgedTables, Fixed
<1>6. \A k \in ServerStream : Sound(k)
  BY DEF ServerStream, Optional, Required, Key, Sound, PurgedTables, Fixed
<1>7. \A k \in EpgData : Sound(k)
  BY DEF EpgData, Optional, Required, Key, Sound, PurgedTables, Fixed
<1>8. \A k \in Movie : Sound(k)
  BY DEF Movie, Optional, Required, Key, Sound, PurgedTables, Fixed
<1>9. \A k \in Series : Sound(k)
  BY DEF Series, Optional, Required, Key, Sound, PurgedTables, Fixed
<1>10. \A k \in SeriesEpisode : Sound(k)
  BY DEF SeriesEpisode, Optional, Required, Key, Sound, PurgedTables, Fixed
<1>11. \A k \in Package : Sound(k)
  BY DEF Package, Optional, Required, Key, Sound, PurgedTables, Fixed
<1>12. \A k \in Reseller : Sound(k)
  BY DEF Reseller, Optional, Required, Key, Sound, PurgedTables, Fixed
<1>13. \A k \in UserActivity : Sound(k)
  BY DEF UserActivity, Optional, Required, Key, Sound, PurgedTables, Fixed
<1>14. \A k \in Proxy : Sound(k)
  BY DEF Proxy, Optional, Required, Key, Sound, PurgedTables, Fixed
<1>15. \A k \in MagDevice : Sound(k)
  BY DEF MagDevice, Optional, Required, Key, Sound, PurgedTables, Fixed
<1>16. \A k \in StreamQueue : Sound(k)
  BY DEF StreamQueue, Optional, Required, Key, Sound, PurgedTables, Fixed
<1>17. \A k \in ScheduledRecording : Sound(k)
  BY DEF ScheduledRecording, Optional, Required, Key, Sound, PurgedTables, Fixed
<1> QED
  BY <1>1, <1>2, <1>3, <1>4, <1>5, <1>6, <1>7, <1>8, <1>9, <1>10, <1>11,
      <1>12, <1>13, <1>14, <1>15, <1>16, <1>17 DEF Keys

(* A column's key is a key of its table. *)
LEMMA ColumnKeys ==
  ASSUME NEW t \in Tables, NEW c \in Columns(t)
  PROVE  KeyOf[t][c] \in Keys /\ KeyOf[t][c].of = t /\ KeyOf[t][c].column = c
<1>1. PICK k \in Keys : k.of = t /\ k.column = c
  BY DEF Columns, KeyOf
<1>2. KeyOf[t][c] = CHOOSE j \in Keys : j.of = t /\ j.column = c
  BY DEF Columns, KeyOf
<1> QED
  BY <1>1, <1>2

(* What a stored row names, and that it is nothing else. *)
LEMMA RowValues ==
  ASSUME NEW t \in Tables, NEW v
  PROVE  /\ v \in Values(t) <=> /\ v = [c \in Columns(t) |-> v[c]]
                                /\ \A c \in Columns(t) : v[c] \in Allowed(t, c)
         /\ v \in Values(t)' <=> /\ v = [c \in Columns(t) |-> v[c]]
                                 /\ \A c \in Columns(t) : v[c] \in Allowed(t, c)'
  BY DEF Values

-----------------------------------------------------------------------------
(* The three kinds of steps *)

(* A row is added, with an id that no session holds. *)
Grown ==
    /\ \E r \in AllRows \ (Stored \cup Held) : \E v \in Values(r[1]) :
          db' = [x \in Stored \cup {r} |-> IF x = r THEN v ELSE db[x]]
    /\ UNCHANGED tx

(* Columns of stored rows get values their keys allow. *)
Rewritten ==
    /\ DOMAIN db' = Stored
    /\ \A x \in Stored :
          /\ db'[x] = [c \in Columns(x[1]) |-> db'[x][c]]
          /\ \A c \in Columns(x[1]) :
                /\ db'[x][c] \in {db[x][c]} \cup Allowed(x[1], c)
                /\ Fixed(x[1], c) => db'[x][c] = db[x][c]
    /\ UNCHANGED tx

(* Rows are removed, after columns that may be NULL were cleared. *)
Shrunk ==
    \E gone \in SUBSET Stored : \E cleared :
        /\ \A cell \in cleared : ~KeyAt(cell).required
        /\ Remove(gone, cleared)

(* A DELETE statement names rows of one table. *)
StatementDelete ==
    /\ \E t : \E gone \in SUBSET Of(t) : Remove(gone \cap Stored, {})
    /\ UNCHANGED tx

(* The tables and columns of stored rows. *)
LEMMA StoredRows ==
  ASSUME Integrity, NEW x \in Stored
  PROVE  /\ x \in AllRows
         /\ x # NULL
         /\ x[1] \in Tables
         /\ db[x] = [c \in Columns(x[1]) |-> db[x][c]]
         /\ \A c \in Columns(x[1]) : db[x][c] \in Allowed(x[1], c)
<1>1. x \in AllRows /\ x[1] \in Tables /\ x # NULL
  BY DatabaseAssumption DEF Integrity
<1>2. db[x] \in Values(x[1])
  BY DEF Integrity
<1> QED
  BY <1>1, <1>2, RowValues

(* A new row names rows that are there. *)
LEMMA GrownKeeps == Integrity /\ Grown => Integrity'
<1> SUFFICES ASSUME Integrity, Grown PROVE Integrity'
  OBVIOUS
<1>r. PICK r \in AllRows \ (Stored \cup Held) :
          \E v \in Values(r[1]) : db' = [x \in Stored \cup {r} |-> IF x = r THEN v ELSE db[x]]
  BY DEF Grown
<1>1. PICK v \in Values(r[1]) :
          db' = [x \in Stored \cup {r} |-> IF x = r THEN v ELSE db[x]]
  BY <1>r
<1>2. Stored' = Stored \cup {r}
  BY <1>1 DEF Stored
<1>3. r[1] \in Tables
  BY <1>1, DatabaseAssumption
<1>4. \A t, c : Allowed(t, c) \subseteq Allowed(t, c)'
  BY <1>2 DEF Allowed, Of
<1>5. \A x \in Stored' : x \in AllRows /\ db'[x] \in Values(x[1])'
  <2> TAKE x \in Stored'
  <2>1. CASE x = r
    <3>1. db'[x] = v
      BY <1>1, <2>1
    <3>2. /\ v = [c \in Columns(x[1]) |-> v[c]]
          /\ \A c \in Columns(x[1]) : v[c] \in Allowed(x[1], c)
      BY <1>1, <1>3, <2>1, RowValues
    <3> QED
      BY <1>1, <1>3, <1>4, <2>1, <3>1, <3>2, RowValues
  <2>2. CASE x # r
    <3>1. x \in Stored /\ db'[x] = db[x]
      BY <1>1, <1>2, <2>2
    <3> QED
      BY <1>4, <3>1, StoredRows, RowValues
  <2> QED
    BY <2>1, <2>2
<1> QED
  BY <1>5 DEF Integrity

(* So does every value that its key allows. *)
LEMMA RewrittenKeeps == Integrity /\ Rewritten => Integrity'
<1> SUFFICES ASSUME Integrity, Rewritten PROVE Integrity'
  OBVIOUS
<1>1. Stored' = Stored
  BY DEF Rewritten, Stored
<1>2. \A t, c : Allowed(t, c)' = Allowed(t, c)
  BY <1>1 DEF Allowed, Of
<1>3. ASSUME NEW x \in Stored PROVE x \in AllRows /\ db'[x] \in Values(x[1])'
  <2>1. \A c \in Columns(x[1]) : db'[x][c] \in Allowed(x[1], c)
    BY StoredRows DEF Rewritten
  <2> QED
    BY <1>2, <2>1, StoredRows, RowValues DEF Rewritten
<1> QED
  BY <1>1, <1>3 DEF Integrity

(* A row that stays loses no required column: its key cascades, so that it *)
(* would go along with the row it names, and no row goes that is named by  *)
(* one that stays only because of a second cascade.                        *)
LEMMA ShrunkKeeps == Integrity /\ Shrunk => Integrity'
<1> SUFFICES ASSUME Integrity, Shrunk PROVE Integrity'
  OBVIOUS
<1> PICK gone \in SUBSET Stored : \E cleared :
        /\ \A cell \in cleared : ~KeyAt(cell).required
        /\ Remove(gone, cleared)
  BY DEF Shrunk
<1> PICK cleared :
        /\ \A cell \in cleared : ~KeyAt(cell).required
        /\ Remove(gone, cleared)
  OBVIOUS
<1> DEFINE out == Cascade(gone, cleared)
           Lost(x, c) == db[x][c] \in out \/ <<x, c>> \in cleared
<1>1. db' = [x \in Stored \ out |-> [c \in Columns(x[1]) |-> IF Lost(x, c) THEN NULL ELSE db[x][c]]]
  BY DEF Remove
<1>2. Stored' = Stored \ out
  BY <1>1 DEF Stored
<1> HIDE DEF out
<1>3. ASSUME NEW x \in Stored \ out, NEW c \in Columns(x[1]), KeyOf[x[1]][c].required
      PROVE  ~Lost(x, c)
  <2> DEFINE k == KeyOf[x[1]][c]
  <2>1. k \in Keys /\ k.rule = "CASCADE"
    BY <1>3, StoredRows, ColumnKeys, KeysAreSound DEF Sound
  <2>2. db[x][c] \in Stored /\ db[x][c][1] = k.to
    BY <1>3, StoredRows DEF Allowed, Of
  <2>3. <<x, c>> \notin cleared
    BY <1>3 DEF KeyAt
  <2>4. db[x][c] \notin gone
    BY <1>3, <2>1, <2>3 DEF out, Cascade
  <2>5. ASSUME db[x][c] \in out PROVE FALSE
    <3>1. PICK d \in Columns(k.to) : KeyOf[k.to][d].rule = "CASCADE"
      BY <2>2, <2>4, <2>5 DEF out, Cascade
    <3>2. k.to \in Tables
      BY <2>2, StoredRows
    <3>3. KeyOf[k.to][d] \in Keys /\ KeyOf[k.to][d].of = k.to
      BY <3>2, ColumnKeys
    <3> QED
      BY <2>1, <3>1, <3>3, CascadeAssumption
  <2> QED
    BY <2>3, <2>5
<1>4. ASSUME NEW x \in Stored \ out PROVE x \in AllRows /\ db'[x] \in Values(x[1])'
  <2>1. ASSUME NEW c \in Columns(x[1]) PROVE db'[x][c] \in Allowed(x[1], c)'
    <3>1. CASE Lost(x, c)
      <4>1. db'[x][c] = NULL /\ ~KeyOf[x[1]][c].required
        BY <1>1, <1>3, <3>1
      <4> QED
        BY <4>1 DEF Allowed
    <3>2. CASE ~Lost(x, c)
      <4>1. db'[x][c] = db[x][c] /\ db[x][c] \notin out
        BY <1>1, <3>2
      <4> QED
        BY <1>2, <4>1, StoredRows DEF Allowed, Of
    <3> QED
      BY <3>1, <3>2
  <2>2. db'[x] = [c \in Columns(x[1]) |-> db'[x][c]]
    BY <1>1
  <2> QED
    BY <2>1, <2>2, StoredRows, RowValues
<1> QED
  BY <1>2, <1>4 DEF Integrity

-----------------------------------------------------------------------------
(* The services' operations: each is a step of one of the three kinds *)

(* A create adds a row. *)
LEMMA InsertGrows ==
  ASSUME NEW t, NEW columns, NEW flags, Create(t, columns, flags)
  PROVE  Grown
  BY DEF Create, Insert, Fresh, Grown

(* An update rewrites one. *)
LEMMA UpdateRewrites ==
  ASSUME Integrity, NEW t, NEW rows \in SUBSET Of(t), NEW columns, NEW flags,
         \A c \in columns : ~Fixed(t, c),
         Update(rows, columns, flags)
  PROVE  Rewritten
<1>r. PICK r \in rows : \E v \in Values(r[1]) :
          /\ \A c \in Columns(r[1]) : v[c] = db[r][c] \/ c \in columns
          /\ db' = [x \in Stored |-> IF x = r THEN v ELSE db[x]]
          /\ UNCHANGED tx
  BY DEF Update, Write
<1>1. PICK v \in Values(r[1]) :
          /\ \A c \in Columns(r[1]) : v[c] = db[r][c] \/ c \in columns
          /\ db' = [x \in Stored |-> IF x = r THEN v ELSE db[x]]
          /\ UNCHANGED tx
  BY <1>r
<1>2. /\ r \in Stored /\ r[1] = t
      /\ v = [c \in Columns(r[1]) |-> v[c]]
      /\ \A c \in Columns(r[1]) : v[c] \in Allowed(r[1], c)
  <2>1. r \in Stored /\ r[1] = t
    BY DEF Of
  <2> QED
    BY <2>1, StoredRows, RowValues
<1>3. ASSUME NEW x \in Stored
      PROVE  /\ db'[x] = [c \in Columns(x[1]) |-> db'[x][c]]
             /\ \A c \in Columns(x[1]) :
                   /\ db'[x][c] \in {db[x][c]} \cup Allowed(x[1], c)
                   /\ Fixed(x[1], c) => db'[x][c] = db[x][c]
  <2>1. CASE x = r
    BY <1>1, <1>2, <2>1
  <2>2. CASE x # r
    BY <1>1, <2>2, StoredRows
  <2> QED
    BY <2>1, <2>2
<1> QED
  BY <1>1, <1>3 DEF Rewritten

(* A DELETE statement removes rows and clears nothing itself. *)
LEMMA QueryDeleteShrinks ==
  ASSUME NEW t, NEW rows \in SUBSET Of(t), QueryDelete(rows)
  PROVE  Shrunk /\ StatementDelete
<1>1. rows \cap Stored \in SUBSET Stored
  OBVIOUS
<1>2. rows \cap Stored \in SUBSET Of(t)
  OBVIOUS
<1> QED
  BY <1>1, <1>2 DEF QueryDelete, Shrunk, StatementDelete

(* A session clears only columns that may be NULL, or refuses. *)
LEMMA FlushShrinks == Flush => Shrunk /\ tx' = Idle
<1> SUFFICES ASSUME Flush PROVE Shrunk /\ tx' = Idle
  OBVIOUS
<1> DEFINE gone == ({tx.row} \cup Purged \cup {cell[1] : cell \in Loaded("orphans")}) \cap Stored
<1>1. gone \in SUBSET Stored
  OBVIOUS
<1>2. \A cell \in Loaded("nullify") : ~KeyAt(cell).required
  BY DEF Flush, Refused
<1>3. Remove(gone, Loaded("nullify")) /\ tx' = Idle
  BY DEF Flush
<1> HIDE DEF gone
<1> QED
  BY <1>1, <1>2, <1>3 DEF Shrunk

(* A mass update takes any column to any value of its key. *)
LEMMA MassUpdateRewrites ==
  ASSUME Integrity, NEW t \in {"streams", "users", "movies", "episodes"},
         NEW rows \in SUBSET Of(t), NEW switches,
         MassUpdate(t, rows, switches)
  PROVE  Rewritten
<1>1. PICK ids \in SUBSET rows \ {{}} :
        \/ \E column \in Columns(t) : \E value \in Allowed(t, column) :
              Write([x \in ids |-> [db[x] EXCEPT ![column] = value]])
        \/ UNCHANGED <<db, tx>>
  BY DEF MassUpdate
<1>2. CASE UNCHANGED <<db, tx>>
  BY <1>2, StoredRows DEF Rewritten, Stored
<1>3. CASE \E column \in Columns(t) : \E value \in Allowed(t, column) :
              Write([x \in ids |-> [db[x] EXCEPT ![column] = value]])
  <2>1. PICK column \in Columns(t) : \E value \in Allowed(t, column) :
              Write([x \in ids |-> [db[x] EXCEPT ![column] = value]])
    BY <1>3
  <2>2. PICK value \in Allowed(t, column) :
              Write([x \in ids |-> [db[x] EXCEPT ![column] = value]])
    BY <2>1
  <2>3. \A x \in ids : x[1] = t
    BY <1>1 DEF Of
  <2> QED
    BY <2>2, <2>3, StoredRows DEF Write, Rewritten, Fixed
<1> QED
  BY <1>1, <1>2, <1>3

-----------------------------------------------------------------------------
(* The requests *)

(* A request takes its rows for a delete through the session. *)
Begun ==
    \E r \in Stored : \E purge :
        SessionDelete(r, purge) /\ \A p \in purge : p[1] \in PurgedTables

(* Every request that adds a row. *)
Adds ==
    \/ CreateCategory \/ CreateServer \/ CreatePackage \/ CreateReseller
    \/ CreateProxy \/ CreateProfile \/ CreateStream \/ CreateChannel
    \/ CreateRadio \/ CreateMovie \/ CreateSeries \/ AddEpisode
    \/ CreateProgram \/ Schedule \/ AutoImport \/ CreateUser \/ CreateMag
    \/ CreateEnigma \/ CreateGroup \/ CreateLine \/ LogActivity \/ Enqueue
    \/ AssignStream \/ SyncUsers
    \/ \E a, flags : PanelCreate(a, flags)

(* They all grow the database. *)
LEMMA Creations == Adds => Grown
<1>1. ASSUME AssignStream PROVE Grown
  BY <1>1 DEF AssignStream, Insert, Fresh, Grown
<1>2. ASSUME SyncUsers PROVE Grown
  BY <1>2 DEF SyncUsers, Insert, Fresh, Grown
<1>3. ASSUME NEW a, NEW flags, PanelCreate(a, flags) PROVE Grown
  BY <1>3 DEF PanelCreate, Insert, Fresh, Grown
<1> QED
  BY <1>1, <1>2, <1>3, InsertGrows DEF Adds, CreateCategory, CreateServer,
         CreatePackage, CreateReseller, CreateProxy, CreateProfile,
         CreateStream, CreateChannel, CreateRadio, CreateMovie, CreateSeries,
         AddEpisode, CreateProgram, Schedule, AutoImport, CreateUser,
         CreateMag, CreateEnigma, CreateGroup, CreateLine, LogActivity,
         Enqueue

(* Every request that updates one row. *)
Updates ==
    \/ UpdateCategory \/ UpdateServer \/ UpdatePackage \/ UpdateReseller
    \/ UpdateProxy \/ UpdateStream \/ UpdateChannel \/ UpdateRadio
    \/ UpdateMovie \/ UpdateSeries \/ UpdateProgram \/ UpdateUser
    \/ UpdateLine

(* They all rewrite rows. *)
LEMMA Changes == Integrity /\ Updates => Rewritten
<1> SUFFICES ASSUME Integrity, Updates PROVE Rewritten
  OBVIOUS
<1>1. /\ Channels \in SUBSET Of("streams") /\ Radios \in SUBSET Of("streams")
      /\ \A t : Of(t) \in SUBSET Of(t)
  BY DEF Channels, Radios, Flagged
<1>2. ASSUME NEW t, t \notin PurgedTables, NEW rows \in SUBSET Of(t), NEW columns, NEW flags,
             Update(rows, columns, flags)
      PROVE  Rewritten
  <2>1. \A c \in columns : ~Fixed(t, c)
    BY <1>2 DEF Fixed, PurgedTables
  <2> QED
    BY <1>2, <2>1, UpdateRewrites
<1>3. CASE UpdateLine
  <2>1. \A c \in {"server", "stream"} : ~Fixed("lines", c)
    BY DEF Fixed
  <2>2. Update(Of("lines"), {"server", "stream"}, {{}})
    BY <1>3 DEF UpdateLine
  <2> QED
    BY <1>1, <2>1, <2>2, UpdateRewrites
<1>4. {"categories", "servers", "packages", "resellers", "proxies", "streams", "movies",
       "series", "epg", "users"} \cap PurgedTables = {}
  BY DEF PurgedTables
<1>5. CASE UpdateCategory \/ UpdateServer \/ UpdatePackage \/ UpdateReseller \/ UpdateProxy
  BY <1>1, <1>2, <1>4, <1>5
  DEF UpdateCategory, UpdateServer, UpdatePackage, UpdateReseller, UpdateProxy
<1>6. CASE UpdateStream \/ UpdateChannel \/ UpdateRadio
  BY <1>1, <1>2, <1>4, <1>6 DEF UpdateStream, UpdateChannel, UpdateRadio
<1>7. CASE UpdateMovie \/ UpdateSeries \/ UpdateProgram \/ UpdateUser
  BY <1>1, <1>2, <1>4, <1>7 DEF UpdateMovie, UpdateSeries, UpdateProgram, UpdateUser
<1> QED
  BY <1>3, <1>5, <1>6, <1>7 DEF Updates

(* A box is registered anew or moved to another user. *)
LEMMA Registrations == Integrity /\ RegisterDevice => Grown \/ Rewritten
<1>1. Of("mag_devices") \in SUBSET Of("mag_devices") /\ \A c \in {"user"} : ~Fixed("mag_devices", c)
  BY DEF Fixed
<1> QED
  BY <1>1, InsertGrows, UpdateRewrites DEF RegisterDevice

(* Every request that deletes a row through its session. *)
SessionDeletes ==
    \/ DeleteCategory \/ DeleteServer \/ DeletePackage \/ DeleteReseller
    \/ DeleteProxy \/ DeleteProfile \/ DeleteStream \/ DeleteChannel
    \/ DeleteRadio \/ DeleteMovie \/ DeleteSeries \/ DeleteEpisode
    \/ DeleteProgram \/ DeleteScheduled \/ DeleteUser \/ DeleteMag
    \/ DeleteEnigma \/ DeleteGroup \/ RemoveLine \/ Dequeue
    \/ \E a : PanelDeleteUser(a) \/ PanelDeleteMag(a) \/ PanelDeleteEnigma(a)

(* They all begin a delete. *)
LEMMA Beginnings == SessionDeletes => Begun
<1> DEFINE Purges == {{}, {<<"server_streams", "server">>}, {<<"server_streams", "stream">>},
                      {<<"episodes", "series">>}, UserPurge}
<1>1. \A purge \in Purges : \A p \in purge : p[1] \in PurgedTables
  BY DEF PurgedTables, UserPurge
<1>2. ASSUME NEW r, NEW purge \in Purges, SessionDelete(r, purge) PROVE Begun
  BY <1>1, <1>2 DEF Begun, SessionDelete
<1>3. /\ {} \in Purges /\ UserPurge \in Purges
      /\ {<<"server_streams", "server">>} \in Purges
      /\ {<<"server_streams", "stream">>} \in Purges
      /\ {<<"episodes", "series">>} \in Purges
  OBVIOUS
<1> HIDE DEF Purges
<1>4. CASE \/ DeleteCategory \/ DeleteServer \/ DeletePackage \/ DeleteReseller
           \/ DeleteProxy \/ DeleteProfile \/ DeleteStream \/ DeleteChannel \/ DeleteRadio
  BY <1>2, <1>3, <1>4
  DEF DeleteCategory, DeleteServer, DeletePackage, DeleteReseller, DeleteProxy, DeleteProfile,
      DeleteStream, DeleteChannel, DeleteRadio
<1>5. CASE \/ DeleteMovie \/ DeleteSeries \/ DeleteEpisode \/ DeleteProgram
           \/ DeleteScheduled \/ DeleteGroup \/ RemoveLine \/ Dequeue
  BY <1>2, <1>3, <1>5
  DEF DeleteMovie, DeleteSeries, DeleteEpisode, DeleteProgram, DeleteScheduled, DeleteGroup,
      RemoveLine, Dequeue
<1>6. CASE \/ DeleteUser \/ DeleteMag \/ DeleteEnigma
           \/ \E a : PanelDeleteUser(a) \/ PanelDeleteMag(a) \/ PanelDeleteEnigma(a)
  BY <1>2, <1>3, <1>6
  DEF DeleteUser, DeleteMag, DeleteEnigma, PanelDeleteUser, PanelDeleteMag, PanelDeleteEnigma
<1> QED
  BY <1>4, <1>5, <1>6 DEF SessionDeletes

(* Every request that deletes rows with a statement. *)
StatementDeletes ==
    \/ UnassignStream \/ BatchDelete \/ MassDeleteChannels \/ ClearPrograms
    \/ BatchDeleteUsers \/ MassDeleteMags \/ MassDeleteEnigmas
    \/ RemoveLines \/ ClearQueue
    \/ \E ids \in SUBSET Of("movies") : QueryDelete(ids)
    \/ \E ids \in SUBSET Of("episodes") : QueryDelete(ids)

(* They all shrink the database in one step. *)
LEMMA Deletions == StatementDeletes => Shrunk /\ StatementDelete
<1>1. /\ Channels \in SUBSET Of("streams")
      /\ Mags \in SUBSET Of("users") /\ Enigmas \in SUBSET Of("users")
  BY DEF Channels, Mags, Enigmas, Flagged
<1>2. \A t : \A rows \in SUBSET Of(t) : QueryDelete(rows) => Shrunk /\ StatementDelete
  BY QueryDeleteShrinks
<1> QED
  BY <1>1, <1>2
  DEF StatementDeletes, UnassignStream, BatchDelete, MassDeleteChannels, ClearPrograms,
      BatchDeleteUsers, MassDeleteMags, MassDeleteEnigmas, RemoveLines, ClearQueue

(* Every request that writes one column of many rows. *)
Moves == BatchMoveCategory \/ ChangeServer \/ LinkChannels \/ AddUsers \/ RemoveUsers

(* The tables that requests write by name. *)
LEMMA NamedTables == {"users", "streams", "epg", "movies", "episodes"} \subseteq Tables
<1>1. User \cup Stream \cup EpgData \cup Movie \cup SeriesEpisode \subseteq Keys
  BY DEF Keys
<1>2. /\ \E k \in User : k.of = "users"
      /\ \E k \in Stream : k.of = "streams"
      /\ \E k \in EpgData : k.of = "epg"
      /\ \E k \in Movie : k.of = "movies"
      /\ \E k \in SeriesEpisode : k.of = "episodes"
  BY DEF User, Stream, EpgData, Movie, SeriesEpisode, Optional, Required, Key
<1> QED
  BY <1>1, <1>2 DEF Tables

(* The columns the moves write by name take the rows they are given. *)
LEMMA NamedColumns ==
  /\ "force_server" \in Columns("users") => Of("servers") \subseteq Allowed("users", "force_server")
  /\ "group" \in Columns("users") => Of("groups") \cup {NULL} \subseteq Allowed("users", "group")
  /\ "category" \in Columns("streams") => Of("categories") \subseteq Allowed("streams", "category")
  /\ "channel" \in Columns("epg") => Of("streams") \subseteq Allowed("epg", "channel")
  BY NamedTables, ColumnKeys, KeysAreSound DEF Sound, Allowed

(* They all write rows of the right table. *)
LEMMA MovesRewrite == Integrity /\ Moves => Rewritten
<1> SUFFICES ASSUME Integrity, Moves PROVE Rewritten
  OBVIOUS
<1>1. CASE BatchMoveCategory
  <2>1. PICK ids \in SUBSET Of("streams"), to \in Of("categories") :
          Write([x \in ids |-> [db[x] EXCEPT !.category = to]])
    BY <1>1 DEF BatchMoveCategory
  <2> QED
    BY <2>1, StoredRows, NamedColumns DEF Write, Rewritten, Of, Fixed
<1>2. CASE ChangeServer
  <2>1. PICK ids \in SUBSET Of("users"), to \in Of("servers") :
          Write([x \in ids |-> [db[x] EXCEPT !.force_server = to]])
    BY <1>2 DEF ChangeServer
  <2> QED
    BY <2>1, StoredRows, NamedColumns DEF Write, Rewritten, Of, Fixed
<1>3. CASE LinkChannels
  <2>1. PICK channelOf \in [Of("epg") -> Of("streams") \cup {NULL}] :
          Write([r \in {x \in Of("epg") : channelOf[x] # NULL} |->
                    [db[r] EXCEPT !.channel = channelOf[r]]])
    BY <1>3 DEF LinkChannels
  <2>2. \A c \in Columns("epg") : c = "channel"
    BY NamedTables, ColumnKeys, KeysAreSound DEF Sound
  <2> QED
    BY <2>1, <2>2, StoredRows, NamedColumns DEF Write, Rewritten, Of, Fixed
<1>4. CASE AddUsers
  <2>1. PICK g \in Of("groups"), ids \in SUBSET Of("users") :
          Write([x \in ids |-> [db[x] EXCEPT !.group = g]])
    BY <1>4 DEF AddUsers
  <2> QED
    BY <2>1, StoredRows, NamedColumns DEF Write, Rewritten, Of, Fixed
<1>5. CASE RemoveUsers
  <2>1. PICK g \in Of("groups"), ids \in SUBSET Of("users") :
          Write([x \in {u \in ids : db[u].group = g} |-> [db[x] EXCEPT !.group = NULL]])
    BY <1>5 DEF RemoveUsers
  <2> QED
    BY <2>1, StoredRows, NamedColumns DEF Write, Rewritten, Of, Fixed
<1> QED
  BY <1>1, <1>2, <1>3, <1>4, <1>5 DEF Moves

(* Every request that writes a column or a flag of the rows with given ids. *)
MassUpdates ==
    \/ \E switches : \/ MassUpdate("streams", Of("streams"), switches)
                     \/ MassUpdate("users", Of("users"), switches)
                     \/ MassUpdate("movies", Of("movies"), switches)
                     \/ MassUpdate("episodes", Of("episodes"), switches)
    \/ MassUpdateChannels \/ MassUpdateMags \/ MassUpdateEnigmas

(* They all rewrite rows. *)
LEMMA MassUpdatesRewrite == Integrity /\ MassUpdates => Rewritten
<1>1. /\ Channels \in SUBSET Of("streams")
      /\ Mags \in SUBSET Of("users") /\ Enigmas \in SUBSET Of("users")
  BY DEF Channels, Mags, Enigmas, Flagged
<1>2. \A t : Of(t) \in SUBSET Of(t)
  OBVIOUS
<1> QED
  BY <1>1, <1>2, NamedTables, MassUpdateRewrites
  DEF MassUpdates, MassUpdateChannels, MassUpdateMags, MassUpdateEnigmas

(* What a request does to the rows. *)
Step ==
    \/ Grown
    \/ Rewritten
    \/ Shrunk /\ StatementDelete
    \/ Begun

(* Every request is one of these steps. *)
LEMMA RequestsAreSteps == Integrity /\ Next => Step \/ Flush \/ RollBack
<1>1. Next => \/ Adds \/ Updates \/ RegisterDevice \/ Moves \/ MassUpdates
              \/ SessionDeletes \/ StatementDeletes \/ Flush \/ RollBack
  <2>1. MassRoutes => MassUpdates \/ StatementDeletes \/ SessionDeletes
    BY DEF MassRoutes, MassUpdates, StatementDeletes, SessionDeletes
  <2>2. \A a : PanelRequest(a) => Adds \/ SessionDeletes
    BY DEF PanelRequest, Adds, SessionDeletes
  <2> QED
    BY <2>1, <2>2
    DEF Next, CategoryRoutes, ServerRoutes, PackageRoutes, LineRoutes, ResellerRoutes,
        ProxyRoutes, ProfileRoutes, StreamRoutes, MovieRoutes, SeriesRoutes, EpisodeRoutes,
        EpgRoutes, RecordingRoutes, UserRoutes, DeviceRoutes, GroupRoutes, MassMoves,
        ConnectionRoutes, QueueRoutes,
        Adds, Updates, Moves, MassUpdates, SessionDeletes, StatementDeletes
<1> QED
  BY <1>1, Creations, Changes, Registrations, MovesRewrite, MassUpdatesRewrite,
     Beginnings, Deletions
  DEF Step

-----------------------------------------------------------------------------
(* The theorems *)

(* So every step keeps Integrity. *)
LEMMA NextKeeps == Integrity /\ [Next]_dbVars => Integrity'
<1> SUFFICES ASSUME Integrity, [Next]_dbVars PROVE Integrity'
  OBVIOUS
<1>1. ASSUME UNCHANGED db PROVE Integrity'
  BY <1>1 DEF Integrity, Stored, Values, Allowed, Of
<1>2. CASE Step
  BY <1>1, <1>2, GrownKeeps, RewrittenKeeps, ShrunkKeeps DEF Step, Begun, SessionDelete
<1>3. CASE Flush
  BY <1>3, FlushShrinks, ShrunkKeeps
<1>4. CASE RollBack
  BY <1>1, <1>4 DEF RollBack
<1>5. CASE UNCHANGED dbVars
  BY <1>1, <1>5 DEF dbVars
<1> QED
  BY <1>2, <1>3, <1>4, <1>5, RequestsAreSteps

(* No row ever names one that is gone or of another table, whatever the    *)
(* services, the session and the database delete, and whatever the other   *)
(* workers do while a session deletes.                                     *)
THEOREM RowsStayTogether == Spec => []Integrity
<1>1. Init => Integrity
  BY DEF Init, Integrity, Stored
<1> QED
  BY <1>1, NextKeeps, PTL DEF Spec

(* What a session has read before its delete refers to the row it deletes. *)
SeenRefers ==
    \A cell \in tx.seen :
        /\ KeyAt(cell) \in Keys
        /\ KeyAt(cell).of = cell[1][1]
        /\ KeyAt(cell).to = tx.row[1]

(* Only the beginning of a delete through a session reads anything. *)
LEMMA SeenKeeps == Integrity /\ SeenRefers /\ [Next]_dbVars => SeenRefers'
<1> SUFFICES ASSUME Integrity, SeenRefers, [Next]_dbVars PROVE SeenRefers'
  OBVIOUS
<1>1. CASE UNCHANGED tx
  BY <1>1 DEF SeenRefers, KeyAt
<1>2. CASE tx' = Idle
  BY <1>2 DEF SeenRefers, Idle
<1>3. CASE Begun
  <2>1. PICK r \in Stored : \E purge : SessionDelete(r, purge)
    BY <1>3 DEF Begun
  <2>2. tx'.row = r /\ tx'.seen = {cell \in Cells : Holds(cell, r)}
    BY <2>1 DEF SessionDelete
  <2>3. ASSUME NEW cell \in Cells, Holds(cell, r)
        PROVE  KeyAt(cell) \in Keys /\ KeyAt(cell).of = cell[1][1] /\ KeyAt(cell).to = r[1]
    <3>1. cell[1] \in Stored /\ cell[2] \in Columns(cell[1][1]) /\ db[cell[1]][cell[2]] = r
      BY <2>3 DEF Cells, Holds
    <3>2. r \in Of(KeyAt(cell).to)
      BY <3>1, StoredRows DEF Allowed, KeyAt
    <3>3. cell[1][1] \in Tables
      BY <3>1, StoredRows
    <3>4. KeyAt(cell) \in Keys /\ KeyAt(cell).of = cell[1][1]
      BY <3>1, <3>3, ColumnKeys DEF KeyAt
    <3> QED
      BY <3>2, <3>4 DEF Of
  <2> QED
    BY <2>2, <2>3 DEF SeenRefers, KeyAt
<1> QED
  BY <1>1, <1>2, <1>3, RequestsAreSteps, FlushShrinks
  DEF Step, Grown, Rewritten, StatementDelete, RollBack, dbVars

(* The delete of anything but a stream or a server with viewers goes       *)
(* through, however many tables refer to the row and whatever the session  *)
(* would clear, unless a row it has read was deleted meanwhile.            *)
THEOREM OnlyViewersRefuseDeletes == Spec => []OnlyViewersRefuse
<1>1. Init => Integrity /\ SeenRefers
  BY DEF Init, Integrity, Stored, SeenRefers, Idle
<1>2. SeenRefers => OnlyViewersRefuse
  <2> SUFFICES ASSUME SeenRefers, Refused,
                      \A cell \in tx.seen : cell[1] \in Stored
               PROVE  /\ tx.row[1] \in {"streams", "servers"}
                      /\ \E cell \in tx.seen : cell[1][1] \in {"lines", "activity"}
    BY DEF OnlyViewersRefuse
  <2>1. PICK cell \in tx.seen : KeyAt(cell).orm = "nullify" /\ KeyAt(cell).required
    BY DEF Refused, Loaded
  <2>2. KeyAt(cell).of \in {"lines", "activity"} /\ KeyAt(cell).to \in {"streams", "servers"}
    BY <2>1, KeysAreSound DEF SeenRefers, Sound
  <2> QED
    BY <2>1, <2>2 DEF SeenRefers
<1> QED
  BY <1>1, <1>2, NextKeeps, SeenKeeps, PTL DEF Spec

(* The row a session deletes is a row, its services' own statements reach   *)
(* only tables whose keys cascade, and what it has read by a fixed column   *)
(* still refers to the row, unless it is gone.                             *)
Session ==
    /\ tx # Idle => tx.row \in AllRows
    /\ \A p \in tx.purge : p[1] \in PurgedTables
    /\ tx.seen \subseteq Cells
    /\ \A cell \in tx.seen :
          cell[1] \in Stored /\ Fixed(cell[1][1], cell[2]) => db[cell[1]][cell[2]] = tx.row

(* The table, the column and the key of a cell of a stored row. *)
LEMMA CellIs ==
  ASSUME Integrity, NEW cell \in Cells, cell[1] \in Stored
  PROVE  /\ cell = <<cell[1], cell[2]>>
         /\ cell[2] \in Columns(cell[1][1])
         /\ KeyAt(cell) = KeyOf[cell[1][1]][cell[2]]
         /\ KeyAt(cell) \in Keys
         /\ KeyAt(cell).of = cell[1][1]
         /\ KeyAt(cell).column = cell[2]
<1>1. cell = <<cell[1], cell[2]>> /\ cell[2] \in Columns(cell[1][1])
  BY DEF Cells
<1>2. cell[1][1] \in Tables
  BY StoredRows
<1> QED
  BY <1>1, <1>2, ColumnKeys DEF KeyAt

(* A row that is added is none a session has read, no request writes a     *)
(* fixed column, and a row goes along with the one it names by it.         *)
LEMMA SessionKeeps == Integrity /\ Session /\ [Next]_dbVars => Session'
<1> SUFFICES ASSUME Integrity, Session, [Next]_dbVars PROVE Session'
  OBVIOUS
<1>1. ASSUME UNCHANGED tx,
             \A cell \in tx.seen : cell[1] \in Stored' /\ Fixed(cell[1][1], cell[2]) =>
                 cell[1] \in Stored /\ db'[cell[1]][cell[2]] = db[cell[1]][cell[2]]
      PROVE  Session'
  BY <1>1 DEF Session, Cells
<1>2. CASE Grown
  <2>1. PICK r \in AllRows \ (Stored \cup Held) : \E v \in Values(r[1]) :
          db' = [x \in Stored \cup {r} |-> IF x = r THEN v ELSE db[x]]
    BY <1>2 DEF Grown
  <2>2. \A cell \in tx.seen : cell[1] # r
    BY <2>1 DEF Held
  <2>3. Stored' = Stored \cup {r} /\ \A x \in Stored : db'[x] = db[x]
    BY <2>1 DEF Stored
  <2> QED
    BY <1>1, <1>2, <2>2, <2>3 DEF Grown
<1>3. CASE Rewritten
  <2>1. Stored' = Stored
    BY <1>3 DEF Rewritten, Stored
  <2>2. \A cell \in tx.seen : cell \in Cells /\ cell[2] \in Columns(cell[1][1])
    BY DEF Session, Cells
  <2> QED
    BY <1>1, <1>3, <2>1, <2>2 DEF Rewritten
<1>4. CASE Shrunk /\ StatementDelete
  <2>1. PICK t : \E gone \in SUBSET Of(t) : Remove(gone \cap Stored, {})
    BY <1>4 DEF StatementDelete
  <2>2. PICK gone \in SUBSET Of(t) : Remove(gone \cap Stored, {})
    BY <2>1
  <2> DEFINE out == Cascade(gone \cap Stored, {})
  <2>3. db' = [x \in Stored \ out |-> [c \in Columns(x[1]) |->
                  IF db[x][c] \in out \/ <<x, c>> \in {} THEN NULL ELSE db[x][c]]]
    BY <2>2 DEF Remove
  <2>4. Stored' = Stored \ out
    BY <2>3 DEF Stored
  <2> HIDE DEF out
  <2>5. Integrity'
    BY <1>4, ShrunkKeeps
  <2>6. ASSUME NEW cell \in tx.seen, cell[1] \in Stored', Fixed(cell[1][1], cell[2])
        PROVE  cell[1] \in Stored /\ db'[cell[1]][cell[2]] = db[cell[1]][cell[2]]
    <3>1. cell[1] \in Stored /\ cell[2] \in Columns(cell[1][1]) /\ KeyOf[cell[1][1]][cell[2]].required
      BY <2>4, <2>6, CellIs, KeysAreSound DEF Session, Sound
    <3>2. db'[cell[1]] \in Values(cell[1][1])'
      BY <2>5, <2>6 DEF Integrity
    <3>3. db'[cell[1]][cell[2]] \in Allowed(cell[1][1], cell[2])'
      BY <3>1, <3>2, StoredRows, RowValues
    <3>4. NULL \notin Stored'
      BY <2>4, StoredRows
    <3>5. db'[cell[1]][cell[2]] # NULL
      BY <3>1, <3>3, <3>4 DEF Allowed, Of
    <3> QED
      BY <2>3, <2>4, <2>6, <3>1, <3>5
  <2> QED
    BY <1>1, <1>4, <2>6 DEF StatementDelete
<1>5. CASE Begun
  <2>1. PICK r \in Stored : \E purge :
          SessionDelete(r, purge) /\ \A p \in purge : p[1] \in PurgedTables
    BY <1>5 DEF Begun
  <2>2. /\ tx'.row = r
        /\ \A p \in tx'.purge : p[1] \in PurgedTables
        /\ tx'.seen = {cell \in Cells : Holds(cell, r)}
        /\ UNCHANGED db
    BY <2>1 DEF SessionDelete
  <2>3. r \in AllRows
    BY StoredRows
  <2>4. \A cell \in tx'.seen : cell \in Cells /\ db[cell[1]][cell[2]] = r
    BY <2>2 DEF Holds
  <2> QED
    BY <2>2, <2>3, <2>4 DEF Session, Cells, Stored
<1>6. CASE Flush \/ RollBack
  <2>1. tx' = Idle
    BY <1>6 DEF Flush, RollBack
  <2> QED
    BY <2>1 DEF Session, Idle
<1>7. CASE UNCHANGED dbVars
  BY <1>7 DEF Session, dbVars, Stored, Cells
<1> QED
  BY <1>2, <1>3, <1>4, <1>5, <1>6, <1>7, RequestsAreSteps DEF Step

(* Of what a DELETE does, only the rows it starts from and the cells it    *)
(* clears need a reason: the rest follows a key.                           *)
LEMMA DependentsFollow ==
  ASSUME NEW given \in SUBSET Stored, NEW cleared, Remove(given, cleared),
         NEW t \in Tables,
         \A x \in given :
            \/ x[1] = t
            \/ \E c \in Columns(x[1]) :
                  KeyOf[x[1]][c].rule = "CASCADE" /\ Names(x, c, Cascade(given, cleared)),
         \A x \in Stored : \A c : <<x, c>> \in cleared => Names(x, c, Cascade(given, cleared))
  PROVE  DependentsGo
<1> DEFINE out == Cascade(given, cleared)
<1>1. out \subseteq Stored /\ given \subseteq out
  BY DEF Cascade
<1>2. db' = [x \in Stored \ out |-> [c \in Columns(x[1]) |->
                IF db[x][c] \in out \/ <<x, c>> \in cleared THEN NULL ELSE db[x][c]]]
  BY DEF Remove
<1>3. Stored \ DOMAIN db' = out
  BY <1>1, <1>2
<1>4. ASSUME NEW x \in out \ given
      PROVE  \E c \in Columns(x[1]) : KeyOf[x[1]][c].rule = "CASCADE" /\ Names(x, c, out)
  BY <1>1 DEF Cascade, Names
<1> HIDE DEF out
<1>5. \A x \in out :
         \/ x[1] = t
         \/ \E c \in Columns(x[1]) : KeyOf[x[1]][c].rule = "CASCADE" /\ Names(x, c, out)
  BY <1>4 DEF out
<1>6. \A x \in Stored : \A c : <<x, c>> \in cleared => Names(x, c, out)
  BY DEF out
<1>7. ASSUME NEW x \in Stored \ out, NEW c \in Columns(x[1])
      PROVE  db'[x][c] = db[x][c] \/ (db'[x][c] = NULL /\ Names(x, c, out))
  <2>1. db'[x][c] = IF db[x][c] \in out \/ <<x, c>> \in cleared THEN NULL ELSE db[x][c]
    BY <1>2
  <2>2. CASE db[x][c] \in out
    BY <2>1, <2>2 DEF Names
  <2>3. CASE db[x][c] \notin out
    BY <1>6, <2>1, <2>3
  <2> QED
    BY <2>2, <2>3
<1> QED
  BY <1>3, <1>5, <1>7 DEF DependentsGo

(* A statement starts from rows of one table. *)
LEMMA StatementDependents == Integrity /\ StatementDelete => DependentsGo
<1> SUFFICES ASSUME Integrity, StatementDelete PROVE DependentsGo
  OBVIOUS
<1>1. PICK t : \E ids \in SUBSET Of(t) : Remove(ids \cap Stored, {})
  BY DEF StatementDelete
<1>2. PICK ids \in SUBSET Of(t) : Remove(ids \cap Stored, {})
  BY <1>1
<1> DEFINE given == ids \cap Stored
<1>3. given \in SUBSET Stored /\ Remove(given, {}) /\ \A x \in given : x[1] = t
  BY <1>2 DEF Of
<1> HIDE DEF given
<1>4. CASE given = {}
  <2>1. Cascade(given, {}) = {}
    BY <1>4 DEF Cascade
  <2>2. DOMAIN db' = Stored
    BY <1>3, <2>1 DEF Remove
  <2> QED
    BY <2>2 DEF DependentsGo
<1>5. CASE given # {}
  <2>1. t \in Tables
    BY <1>3, <1>5, StoredRows
  <2> QED
    BY <1>3, <2>1, DependentsFollow
<1> QED
  BY <1>4, <1>5

(* A session starts from its row and from what it read, or its service      *)
(* found, referring to the row.  When the row has gone meanwhile, only      *)
(* devices of a user or episodes of a series can be left of that.          *)
LEMMA FlushDependents == Integrity /\ SeenRefers /\ Session /\ Flush => DependentsGo
<1> SUFFICES ASSUME Integrity, SeenRefers, Session, Flush PROVE DependentsGo
  OBVIOUS
<1> DEFINE orphans == {cell[1] : cell \in Loaded("orphans")}
           given == ({tx.row} \cup Purged \cup orphans) \cap Stored
           cleared == Loaded("nullify")
           out == Cascade(given, cleared)
<1>1. Remove(given, cleared) /\ given \in SUBSET Stored /\ given \subseteq out
  BY DEF Flush, Cascade
<1>2. tx.row \in AllRows /\ tx.row[1] \in Tables /\ tx.row # NULL
  BY DatabaseAssumption DEF Session, Flush
<1>3. ASSUME NEW x \in Purged
      PROVE  tx.row \in Stored /\ \E c \in Columns(x[1]) :
                KeyOf[x[1]][c].rule = "CASCADE" /\ db[x][c] = tx.row
  <2>1. PICK c \in Columns(x[1]) : <<x[1], c>> \in tx.purge /\ db[x][c] = tx.row
    BY <1>3 DEF Purged
  <2>2. x \in Stored /\ x[1] \in Tables /\ db[x][c] \in Allowed(x[1], c)
    BY StoredRows DEF Purged
  <2>3. x[1] \in PurgedTables
    BY <2>1 DEF Session
  <2>4. KeyOf[x[1]][c].rule = "CASCADE"
    BY <2>2, <2>3, ColumnKeys, KeysAreSound DEF Sound
  <2>5. tx.row \in Stored
    BY <1>2, <2>1, <2>2 DEF Allowed, Of
  <2> QED
    BY <2>1, <2>4, <2>5
<1>4. ASSUME NEW cell \in Loaded("orphans"), cell[1] \in Stored
      PROVE  /\ cell = <<cell[1], cell[2]>>
             /\ cell[2] \in Columns(cell[1][1])
             /\ cell \in tx.seen
             /\ KeyOf[cell[1][1]][cell[2]].rule = "CASCADE"
             /\ \/ tx.row \in Stored
                \/ cell[1][1] = "mag_devices" /\ tx.row[1] = "users"
                \/ cell[1][1] = "episodes" /\ tx.row[1] = "series"
  <2>1. cell \in tx.seen /\ cell \in Cells /\ KeyAt(cell).orm = "orphans"
    BY DEF Loaded, Session
  <2>2. KeyAt(cell).to = tx.row[1]
    BY <2>1 DEF SeenRefers
  <2>3. Fixed(cell[1][1], cell[2]) => tx.row \in Stored
    <3>1. db[cell[1]][cell[2]] \in Allowed(cell[1][1], cell[2])
      BY <1>4, <2>1, CellIs, StoredRows
    <3> QED
      BY <1>2, <1>4, <2>1, <3>1 DEF Session, Allowed, Of
  <2> QED
    BY <1>4, <2>1, <2>2, <2>3, CellIs, KeysAreSound DEF Sound
<1>5. CASE tx.row \in Stored
  <2>1. tx.row \in out
    BY <1>1, <1>5
  <2> HIDE DEF out
  <2>2. ASSUME NEW x \in given, x[1] # tx.row[1]
        PROVE  \E c \in Columns(x[1]) : KeyOf[x[1]][c].rule = "CASCADE" /\ Names(x, c, out)
    <3>1. CASE x \in Purged
      BY <1>3, <2>1, <3>1 DEF Names
    <3>2. CASE x \in orphans
      <4>1. PICK cell \in Loaded("orphans") : x = cell[1]
        BY <3>2
      <4>2. x \in Stored
        OBVIOUS
      <4> QED
        BY <1>4, <2>1, <4>1, <4>2 DEF Names
    <3> QED
      BY <2>2, <3>1, <3>2
  <2>3. \A x \in Stored : \A c : <<x, c>> \in cleared => Names(x, c, out)
    BY <2>1 DEF Names, Loaded
  <2> HIDE DEF given, cleared
  <2> QED
    BY <1>1, <1>2, <2>2, <2>3, DependentsFollow DEF out
<1>6. CASE tx.row \notin Stored
  <2>1. Purged = {}
    BY <1>3, <1>6
  <2>2. ASSUME NEW x \in given
        PROVE  \/ x[1] = "mag_devices" /\ tx.row[1] = "users"
               \/ x[1] = "episodes" /\ tx.row[1] = "series"
    <3>1. PICK cell \in Loaded("orphans") : x = cell[1] /\ x \in Stored
      BY <1>6, <2>1
    <3> QED
      BY <1>4, <1>6, <3>1
  <2>3. CASE given = {}
    <3>1. out = {}
      BY <2>3 DEF Cascade
    <3>2. DOMAIN db' = Stored
      BY <1>1, <3>1 DEF Remove
    <3> QED
      BY <3>2 DEF DependentsGo
  <2>4. CASE given # {}
    <3>1. PICK y \in given : TRUE
      BY <2>4
    <3>2. \A x \in given : x[1] = y[1]
      BY <2>2, <3>1
    <3>3. y[1] \in Tables
      BY <3>1, StoredRows
    <3>4. cleared = {}
      <4>1. tx.row[1] \in {"users", "series"}
        BY <2>2, <3>1
      <4>2. \A cell \in tx.seen : KeyAt(cell).orm # "nullify"
        BY <4>1, KeysAreSound DEF SeenRefers, Sound
      <4> QED
        BY <4>2 DEF Loaded
    <3> HIDE DEF given, cleared
    <3> QED
      BY <1>1, <3>2, <3>3, <3>4, DependentsFollow
  <2> QED
    BY <2>3, <2>4
<1> QED
  BY <1>5, <1>6

(* A delete takes only what was asked for and what depends on it through a *)
(* cascade, and clears only what named it, however the service, the        *)
(* session and the database share the work and whatever other requests     *)
(* move or delete between the session's reading and its flush.             *)
THEOREM DeletesTakeDependentsOnly == Spec => OnlyDependentsGo
<1>1. Init => Integrity /\ SeenRefers /\ Session
  BY DEF Init, Integrity, Stored, SeenRefers, Session, Idle
<1>2. ASSUME Integrity, SeenRefers, Session, [Next]_dbVars PROVE [DependentsGo]_dbVars
  <2>1. ASSUME Stored \subseteq DOMAIN db' PROVE DependentsGo
    BY <2>1 DEF DependentsGo
  <2>2. CASE Grown
    <3>1. Stored \subseteq DOMAIN db'
      BY <2>2 DEF Grown
    <3> QED
      BY <2>1, <3>1
  <2>3. CASE Rewritten \/ Begun \/ RollBack
    <3>1. DOMAIN db' = Stored
      BY <2>3 DEF Rewritten, Begun, SessionDelete, RollBack, Stored
    <3> QED
      BY <2>1, <3>1
  <2>4. CASE StatementDelete
    BY <1>2, <2>4, StatementDependents
  <2>5. CASE Flush
    BY <1>2, <2>5, FlushDependents
  <2> QED
    BY <1>2, <2>2, <2>3, <2>4, <2>5, RequestsAreSteps DEF Step
<1> QED
  BY <1>1, <1>2, NextKeeps, SeenKeeps, SessionKeeps, PTL DEF Spec, OnlyDependentsGo

==============================================================================
