----------------------------- MODULE Backoffice -----------------------------
(***************************************************************************)
(* The requests that reach the services of Catalogue: the admin routes     *)
(* (src/src/public/controllers/admin), one definition per router, and the  *)
(* reseller panel (src/src/public/controllers/reseller), whose requests    *)
(* are bounded by who created a user.                                      *)
(*                                                                         *)
(* Reads change nothing and are not requests here.                         *)
(* An operator X_what is X with a bug; no specification uses it.           *)
(***************************************************************************)
EXTENDS Catalogue

-----------------------------------------------------------------------------
(* the admin routers *)

CategoryRoutes == CreateCategory \/ UpdateCategory \/ DeleteCategory
ServerRoutes ==
    \/ CreateServer \/ UpdateServer \/ DeleteServer
    \/ AssignStream \/ UnassignStream
PackageRoutes == CreatePackage \/ UpdatePackage \/ DeletePackage
LineRoutes == CreateLine \/ UpdateLine \/ RemoveLine \/ LogActivity
(* create_reseller refuses a username in use; a username has one row here *)
ResellerRoutes == CreateReseller \/ UpdateReseller \/ DeleteReseller
ProxyRoutes == CreateProxy \/ UpdateProxy \/ DeleteProxy
ProfileRoutes == CreateProfile \/ DeleteProfile
StreamRoutes ==
    CreateStream \/ UpdateStream \/ DeleteStream \/ BatchDelete \/ BatchMoveCategory
MovieRoutes == CreateMovie \/ UpdateMovie \/ DeleteMovie
SeriesRoutes == CreateSeries \/ UpdateSeries \/ DeleteSeries
(* EpisodeUpdate has no series_id: an update moves no reference *)
EpisodeRoutes == AddEpisode \/ DeleteEpisode
EpgRoutes ==
    CreateProgram \/ UpdateProgram \/ DeleteProgram \/ ClearPrograms \/ LinkChannels
RecordingRoutes == Schedule \/ DeleteScheduled
UserRoutes == CreateUser \/ UpdateUser \/ DeleteUser \/ BatchDeleteUsers
DeviceRoutes ==
    CreateMag \/ DeleteMag \/ CreateEnigma \/ DeleteEnigma
GroupRoutes == CreateGroup \/ DeleteGroup \/ AddUsers \/ RemoveUsers
(* ids and updates come from the body as they are; a password is dropped *)
MassRoutes ==
    \/ MassUpdate("streams", Of("streams"), {<<UNION StreamKinds, f>> : f \in StreamKinds})
    \/ BatchDelete
    \/ MassUpdate("users", Of("users"), Switch("mag") \cup Switch("enigma"))
    \/ BatchDeleteUsers
    \/ RemoveLines
    \/ MassUpdateMags \/ MassDeleteMags
    \/ MassUpdateEnigmas \/ MassDeleteEnigmas
    \/ MassUpdate("movies", Of("movies"), {})
    \/ \E ids \in SUBSET Of("movies") : QueryDelete(ids)
    \/ DeleteSeries
    \/ MassUpdate("episodes", Of("episodes"), {})
    \/ \E ids \in SUBSET Of("episodes") : QueryDelete(ids)
ChangeServer ==
    \E ids \in SUBSET Of("users") \ {{}}, to \in Of("servers") :
        /\ Write([x \in ids |-> [db[x] EXCEPT !.force_server = to]])
        /\ UNCHANGED kind
MassMoves == ChangeServer \/ BatchMoveCategory
ConnectionRoutes == RemoveLine \/ RemoveLines
QueueRoutes == Enqueue \/ Dequeue \/ ClearQueue

-----------------------------------------------------------------------------
(* what a reseller does; the credits are in Reseller *)

(* _user_owned_by_reseller, _reseller_user_ids_set *)
Owned(a) == {u \in Of("users") : db[u].reseller = a}

PanelCreate(a, flags) ==
    Insert("users",
           {v \in Values("users") : v.reseller = a /\ v.force_server = NULL /\ v.group = NULL},
           flags)
PanelDeleteUser(a) == \E u \in Owned(a) : SessionDelete(u, UserPurge)
PanelDeleteMag(a) == \E u \in Mags \cap Owned(a) : SessionDelete(u, UserPurge)
PanelDeleteEnigma(a) == \E u \in Enigmas \cap Owned(a) : SessionDelete(u, UserPurge)

PanelRequest(a) ==
    \/ \E flags \in {{}, {"mag"}, {"enigma"}} : PanelCreate(a, flags)
    \/ PanelDeleteUser(a)
    \/ PanelDeleteMag(a)
    \/ PanelDeleteEnigma(a)

-----------------------------------------------------------------------------
Next ==
    \/ CategoryRoutes \/ ServerRoutes \/ PackageRoutes \/ LineRoutes
    \/ ResellerRoutes \/ ProxyRoutes \/ ProfileRoutes \/ StreamRoutes
    \/ CreateChannel \/ UpdateChannel \/ DeleteChannel
    \/ MassUpdateChannels \/ MassDeleteChannels
    \/ CreateRadio \/ UpdateRadio \/ DeleteRadio
    \/ MovieRoutes \/ SeriesRoutes \/ EpisodeRoutes \/ EpgRoutes
    \/ RecordingRoutes \/ AutoImport
    \/ UserRoutes \/ DeviceRoutes \/ GroupRoutes \/ MassRoutes \/ MassMoves
    \/ RegisterDevice \/ SyncUsers
    \/ ConnectionRoutes \/ QueueRoutes
    \/ \E a \in Of("resellers") : PanelRequest(a)
    \/ Flush
    \/ RollBack

Spec == Init /\ [][Next]_dbVars

-----------------------------------------------------------------------------
(* Every stored row has all its columns, none of them names a row that is  *)
(* not stored or of another table, and the required ones are set: what the *)
(* declared keys promise, through deletes that the services, the session   *)
(* and the database carry out in three different ways.                     *)
Integrity ==
    /\ Stored \subseteq AllRows
    /\ \A r \in Stored : db[r] \in Values(r[1])

(* That a column names a row that goes, now or when its request read it. *)
Names(x, c, gone) == db[x][c] \in gone \/ (<<x, c>> \in tx.seen /\ tx.row \in gone)

DependentsGo ==
    LET gone == Stored \ DOMAIN db'
    IN  gone # {} =>
          /\ \E t \in Tables :
                \A x \in gone :
                   \/ x[1] = t
                   \/ \E c \in Columns(x[1]) : KeyOf[x[1]][c].rule = "CASCADE" /\ Names(x, c, gone)
          /\ \A x \in Stored \ gone : \A c \in Columns(x[1]) :
                db'[x][c] = db[x][c] \/ (db'[x][c] = NULL /\ Names(x, c, gone))

(* A delete takes, besides the rows it was asked for (all of one table),   *)
(* only rows that refer to one that goes through a CASCADE key, now or when *)
(* the request read them: a category never takes its streams along, a      *)
(* reseller never its users, a profile or a group nothing.  In the rows    *)
(* that stay it clears only columns that name a row that goes, or did then. *)
OnlyDependentsGo == [][DependentsGo]_dbVars

(* The delete of a user, a category, a series, a package, a device or any   *)
(* other row goes through whatever refers to it; only a stream or a server *)
(* with lines or activity is refused, and a request whose rows another one *)
(* deleted in between.                                                     *)
OnlyViewersRefuse ==
    tx # Idle /\ Refused =>
        \/ /\ tx.row[1] \in {"streams", "servers"}
           /\ \E cell \in tx.seen : cell[1][1] \in {"lines", "activity"}
        \/ \E cell \in tx.seen : cell[1] \notin Stored
=============================================================================
