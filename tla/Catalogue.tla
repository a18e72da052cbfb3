----------------------------- MODULE Catalogue -----------------------------
(***************************************************************************)
(* The services of src/src/domain that keep the content, the accounts, the *)
(* devices, the servers and what refers to them, and the requests the      *)
(* admin routes let reach them (module Backoffice).                        *)
(*                                                                         *)
(* Data is abstracted to foreign keys and to the flags a service filters   *)
(* on: is_mag and is_stalker of a user ("mag", "enigma"), the stream_type  *)
(* of a stream ("channel" for 2 and 5, "radio" for 4, nothing for 1 and 3),*)
(* and "kept" for a group that may not be deleted.  A request body never   *)
(* sets a column to NULL (exclude_none), except through the mass routes,   *)
(* which take any column.  A request the service refuses, or for a row     *)
(* that is not there, changes nothing.                                     *)
(***************************************************************************)
EXTENDS Database

StreamKinds == {{}, {"channel"}, {"radio"}}
UserKinds == SUBSET {"mag", "enigma"}

Init ==
    /\ db = [r \in {} |-> NULL]
    /\ kind = [r \in AllRows |-> {}]
    /\ tx = Idle

(* A row whose listed columns are chosen by the request; the others stay NULL. *)
Create(t, columns, flags) ==
    Insert(t, {v \in Values(t) : \A c \in Columns(t) \ columns : v[c] = NULL}, flags)

(* An update through a session: the listed columns may get another value,  *)
(* never NULL; the flags change to one of the given ones.                  *)
Update(rows, columns, flags) ==
    \E r \in rows :
        /\ \E v \in Values(r[1]) :
              /\ \A c \in Columns(r[1]) :
                    v[c] = db[r][c] \/ (c \in columns /\ v[c] # NULL)
              /\ Write([x \in {r} |-> v])
        /\ \E f \in flags : kind' = [kind EXCEPT ![r] = f]

(* The rows with one of the given ids are all written alike: any one column *)
(* to a value of its key, NULL among them, or a flag of switches, a set of   *)
(* pairs <<flags dropped, flags added>>.                                     *)
MassUpdate(t, rows, switches) ==
    \E ids \in SUBSET rows \ {{}} :
        \/ \E column \in Columns(t) :
              \E value \in Allowed(t, column) :
                 /\ Write([x \in ids |-> [db[x] EXCEPT ![column] = value]])
                 /\ UNCHANGED kind
        \/ \E s \in switches :
              /\ kind' = [x \in AllRows |-> IF x \in ids THEN (kind[x] \ s[1]) \cup s[2] ELSE kind[x]]
              /\ UNCHANGED <<db, tx>>

Switch(flag) == {<<{}, {flag}>>, <<{flag}, {}>>}

Flagged(t, flags) == {r \in Of(t) : kind[r] \cap flags # {}}

-----------------------------------------------------------------------------
(* categories, servers, packages, resellers, proxies *)

CreateCategory == Create("categories", {"parent"}, {})
UpdateCategory == Update(Of("categories"), {"parent"}, {{}})
DeleteCategory == \E r \in Of("categories") : SessionDelete(r, {})

CreateServer == Create("servers", {"parent"}, {})
UpdateServer == Update(Of("servers"), {"parent"}, {{}})
DeleteServer ==
    \E r \in Of("servers") : SessionDelete(r, {<<"server_streams", "server">>})

AssignStream ==
    Insert("server_streams",
           Values("server_streams") \ {db[r] : r \in Of("server_streams")}, {})
UnassignStream == \E r \in Of("server_streams") : QueryDelete({r})

CreatePackage == Create("packages", {"force_server"}, {})
UpdatePackage == Update(Of("packages"), {"force_server"}, {{}})
DeletePackage == \E r \in Of("packages") : SessionDelete(r, {})

CreateReseller == Create("resellers", {"owner"}, {})
UpdateReseller == Update(Of("resellers"), {"owner"}, {{}})
DeleteReseller == \E r \in Of("resellers") : SessionDelete(r, {})

CreateProxy == Create("proxies", {"server"}, {})
UpdateProxy == Update(Of("proxies"), {"server"}, {{}})
DeleteProxy == \E r \in Of("proxies") : SessionDelete(r, {})

(* TranscodeProfileService is imported and not in the repository. *)
CreateProfile == Create("profiles", {}, {})
DeleteProfile == \E r \in Of("profiles") : SessionDelete(r, {})

-----------------------------------------------------------------------------
(* streams: any kind, created channels, radios *)

StreamColumns == {"category", "archive_server"}

CreateStream == \E f \in StreamKinds : Create("streams", StreamColumns, f)
UpdateStream == Update(Of("streams"), StreamColumns, StreamKinds)
DeleteStream ==
    \E r \in Of("streams") : SessionDelete(r, {<<"server_streams", "stream">>})
BatchDelete == \E ids \in SUBSET Of("streams") : ids # {} /\ QueryDelete(ids)
BatchMoveCategory ==
    \E ids \in SUBSET Of("streams"), to \in Of("categories") :
        /\ Write([x \in ids |-> [db[x] EXCEPT !.category = to]])
        /\ UNCHANGED kind

Channels == Flagged("streams", {"channel"})
Radios == Flagged("streams", {"radio"})

CreateChannel == Create("streams", StreamColumns, {"channel"})
UpdateChannel == Update(Channels, StreamColumns, {{"channel"}})
DeleteChannel ==
    \E r \in Channels : SessionDelete(r, {<<"server_streams", "stream">>})
MassUpdateChannels == MassUpdate("streams", Channels, {})
MassDeleteChannels == \E ids \in SUBSET Channels : ids # {} /\ QueryDelete(ids)

CreateRadio == Create("streams", StreamColumns, {"radio"})
UpdateRadio == Update(Radios, StreamColumns, {{"radio"}})
DeleteRadio ==
    \E r \in Radios : SessionDelete(r, {<<"server_streams", "stream">>})

-----------------------------------------------------------------------------
(* movies, series, episodes, programmes, recordings *)

CreateMovie == Create("movies", {"category"}, {})
UpdateMovie == Update(Of("movies"), {"category"}, {{}})
DeleteMovie == \E r \in Of("movies") : SessionDelete(r, {})

CreateSeries == Create("series", {"category"}, {})
UpdateSeries == Update(Of("series"), {"category"}, {{}})
DeleteSeries ==
    \E r \in Of("series") : SessionDelete(r, {<<"episodes", "series">>})

AddEpisode == Create("episodes", {"series"}, {})
DeleteEpisode == \E r \in Of("episodes") : SessionDelete(r, {})

(* create_program takes the channel from the request, import_xmltv looks it *)
(* up by the programme's channel name and stores NULL when there is none.   *)
CreateProgram == Create("epg", {"channel"}, {})
UpdateProgram == Update(Of("epg"), {"channel"}, {{}})
DeleteProgram == \E r \in Of("epg") : SessionDelete(r, {})
LinkChannels ==
    \E channelOf \in [Of("epg") -> Of("streams") \cup {NULL}] :
        /\ Write([r \in {x \in Of("epg") : channelOf[x] # NULL} |->
                    [db[r] EXCEPT !.channel = channelOf[r]]])
        /\ UNCHANGED kind
ClearPrograms == \E old \in SUBSET Of("epg") : QueryDelete(old)

Schedule == Create("recordings", {"stream"}, {})
DeleteScheduled == \E r \in Of("recordings") : SessionDelete(r, {})

(* watch folders: a file whose name no movie or stream has yet *)
AutoImport ==
    \/ Create("movies", {"category"}, {})
    \/ Create("streams", {"category"}, {})

-----------------------------------------------------------------------------
(* users, devices, groups *)

UserPurge == {<<"lines", "user">>, <<"activity", "user">>}

CreateUser == \E f \in UserKinds : Create("users", {"force_server"}, f)
UpdateUser == Update(Of("users"), {"force_server"}, UserKinds)
DeleteUser == \E r \in Of("users") : SessionDelete(r, UserPurge)
BatchDeleteUsers == \E ids \in SUBSET Of("users") : ids # {} /\ QueryDelete(ids)

Mags == Flagged("users", {"mag"})
Enigmas == Flagged("users", {"enigma"})

CreateMag == Create("users", {}, {"mag"})
DeleteMag == \E r \in Mags : SessionDelete(r, UserPurge)
(* The users are loaded, flagged and written back one by one; any column may *)
(* be among the updates, and is_mag stays set whatever they say.             *)
MassUpdateMags == MassUpdate("users", Mags, Switch("enigma"))
MassDeleteMags == \E ids \in SUBSET Mags : ids # {} /\ QueryDelete(ids)

CreateEnigma == Create("users", {}, {"enigma"})
DeleteEnigma == \E r \in Enigmas : SessionDelete(r, UserPurge)
MassUpdateEnigmas == MassUpdate("users", Enigmas, Switch("mag"))
MassDeleteEnigmas == \E ids \in SUBSET Enigmas : ids # {} /\ QueryDelete(ids)

RegisterDevice ==
    \/ Create("mag_devices", {"user"}, {})
    \/ Update(Of("mag_devices"), {"user"}, {{}})
SyncUsers ==
    /\ \E u \in Mags \cup Enigmas :
          /\ \A r \in Of("mag_devices") : db[r].user # u
          /\ Insert("mag_devices", {v \in Values("mag_devices") : v.user = u}, {})

CreateGroup == \E f \in {{}, {"kept"}} : Create("groups", {}, f)
DeleteGroup == \E r \in Of("groups") : "kept" \notin kind[r] /\ SessionDelete(r, {})
AddUsers ==
    \E g \in Of("groups"), ids \in SUBSET Of("users") :
        /\ Write([x \in ids |-> [db[x] EXCEPT !.group = g]])
        /\ UNCHANGED kind
RemoveUsers ==
    \E g \in Of("groups"), ids \in SUBSET Of("users") :
        /\ Write([x \in {u \in ids : db[u].group = g} |-> [db[x] EXCEPT !.group = NULL]])
        /\ UNCHANGED kind

-----------------------------------------------------------------------------
(* lines, activity, the stream queue *)

CreateLine == Create("lines", {"user", "server", "stream"}, {})
UpdateLine == Update(Of("lines"), {"server", "stream"}, {{}})
RemoveLine == \E r \in Of("lines") : SessionDelete(r, {})
RemoveLines == \E ids \in SUBSET Of("lines") : QueryDelete(ids)
LogActivity == Create("activity", {"user", "stream", "server"}, {})
Enqueue == Create("queue", {"stream", "server"}, {})
Dequeue == \E r \in Of("queue") : SessionDelete(r, {})
ClearQueue == \E ids \in SUBSET Of("queue") : QueryDelete(ids)
=============================================================================
