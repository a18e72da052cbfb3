--------------------------- MODULE BouquetsProofs ---------------------------
(***************************************************************************)
(* What the run of Bouquets checks for two requests, proved for any number *)
(* of administrators, users, bouquets and streams.                         *)
(*                                                                         *)
(* The action properties speak of a request's last step, so they need what *)
(* the request knows when it takes it: Wellformed says that the list to    *)
(* write is the list it has read, changed as it was asked.  With a list    *)
(* that is still the row's, the write then adds what was asked for only.   *)
(*                                                                         *)
(* The library's properties compare what the doors show in one state.      *)
(* They need that stored rows have their shape and refer to stored rows of *)
(* the right table, which the deletes keep since they take the rows, or    *)
(* the references, with them; the rest is what the definitions say.        *)
(***************************************************************************)
EXTENDS Bouquets, LibraryChanges, FiniteSetTheorems, TLAPS

(* A request writes what it has read, with its own streams added or taken out. *)
Wellformed ==
    \A a \in Admins : req[a] # None =>
        /\ req[a].op = "add"    => req[a].list = req[a].read \cup req[a].ask
        /\ req[a].op = "remove" => req[a].list = req[a].read \ req[a].ask
        /\ req[a].op = "put"    => req[a].list = req[a].ask

IInv == TypeOK /\ Wellformed

(* The rows the routes write are rows. *)
LEMMA WrittenRows ==
  /\ \A l \in SUBSET Streams : [state |-> "row", channels |-> l] \in BouquetRow
  /\ [state |-> "gone", channels |-> {}] \in BouquetRow
  /\ NoBouquet \in BouquetRow
  /\ \A r \in BouquetRow, l \in SUBSET Streams : [r EXCEPT !.channels = l] \in BouquetRow
  BY DEF BouquetRow, RowStates, NoBouquet

(* A request that has read the row is well formed if the list it means to write is. *)
LEMMA ReadKeeps ==
  ASSUME IInv, NEW a \in Admins, NEW b \in Bids, NEW op \in {"add", "remove", "put"},
         NEW ask \in SUBSET Streams, NEW list \in SUBSET Streams,
         op = "add" => list = rows[b].channels \cup ask,
         op = "remove" => list = rows[b].channels \ ask,
         op = "put" => list = ask,
         Read(a, b, op, ask, list)
  PROVE  IInv'
<1> DEFINE r == [bid |-> b, read |-> rows[b].channels, list |-> list, ask |-> ask, op |-> op]
<1>1. rows[b].channels \in SUBSET Streams
  BY DEF IInv, TypeOK, BouquetRow
<1>2. r \in Requests
  BY <1>1 DEF Requests
<1>3. req' = [req EXCEPT ![a] = r] /\ rows' = rows /\ string' = string
  BY DEF Read
<1> HIDE DEF r
<1>4. TypeOK'
  BY <1>2, <1>3 DEF IInv, TypeOK
<1>5. Wellformed'
  <2>1. /\ r.op = "add" => r.list = r.read \cup r.ask
        /\ r.op = "remove" => r.list = r.read \ r.ask
        /\ r.op = "put" => r.list = r.ask
    BY DEF r
  <2> QED
    BY <1>3, <2>1 DEF IInv, TypeOK, Wellformed
<1> QED
  BY <1>4, <1>5 DEF IInv

(* The commit ends the request and leaves the row a row. *)
LEMMA CommitKeeps ==
  ASSUME IInv, NEW a \in Admins, Commit(a)
  PROVE  IInv'
<1>1. req[a] \in Requests
  BY DEF IInv, TypeOK, Commit
<1>2. req[a].bid \in Bids /\ req[a].list \in SUBSET Streams
  BY <1>1 DEF Requests
<1>3. rows' \in [Bids -> BouquetRow]
  BY <1>2, WrittenRows DEF IInv, TypeOK, Commit
<1>4. req' = [req EXCEPT ![a] = None] /\ string' = string
  BY DEF Commit
<1> QED
  BY <1>3, <1>4 DEF IInv, TypeOK, Wellformed

(* The other writes touch no request. *)
LEMMA OthersKeep ==
  ASSUME IInv, Create \/ Delete \/ ChangeBouquet
  PROVE  IInv'
<1>1. rows' \in [Bids -> BouquetRow]
  BY PutListsAreLists, WrittenRows DEF IInv, TypeOK, Create, Delete, ChangeBouquet
<1>2. string' \in [Users -> BouquetStrings] /\ req' = req
  BY DEF IInv, TypeOK, Create, Delete, ChangeBouquet
<1> QED
  BY <1>1, <1>2 DEF IInv, TypeOK, Wellformed

(* The inductive invariant. *)
THEOREM Invariance == Spec => []IInv
<1>1. Init => IInv
  BY WrittenRows DEF Init, IInv, TypeOK, Wellformed, BouquetStrings
<1>2. IInv /\ [Next]_vars => IInv'
  <2> SUFFICES ASSUME IInv, [Next]_vars PROVE IInv'
    OBVIOUS
  <2>1. CASE UNCHANGED vars
    BY <2>1 DEF vars, IInv, TypeOK, Wellformed
  <2>2. ASSUME NEW a \in Admins, AddStreams(a) PROVE IInv'
    <3>1. PICK b \in Bids, s \in Streams : Read(a, b, "add", {s}, rows[b].channels \cup {s})
      BY <2>2 DEF AddStreams
    <3>2. rows[b].channels \in SUBSET Streams
      BY DEF IInv, TypeOK, BouquetRow
    <3> QED
      BY <3>1, <3>2, ReadKeeps
  <2>3. ASSUME NEW a \in Admins, RemoveStreams(a) PROVE IInv'
    <3>1. PICK b \in Bids, s \in Streams : Read(a, b, "remove", {s}, rows[b].channels \ {s})
      BY <2>3 DEF RemoveStreams
    <3>2. rows[b].channels \in SUBSET Streams
      BY DEF IInv, TypeOK, BouquetRow
    <3> QED
      BY <3>1, <3>2, ReadKeeps
  <2>4. ASSUME NEW a \in Admins, PutChannels(a) PROVE IInv'
    BY <2>4, ReadKeeps, PutListsAreLists DEF PutChannels
  <2>5. ASSUME NEW a \in Admins, Commit(a) PROVE IInv'
    BY <2>5, CommitKeeps
  <2> QED
    BY <2>1, <2>2, <2>3, <2>4, <2>5, OthersKeep DEF Next
<1> QED
  BY <1>1, <1>2, PTL DEF Spec

(* The tables and requests keep their types. *)
THEOREM TypeCorrect == Spec => []TypeOK
<1>1. IInv => TypeOK
  BY DEF IInv
<1> QED
  BY <1>1, Invariance, PTL

(* A step that ends a request is its commit. *)
LEMMA EndIsCommit ==
  ASSUME IInv, [Next]_vars, NEW a \in Admins, Ends(a)
  PROVE  Commit(a)
  BY DEF IInv, TypeOK, vars, Next, AddStreams, RemoveStreams, PutChannels, Read,
     Commit, Create, Delete, ChangeBouquet, Requests, Ends

(* A request that was not overtaken changes its streams and no others. *)
THEOREM LoneRequests == Spec => LoneRequestsDoTheirJob
<1>1. IInv /\ [Next]_vars => \A a \in Admins : DoesItsJob(a)
  <2> SUFFICES ASSUME IInv, [Next]_vars, NEW a \in Admins,
                      Ends(a), ~Stale(a), rows[req[a].bid].state = "row"
               PROVE  LET before == rows[req[a].bid].channels
                          after  == rows'[req[a].bid].channels
                      IN  CASE req[a].op = "add"    -> after = before \cup req[a].ask
                            [] req[a].op = "remove" -> after = before \ req[a].ask
                            [] OTHER                -> after = req[a].ask
    BY DEF DoesItsJob
  <2>1. Commit(a)
    BY EndIsCommit
  <2>2. req[a] \in Requests
    BY DEF IInv, TypeOK, Ends
  <2>3. req[a].bid \in Bids /\ req[a].op \in {"add", "remove", "put"}
    BY <2>2 DEF Requests
  <2>4. rows'[req[a].bid].channels = req[a].list
    BY <2>1, <2>3 DEF Commit, IInv, TypeOK, BouquetRow, Stale
  <2> QED
    BY <2>3, <2>4 DEF IInv, Wellformed, Stale, Ends
<1> QED
  BY <1>1, Invariance, PTL DEF Spec, LoneRequestsDoTheirJob

(* What a user watches depends on his string and, for the bouquets it      *)
(* names, on their lists: a step that keeps the strings opens a stream     *)
(* only through a bouquet that comes to list it.                           *)
LEMMA OpenedByABouquet ==
  ASSUME string' = string, NEW u \in Users, NEW s \in Streams,
         ~Watches(u, s), Watches(u, s)'
  PROVE  \E b \in Bids : ~Listed(rows, b, s) /\ Listed(rows', b, s)
  BY DEF Watches, CheckBouquetAccess

(* Access widens only by what a request or a new bouquet asks for. *)
THEOREM AccessWidensOnlyByRequest == Spec => WidensOnlyByRequest
<1>1. ASSUME IInv, [Next]_vars, <<rows, req>>' # <<rows, req>>
      PROVE  string' = string
  BY <1>1 DEF vars, Next, AddStreams, RemoveStreams, PutChannels, Read, Commit, Create,
     Delete, ChangeBouquet
<1>2. ASSUME IInv, [Next]_vars, NEW b \in Bids, NEW s \in Streams,
             ~Listed(rows, b, s), Listed(rows', b, s)
      PROVE  OpensWithReason(s)
  <2>1. ASSUME NEW a \in Admins, Commit(a) PROVE OpensWithReason(s)
    <3>1. req[a] \in Requests /\ Ends(a)
      <4>1. req \in [Admins -> Requests \cup {None}]
        BY <1>2 DEF IInv, TypeOK
      <4>2. req[a] # None /\ req' = [req EXCEPT ![a] = None]
        BY <2>1 DEF Commit
      <4> QED
        BY <4>1, <4>2 DEF Ends
    <3>2. b = req[a].bid /\ s \in req[a].list /\ s \notin rows[b].channels
      BY <1>2, <2>1 DEF Commit, IInv, TypeOK, Listed, BouquetRow
    <3>3. CASE Stale(a)
      BY <3>1, <3>3 DEF OpensWithReason
    <3>4. CASE ~Stale(a)
      <4>1. s \notin req[a].read
        BY <3>2, <3>4 DEF Stale
      <4>2. s \in req[a].ask /\ req[a].op # "remove"
        <5>1. req[a].op \in {"add", "remove", "put"}
          BY <3>1 DEF Requests
        <5>2. /\ req[a].op = "add"    => req[a].list = req[a].read \cup req[a].ask
              /\ req[a].op = "remove" => req[a].list = req[a].read \ req[a].ask
              /\ req[a].op = "put"    => req[a].list = req[a].ask
          BY <1>2, <3>1 DEF IInv, Wellformed, Ends
        <5> QED
          BY <3>2, <4>1, <5>1, <5>2
      <4> QED
        BY <3>1, <4>2 DEF OpensWithReason
    <3> QED
      BY <3>3, <3>4
  <2>2. CASE Create
    BY <1>2, <2>2 DEF Create, OpensWithReason, Listed, IInv, TypeOK
  <2>3. CASE ~Create /\ \A a \in Admins : ~Commit(a)
    BY <1>2, <2>3 DEF vars, Next, AddStreams, RemoveStreams, PutChannels, Read, Delete,
       ChangeBouquet, Listed, IInv, TypeOK
  <2> QED
    BY <2>1, <2>2, <2>3
<1>3. IInv /\ [Next]_vars =>
        (<<rows, req>>' # <<rows, req>> =>
            \A u \in Users, s \in Streams :
                (~Watches(u, s) /\ Watches(u, s)') => OpensWithReason(s))
  BY <1>1, <1>2, OpenedByABouquet
<1> QED
  BY <1>3, Invariance, PTL DEF Spec, WidensOnlyByRequest

(* No request in progress brings a deleted bouquet back. *)
THEOREM DeletedBouquetsStay == Spec => DeletedStaysDeleted
<1>1. IInv /\ [Next]_vars =>
        \A b \in Bids : rows[b].state = "gone" => rows'[b] = rows[b]
  BY DEF IInv, TypeOK, vars, Next, AddStreams, RemoveStreams, PutChannels, Read, Commit,
     Create, Delete, ChangeBouquet
<1> QED
  BY <1>1, Invariance, PTL DEF Spec, DeletedStaysDeleted

-----------------------------------------------------------------------------
(* The library: what is stored, and what the rows refer to.                *)

(* An id belongs to one table. *)
LEMMA Apart ==
  /\ \A i \in Streams : i \notin Cats
  /\ \A i \in Films : i \notin Cats \cup Streams
  /\ \A i \in Shows : i \notin Cats \cup Streams \cup Films
  /\ \A i \in Episodes : i \notin Cats \cup Streams \cup Films \cup Shows
  /\ \A i \in Programmes : i \notin Cats \cup Streams \cup Films \cup Shows \cup Episodes
  /\ \A i \in Bids : i \notin Cats \cup Streams \cup Films \cup Shows \cup Episodes \cup Programmes
  /\ \A i \in Packages :
        i \notin Cats \cup Streams \cup Films \cup Shows \cup Episodes \cup Programmes \cup Bids
  BY TablesApart DEF TableOfIds

(* So its row has the shape of that table. *)
LEMMA Shapes ==
  /\ \A i \in Cats : Rows(i) = StreamCategory
  /\ \A i \in Streams : Rows(i) = Stream
  /\ \A i \in Films : Rows(i) = Movie
  /\ \A i \in Shows : Rows(i) = Series
  /\ \A i \in Episodes : Rows(i) = SeriesEpisode
  /\ \A i \in Programmes : Rows(i) = EpgData
  /\ \A i \in Bids : Rows(i) = Bouquet
  /\ \A i \in Packages : Rows(i) = Package
  BY Apart DEF Rows

(* No id is NULL. *)
LEMMA IdsAreNotNull == NULL \notin Ids \cup EpgIds
  BY LibraryAssumption

(* The library begins empty. *)
LEMMA LibraryStarts == LibraryInit => LibraryIInv
  BY DEF LibraryInit, LibraryIInv, LibraryTypeOK, Stored, BouquetStrings

(* A row that is created or overwritten refers to stored rows, and hides none. *)
LEMMA SaveKeeps == ASSUME LibraryIInv, NEW i \in Ids, Save(i) PROVE LibraryIInv'
<1> PICK row \in RowsWithin(i, Room(i)) : Refers(i, row) /\ rec' = [rec EXCEPT ![i] = row]
  BY DEF Save
<1>0. row \in Rows(i)
  <2>1. CASE i \in Bids
    BY <2>1, Shapes DEF RowsWithin, Bouquet
  <2>2. CASE i \notin Bids
    BY <2>2 DEF RowsWithin
  <2> QED
    BY <2>1, <2>2
<1>1. row # NULL
  BY <1>0, RowsAreStored
<1>2. /\ rec' = [j \in Ids |-> rec'[j]]
      /\ rec'[i] = row
      /\ \A j \in Ids \ {i} : rec'[j] = rec[j]
  BY DEF LibraryIInv, LibraryTypeOK
<1>3. \A j \in Ids : rec[j] # NULL => rec'[j] # NULL
  BY <1>1, <1>2
<1>4. \A j \in Ids : \A r : Refers(j, r) => Refers(j, r)'
  BY <1>3 DEF Refers, Stored, Ids
<1>5. \A j \in Stored(Ids)' : rec'[j] \in Rows(j) /\ Refers(j, rec[j])'
  BY <1>0, <1>2, <1>4 DEF LibraryIInv, LibraryTypeOK, Stored
<1> QED
  BY <1>2, <1>5 DEF LibraryIInv, LibraryTypeOK, Save

(* Clearing a reference leaves a row without it. *)
LEMMA Cleared ==
  /\ \A i \in Streams \cup Films \cup Shows : \A row \in Rows(i) :
        LET new == [row EXCEPT !.category = NULL]
        IN  new \in Rows(i) /\ new.category = NULL
  /\ \A i \in Programmes : \A row \in Rows(i) : \A c \in Streams \cup {NULL} :
        LET new == [row EXCEPT !.channel = c]
        IN  new \in Rows(i) /\ new.channel = c /\ new.epg_id = row.epg_id
<1>1. ASSUME NEW row \in Stream
      PROVE  LET new == [row EXCEPT !.category = NULL] IN new \in Stream /\ new.category = NULL
  BY DEF Stream
<1>2. ASSUME NEW row \in Movie
      PROVE  LET new == [row EXCEPT !.category = NULL] IN new \in Movie /\ new.category = NULL
  BY DEF Movie
<1>3. ASSUME NEW row \in Series
      PROVE  LET new == [row EXCEPT !.category = NULL] IN new \in Series /\ new.category = NULL
  BY DEF Series
<1>4. ASSUME NEW row \in EpgData, NEW c \in Streams \cup {NULL}
      PROVE  LET new == [row EXCEPT !.channel = c]
             IN  new \in EpgData /\ new.channel = c /\ new.epg_id = row.epg_id
  BY DEF EpgData
<1>5. \A i \in Streams \cup Films \cup Shows : Rows(i) \in {Stream, Movie, Series}
  BY Shapes
<1> QED
  BY <1>1, <1>2, <1>3, <1>4, <1>5, Shapes

(* A delete takes the row and what goes with it, and clears what else      *)
(* referred to it, so that nothing refers to what is gone.                 *)
LEMMA DeleteKeeps == ASSUME LibraryIInv, NEW i \in Ids, DeleteRow(i) PROVE LibraryIInv'
<1> PICK programmes \in {"cleared", "deleted"} :
      rec' = [j \in Ids |->
          IF j = i \/ rec[j] = NULL THEN NULL
          ELSE IF j \in Streams \cup Films \cup Shows /\ rec[j].category = i
               THEN [rec[j] EXCEPT !.category = NULL]
          ELSE IF j \in Episodes /\ rec[j].series = i THEN NULL
          ELSE IF j \in Programmes /\ rec[j].channel = i
               THEN IF programmes = "cleared" THEN [rec[j] EXCEPT !.channel = NULL] ELSE NULL
          ELSE rec[j]]
  BY DEF DeleteRow
<1> DEFINE kept == Stored(Ids) \ {i}
<1>1. \A j \in Ids : rec'[j] # NULL => j \in kept
  BY DEF Stored
<1>2. \A j \in kept : rec[j] \in Rows(j) /\ Refers(j, rec[j])
  BY DEF LibraryIInv, LibraryTypeOK, Stored
<1>3. \A j \in kept \cap (Cats \cup Bids \cup Packages) : rec'[j] = rec[j]
  BY Apart DEF Stored
<1>4. ASSUME NEW j \in kept \cap (Streams \cup Films \cup Shows)
      PROVE  /\ rec'[j] \in Rows(j)
             /\ rec'[j].category = IF rec[j].category = i THEN NULL ELSE rec[j].category
  <2>1. rec[j] \in Rows(j)
    BY <1>2
  <2>2. CASE rec[j].category = i
    <3>1. rec'[j] = [rec[j] EXCEPT !.category = NULL]
      BY <1>4, <2>2, Apart DEF Stored
    <3>2. /\ [rec[j] EXCEPT !.category = NULL] \in Rows(j)
          /\ [rec[j] EXCEPT !.category = NULL].category = NULL
      BY <1>4, <2>1, Cleared
    <3> QED
      BY <2>2, <3>1, <3>2
  <2>3. CASE rec[j].category # i
    <3>1. rec'[j] = rec[j]
      BY <1>4, <2>3, Apart DEF Stored
    <3> QED
      BY <2>1, <2>3, <3>1
  <2> QED
    BY <2>2, <2>3
<1>5. ASSUME NEW j \in kept \cap Episodes
      PROVE  rec'[j] = IF rec[j].series = i THEN NULL ELSE rec[j]
  BY <1>5, Apart DEF Stored
<1>6. ASSUME NEW j \in kept \cap Programmes, rec'[j] # NULL
      PROVE  /\ rec'[j] \in Rows(j)
             /\ rec'[j].channel = IF rec[j].channel = i THEN NULL ELSE rec[j].channel
  <2>1. rec[j] \in Rows(j)
    BY <1>2
  <2>2. CASE rec[j].channel = i
    <3>1. rec'[j] = [rec[j] EXCEPT !.channel = NULL]
      BY <1>6, <2>2, Apart DEF Stored
    <3>2. /\ [rec[j] EXCEPT !.channel = NULL] \in Rows(j)
          /\ [rec[j] EXCEPT !.channel = NULL].channel = NULL
      BY <1>6, <2>1, Cleared
    <3> QED
      BY <2>2, <3>1, <3>2
  <2>3. CASE rec[j].channel # i
    <3>1. rec'[j] = rec[j]
      BY <1>6, <2>3, Apart DEF Stored
    <3> QED
      BY <2>1, <2>3, <3>1
  <2> QED
    BY <2>2, <2>3
<1>7. ASSUME NEW j \in kept, rec'[j] # NULL PROVE rec'[j] \in Rows(j)
  <2>1. CASE j \in Cats \cup Bids \cup Packages
    BY <1>2, <1>3, <2>1
  <2>2. CASE j \in Streams \cup Films \cup Shows
    BY <1>4, <2>2
  <2>3. CASE j \in Episodes
    BY <1>2, <1>5, <1>7, <2>3
  <2>4. CASE j \in Programmes
    BY <1>6, <1>7, <2>4
  <2> QED
    BY <2>1, <2>2, <2>3, <2>4 DEF Stored, Ids
<1>8. \A j \in kept \cap (Cats \cup Streams \cup Films \cup Shows) : rec'[j] # NULL
  <2> TAKE j \in kept \cap (Cats \cup Streams \cup Films \cup Shows)
  <2>1. CASE j \in Cats
    BY <1>3, <2>1 DEF Stored
  <2>2. CASE j \in Streams \cup Films \cup Shows
    <3>1. rec'[j] \in Rows(j)
      BY <1>4, <2>2
    <3> QED
      BY <3>1, RowsAreStored DEF Stored
  <2> QED
    BY <2>1, <2>2
<1>9. ASSUME NEW j \in kept, rec'[j] # NULL PROVE Refers(j, rec[j])'
  <2>1. CASE j \in Streams \cup Films \cup Shows
    <3>1. rec[j].category \in Stored(Cats) \cup {NULL}
      BY <1>2, <2>1 DEF Refers
    <3>2. rec'[j].category = IF rec[j].category = i THEN NULL ELSE rec[j].category
      BY <1>4, <2>1
    <3>3. \A c \in Stored(Cats) \ {i} : c \in Stored(Cats)'
      BY <1>8 DEF Stored, Ids
    <3>4. rec'[j].category \in Stored(Cats)' \cup {NULL}
      BY <3>1, <3>2, <3>3
    <3> QED
      BY <2>1, <3>4, Apart DEF Refers
  <2>2. CASE j \in Episodes
    <3>1. rec'[j] = rec[j] /\ rec[j].series \in Stored(Shows) \ {i}
      BY <1>2, <1>5, <1>9, <2>2 DEF Refers
    <3>2. \A h \in Stored(Shows) \ {i} : h \in Stored(Shows)'
      BY <1>8 DEF Stored, Ids
    <3>3. rec'[j].series \in Stored(Shows)'
      BY <3>1, <3>2
    <3> QED
      BY <2>2, <3>3, Apart DEF Refers
  <2>3. CASE j \in Programmes
    <3>1. rec[j].channel \in Stored(Streams) \cup {NULL}
      BY <1>2, <2>3 DEF Refers
    <3>2. rec'[j].channel = IF rec[j].channel = i THEN NULL ELSE rec[j].channel
      BY <1>6, <1>9, <2>3
    <3>3. \A s \in Stored(Streams) \ {i} : s \in Stored(Streams)'
      BY <1>8 DEF Stored, Ids
    <3>4. rec'[j].channel \in Stored(Streams)' \cup {NULL}
      BY <3>1, <3>2, <3>3
    <3> QED
      BY <2>3, <3>4, Apart DEF Refers
  <2>4. CASE j \notin Streams \cup Films \cup Shows \cup Episodes \cup Programmes
    BY <2>4 DEF Refers
  <2> QED
    BY <2>1, <2>2, <2>3, <2>4
<1>10. rec' = [j \in Ids |-> rec'[j]]
  OBVIOUS
<1>11. \A j \in Stored(Ids)' : rec'[j] \in Rows(j) /\ Refers(j, rec[j])'
  BY <1>1, <1>7, <1>9 DEF Stored
<1> QED
  BY <1>10, <1>11 DEF LibraryIInv, LibraryTypeOK, DeleteRow

(* A programme is linked to a stored stream of its name, or left as it was. *)
LEMMA LinksReachStreams ==
  ASSUME LibraryIInv, NEW links \in Links, NEW p \in Stored(Programmes)
  PROVE  links[p] \in Stored(Streams) \cup {NULL}
<1> PICK channelOf \in [EpgIds -> Streams \cup {NULL}] :
      /\ \A n \in EpgIds : channelOf[n] \in ChannelsOf(n)
      /\ links = [q \in Stored(Programmes) |->
            IF channelOf[rec[q].epg_id] # NULL THEN channelOf[rec[q].epg_id] ELSE rec[q].channel]
  BY DEF Links
<1>1. p \in Ids /\ rec[p] \in EpgData /\ rec[p].channel \in Stored(Streams) \cup {NULL}
  <2>1. p \in Stored(Ids) /\ p \in Programmes
    BY DEF Stored, Ids
  <2>2. rec[p] \in Rows(p) /\ Refers(p, rec[p])
    BY <2>1 DEF LibraryIInv, LibraryTypeOK
  <2> QED
    BY <2>1, <2>2, Shapes DEF Refers, Stored
<1>2. rec[p].epg_id \in EpgIds
  BY <1>1 DEF EpgData
<1>3. ChannelsOf(rec[p].epg_id) \subseteq Stored(Streams) \cup {NULL}
  BY DEF ChannelsOf
<1> QED
  BY <1>1, <1>2, <1>3

(* link_channels and cron:epg touch programmes, to which nothing refers. *)
LEMMA LinkedKeeps ==
  ASSUME LibraryIInv, NEW links \in Links, NEW old \in SUBSET Stored(Programmes),
         rec' = [j \in Ids |-> IF j \in old THEN NULL
                              ELSE IF j \in Stored(Programmes)
                                   THEN [rec[j] EXCEPT !.channel = links[j]]
                              ELSE rec[j]],
         UNCHANGED <<bouquet, allowed>>
  PROVE  LibraryIInv'
<1>1. \A j \in Stored(Ids) : rec[j] \in Rows(j) /\ Refers(j, rec[j])
  BY DEF LibraryIInv, LibraryTypeOK
<1>2. \A j \in Ids \ Programmes : rec'[j] = rec[j]
  BY DEF Stored
<1>3. \A j \in Cats \cup Streams \cup Shows : j \in Ids /\ rec'[j] = rec[j]
  BY <1>2, Apart DEF Ids
<1>4. /\ Stored(Cats)' = Stored(Cats)
      /\ Stored(Streams)' = Stored(Streams)
      /\ Stored(Shows)' = Stored(Shows)
  BY <1>3 DEF Stored
<1>5. \A j \in Programmes : rec'[j] # NULL => j \in Stored(Programmes) \ old
  BY DEF Stored, Ids
<1>6. ASSUME NEW j \in Programmes, rec'[j] # NULL
      PROVE  /\ rec'[j] \in Rows(j)
             /\ rec'[j].channel \in Stored(Streams) \cup {NULL}
  <2>1. j \in Stored(Programmes) /\ j \notin old /\ j \in Stored(Ids)
    BY <1>5, <1>6 DEF Stored, Ids
  <2>2. rec'[j] = [rec[j] EXCEPT !.channel = links[j]]
    BY <2>1 DEF Stored
  <2>3. links[j] \in Stored(Streams) \cup {NULL}
    BY <2>1, LinksReachStreams
  <2>4. rec[j] \in Rows(j) /\ links[j] \in Streams \cup {NULL}
    BY <1>1, <2>1, <2>3 DEF Stored
  <2>5. /\ [rec[j] EXCEPT !.channel = links[j]] \in Rows(j)
        /\ [rec[j] EXCEPT !.channel = links[j]].channel = links[j]
    BY <2>4, Cleared
  <2> QED
    BY <2>2, <2>3, <2>5
<1>7. ASSUME NEW j \in Ids, rec'[j] # NULL
      PROVE  rec'[j] \in Rows(j) /\ Refers(j, rec[j])'
  <2>1. CASE j \in Programmes
    BY <1>4, <1>6, <1>7, <2>1, Apart DEF Refers
  <2>2. CASE j \notin Programmes
    <3>1. rec'[j] = rec[j] /\ j \in Stored(Ids)
      BY <1>2, <1>7, <2>2 DEF Stored
    <3> QED
      BY <1>1, <1>4, <2>2, <3>1 DEF Refers
  <2> QED
    BY <2>1, <2>2
<1>8. rec' = [j \in Ids |-> rec'[j]]
  OBVIOUS
<1> QED
  BY <1>7, <1>8 DEF LibraryIInv, LibraryTypeOK, Stored

(* The rows keep the shape of their tables and refer to stored rows only. *)
LEMMA LibraryKeeps == LibraryIInv /\ [LibraryNext]_libraryVars => LibraryIInv'
<1> SUFFICES ASSUME LibraryIInv, [LibraryNext]_libraryVars PROVE LibraryIInv'
  OBVIOUS
<1>1. CASE \E i \in Ids : Save(i) \/ DeleteRow(i)
  BY <1>1, SaveKeeps, DeleteKeeps
<1>2. CASE LinkChannels
  <2> PICK links \in Links :
        rec' = [j \in Ids |-> IF j \in Stored(Programmes)
                             THEN [rec[j] EXCEPT !.channel = links[j]] ELSE rec[j]]
    BY <1>2 DEF LinkChannels
  <2>1. rec' = [j \in Ids |-> IF j \in {} THEN NULL
                             ELSE IF j \in Stored(Programmes)
                                  THEN [rec[j] EXCEPT !.channel = links[j]]
                             ELSE rec[j]]
    OBVIOUS
  <2>2. {} \in SUBSET Stored(Programmes) /\ UNCHANGED <<bouquet, allowed>>
    BY <1>2 DEF LinkChannels
  <2> QED
    BY <2>1, <2>2, LinkedKeeps
<1>3. CASE CronEpg
  BY <1>3, LinkedKeeps DEF CronEpg
<1>4. CASE EditBouquet \/ AllowPackages \/ UNCHANGED libraryVars
  <2>1. rec' = rec /\ bouquet' \in BouquetStrings /\ allowed' \in {NULL} \cup SUBSET Packages
    BY <1>4 DEF EditBouquet, AllowPackages, libraryVars, LibraryIInv, LibraryTypeOK
  <2> QED
    BY <2>1 DEF LibraryIInv, LibraryTypeOK, Stored, Refers
<1> QED
  BY <1>1, <1>2, <1>3, <1>4 DEF LibraryNext

(* In every state of the library no stored row refers to one that is gone. *)
THEOREM LibraryInvariance == LibrarySpec => []LibraryIInv
  BY LibraryStarts, LibraryKeeps, PTL DEF LibrarySpec

(* A category that no request names is one of a type. *)
LEMMA MenuOf ==
  ASSUME NEW type, NEW all, NEW in, NEW c \in Stored(Cats), bouquet # {},
         in = {i \in all : rec[i].category = c}
  PROVE  c \in CategoriesFor(type, all) <=> rec[c].type = type /\ in # {}
  BY DEF CategoriesFor, CategoriesOf

(* A restricted viewer's MAG menus offer the categories with something in  *)
(* them for him, and no other.                                             *)
THEOREM MenusLeadSomewhere == LibrarySpec => []MenusLead
<1>1. ASSUME bouquet # {}, NEW c \in Stored(Cats)
      PROVE  /\ c \in MagGenres <=> rec[c].type = "live" /\ MagChannels(c) # {}
             /\ c \in MagVodCategories <=> rec[c].type = "movie" /\ MagMovies(c) # {}
             /\ c \in MagSeriesCategories <=> rec[c].type = "series" /\ MagSeries(c) # {}
  <2>1. c # NULL
    BY IdsAreNotNull DEF Stored, Ids
  <2>2. MagChannels(c) = {i \in MagChannels(NULL) : rec[i].category = c}
    BY <2>1 DEF MagChannels, GetLiveStreams, InCategory
  <2>3. MagMovies(c) = {i \in MagMovies(NULL) : rec[i].category = c}
    BY <2>1 DEF MagMovies, GetMovies, InCategory
  <2>4. MagSeries(c) = {i \in MagSeries(NULL) : rec[i].category = c}
    BY <2>1 DEF MagSeries, GetSeries, InCategory
  <2> QED
    BY <1>1, <2>2, <2>3, <2>4, MenuOf DEF MagGenres, MagVodCategories, MagSeriesCategories
<1>2. MenusLead
  BY <1>1 DEF MenusLead
<1> QED
  BY <1>2, PTL

(* An entry of a cut list is on a longer one, and on one of fewer entries. *)
LEMMA NewestNest ==
  ASSUME NEW m \in Nat, NEW n \in Nat, m <= n,
         NEW S, IsFiniteSet(S), NEW T \in SUBSET S, NEW i \in T, i \in Newest(m, S)
  PROVE  i \in Newest(n, T)
<1>1. NewerIn(T, i) \subseteq NewerIn(S, i) /\ NewerIn(S, i) \subseteq S
  BY DEF NewerIn
<1>2. IsFiniteSet(NewerIn(S, i))
  BY <1>1, FS_Subset
<1>3. IsFiniteSet(NewerIn(T, i)) /\ Cardinality(NewerIn(T, i)) <= Cardinality(NewerIn(S, i))
  BY <1>1, <1>2, FS_Subset
<1>4. Cardinality(NewerIn(S, i)) \in Nat /\ Cardinality(NewerIn(T, i)) \in Nat
  BY <1>2, <1>3, FS_CardinalityType
<1>5. Cardinality(NewerIn(S, i)) < m
  BY DEF Newest
<1> QED
  BY <1>3, <1>4, <1>5 DEF Newest

(* What a cut list leaves out has as many newer ones as the list holds. *)
LEMMA LeftOut ==
  ASSUME NEW n \in Nat, NEW S, IsFiniteSet(S), NEW i \in S, i \notin Newest(n, S)
  PROVE  Cardinality(NewerIn(S, i)) >= n
<1>1. NewerIn(S, i) \subseteq S
  BY DEF NewerIn
<1>2. IsFiniteSet(NewerIn(S, i))
  BY <1>1, FS_Subset
<1>3. Cardinality(NewerIn(S, i)) \in Nat
  BY <1>2, FS_CardinalityType
<1>4. ~(Cardinality(NewerIn(S, i)) < n)
  BY DEF Newest
<1> QED
  BY <1>3, <1>4

(* The rows of a category, of finitely many, are among all. *)
LEMMA InCategories ==
  /\ IsFiniteSet(GetMovies(NULL)) /\ IsFiniteSet(GetSeries(NULL))
  /\ \A c : /\ GetLiveStreams(c) \subseteq GetLiveStreams(NULL)
            /\ GetMovies(c) \subseteq GetMovies(NULL)
            /\ GetSeries(c) \subseteq GetSeries(NULL)
            /\ IsFiniteSet(GetMovies(c)) /\ IsFiniteSet(GetSeries(c))
<1>1. \A c : /\ GetLiveStreams(c) \subseteq GetLiveStreams(NULL)
             /\ GetMovies(c) \subseteq GetMovies(NULL) /\ GetMovies(c) \subseteq Films
             /\ GetSeries(c) \subseteq GetSeries(NULL) /\ GetSeries(c) \subseteq Shows
  BY DEF GetLiveStreams, GetMovies, GetSeries, InCategory, Stored
<1>2. \A c : IsFiniteSet(GetMovies(c)) /\ IsFiniteSet(GetSeries(c))
  <2> TAKE c
  <2>1. GetMovies(c) \subseteq Films /\ GetSeries(c) \subseteq Shows
    BY <1>1
  <2>2. IsFiniteSet(Films) /\ IsFiniteSet(Shows)
    BY Numbered
  <2> QED
    BY <2>1, <2>2, FS_Subset
<1> QED
  BY <1>1, <1>2

(* The limits are numbers, each no more than the next. *)
LEMMA Limits ==
  /\ WebLimit \in Nat /\ CatalogLimit \in Nat /\ PlayerLimit \in Nat
  /\ WebLimit <= CatalogLimit /\ CatalogLimit <= PlayerLimit /\ WebLimit <= PlayerLimit
  BY LimitsInOrder

(* The lists of one category nest as their limits do. *)
LEMMA ListsNest ==
  ASSUME NEW S, IsFiniteSet(S)
  PROVE  /\ Newest(WebLimit, S) \subseteq Newest(PlayerLimit, S)
         /\ Newest(WebLimit, S) \subseteq Newest(CatalogLimit, S)
         /\ Newest(CatalogLimit, S) \subseteq Newest(PlayerLimit, S)
<1>1. ASSUME NEW m \in Nat, NEW n \in Nat, m <= n
      PROVE  Newest(m, S) \subseteq Newest(n, S)
  <2>1. \A i \in Newest(m, S) : i \in S
    BY DEF Newest
  <2> QED
    BY <1>1, <2>1, NewestNest
<1> QED
  BY <1>1, Limits

(* What a box is offered is on the lists of the other doors that hold it,   *)
(* under a category they name, and those lists nest.                       *)
THEOREM OffersAreElsewhere == LibrarySpec => []OffersAreListed
<1>1. ASSUME NEW c \in Stored(Cats) \cup {NULL}
      PROVE  MagChannels(c) \cup UNION {EnigmaChannels(b) \cap GetLiveStreams(c) : b \in Stored(Bids)}
                \subseteq PlayerLists(c) \cap WebLists(c) \cap Playlist
  <2>1. /\ MagChannels(c) \subseteq GetLiveStreams(c)
        /\ \A b \in Stored(Bids) : EnigmaChannels(b) \cap GetLiveStreams(c) \subseteq GetLiveStreams(c)
    BY DEF MagChannels
  <2>2. GetLiveStreams(c) \subseteq PlayerLists(c) \cap WebLists(c) \cap Playlist
    BY InCategories DEF PlayerLists, WebLists, Playlist
  <2> QED
    BY <2>1, <2>2
<1>2. ASSUME NEW c \in Stored(Cats) \cup {NULL}, NEW f \in MagMovies(c)
      PROVE  /\ Fit(f, PlayerLists(c), PlayerLimit, GetMovies(c))
             /\ Fit(f, WebLists(c), WebLimit, GetMovies(c))
             /\ Fit(f, Playlist, CatalogLimit, GetMovies(NULL))
  <2>1. f \in GetMovies(c) /\ f \in GetMovies(NULL)
    BY InCategories DEF MagMovies
  <2>2. /\ f \notin PlayerLists(c) => f \notin Newest(PlayerLimit, GetMovies(c))
        /\ f \notin WebLists(c) => f \notin Newest(WebLimit, GetMovies(c))
        /\ f \notin Playlist => f \notin Newest(CatalogLimit, GetMovies(NULL))
    BY DEF PlayerLists, WebLists, Playlist
  <2>3. IsFiniteSet(GetMovies(c)) /\ IsFiniteSet(GetMovies(NULL))
    BY InCategories
  <2>4. f \notin PlayerLists(c) => Cardinality(NewerIn(GetMovies(c), f)) >= PlayerLimit
    BY <2>1, <2>2, <2>3, LeftOut, Limits
  <2>5. f \notin WebLists(c) => Cardinality(NewerIn(GetMovies(c), f)) >= WebLimit
    BY <2>1, <2>2, <2>3, LeftOut, Limits
  <2>6. f \notin Playlist => Cardinality(NewerIn(GetMovies(NULL), f)) >= CatalogLimit
    BY <2>1, <2>2, <2>3, LeftOut, Limits
  <2> QED
    BY <2>4, <2>5, <2>6 DEF Fit
<1>3. ASSUME NEW c \in Stored(Cats) \cup {NULL}, NEW h \in MagSeries(c)
      PROVE  /\ Fit(h, PlayerLists(c), PlayerLimit, GetSeries(c))
             /\ Fit(h, WebLists(c), WebLimit, GetSeries(c))
  <2>1. h \in GetSeries(c)
    BY DEF MagSeries
  <2>2. /\ h \notin PlayerLists(c) => h \notin Newest(PlayerLimit, GetSeries(c))
        /\ h \notin WebLists(c) => h \notin Newest(WebLimit, GetSeries(c))
    BY DEF PlayerLists, WebLists
  <2>3. IsFiniteSet(GetSeries(c))
    BY InCategories
  <2>4. h \notin PlayerLists(c) => Cardinality(NewerIn(GetSeries(c), h)) >= PlayerLimit
    BY <2>1, <2>2, <2>3, LeftOut, Limits
  <2>5. h \notin WebLists(c) => Cardinality(NewerIn(GetSeries(c), h)) >= WebLimit
    BY <2>1, <2>2, <2>3, LeftOut, Limits
  <2> QED
    BY <2>4, <2>5 DEF Fit
<1>4. ASSUME NEW c \in Stored(Cats) \cup {NULL}
      PROVE  WebLists(c) \subseteq PlayerLists(c)
  <2>1. IsFiniteSet(GetMovies(c)) /\ IsFiniteSet(GetSeries(c))
    BY InCategories
  <2>2. /\ Newest(WebLimit, GetMovies(c)) \subseteq Newest(PlayerLimit, GetMovies(c))
        /\ Newest(WebLimit, GetSeries(c)) \subseteq Newest(PlayerLimit, GetSeries(c))
    BY <2>1, ListsNest
  <2> QED
    BY <2>2 DEF WebLists, PlayerLists
<1>5. ASSUME NEW c \in Stored(Cats) \cup {NULL}, NEW i \in WebLists(NULL), rec[i].category = c
      PROVE  i \in WebLists(c)
  <2>1. CASE i \in GetLiveStreams(NULL)
    BY <1>5, <2>1 DEF GetLiveStreams, InCategory, WebLists
  <2>2. CASE i \in Newest(WebLimit, GetMovies(NULL))
    <3>1. i \in GetMovies(c)
      BY <1>5, <2>2 DEF Newest, GetMovies, InCategory
    <3>2. GetMovies(c) \subseteq GetMovies(NULL) /\ IsFiniteSet(GetMovies(NULL))
      BY InCategories
    <3>3. WebLimit \in Nat /\ WebLimit <= WebLimit
      BY Limits
    <3>4. i \in Newest(WebLimit, GetMovies(c))
      BY <2>2, <3>1, <3>2, <3>3, NewestNest
    <3> QED
      BY <3>4 DEF WebLists
  <2>3. CASE i \in Newest(WebLimit, GetSeries(NULL))
    <3>1. i \in GetSeries(c)
      BY <1>5, <2>3 DEF Newest, GetSeries, InCategory
    <3>2. GetSeries(c) \subseteq GetSeries(NULL) /\ IsFiniteSet(GetSeries(NULL))
      BY InCategories
    <3>3. WebLimit \in Nat /\ WebLimit <= WebLimit
      BY Limits
    <3>4. i \in Newest(WebLimit, GetSeries(c))
      BY <2>3, <3>1, <3>2, <3>3, NewestNest
    <3> QED
      BY <3>4 DEF WebLists
  <2> QED
    BY <2>1, <2>2, <2>3 DEF WebLists
<1>6. ASSUME NEW c \in Stored(Cats)
      PROVE  /\ WebLists(c) \cap Shows \subseteq EnigmaSeries(c)
             /\ EnigmaSeries(c) \subseteq PlayerLists(c)
  <2>1. IsFiniteSet(GetSeries(c))
    BY InCategories
  <2>2. /\ Newest(WebLimit, GetSeries(c)) \subseteq EnigmaSeries(c)
        /\ EnigmaSeries(c) \subseteq Newest(PlayerLimit, GetSeries(c))
    BY <2>1, ListsNest DEF EnigmaSeries
  <2>3. \A h \in Shows : h \notin GetLiveStreams(c) /\ h \notin Newest(WebLimit, GetMovies(c))
    BY Apart DEF GetLiveStreams, GetMovies, InCategory, Newest, Stored
  <2> QED
    BY <2>2, <2>3 DEF WebLists, PlayerLists
<1>7. WebLists(NULL) \ Shows \subseteq Playlist
  <2>1. Newest(WebLimit, GetMovies(NULL)) \subseteq Newest(CatalogLimit, GetMovies(NULL))
    BY InCategories, ListsNest
  <2>2. Newest(WebLimit, GetSeries(NULL)) \subseteq Shows
    BY DEF Newest, GetSeries, InCategory, Stored
  <2> QED
    BY <2>1, <2>2 DEF WebLists, Playlist
<1>8. /\ MagGenres \subseteq PlayerCategories.live \cap WebCategories
      /\ MagVodCategories \subseteq PlayerCategories.movie \cap WebCategories
      /\ MagSeriesCategories \subseteq PlayerCategories.series \cap WebCategories
  BY DEF MagGenres, MagVodCategories, MagSeriesCategories, CategoriesFor,
         PlayerCategories, WebCategories
<1>9. OffersAreListed
  BY <1>1, <1>2, <1>3, <1>4, <1>5, <1>6, <1>7, <1>8 DEF OffersAreListed
<1> QED
  BY <1>9, PTL

(* A guide that is cut off goes on until it is full. *)
LEMMA EarliestReach ==
  ASSUME NEW limit, NEW S, NEW shown \in Earliest(limit, S)
  PROVE  shown \subseteq S /\ \A p \in S : Reaches(shown, limit, p)
  BY DEF Earliest, Reaches

(* The XMLTV file has the guides of the live channels, and under the name   *)
(* of each the whole of its guide.                                         *)
LEMMA XmltvHasAll ==
  /\ Xmltv = UNION {StreamGuide(s) : s \in GetLiveStreams(NULL)}
  /\ \A s \in GetLiveStreams(NULL) :
        {p \in Xmltv : rec[p].epg_id = rec[s].epg_channel_id} = StreamGuide(s)
<1> DEFINE live == GetLiveStreams(NULL)
           named == {t \in live : rec[t].epg_channel_id # NULL}
<1>1. \A s \in live :
        StreamGuide(s) = IF s \in named THEN Guide(rec[s].epg_channel_id) ELSE {}
  BY DEF StreamGuide, GetLiveStreams, InCategory
<1>2. Xmltv = UNION {Guide(rec[s].epg_channel_id) : s \in named}
  BY DEF Xmltv
<1>3. \A s \in live \ named : rec[s].epg_channel_id = NULL
  OBVIOUS
<1>4. \A s \in named : s \in live /\ rec[s].epg_channel_id # NULL
  OBVIOUS
<1> HIDE DEF live, named
<1>5. Xmltv = UNION {StreamGuide(s) : s \in live}
  BY <1>1, <1>2, <1>4
<1>6. ASSUME NEW s \in live
      PROVE  {p \in Xmltv : rec[p].epg_id = rec[s].epg_channel_id} = StreamGuide(s)
  <2>1. CASE s \in named
    <3>1. StreamGuide(s) = Guide(rec[s].epg_channel_id)
      BY <1>1, <2>1
    <3>2. StreamGuide(s) \subseteq Xmltv
      BY <1>2, <2>1, <3>1
    <3>3. \A p \in Xmltv : p \in Stored(Programmes)
      BY <1>2 DEF Guide
    <3> QED
      BY <3>1, <3>2, <3>3 DEF Guide
  <2>2. CASE s \notin named
    <3>1. \A p \in Xmltv : rec[p].epg_id # NULL
      BY <1>2, <1>4 DEF Guide
    <3> QED
      BY <1>1, <1>3, <2>2, <3>1
  <2> QED
    BY <2>1, <2>2
<1> QED
  BY <1>5, <1>6 DEF live

(* The times of a programme are numbers. *)
LEMMA ProgrammeTimes ==
  ASSUME LibraryIInv, NEW p \in Stored(Programmes)
  PROVE  rec[p].end \in Nat /\ rec[p].start \in Nat
<1>1. p \in Programmes /\ p \in Stored(Ids)
  BY DEF Stored, Ids
<1>2. rec[p] \in EpgData
  BY <1>1, Shapes DEF LibraryIInv, LibraryTypeOK
<1>3. Times \subseteq Nat
  BY LimitsInOrder DEF Times
<1> QED
  BY <1>2, <1>3 DEF EpgData

(* The guides of the doors differ only in where they stop. *)
THEOREM GuidesAreOne == LibrarySpec => []GuidesAgree
<1>1. ASSUME LibraryIInv,
             NEW s \in MagChannels(NULL) \cup UNION {EnigmaChannels(b) : b \in Stored(Bids)}
      PROVE  LET guide == {p \in Xmltv : rec[p].epg_id = rec[s].epg_channel_id}
             IN  /\ s \in Playlist
                 /\ \A shown \in EnigmaGuides(s) :
                       shown \subseteq guide /\ \A p \in guide : Reaches(shown, EnigmaGuideLimit, p)
                 /\ s \in MagChannels(NULL) =>
                       \A shown \in MagGuides(s) :
                           shown \subseteq guide
                             /\ \A p \in guide : Reaches(shown, MagGuideLimit, p)
                 /\ \A from, until \in Times : PlayerGuide(s, from, until) \subseteq guide
                 /\ \A now, until \in Times :
                       /\ s \in MagChannels(NULL) => MagShortGuides(s, now) = ShortGuides(s, now)
                       /\ \A shown \in ShortGuides(s, now) :
                             /\ shown \subseteq guide
                             /\ \A p \in PlayerGuide(s, now, until) : Reaches(shown, ShortLimit, p)
  <2>1. s \in GetLiveStreams(NULL)
    BY DEF MagChannels, EnigmaChannels
  <2>2. {p \in Xmltv : rec[p].epg_id = rec[s].epg_channel_id} = StreamGuide(s)
    BY <2>1, XmltvHasAll
  <2>3. s \in Playlist
    BY <2>1 DEF Playlist
  <2>4. EnigmaGuides(s) = Earliest(EnigmaGuideLimit, StreamGuide(s))
    BY <2>1 DEF EnigmaGuides, GetLiveStreams, InCategory
  <2>5. s \in MagChannels(NULL) =>
          /\ MagGuides(s) = Earliest(MagGuideLimit, StreamGuide(s))
          /\ \A now : MagShortGuides(s, now) = ShortGuides(s, now)
    BY DEF MagChannels, MagGuides, MagShortGuides
  <2>6. \A from, until : PlayerGuide(s, from, until) \subseteq StreamGuide(s)
    BY DEF PlayerGuide
  <2>7. ASSUME NEW now \in Times, NEW until \in Times, NEW shown \in ShortGuides(s, now)
        PROVE  /\ shown \subseteq StreamGuide(s)
               /\ \A p \in PlayerGuide(s, now, until) : Reaches(shown, ShortLimit, p)
    <3> DEFINE ahead == {p \in StreamGuide(s) : rec[p].end >= now}
    <3>1. shown \subseteq ahead /\ \A p \in ahead : Reaches(shown, ShortLimit, p)
      BY EarliestReach DEF ShortGuides
    <3>2. ASSUME NEW p \in PlayerGuide(s, now, until) PROVE p \in ahead
      <4>1. p \in StreamGuide(s) /\ rec[p].end > now
        BY DEF PlayerGuide
      <4>2. p \in Stored(Programmes)
        BY <4>1 DEF StreamGuide, Guide
      <4>3. rec[p].end \in Nat /\ now \in Int
        BY <1>1, <4>2, ProgrammeTimes DEF Times
      <4> QED
        BY <4>1, <4>3
    <3>3. ahead \subseteq StreamGuide(s)
      OBVIOUS
    <3> HIDE DEF ahead
    <3> QED
      BY <3>1, <3>2, <3>3
  <2> QED
    BY <2>2, <2>3, <2>4, <2>5, <2>6, <2>7, EarliestReach
<1>2. LibraryIInv => GuidesAgree
  BY <1>1, XmltvHasAll DEF GuidesAgree
<1> QED
  BY <1>2, LibraryInvariance, PTL

(* The seasons of a series, as numbered by the Enigma2 API, divide exactly *)
(* the episodes that the other doors show.                                 *)
THEOREM SeasonsHoldTheEpisodes == LibrarySpec => []EpisodesAgree
<1>1. EpisodesAgree
  BY DEF EpisodesAgree, PlayerSeriesInfo, EnigmaSeasons, EnigmaEpisodes, WebEpisodes, GetEpisodes
<1> QED
  BY <1>1, PTL

(* A list of a bouquet as the portals read it is the list of its row. *)
LEMMA ListedIs ==
  ASSUME NEW list, NEW b \in Bids, NEW x
  PROVE  /\ Lists(list)[b].state = "row" <=> rec[b] # NULL
         /\ Listed(Lists(list), b, x) <=> rec[b] # NULL /\ x \in rec[b][list]
<1>1. CASE rec[b] = NULL
  <2>1. Lists(list)[b] = [NoBouquet EXCEPT !.state = "gone"]
    BY <1>1 DEF Lists
  <2>2. Lists(list)[b].state = "gone"
    BY <2>1 DEF NoBouquet
  <2> QED
    BY <1>1, <2>2 DEF Listed
<1>2. CASE rec[b] # NULL
  <2>1. Lists(list)[b] = [state |-> "row", channels |-> rec[b][list]]
    BY <1>2 DEF Lists
  <2> QED
    BY <1>2, <2>1 DEF Listed
<1> QED
  BY <1>1, <1>2

(* For a viewer with the bouquets of a reseller's packages, the three       *)
(* readings of his string and the reseller's scope are the same.           *)
LEMMA ScopeIs ==
  ASSUME LibraryIInv, allowed # NULL, bouquet # {},
         bouquet = UNION {rec[p].bouquets : p \in ResellerPackages},
         NEW list, NEW x
  PROVE  /\ MagMay(list, x) <=> x \in ContentScope(list)
         /\ CheckBouquetAccess(FALSE, bouquet, Lists(list), x) <=> x \in ContentScope(list)
         /\ (\E b \in BouquetsForUser(bouquet, Lists(list)) : x \in rec[b][list])
                <=> x \in ContentScope(list)
<1>1. ResellerPackages = Stored(allowed) /\ allowed \subseteq Packages
  BY DEF ResellerPackages, LibraryIInv, LibraryTypeOK
<1>2. bouquet \subseteq Bids
  <2>1. ASSUME NEW p \in Stored(allowed) PROVE rec[p].bouquets \subseteq Bids
    <3>1. p \in Packages /\ p \in Stored(Ids)
      BY <1>1, <2>1 DEF Stored, Ids
    <3>2. rec[p] \in Package
      BY <3>1, Shapes DEF LibraryIInv, LibraryTypeOK
    <3> QED
      BY <3>2 DEF Package
  <2> QED
    BY <1>1, <2>1
<1>3. x \in ContentScope(list) <=> \E b \in bouquet : rec[b] # NULL /\ x \in rec[b][list]
  <2>1. ContentScope(list) = UNION {rec[b][list] : b \in Stored(bouquet)}
    BY <1>1 DEF ContentScope
  <2> QED
    BY <2>1 DEF Stored
<1>4. x \in ContentScope(list) <=> \E b \in bouquet \cap Bids : Listed(Lists(list), b, x)
  BY <1>2, <1>3, ListedIs
<1>5. (\E b \in BouquetsForUser(bouquet, Lists(list)) : x \in rec[b][list])
        <=> \E b \in bouquet \cap Bids : rec[b] # NULL /\ x \in rec[b][list]
  BY <1>2, ListedIs DEF BouquetsForUser
<1> QED
  BY <1>2, <1>3, <1>4, <1>5 DEF MagMay, MagAllows, CheckBouquetAccess

(* A reseller is shown what a viewer with the bouquets he sells is shown,   *)
(* whatever was deleted since those packages were made; of the created     *)
(* channels he is shown the enabled ones are those that play.              *)
THEOREM ResellersSeeWhatTheySell == LibrarySpec => []ScopeIsWhatViewersGet
<1> DEFINE granted == UNION {rec[p].bouquets : p \in ResellerPackages}
           created == {s \in Stored(Streams) : rec[s].type = "channel"}
           radios == {s \in Stored(Streams) : rec[s].type = "radio"}
<1>1. ASSUME LibraryIInv, allowed # NULL, granted # {}, bouquet = granted
      PROVE  /\ ResellerStreams(NULL) = MagChannels(NULL)
             /\ ResellerStreams(NULL) = UNION {EnigmaChannels(b) : b \in Bids}
             /\ ResellerMovies(NULL) = MagMovies(NULL)
             /\ {s \in ResellerChannels : rec[s].enabled} = {s \in created : LivePlays(s)}
             /\ ResellerRadios =
                   {s \in radios : CheckBouquetAccess(FALSE, bouquet, Lists("radios"), s)}
             /\ ResellerEpisodes = UNION {GetEpisodes(h) : h \in MagSeries(NULL)}
  <2>1. \A list, x :
          /\ MagMay(list, x) <=> x \in ContentScope(list)
          /\ CheckBouquetAccess(FALSE, bouquet, Lists(list), x) <=> x \in ContentScope(list)
    BY <1>1, ScopeIs
  <2>2. \A x : (\E b \in BouquetsForUser(bouquet, Lists("channels")) : x \in rec[b].channels)
                  <=> x \in ContentScope("channels")
    BY <1>1, ScopeIs
  <2>3. ResellerStreams(NULL) = MagChannels(NULL)
    BY <1>1, <2>1 DEF ResellerStreams, InScope, MagChannels
  <2>4. ResellerStreams(NULL) = UNION {EnigmaChannels(b) : b \in Bids}
    <3>1. \A x : (\E b \in Bids : x \in EnigmaChannels(b))
                   <=> x \in GetLiveStreams(NULL) /\ x \in ContentScope("channels")
      BY <2>2 DEF EnigmaChannels, BouquetsForUser
    <3> QED
      BY <1>1, <3>1 DEF ResellerStreams, InScope
  <2>5. ResellerMovies(NULL) = MagMovies(NULL)
    BY <1>1, <2>1 DEF ResellerMovies, InScope, MagMovies
  <2>6. /\ {s \in ResellerChannels : rec[s].enabled} = {s \in created : LivePlays(s)}
        /\ ResellerRadios =
              {s \in radios : CheckBouquetAccess(FALSE, bouquet, Lists("radios"), s)}
    BY <1>1, <2>1 DEF ResellerChannels, ResellerRadios, InScope, LivePlays
  <2>7. ResellerEpisodes = UNION {GetEpisodes(h) : h \in MagSeries(NULL)}
    <3>1. ASSUME NEW e \in Stored(Episodes) PROVE rec[e].series \in Stored(Shows)
      <4>1. e \in Episodes /\ e \in Stored(Ids)
        BY DEF Stored, Ids
      <4> QED
        BY <1>1, <4>1 DEF LibraryIInv, Refers
    <3>2. \A h : h \in MagSeries(NULL) <=> h \in Stored(Shows) /\ h \in ContentScope("series")
      BY <2>1 DEF MagSeries, GetSeries, InCategory
    <3>3. \A e : (\E h \in MagSeries(NULL) : e \in GetEpisodes(h))
                   <=> e \in Stored(Episodes) /\ rec[e].series \in ContentScope("series")
      BY <3>1, <3>2 DEF GetEpisodes
    <3> QED
      BY <1>1, <3>3 DEF ResellerEpisodes
  <2> QED
    BY <2>3, <2>4, <2>5, <2>6, <2>7
<1>2. LibraryIInv => ScopeIsWhatViewersGet
  BY <1>1 DEF ScopeIsWhatViewersGet
<1> QED
  BY <1>2, LibraryInvariance, PTL

(* After link_channels, the reseller finds under a channel that has its     *)
(* name alone all the programmes his viewers find there.                   *)
THEOREM LinksServeTheGuide == LibrarySpec => []LinkedGuides
<1>1. ASSUME LibraryIInv, NEW links \in Links, NEW s \in Stored(Streams),
             \A t \in Stored(Streams) \ {s} : rec[t].epg_channel_id # rec[s].epg_channel_id,
             allowed = NULL \/ s \in ContentScope("channels"),
             NEW p \in StreamGuide(s)
      PROVE  p \in ResellerGuide(s, links)
  <2> PICK channelOf \in [EpgIds -> Streams \cup {NULL}] :
        /\ \A n \in EpgIds : channelOf[n] \in ChannelsOf(n)
        /\ links = [q \in Stored(Programmes) |->
              IF channelOf[rec[q].epg_id] # NULL THEN channelOf[rec[q].epg_id] ELSE rec[q].channel]
    BY DEF Links
  <2>1. p \in Stored(Programmes) /\ rec[p].epg_id = rec[s].epg_channel_id
    BY DEF StreamGuide, Guide
  <2>2. rec[p].epg_id \in EpgIds
    <3>1. p \in Programmes /\ p \in Stored(Ids)
      BY <2>1 DEF Stored, Ids
    <3>2. rec[p] \in EpgData
      BY <1>1, <3>1, Shapes DEF LibraryIInv, LibraryTypeOK
    <3> QED
      BY <3>2 DEF EpgData
  <2>3. {t \in Stored(Streams) : rec[t].epg_channel_id = rec[p].epg_id} = {s}
    BY <1>1, <2>1
  <2>4. ChannelsOf(rec[p].epg_id) = {s}
    BY <2>3 DEF ChannelsOf
  <2>5. channelOf[rec[p].epg_id] = s /\ s # NULL
    BY <2>2, <2>4, IdsAreNotNull DEF Stored, Ids
  <2>6. links[p] = s
    BY <2>1, <2>5
  <2> QED
    BY <1>1, <2>1, <2>6 DEF ResellerGuide
<1>2. LibraryIInv => LinkedGuides
  BY <1>1 DEF LinkedGuides
<1> QED
  BY <1>2, LibraryInvariance, PTL

=============================================================================
