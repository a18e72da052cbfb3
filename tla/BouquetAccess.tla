--------------------------- MODULE BouquetAccess ---------------------------
(***************************************************************************)
(* What the bouquet string of a user lets him see: the three readings of   *)
(* it in the code, as operators of the rows.  The live and timeshift       *)
(* routes ask StreamAuth (src/src/streaming/auth/stream_auth.py), the MAG  *)
(* portal and the Enigma2 API parse the string themselves.                 *)
(*                                                                         *)
(* Abstracted: the string "3, x, 7" is the set of its parts, a bouquet id  *)
(* or a Word; the ids are written without a sign, as the panel writes      *)
(* them.  A channel list is the set of its stream ids.                     *)
(***************************************************************************)
CONSTANTS
    Bids,      \* bouquet ids
    Streams,   \* stream ids
    Words      \* parts of a bouquet string that are no number

ASSUME WordsAreNoIds == Words \cap Bids = {}

(* An id that was never given out, the id of a row, the id of a deleted row. *)
RowStates == {"unused", "row", "gone"}
BouquetRow == [state : RowStates, channels : SUBSET Streams]
NoBouquet == [state |-> "unused", channels |-> {}]
BouquetStrings == SUBSET (Bids \cup Words)

Listed(rows, b, s) == rows[b].state = "row" /\ s \in rows[b].channels

(* StreamAuth.check_bouquet_access: an administrator and a user without an *)
(* id in his string are not restricted; an id without a row gives nothing. *)
CheckBouquetAccess(isAdmin, string, rows, s) ==
    \/ isAdmin
    \/ string \cap Bids = {}
    \/ \E b \in string \cap Bids : Listed(rows, b, s)

(* _bouquet_restrictions of the MAG portal: only the empty string is no    *)
(* restriction, and administrators are restricted like everyone.           *)
MagAllows(string, rows, s) ==
    string = {} \/ \E b \in string \cap Bids : Listed(rows, b, s)

(* _bouquets_for_user of the Enigma2 API: without an id, every bouquet.    *)
BouquetsForUser(string, rows) ==
    {b \in Bids : rows[b].state = "row" /\ (string \cap Bids = {} \/ b \in string)}
=============================================================================
