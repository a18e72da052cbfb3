------------------------------ MODULE Database ------------------------------
(***************************************************************************)
(* What MySQL and a SQLAlchemy session do with the rows of Schema, as the  *)
(* services and routes of src/src use them.  Everything here is external   *)
(* to the repository: the engine enforces the declared keys (a statement   *)
(* that breaks one is refused and changes nothing), and a delete through a *)
(* session (db.delete) is not one statement:                               *)
(*                                                                         *)
(*   Read   the request's first query fixes its snapshot (REPEATABLE READ):*)
(*          the rows that refer to the one to delete are those of then     *)
(*   Flush  the service's own DELETE and UPDATE statements reach the rows  *)
(*          of now; then every row of the snapshot that refers to the      *)
(*          target is deleted or has its column cleared BY PRIMARY KEY, as *)
(*          the relationship says; a column that may not be NULL, or an    *)
(*          UPDATE of a row that is gone, makes the flush fail and the     *)
(*          request rolls back; last the row itself goes, and the database *)
(*          applies its ON DELETE rules to what still refers to it.        *)
(*                                                                         *)
(* One session-delete at a time is followed step by step; every other      *)
(* request of the four workers is one transaction between its two steps.   *)
(***************************************************************************)
EXTENDS Schema, Naturals

CONSTANTS
    AllRows,    \* the rows <<table, id>> the tables can hold
    Scopes,     \* bound: the rows stored or held are always within one of these sets
    NULL

ASSUME DatabaseAssumption ==
    /\ AllRows \subseteq Tables \X Nat
    /\ NULL \notin AllRows
    /\ Scopes \subseteq SUBSET AllRows

ASSUME CascadeAssumption ==
    \A j, k \in Keys : j.rule = "CASCADE" /\ k.rule = "CASCADE" => j.of # k.to

VARIABLES
    db,         \* the stored rows: row |-> column |-> row or NULL
    kind,       \* the flags of users, streams and groups: row |-> set
    tx          \* the session-delete under way, or Idle

dbVars == <<db, kind, tx>>

Stored == DOMAIN db
Of(t) == {r \in Stored : r[1] = t}
Cells == {cell \in AllRows \X {k.column : k \in Keys} : cell[2] \in Columns(cell[1][1])}
KeyAt(cell) == KeyOf[cell[1][1]][cell[2]]
Holds(cell, r) == cell[1] \in Stored /\ db[cell[1]][cell[2]] = r

Idle == [row |-> NULL, purge |-> {}, seen |-> {}]

\* what a column may hold under its key
Allowed(t, c) ==
    Of(KeyOf[t][c].to) \cup (IF KeyOf[t][c].required THEN {} ELSE {NULL})
Values(t) ==
    {v \in [Columns(t) -> UNION {Allowed(t, c) : c \in Columns(t)}] :
        \A c \in Columns(t) : v[c] \in Allowed(t, c)}

\* the rows a session still holds
Held == ({tx.row} \ {NULL}) \cup {cell[1] : cell \in tx.seen}

\* an AUTO_INCREMENT id is not handed out twice while a session still holds it
Fresh(t) == {r \in AllRows \ (Stored \cup Held) : r[1] = t}

Fits(rows) == {scope \in Scopes : rows \subseteq scope} # {}

\* INSERT of a row with one of the given values
Insert(t, values, flags) ==
    /\ \E r \in Fresh(t) :
        /\ Fits(Stored \cup Held \cup {r})
        /\ \E v \in values :
            /\ db' = [x \in Stored \cup {r} |-> IF x = r THEN v ELSE db[x]]
            /\ kind' = [kind EXCEPT ![r] = flags]
    /\ UNCHANGED tx

\* UPDATE of some rows to the given values
Write(new) ==
    /\ db' = [x \in Stored |-> IF x \in DOMAIN new THEN new[x] ELSE db[x]]
    /\ UNCHANGED tx

\* what ON DELETE CASCADE takes along when the given rows are deleted and the
\* given cells were cleared before; no table at the end of such a key has rows
\* that are deleted along with it in turn (CascadeAssumption)
Cascade(gone, cleared) ==
    gone \cup
    {x \in Stored :
        \E c \in Columns(x[1]) :
            /\ KeyOf[x[1]][c].rule = "CASCADE"
            /\ <<x, c>> \notin cleared
            /\ db[x][c] \in gone}

\* DELETE of the given rows, after the given cells were cleared
Remove(gone, cleared) ==
    LET out == Cascade(gone, cleared)
    IN  /\ db' = [x \in Stored \ out |->
                    [c \in Columns(x[1]) |->
                        IF db[x][c] \in out \/ <<x, c>> \in cleared THEN NULL ELSE db[x][c]]]
        /\ kind' = [x \in AllRows |-> IF x \in out THEN {} ELSE kind[x]]

QueryDelete(rows) == Remove(rows \cap Stored, {}) /\ UNCHANGED tx

\* db.query(...).first() and db.delete(row); purge are the cells whose rows
\* the service deletes with statements of its own before the flush
SessionDelete(r, purge) ==
    /\ tx = Idle
    /\ r \in Stored
    /\ tx' = [row |-> r, purge |-> purge, seen |-> {cell \in Cells : Holds(cell, r)}]
    /\ UNCHANGED <<db, kind>>

Purged == {x \in Stored : \E c \in Columns(x[1]) : <<x[1], c>> \in tx.purge /\ db[x][c] = tx.row}
Loaded(orm) == {cell \in tx.seen : cell[1] \notin Purged /\ KeyAt(cell).orm = orm}

Refused ==
    \E cell \in Loaded("nullify") : KeyAt(cell).required \/ cell[1] \notin Stored

Flush ==
    /\ tx # Idle
    /\ ~Refused
    /\ Remove(({tx.row} \cup Purged \cup {cell[1] : cell \in Loaded("orphans")}) \cap Stored,
              Loaded("nullify"))
    /\ tx' = Idle

RollBack ==
    /\ tx # Idle
    /\ Refused
    /\ tx' = Idle
    /\ UNCHANGED <<db, kind>>
=============================================================================
