--------------------------- MODULE MCSettingLists ---------------------------
(* Two requests at a time on a list of each kind, and two creations.  The  *)
(* settings page stores an empty list, two entries in order, of which one  *)
(* may be deleted before a creation gives its number again, one that is    *)
(* numbered two, and two with the same number.                             *)
EXTENDS SettingLists, TLC

CONSTANTS r1, r2

Stored(n) == [id |-> n, tag |-> 0, open |-> TRUE, replies |-> 0]
MCPageLists == {<<>>, <<Stored(1), Stored(2)>>, <<Stored(2)>>, <<Stored(1), Stored(1)>>}

Symmetry == Permutations({r1, r2})
=============================================================================
