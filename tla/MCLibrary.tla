----------------------------- MODULE MCLibrary -----------------------------
(* The rows that may be in use together: a category with what is in it and *)
(* a bouquet, a package or the guide, and more films, series or programmes *)
(* than the shorter lists hold.                                            *)
EXTENDS LibraryChanges
CONSTANTS c1, s1, s2, e1, e2, p1, p2, b1, b2, k1, w
MCScopes ==
    {{c1, s1, b1},
     {c1, 1, 2, 3},
     {c1, 1, 2, b1},
     {c1, 1, b1, k1},
     {c1, 11, 12, 13},
     {c1, 11, 12, b1},
     {11, e1, b1, k1},
     {11, e1, e2},
     {s1, s2, p1},
     {s1, p1, p2},
     {s1, p1, b1, k1},
     {s1, b1, b2},
     {s1, b1, w}}
=============================================================================
