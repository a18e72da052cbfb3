----------------------------- MODULE MCDelivery -----------------------------
(* A user, a stream, two bouquets; a bouquet string and the output formats *)
(* may hold a word.  Of the four clients one can be refused for nothing of *)
(* its own, and each of the others for one thing.                          *)
EXTENDS Delivery, TLC

CONSTANTS b1, b2, w, vlc, box, inland, abroad

MCFormatLists == {{}, {w}, {"ts"}, {"m3u8", w}, {"rtmp", "m3u8"}}

MCClients ==
    LET good == [ip |-> Home, agent |-> vlc, country |-> inland, relay |-> FALSE]
    IN  {good, [good EXCEPT !.agent = box, !.country = Unknown],
         [good EXCEPT !.country = abroad], [good EXCEPT !.relay = TRUE]}

MCWorlds ==
    [direct : BOOLEAN, source : BOOLEAN, hls : {{}, {"playlist"}, {"playlist", "variants"}},
     servers : {{"main", "online"}, {"online", "offline"}, {"offline"}}, offAir : {"ts"}]

Symmetry == Permutations({b1, b2})
=============================================================================
