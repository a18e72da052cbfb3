---------------------------- MODULE MCBackoffice ----------------------------
EXTENDS Backoffice, TLC
Rows(tables) == tables \X {1}
Two(t) == {t} \X {1, 2}
MCScopes ==
    {Rows({"resellers", "users", "servers", "streams", "lines"}),
     Rows({"resellers", "users", "servers", "streams", "activity"}),
     Rows({"users", "servers", "streams", "lines", "activity"}),
     Two("resellers") \cup Rows({"users"}),
     Two("users") \cup Rows({"groups", "mag_devices"}),
     Two("categories") \cup Rows({"streams"}),
     Two("series") \cup Rows({"categories", "episodes", "movies"}),
     Two("servers") \cup Rows({"packages", "proxies"}),
     Two("streams") \cup Rows({"servers", "server_streams"}),
     Rows({"servers", "streams", "profiles", "epg"}),
     Rows({"servers", "streams", "recordings", "queue"})}
MCRows == UNION MCScopes
=============================================================================
