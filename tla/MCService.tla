----------------------------- MODULE MCService -----------------------------
(* Instances of Service for TLC.                                           *)
EXTENDS Service

CONSTANTS k1, uuid, pink

MCContentID == {uuid}
MCReference == {""}
MCTypeName  == {"", "All", "all", "Article", "article", "Audio", "audio", "Bogus",
                "bogus"}
MCToLower ==
  [t \in MCTypeName |-> CASE t = "All" -> "all" [] t = "Article" -> "article"
                          [] t = "Audio" -> "audio" [] t = "Bogus" -> "bogus"
                          [] OTHER -> t]
MCKeys == {"", k1}
MCIncludedInAll == {"Article", "Audio"}
MCSupported     == {"Article", "Audio", "All"}

Ask(key, type) == [key |-> key, type |-> type]

(* No key; a mixed bag of types; an unsupported type on its own.           *)
MCQueries == {Ask("", {}), Ask(k1, {"article", "All", "Bogus"}), Ask(k1, {"Bogus"})}
=============================================================================
