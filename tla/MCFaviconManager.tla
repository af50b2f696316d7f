--------------------------- MODULE MCFaviconManager ---------------------------
(* Instances of FaviconManager for TLC.                                    *)
EXTENDS FaviconManager, TLC

CONSTANTS s1, s2, s3, o1, o2, c1, c2

(* The icon of o1 can always be fetched, that of any other origin not.     *)
MCResults == [o \in Origins |-> IF o = o1 THEN {"asset"} ELSE {"asset", "nothing", "error"}]
MCStatementsFail == [o \in Origins |-> {"asset", "dbError"}]

SitesInterchangeable == Permutations({s1, s2})

=============================================================================
