---------------------------- MODULE MCSiteAccess ----------------------------
(* Small instances of SiteAccess: uploads of one file and of two.           *)
EXTENDS SiteAccess

CONSTANTS small, large

Uploads == [u \in Contents |-> IF u = small THEN {"index"} ELSE Entries]
=============================================================================
