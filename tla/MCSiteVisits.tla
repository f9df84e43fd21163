---------------------------- MODULE MCSiteVisits ----------------------------
(* A small instance of SiteVisits: uploads with and without an error page    *)
(* of their own, and one that lacks the earlier site's entry.                *)
EXTENDS SiteVisits

CONSTANTS a, b, earlier

Uploads == [u \in Contents |->
    CASE u = a -> {"index"} [] u = b -> {"404.html"} [] OTHER -> {"index", "404.html"}]
=============================================================================
