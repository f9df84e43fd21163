---------------------------- MODULE MCSiteStore ----------------------------
(* Small instances of SiteStore: contents made of the files "index" and     *)
(* "page", so that a replacement can take an entry away.                    *)
EXTENDS SiteStore

CONSTANTS a, b, earlier

ThreeUploads == [u \in Contents |->
    CASE u = a -> {"index"} [] u = b -> {"page"} [] OTHER -> {"index", "page"}]
OneFile == [u \in Contents |-> {"index"}]
=============================================================================
