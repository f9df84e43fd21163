-------------------------- MODULE MCAdminSessions --------------------------
(* A small instance of AdminSessions: the tabs of one browser.              *)
EXTENDS AdminSessions

CONSTANTS ann

OneBrowser == [b \in Tabs |-> ann]
=============================================================================
