----------------------------- MODULE CopyLinks ------------------------------
(***************************************************************************)
(* The copy buttons of the page list and of a site's page                   *)
(* (static/admin.js).  Each group holds a link, a button the script shows   *)
(* only where a clipboard can be written, and a status line.  A click runs  *)
(* an async handler that waits for the browser to settle the write; clicks  *)
(* in other groups, and the page being left, may come in between.           *)
(***************************************************************************)
EXTENDS Naturals

CONSTANTS
    Groups,             \* the [data-copy-link] elements of a page
    Complete            \* those with a link, a button and a status

ASSUME GroupAssumption == Complete \subseteq Groups

VARIABLES
    shown,      \* button.hidden has been cleared and the handler attached
    disabled,   \* button.disabled
    status,     \* status.textContent
    writing     \* handlers of the group that wait for writeText

cvars == <<shown, disabled, status, writing>>

Everywhere(value) == [g \in Groups |-> value]

(* A page as it is rendered.                                                *)
Rendered ==
    /\ shown = Everywhere(FALSE)
    /\ disabled = Everywhere(FALSE)
    /\ status = Everywhere("empty")
    /\ writing = Everywhere(0)

(* The script runs once; able is a secure context with writeText.           *)
Attach(able) ==
    /\ shown = Everywhere(FALSE)
    /\ shown' = [g \in Groups |-> able /\ g \in Complete]
    /\ UNCHANGED <<disabled, status, writing>>

(* Mistaken: the button stays enabled while its handler waits.              *)
ClickEnabled(g) ==
    /\ shown[g] /\ writing[g] < 3
    /\ status' = [status EXCEPT ![g] = "copying"]
    /\ writing' = [writing EXCEPT ![g] = @ + 1]
    /\ UNCHANGED <<shown, disabled>>

(* Mistaken: only a write that succeeds enables the button again.           *)
SettleHalf(g) ==
    /\ writing[g] > 0
    /\ writing' = [writing EXCEPT ![g] = @ - 1]
    /\ \/ status' = [status EXCEPT ![g] = "copied"] /\ disabled' = [disabled EXCEPT ![g] = FALSE]
       \/ status' = [status EXCEPT ![g] = "failed"] /\ UNCHANGED disabled
    /\ UNCHANGED shown

(* A browser dispatches clicks only to a button that is shown and enabled.  *)
Click(g) ==
    /\ shown[g] /\ ~disabled[g]
    /\ disabled' = [disabled EXCEPT ![g] = TRUE]
    /\ status' = [status EXCEPT ![g] = "copying"]
    /\ writing' = [writing EXCEPT ![g] = @ + 1]
    /\ UNCHANGED shown

(* writeText resolves or rejects; the rest of the handler runs at once.     *)
Settle(g) ==
    /\ writing[g] > 0
    /\ writing' = [writing EXCEPT ![g] = @ - 1]
    /\ \E result \in {"copied", "failed"} : status' = [status EXCEPT ![g] = result]
    /\ disabled' = [disabled EXCEPT ![g] = FALSE]
    /\ UNCHANGED shown

(* Another page takes this one's place, and its waiting handlers with it.   *)
Leave ==
    /\ shown' = Everywhere(FALSE)
    /\ disabled' = Everywhere(FALSE)
    /\ status' = Everywhere("empty")
    /\ writing' = Everywhere(0)

CInit == Rendered
CNext == \/ \E able \in BOOLEAN : Attach(able)
         \/ \E g \in Groups : Click(g) \/ Settle(g)
         \/ Leave
CSpec == CInit /\ [][CNext]_cvars

(* The browser settles every write it was asked for.                        *)
CFairness == \A g \in Groups : WF_cvars(Settle(g))

-----------------------------------------------------------------------------
(* What a group says and what it does agree, however clicks and answers     *)
(* interleave: it reads "copying" and refuses clicks exactly while one      *)
(* write of its own is outstanding, so no button is left disabled by a      *)
(* write that failed and no two writes of one link overlap.                 *)
CopyStatusAgrees ==
    \A g \in Groups :
        /\ disabled[g] <=> status[g] = "copying"
        /\ writing[g] = IF disabled[g] THEN 1 ELSE 0
        /\ disabled[g] => shown[g]

(* A button that was clicked can be clicked again, unless its page is left. *)
ButtonsComeBack == \A g \in Groups : disabled[g] ~> ~disabled[g]
=============================================================================
