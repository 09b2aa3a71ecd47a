-------------------------- MODULE SubtitleDelivery --------------------------
(***************************************************************************)
(* What the BLE leg promises the translate screen: the glasses show        *)
(* subtitles in the order they were sent, never an older one after a newer *)
(* one, and the phone takes a subtitle as displayed only while the latest  *)
(* one it sent is the one on the glasses.  Subtitles may be skipped: a     *)
(* newer one replaces an older one on its way, and a broken link loses     *)
(* what it carries.                                                        *)
(***************************************************************************)
EXTENDS Naturals

VARIABLES
    sent,       \* subtitles handed over so far; the last one is number sent
    shown,      \* the subtitle on the display, 0 before the first
    confirmed   \* the last subtitle the phone took as displayed

vars == <<sent, shown, confirmed>>

Init == sent = 0 /\ shown = 0 /\ confirmed = 0

Send == sent' = sent + 1 /\ UNCHANGED <<shown, confirmed>>

Show ==
    /\ shown' \in (shown + 1)..sent
    /\ UNCHANGED <<sent, confirmed>>

Confirm ==
    /\ shown = sent
    /\ confirmed' = sent
    /\ UNCHANGED <<sent, shown>>

Next == Send \/ Show \/ Confirm

Spec == Init /\ [][Next]_vars
=============================================================================
