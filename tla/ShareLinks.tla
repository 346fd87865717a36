------------------------------- MODULE ShareLinks ------------------------------
(***************************************************************************)
(* The buttons of a row of the table.  Copying a link puts a tick on its   *)
(* button, which a timer takes away; the dialog for the QR codes shows the *)
(* links of a user and is never unmounted, so its counter outlives them.   *)
(***************************************************************************)
EXTENDS Naturals

CONSTANTS
    Links,        \* how many links each of the users has
    MaxTimers     \* bound: timers running at once

VARIABLES
    copied,       \* the button with the tick
    timers,       \* timers that will take the tick away
    QRcodeLinks,  \* the user whose links the dialog shows
    subscribeUrl, \* the user whose subscription it shows
    index         \* the link in front

vars == <<copied, timers, QRcodeLinks, subscribeUrl, index>>

LinkedUsers == DOMAIN Links
Null        == 0
Buttons     == {"link", "configs"}

\* The slider of a user without links has nothing to turn.
Parameters == Null \notin LinkedUsers /\ Links \in [LinkedUsers -> Nat \ {0}]

\* Mutant: the button is tested, 0 for the first, in place of the flag.
CopyByIndex(button) ==
    /\ timers < MaxTimers
    /\ copied' = button
    /\ timers' = IF button = "link" THEN timers ELSE timers + 1
    /\ UNCHANGED <<QRcodeLinks, subscribeUrl, index>>

\* Each copy starts a timer of its own.
Copy(button) ==
    /\ timers < MaxTimers
    /\ copied' = button
    /\ timers' = timers + 1
    /\ UNCHANGED <<QRcodeLinks, subscribeUrl, index>>

\* A timer does not know which tick it was started for.
TimerFires ==
    /\ timers > 0
    /\ timers' = timers - 1
    /\ copied' = "none"
    /\ UNCHANGED <<QRcodeLinks, subscribeUrl, index>>

\* Mutant: the slider that is mounted leaves the counter where it was.
ShowQRCodeOnly(u) ==
    /\ QRcodeLinks = Null
    /\ QRcodeLinks' = u
    /\ subscribeUrl' = u
    /\ UNCHANGED <<copied, timers, index>>

\* The links and the subscription are set one after the other, and the slider, which
\* is mounted with them, starts from the first link.
ShowQRCode(u) ==
    /\ QRcodeLinks = Null
    /\ QRcodeLinks' = u
    /\ subscribeUrl' = u
    /\ index' = 0
    /\ UNCHANGED <<copied, timers>>

\* The slider goes round.
AfterChange(step) ==
    /\ QRcodeLinks # Null
    /\ index' = (index + step) % Links[QRcodeLinks]
    /\ UNCHANGED <<copied, timers, QRcodeLinks, subscribeUrl>>

OnClose ==
    /\ QRcodeLinks # Null
    /\ QRcodeLinks' = Null
    /\ subscribeUrl' = Null
    /\ UNCHANGED <<copied, timers, index>>

--------------------------------------------------------------------------------
Init ==
    /\ copied = "none" /\ timers = 0
    /\ QRcodeLinks = Null /\ subscribeUrl = Null /\ index = 0

Next ==
    \/ TimerFires \/ OnClose
    \/ \E button \in Buttons : Copy(button)
    \/ \E u \in LinkedUsers : ShowQRCode(u)
    \/ QRcodeLinks # Null /\ \E step \in {1, Links[QRcodeLinks] - 1} : AfterChange(step)

Spec == Init /\ [][Next]_vars

--------------------------------------------------------------------------------
TypeOK ==
    /\ copied \in Buttons \cup {"none"} /\ timers \in Nat
    /\ {QRcodeLinks, subscribeUrl} \subseteq LinkedUsers \cup {Null}
    /\ index \in Nat

\* However the ticks and timers of the two buttons overlap, a tick goes away.
TickGoes == copied # "none" => timers > 0

\* Whoever had more links was turned to the last of them before, the counter is of
\* the links of the user who is shown, and so is the subscription.
CounterIsOfOpenUser ==
    QRcodeLinks # Null => index < Links[QRcodeLinks] /\ subscribeUrl = QRcodeLinks
================================================================================
