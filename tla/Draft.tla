---------------------------------- MODULE Draft ---------------------------------
(***************************************************************************)
(* What a dialog promises that edits a document of the server: HostsDialog *)
(* and CoreSettings implement it.  While the dialog is open, waits for     *)
(* nothing and was not edited it shows the document the server has.  An    *)
(* edited draft ends by being closed, or by a save that the server has     *)
(* carried out and after which nothing was changed: never by an answer.    *)
(* The server gets only drafts that were submitted.                        *)
(*                                                                         *)
(* After a failure, or when it was opened over answers still to come, the  *)
(* dialog is astray until it is closed and promises nothing.               *)
(***************************************************************************)

CONSTANTS Documents, NoDraft

VARIABLES
    mode,     \* "closed", "waiting", "clean", "edited" or "astray"
    draft,    \* what a clean or edited dialog shows
    server,   \* the document at the server
    sent      \* drafts on their way to the server

vars == <<mode, draft, server, sent>>

Open ==
    /\ mode = "closed"
    /\ mode' \in {"waiting", "astray"}
    /\ UNCHANGED <<draft, server, sent>>

\* What the dialog was waiting for is there.
Show ==
    /\ mode = "waiting"
    /\ mode' = "clean"
    /\ draft' = server
    /\ UNCHANGED <<server, sent>>

Edit ==
    /\ mode \in {"waiting", "clean", "edited"}
    /\ mode' = "edited"
    /\ draft' \in Documents
    /\ UNCHANGED <<server, sent>>

\* A draft that was not edited is waited for.
Submit ==
    /\ mode \in {"clean", "edited"}
    /\ sent' = sent \cup {draft}
    /\ IF mode = "clean" THEN mode' = "waiting" /\ draft' = NoDraft ELSE UNCHANGED <<mode, draft>>
    /\ UNCHANGED server

Receive ==
    /\ mode # "clean"
    /\ \E document \in sent : server' = document /\ sent' = sent \ {document}
    /\ UNCHANGED <<mode, draft>>

\* The save is confirmed and the draft is still what was saved.
Confirm ==
    /\ mode = "edited"
    /\ draft = server
    /\ mode' = "clean"
    /\ UNCHANGED <<draft, server, sent>>

Close ==
    /\ mode # "closed"
    /\ mode' = "closed" /\ draft' = NoDraft
    /\ UNCHANGED <<server, sent>>

\* Something goes wrong, or somebody else saves.
Stray ==
    /\ IF mode = "closed" THEN mode' = mode /\ sent' \subseteq sent
                          ELSE mode' = "astray" /\ sent' \subseteq Documents
    /\ draft' = NoDraft
    /\ server' \in Documents

--------------------------------------------------------------------------------
Init ==
    /\ mode = "closed" /\ draft = NoDraft
    /\ server \in Documents
    /\ sent = {}

Next == Stray \/ Open \/ Show \/ Edit \/ Submit \/ Receive \/ Confirm \/ Close

Spec == Init /\ [][Next]_vars

--------------------------------------------------------------------------------
TypeOK ==
    /\ mode \in {"closed", "waiting", "clean", "edited", "astray"}
    /\ server \in Documents /\ sent \subseteq Documents
    /\ draft \in Documents \cup {NoDraft}

\* A dialog that waits for nothing and was not edited shows what the server has.
CleanIsCurrent == mode = "clean" => draft = server

\* An edited draft that becomes clean is as it was: no answer has replaced it.
EditsSurvive == [][mode = "edited" /\ mode' = "clean" => draft' = draft]_vars
================================================================================
