------------------------------ MODULE CoreSettings -----------------------------
(***************************************************************************)
(* The dialog for the configuration of the core.  Opening it asks for the  *)
(* state of the core and for the configuration together; the configuration *)
(* that arrives goes to the store, from there to the form and to the       *)
(* editor.  What is typed in the editor goes to the form; saving sends the *)
(* form and leaves the store as it is.                                     *)
(*                                                                         *)
(* One administrator works; the server is external.                        *)
(***************************************************************************)
EXTENDS Naturals, Lists

CONSTANTS
    Configs,      \* configurations there may be
    NoConfig,     \* the empty store
    EmptyForm,    \* what a form without configuration holds
    MaxRounds,    \* bound: how often the dialog is opened
    MaxEdits      \* bound: edits and saves in all

VARIABLES
    open,         \* isEditingCore
    isLoading, isPostLoading,
    config,       \* the configuration in the store
    form, editor,
    flight,       \* requests on their way, oldest first
    server,       \* the configuration at the server
    rounds, edits,
    dirty,        \* the editor holds changes that were not saved
    calm          \* the dialog was opened with no request on its way, no request failed

vars == <<open, isLoading, isPostLoading, config, form, editor, flight, server, rounds,
          edits, dirty, calm>>

\* The empty store and the empty form are no configurations.
Parameters == EmptyForm \notin Configs /\ NoConfig \notin Configs /\ EmptyForm # NoConfig

Request(kind, round, body) == [kind |-> kind, round |-> round, state |-> "sent", body |-> body]

(***************************************************************************)
(* Requests.  Those of one opening are waited for together; a round that   *)
(* is over, or that nobody waits for, is 0.                                *)
(***************************************************************************)
FetchCoreSettings ==
    /\ isLoading' = TRUE
    /\ rounds' = rounds + 1
    /\ flight' = flight \o <<Request("core", rounds', NoConfig),
                             Request("config", rounds', NoConfig)>>

\* A configuration without inbounds is refused.
Serve(i) ==
    /\ flight[i].state = "sent"
    /\ flight[i].body # EmptyForm
    /\ server' = IF flight[i].kind = "put" THEN flight[i].body ELSE server
    /\ flight' = [flight EXCEPT ![i].state = "ok", ![i].body = server']
    /\ UNCHANGED <<open, isLoading, isPostLoading, config, form, editor, rounds, edits,
                   dirty, calm>>

Others(i) == {j \in DOMAIN flight : j # i /\ flight[j].round = flight[i].round}

\* Mutant: the first of the two answers ends the loading.
RoundEndsEarly(i) == flight[i].round # 0

\* Promise.all, with an answer that is there.
RoundEnds(i) == flight[i].round # 0 /\ Others(i) = {}

Arrives(i, kind) ==
    /\ flight[i].state = "ok" /\ flight[i].kind = kind
    /\ isLoading' = (isLoading /\ ~RoundEnds(i))
    /\ flight' = RemoveAt(flight, i)
    /\ UNCHANGED <<open, server, rounds, edits, calm>>

CoreArrives(i) ==
    /\ Arrives(i, "core")
    /\ UNCHANGED <<isPostLoading, config, form, editor, dirty>>

\* The effects of the config: the form and the editor take it.
SetConfig(value) ==
    IF open THEN form' = value /\ editor' = value /\ dirty' = FALSE
    ELSE UNCHANGED <<form, editor, dirty>>

ConfigArrives(i) ==
    /\ Arrives(i, "config")
    /\ config' = flight[i].body
    /\ SetConfig(flight[i].body)
    /\ UNCHANGED isPostLoading

Saved(i) ==
    /\ Arrives(i, "put")
    /\ isPostLoading' = FALSE
    /\ dirty' = (dirty /\ form # flight[i].body)
    /\ UNCHANGED <<config, form, editor>>

\* The first failure ends the loading; the other answer may still arrive.
Failed(i) ==
    /\ isLoading' = (isLoading /\ flight[i].round = 0)
    /\ isPostLoading' = (isPostLoading /\ flight[i].kind # "put")
    /\ flight' = RemoveAt([j \in DOMAIN flight |->
                              IF j \in Others(i) THEN [flight[j] EXCEPT !.round = 0]
                              ELSE flight[j]], i)
    /\ calm' = FALSE
    /\ UNCHANGED <<open, config, form, editor, server, rounds, edits, dirty>>

(***************************************************************************)
(* The dialog.                                                             *)
(***************************************************************************)
\* Mutant: the empty store as it is.
DefaultConfigBare == config

\* defaultValues of the form: config || {}.
DefaultConfig == IF config = NoConfig THEN EmptyForm ELSE config

\* Form and editor are made anew, from the configuration in the store.
OnEditingCore ==
    /\ ~open
    /\ rounds < MaxRounds
    /\ open' = TRUE
    /\ form' = DefaultConfig
    /\ editor' = config
    /\ calm' = (calm /\ flight = << >>)
    /\ FetchCoreSettings
    /\ UNCHANGED <<isPostLoading, config, server, edits, dirty>>

OnClose ==
    /\ open
    /\ open' = FALSE
    /\ dirty' = FALSE
    /\ UNCHANGED <<isLoading, isPostLoading, config, form, editor, flight, server, rounds,
                   edits, calm>>

\* The editor can be used while the configuration is loading.
OnChange(text) ==
    /\ open
    /\ text # editor
    /\ edits < MaxEdits
    /\ edits' = edits + 1
    /\ editor' = text /\ form' = text
    /\ dirty' = TRUE
    /\ UNCHANGED <<open, isLoading, isPostLoading, config, flight, server, rounds, calm>>

HandleOnSave ==
    /\ open /\ ~isLoading /\ ~isPostLoading
    /\ edits < MaxEdits
    /\ edits' = edits + 1
    /\ isPostLoading' = TRUE
    /\ flight' = Append(flight, Request("put", 0, form))
    /\ UNCHANGED <<open, isLoading, config, form, editor, server, rounds, dirty, calm>>

--------------------------------------------------------------------------------
Init ==
    /\ open = FALSE /\ isLoading = TRUE /\ isPostLoading = FALSE
    /\ config = NoConfig /\ form = EmptyForm /\ editor = NoConfig
    /\ flight = << >> /\ server \in Configs
    /\ rounds = 0 /\ edits = 0 /\ dirty = FALSE /\ calm = TRUE

Next ==
    \/ OnEditingCore \/ OnClose \/ HandleOnSave
    \/ \E i \in DOMAIN flight :
          Serve(i) \/ CoreArrives(i) \/ ConfigArrives(i) \/ Saved(i) \/ Failed(i)
    \/ \E text \in Configs : OnChange(text)

Spec == Init /\ [][Next]_vars

--------------------------------------------------------------------------------
TypeOK ==
    /\ {open, isLoading, isPostLoading, dirty, calm} \subseteq BOOLEAN
    /\ config \in Configs \cup {NoConfig} /\ editor \in Configs \cup {NoConfig}
    /\ form \in Configs \cup {EmptyForm}
    /\ server \in Configs
    /\ \A i \in DOMAIN flight :
           /\ flight[i].kind \in {"core", "config", "put"}
           /\ flight[i].round \in 0 .. rounds
           /\ flight[i].state \in {"sent", "ok"}
    /\ rounds \in Nat /\ edits \in Nat

\* The state of the editor as Draft has it.
Mode ==
    CASE ~open          -> "closed"
      [] open /\ ~calm -> "astray"
      [] open /\ calm  -> IF isLoading \/ (isPostLoading /\ ~dirty) THEN "waiting"
                          ELSE IF dirty THEN "edited" ELSE "clean"

\* The server refuses a form without configuration.
Puts == {i \in DOMAIN flight : /\ flight[i].kind = "put" /\ flight[i].state = "sent"
                               /\ flight[i].body # EmptyForm}

Editor == INSTANCE Draft WITH
    Documents <- Configs, NoDraft <- EmptyForm, mode <- Mode,
    draft <- IF Mode \in {"clean", "edited"} THEN form ELSE EmptyForm,
    sent <- {flight[i].body : i \in Puts}

\* The store keeps the configuration from before a save, and two requests end one
\* loading.  Still, from the moment there is the button to save: no late answer takes
\* away what was typed, and a form nobody has changed is what the server has.
CoreKeepsDraft == Editor!Spec
================================================================================
