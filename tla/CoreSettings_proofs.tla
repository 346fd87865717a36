--------------------------- MODULE CoreSettings_proofs --------------------------
(***************************************************************************)
(* CoreSettings implements Draft, for any configurations and any number of *)
(* openings, edits and saves.                                              *)
(***************************************************************************)
EXTENDS CoreSettings, SequenceTheorems, TLAPS

Entry == [kind : {"core", "config", "put"}, round : Nat, state : {"sent", "ok"},
          body : Configs \cup {EmptyForm, NoConfig}]

(***************************************************************************)
(* The inductive invariant.                                                *)
(***************************************************************************)
Typed ==
    /\ open \in BOOLEAN /\ isLoading \in BOOLEAN /\ isPostLoading \in BOOLEAN
    /\ dirty \in BOOLEAN /\ calm \in BOOLEAN
    /\ config \in Configs \cup {NoConfig}
    /\ form \in Configs \cup {EmptyForm}
    /\ server \in Configs
    /\ flight \in Seq(Entry)
    /\ rounds \in Nat

\* An answer carries a configuration; a save carries one, or the empty form.
Carried ==
    \A i \in DOMAIN flight :
        /\ flight[i].state = "ok" => flight[i].body \in Configs
        /\ flight[i].kind = "put" => flight[i].body # NoConfig

\* While all goes well: nothing on its way, one loading, or one save.
Idle == Len(flight) = 0 /\ ~isPostLoading /\ (open => ~isLoading)

Fetching ==
    /\ Len(flight) \in {1, 2}
    /\ isLoading /\ ~isPostLoading /\ rounds # 0
    /\ \A i \in DOMAIN flight : flight[i].kind # "put" /\ flight[i].round = rounds
    /\ Len(flight) = 2 => flight[1].kind = "core" /\ flight[2].kind = "config"

Saving ==
    /\ Len(flight) = 1
    /\ ~isLoading /\ isPostLoading
    /\ flight[1].kind = "put" /\ flight[1].round = 0

Ordered ==
    calm => /\ Idle \/ Fetching \/ Saving
            /\ \A i \in DOMAIN flight : flight[i].state = "ok" => flight[i].body = server

\* Once the configuration has come the form holds one, the server's or an edited one.
Held ==
    /\ ~open => ~dirty
    /\ dirty => form \in Configs
    /\ open /\ calm =>
          /\ (\A i \in DOMAIN flight : flight[i].kind # "config") => form \in Configs
          /\ (\A i \in DOMAIN flight : flight[i].kind = "core") => dirty \/ form = server
          /\ \A i \in DOMAIN flight : flight[i].kind = "put" => dirty \/ form = flight[i].body

IInv == Typed /\ Carried /\ Ordered /\ Held

\* The sequence without one of its elements.
LEMMA Removal ==
    ASSUME NEW S, NEW s \in Seq(S), NEW i \in DOMAIN s
    PROVE  /\ RemoveAt(s, i) \in Seq(S)
           /\ Len(RemoveAt(s, i)) = Len(s) - 1
           /\ \A k \in 1 .. Len(s) - 1 : RemoveAt(s, i)[k] = IF k < i THEN s[k] ELSE s[k + 1]
  <1> DEFINE before == SubSeq(s, 1, i - 1)
             after == SubSeq(s, i + 1, Len(s))
  <1>1. i \in 1 .. Len(s) /\ Len(s) \in Nat /\ \A k \in 1 .. Len(s) : s[k] \in S
    BY LenProperties
  <1>2. /\ before \in Seq(S) /\ Len(before) = i - 1
        /\ \A k \in 1 .. i - 1 : before[k] = s[k]
    BY <1>1, SubSeqProperties
  <1>3. /\ after \in Seq(S) /\ Len(after) = Len(s) - i
        /\ \A k \in 1 .. Len(s) - i : after[k] = s[k + i]
    <2>1. \A k \in i + 1 .. Len(s) : s[k] \in S
      BY <1>1
    <2>2. \A k \in 1 .. Len(s) - (i + 1) + 1 : after[k] = s[(i + 1) + k - 1]
      BY <1>1, <2>1, SubSeqProperties
    <2>3. after \in Seq(S) /\ Len(after) = Len(s) - i
      BY <1>1, SubSeqProperties
    <2>4. \A k \in 1 .. Len(s) - i : k \in 1 .. Len(s) - (i + 1) + 1 /\ (i + 1) + k - 1 = k + i
      BY <1>1
    <2> QED
      BY <2>2, <2>3, <2>4
  <1>4. RemoveAt(s, i) = before \o after
    BY DEF RemoveAt
  <1> HIDE DEF before, after
  <1>5. /\ before \o after \in Seq(S) /\ Len(before \o after) = Len(before) + Len(after)
        /\ \A k \in 1 .. Len(before) + Len(after) :
              (before \o after)[k] = IF k <= Len(before) THEN before[k] ELSE after[k - Len(before)]
    BY <1>2, <1>3, ConcatProperties
  <1>6. ASSUME NEW k \in 1 .. Len(s) - 1
        PROVE  (before \o after)[k] = IF k < i THEN s[k] ELSE s[k + 1]
    <2>1. k \in 1 .. Len(before) + Len(after)
      BY <1>1, <1>2, <1>3
    <2>2. CASE k < i
      BY <1>1, <1>2, <1>5, <2>1, <2>2
    <2>3. CASE ~(k < i)
      <3>1. k - Len(before) \in 1 .. Len(s) - i /\ k - Len(before) + i = k + 1
        BY <1>1, <1>2, <2>3
      <3>2. ~(k <= Len(before))
        BY <1>1, <1>2, <2>3
      <3>3. after[k - Len(before)] = s[k + 1]
        BY <1>3, <3>1
      <3> QED
        BY <1>5, <2>1, <2>3, <3>2, <3>3
    <2> QED
      BY <2>2, <2>3
  <1>7. Len(before) + Len(after) = Len(s) - 1
    BY <1>1, <1>2, <1>3
  <1> QED
    BY <1>4, <1>5, <1>6, <1>7

\* The sequence with two more elements.
LEMMA Extension ==
    ASSUME NEW S, NEW s \in Seq(S), NEW a \in S, NEW b \in S
    PROVE  /\ s \o <<a, b>> \in Seq(S) /\ Len(s \o <<a, b>>) = Len(s) + 2
           /\ \A k \in 1 .. Len(s) : (s \o <<a, b>>)[k] = s[k]
           /\ (s \o <<a, b>>)[Len(s) + 1] = a /\ (s \o <<a, b>>)[Len(s) + 2] = b
  <1>1. <<a, b>> \in Seq(S) /\ Len(<<a, b>>) = 2
    OBVIOUS
  <1>2. Len(s) \in Nat
    BY LenProperties
  <1>3. /\ s \o <<a, b>> \in Seq(S) /\ Len(s \o <<a, b>>) = Len(s) + 2
        /\ \A k \in 1 .. Len(s) + 2 :
              (s \o <<a, b>>)[k] = IF k <= Len(s) THEN s[k] ELSE <<a, b>>[k - Len(s)]
    BY <1>1, ConcatProperties
  <1>4. /\ Len(s) + 1 \in 1 .. Len(s) + 2 /\ Len(s) + 1 - Len(s) = 1 /\ ~(Len(s) + 1 <= Len(s))
        /\ Len(s) + 2 \in 1 .. Len(s) + 2 /\ Len(s) + 2 - Len(s) = 2 /\ ~(Len(s) + 2 <= Len(s))
    BY <1>2
  <1>5. \A k \in 1 .. Len(s) : k \in 1 .. Len(s) + 2 /\ k <= Len(s)
    BY <1>2
  <1> QED
    BY <1>3, <1>4, <1>5

\* Initially the dialog is closed and nothing is on its way.
LEMMA Starts == Parameters /\ Init => IInv
  <1> SUFFICES ASSUME Parameters, Init PROVE IInv
    OBVIOUS
  <1>1. flight \in Seq(Entry) /\ Len(flight) = 0 /\ DOMAIN flight = {}
    BY DEF Init
  <1>2. Typed
    BY <1>1 DEF Init, Typed
  <1>3. Carried /\ Ordered
    BY <1>1 DEF Init, Carried, Ordered, Idle
  <1>4. Held
    BY <1>1 DEF Init, Held
  <1> QED
    BY <1>2, <1>3, <1>4 DEF IInv

(***************************************************************************)
(* What the steps make of the requests on their way.                       *)
(***************************************************************************)
\* Requests are indexed from 1 and have the fields of a request.
LEMMA Indices ==
    ASSUME Typed
    PROVE  /\ Len(flight) \in Nat /\ DOMAIN flight = 1 .. Len(flight)
           /\ \A i \in DOMAIN flight : flight[i] \in Entry
  BY LenProperties DEF Typed

\* A served request keeps its place, its kind and its round.
LEMMA Served ==
    ASSUME Parameters, IInv, NEW i \in DOMAIN flight, Serve(i)
    PROVE  /\ flight' \in Seq(Entry) /\ Len(flight') = Len(flight)
           /\ DOMAIN flight' = DOMAIN flight
           /\ \A j \in DOMAIN flight : /\ flight'[j].kind = flight[j].kind
                                       /\ flight'[j].round = flight[j].round
                                       /\ j # i => flight'[j] = flight[j]
           /\ flight'[i].state = "ok" /\ flight'[i].body = server'
           /\ server' \in Configs
           /\ flight[i].kind = "put" => server' = flight[i].body
           /\ flight[i].kind # "put" => server' = server
  <1>1. Typed /\ Carried
    BY DEF IInv
  <1>2. /\ Len(flight) \in Nat /\ DOMAIN flight = 1 .. Len(flight)
        /\ \A j \in DOMAIN flight : flight[j] \in Entry
    BY <1>1, Indices
  <1>3. /\ flight[i].kind = "put" => server' = flight[i].body
        /\ flight[i].kind # "put" => server' = server
        /\ flight[i].body # EmptyForm
    BY DEF Serve
  <1>4. server' \in Configs
    <2>1. flight[i].kind = "put" => flight[i].body \in Configs
      BY <1>1, <1>2, <1>3 DEF Carried, Entry
    <2> QED
      BY <1>1, <1>3, <2>1 DEF Typed
  <1>5. flight' = [flight EXCEPT ![i] = [[flight[i] EXCEPT !.state = "ok"] EXCEPT !.body = server']]
    BY DEF Serve
  <1> DEFINE answer == [[flight[i] EXCEPT !.state = "ok"] EXCEPT !.body = server']
  <1>6. /\ answer \in Entry /\ answer.kind = flight[i].kind /\ answer.round = flight[i].round
        /\ answer.state = "ok" /\ answer.body = server'
    <2>1. [flight[i] EXCEPT !.state = "ok"] \in Entry
      BY <1>2 DEF Entry
    <2> QED
      BY <1>2, <1>4, <2>1 DEF Entry
  <1> HIDE DEF answer
  <1>7. flight' = [flight EXCEPT ![i] = answer]
    BY <1>5 DEF answer
  <1>8. flight' \in Seq(Entry) /\ Len(flight') = Len(flight) /\ DOMAIN flight' = DOMAIN flight
    BY <1>1, <1>2, <1>6, <1>7, ExceptSeq DEF Typed
  <1>9. \A j \in DOMAIN flight : flight'[j] = IF j = i THEN answer ELSE flight[j]
    BY <1>2, <1>7
  <1> QED
    BY <1>3, <1>4, <1>6, <1>8, <1>9

\* An answer that has arrived is on its way no longer.
LEMMA Removed ==
    ASSUME Typed, NEW i \in DOMAIN flight, flight' = RemoveAt(flight, i)
    PROVE  /\ flight' \in Seq(Entry) /\ Len(flight') = Len(flight) - 1
           /\ DOMAIN flight' = 1 .. Len(flight) - 1
           /\ \A k \in DOMAIN flight' :
                 flight'[k] = IF k < i THEN flight[k] ELSE flight[k + 1]
           /\ \A k \in DOMAIN flight' : \E j \in DOMAIN flight :
                 j # i /\ flight'[k] = flight[j]
  <1>1. /\ flight' \in Seq(Entry) /\ Len(flight') = Len(flight) - 1
        /\ \A k \in 1 .. Len(flight) - 1 :
              flight'[k] = IF k < i THEN flight[k] ELSE flight[k + 1]
    BY Removal DEF Typed
  <1>2. Len(flight) \in Nat /\ DOMAIN flight = 1 .. Len(flight)
    BY Indices
  <1>3. DOMAIN flight' = 1 .. Len(flight) - 1
    BY <1>1, LenProperties
  <1>4. ASSUME NEW k \in 1 .. Len(flight) - 1
        PROVE  \E j \in DOMAIN flight : j # i /\ flight'[k] = flight[j]
    <2>1. CASE k < i
      BY <1>1, <1>2, <2>1
    <2>2. CASE ~(k < i)
      <3>1. k + 1 \in DOMAIN flight /\ k + 1 # i
        BY <1>2, <2>2
      <3> QED
        BY <1>1, <2>2, <3>1
    <2> QED
      BY <2>1, <2>2
  <1> QED
    BY <1>1, <1>3, <1>4

\* After a failure the requests of the same round are waited for no more.
LEMMA Dropped ==
    ASSUME Typed, NEW i \in DOMAIN flight, Failed(i)
    PROVE  /\ flight' \in Seq(Entry)
           /\ \A k \in DOMAIN flight' : \E j \in DOMAIN flight :
                 /\ flight'[k].kind = flight[j].kind /\ flight'[k].state = flight[j].state
                 /\ flight'[k].body = flight[j].body
  <1> DEFINE left == [j \in DOMAIN flight |->
                        IF j \in Others(i) THEN [flight[j] EXCEPT !.round = 0] ELSE flight[j]]
  <1>1. /\ Len(flight) \in Nat /\ DOMAIN flight = 1 .. Len(flight)
        /\ \A j \in DOMAIN flight : flight[j] \in Entry
    BY Indices
  <1>2. \A j \in DOMAIN flight : /\ left[j] \in Entry /\ left[j].kind = flight[j].kind
                                 /\ left[j].state = flight[j].state
                                 /\ left[j].body = flight[j].body
    BY <1>1 DEF Entry
  <1>3. flight' = RemoveAt(left, i)
    BY DEF Failed
  <1>4. DOMAIN left = 1 .. Len(flight)
    BY <1>1
  <1> HIDE DEF left
  <1>5. left \in Seq(Entry) /\ Len(left) = Len(flight)
    <2>1. left \in [1 .. Len(flight) -> Entry]
      <3>1. left = [j \in 1 .. Len(flight) |-> left[j]]
        BY <1>1 DEF left
      <3> QED
        BY <1>1, <1>2, <3>1
    <2> QED
      BY <1>1, <1>4, <2>1
  <1>6. /\ flight' \in Seq(Entry) /\ Len(flight') = Len(left) - 1
        /\ \A k \in 1 .. Len(left) - 1 : flight'[k] = IF k < i THEN left[k] ELSE left[k + 1]
    BY <1>1, <1>3, <1>4, <1>5, Removal
  <1>7. DOMAIN flight' = 1 .. Len(flight) - 1
    BY <1>5, <1>6, LenProperties
  <1>8. ASSUME NEW k \in DOMAIN flight'
        PROVE  \E j \in DOMAIN flight : flight'[k] = left[j]
    <2>1. k \in DOMAIN flight /\ k + 1 \in DOMAIN flight
      BY <1>1, <1>7
    <2> QED
      BY <1>5, <1>6, <1>7, <2>1
  <1> QED
    BY <1>2, <1>6, <1>8

(***************************************************************************)
(* Every action preserves the invariant.                                   *)
(***************************************************************************)
\* Opening asks for two things at once.
LEMMA OpeningHolds == ASSUME Parameters, IInv, OnEditingCore PROVE IInv'
  <1>1. Typed /\ Carried /\ Ordered /\ Held
    BY DEF IInv
  <1>2. /\ Len(flight) \in Nat /\ DOMAIN flight = 1 .. Len(flight)
        /\ \A j \in DOMAIN flight : flight[j] \in Entry
    BY <1>1, Indices
  <1> DEFINE first == Request("core", rounds', NoConfig)
             second == Request("config", rounds', NoConfig)
  <1>3. rounds' = rounds + 1 /\ isLoading' = TRUE /\ flight' = flight \o <<first, second>>
    BY DEF OnEditingCore, FetchCoreSettings
  <1>4. /\ first \in Entry /\ first.kind = "core" /\ first.round = rounds'
        /\ first.state = "sent"
        /\ second \in Entry /\ second.kind = "config" /\ second.round = rounds'
        /\ second.state = "sent"
    BY <1>1, <1>3 DEF Request, Entry, Typed
  <1> HIDE DEF first, second
  <1>5. /\ flight' \in Seq(Entry) /\ Len(flight') = Len(flight) + 2
        /\ \A k \in 1 .. Len(flight) : flight'[k] = flight[k]
        /\ flight'[Len(flight) + 1] = first /\ flight'[Len(flight) + 2] = second
    BY <1>1, <1>3, <1>4, Extension DEF Typed
  <1>6. /\ DOMAIN flight' = 1 .. Len(flight) + 2
        /\ \A k \in DOMAIN flight' :
              k \in DOMAIN flight \/ k = Len(flight) + 1 \/ k = Len(flight) + 2
    BY <1>2, <1>5, LenProperties
  <1>7. /\ open' = TRUE /\ form' = DefaultConfig /\ editor' = config
        /\ calm' = (calm /\ flight = << >>) /\ ~open
        /\ UNCHANGED <<isPostLoading, config, server, dirty>>
    BY DEF OnEditingCore
  <1>8. Typed'
    BY <1>1, <1>3, <1>5, <1>7 DEF Typed, DefaultConfig
  <1>9. Carried'
    BY <1>1, <1>2, <1>4, <1>5, <1>6 DEF Carried
  <1>10. calm' => /\ Len(flight) = 0 /\ Len(flight') = 2 /\ DOMAIN flight' = {1, 2}
                  /\ flight'[1] = first /\ flight'[2] = second
    <2> SUFFICES ASSUME calm' PROVE Len(flight) = 0 /\ Len(flight') = 2
                                    /\ DOMAIN flight' = {1, 2}
                                    /\ flight'[1] = first /\ flight'[2] = second
      OBVIOUS
    <2>1. flight = << >>
      BY <1>7
    <2>2. Len(flight) = 0
      BY <2>1
    <2> QED
      BY <2>2, <1>5, <1>6
  <1>11. Ordered'
    <2> SUFFICES ASSUME calm' PROVE Fetching' /\ \A i \in DOMAIN flight' : flight'[i].state = "ok" => flight'[i].body = server'
      BY DEF Ordered
    <2>1. calm /\ ~isPostLoading /\ rounds' # 0
      <3>1. calm /\ Len(flight) = 0
        BY <1>7, <1>10
      <3>2. Idle
        BY <1>1, <3>1 DEF Ordered, Fetching, Saving
      <3> QED
        BY <1>1, <1>3, <3>1, <3>2 DEF Idle, Typed
    <2> QED
      BY <1>3, <1>4, <1>7, <1>10, <2>1 DEF Fetching
  <1>12. Held'
    <2>1. calm' => /\ ~\A i \in DOMAIN flight' : flight'[i].kind # "config"
                   /\ ~\A i \in DOMAIN flight' : flight'[i].kind = "core"
                   /\ \A i \in DOMAIN flight' : flight'[i].kind # "put"
      BY <1>4, <1>10
    <2> QED
      BY <1>1, <1>7, <2>1 DEF Held
  <1> QED
    BY <1>8, <1>9, <1>11, <1>12 DEF IInv

\* Closing forgets what was edited.
LEMMA ClosingHolds == ASSUME Parameters, IInv, OnClose PROVE IInv'
  <1>1. Typed /\ Carried /\ Ordered /\ Held
    BY DEF IInv
  <1>2. Typed'
    BY <1>1 DEF OnClose, Typed
  <1>3. Carried'
    BY <1>1 DEF OnClose, Carried
  <1>4. Ordered'
    BY <1>1 DEF OnClose, Ordered, Idle, Fetching, Saving
  <1>5. Held'
    BY <1>1 DEF OnClose, Held
  <1> QED
    BY <1>2, <1>3, <1>4, <1>5 DEF IInv

\* What is typed is a configuration.
LEMMA ChangingHolds ==
    ASSUME Parameters, IInv, NEW text \in Configs, OnChange(text) PROVE IInv'
  <1>1. Typed /\ Carried /\ Ordered /\ Held
    BY DEF IInv
  <1>2. Typed'
    BY <1>1 DEF OnChange, Typed
  <1>3. Carried'
    BY <1>1 DEF OnChange, Carried
  <1>4. Ordered'
    BY <1>1 DEF OnChange, Ordered, Idle, Fetching, Saving
  <1>5. Held'
    BY <1>1 DEF OnChange, Held
  <1> QED
    BY <1>2, <1>3, <1>4, <1>5 DEF IInv

\* A save starts when nothing is on its way.
LEMMA SavingHolds == ASSUME Parameters, IInv, HandleOnSave PROVE IInv'
  <1>1. Typed /\ Carried /\ Ordered /\ Held
    BY DEF IInv
  <1>2. /\ Len(flight) \in Nat /\ DOMAIN flight = 1 .. Len(flight)
        /\ \A j \in DOMAIN flight : flight[j] \in Entry
    BY <1>1, Indices
  <1> DEFINE put == Request("put", 0, form)
  <1>3. /\ put \in Entry /\ put.kind = "put" /\ put.round = 0 /\ put.state = "sent"
        /\ put.body = form
    BY <1>1 DEF Request, Entry, Typed
  <1>4. /\ open /\ ~isLoading /\ ~isPostLoading /\ isPostLoading' = TRUE
        /\ flight' = Append(flight, put)
        /\ UNCHANGED <<open, isLoading, config, form, editor, server, rounds, dirty, calm>>
    BY DEF HandleOnSave
  <1> HIDE DEF put
  <1>5. flight' \in Seq(Entry) /\ Len(flight') = Len(flight) + 1
    BY <1>1, <1>3, <1>4 DEF Typed
  <1>6. /\ DOMAIN flight' = 1 .. Len(flight) + 1
        /\ \A k \in DOMAIN flight : flight'[k] = flight[k]
        /\ flight'[Len(flight) + 1] = put
        /\ \A k \in DOMAIN flight' : k \in DOMAIN flight \/ k = Len(flight) + 1
    BY <1>1, <1>2, <1>3, <1>4, <1>5, LenProperties DEF Typed
  <1>7. Typed'
    BY <1>1, <1>4, <1>5 DEF Typed
  <1>8. Carried'
    BY <1>1, <1>3, <1>6 DEF Carried, Typed, Parameters
  <1>9. calm => Len(flight) = 0
    BY <1>1, <1>4 DEF Ordered, Idle, Fetching, Saving
  <1>10. calm => /\ Len(flight') = 1 /\ DOMAIN flight' = {1} /\ flight'[1] = put
    BY <1>2, <1>5, <1>6, <1>9
  <1>11. Ordered'
    BY <1>3, <1>4, <1>10 DEF Ordered, Saving
  <1>12. Held'
    <2>1. calm => DOMAIN flight = {}
      BY <1>2, <1>9
    <2> QED
      BY <1>1, <1>3, <1>4, <1>10, <2>1 DEF Held
  <1> QED
    BY <1>7, <1>8, <1>11, <1>12 DEF IInv

\* The server answers with what it has.
LEMMA ServingHolds ==
    ASSUME Parameters, IInv, NEW i \in DOMAIN flight, Serve(i) PROVE IInv'
  <1>1. Typed /\ Carried /\ Ordered /\ Held
    BY DEF IInv
  <1>2. flight' \in Seq(Entry) /\ Len(flight') = Len(flight) /\ server' \in Configs
    BY Served
  <1>3. DOMAIN flight' = DOMAIN flight /\ i \in DOMAIN flight
    BY Served
  <1>4. \A j \in DOMAIN flight : /\ flight'[j].kind = flight[j].kind
                                 /\ flight'[j].round = flight[j].round
                                 /\ j # i => flight'[j] = flight[j]
    BY Served
  <1>5. \A j \in DOMAIN flight : flight'[j].kind = flight[j].kind /\ flight'[j].round = flight[j].round
    BY <1>4
  <1>6. /\ \A j \in DOMAIN flight : j # i => flight'[j] = flight[j]
        /\ flight'[i].state = "ok" /\ flight'[i].body = server'
    BY <1>4, Served
  <1>7. /\ flight[i].kind = "put" => server' = flight[i].body
        /\ flight[i].kind # "put" => server' = server
    BY Served
  <1>8. UNCHANGED <<open, isLoading, isPostLoading, config, form, editor, rounds, dirty, calm>>
    BY DEF Serve
  <1>9. Typed'
    BY <1>1, <1>2, <1>8 DEF Typed
  <1>10. Carried'
    <2>1. \A j \in DOMAIN flight : /\ flight'[j].state = "ok" => flight'[j].body \in Configs
                                   /\ flight'[j].kind = "put" => flight'[j].body # NoConfig
      BY <1>1, <1>2, <1>5, <1>6 DEF Carried, Parameters
    <2> QED
      BY <1>3, <2>1 DEF Carried
  <1>11. calm /\ flight[i].kind = "put" => DOMAIN flight = {1}
    <2>1. Len(flight) \in Nat /\ DOMAIN flight = 1 .. Len(flight)
      BY <1>1, Indices
    <2> QED
      BY <1>1, <2>1 DEF Ordered, Idle, Fetching, Saving
  <1>12. Ordered'
    <2> SUFFICES ASSUME calm PROVE Ordered'
      BY <1>8 DEF Ordered
    <2>1. (Idle \/ Fetching \/ Saving)'
      <3>1. Idle => Idle'
        BY <1>2, <1>8 DEF Idle
      <3>2. Fetching => Fetching'
        <4> SUFFICES ASSUME Fetching PROVE Fetching'
          OBVIOUS
        <4>1. Len(flight) = 2 => 1 \in DOMAIN flight /\ 2 \in DOMAIN flight
          BY <1>1, Indices
        <4>2. \A j \in DOMAIN flight : flight'[j].kind # "put" /\ flight'[j].round = rounds'
          BY <1>8, <1>5 DEF Fetching
        <4>3. Len(flight') = 2 => flight'[1].kind = "core" /\ flight'[2].kind = "config"
          BY <1>2, <1>5, <4>1 DEF Fetching
        <4> QED
          BY <1>2, <1>8, <1>3, <4>2, <4>3 DEF Fetching
      <3>3. Saving => Saving'
        <4>1. Len(flight) = 1 => 1 \in DOMAIN flight
          BY <1>1, Indices
        <4>2. Saving => flight'[1].kind = "put" /\ flight'[1].round = 0
          BY <1>5, <4>1 DEF Saving
        <4> QED
          BY <1>2, <1>8, <4>2 DEF Saving
      <3> QED
        BY <1>1, <3>1, <3>2, <3>3 DEF Ordered
    <2>2. \A j \in DOMAIN flight' : flight'[j].state = "ok" => flight'[j].body = server'
      <3>1. \A j \in DOMAIN flight : j # i /\ flight[j].state = "ok" => flight[j].body = server'
        BY <1>1, <1>3, <1>7, <1>11 DEF Ordered
      <3>2. \A j \in DOMAIN flight : flight'[j].state = "ok" => flight'[j].body = server'
        BY <1>6, <3>1
      <3> QED
        BY <1>3, <3>2
    <2> QED
      BY <2>1, <2>2 DEF Ordered
  <1>13. Held'
    <2>1. \A j \in DOMAIN flight : flight'[j].kind = "put" => flight'[j].body = flight[j].body
      BY <1>5, <1>6, <1>7
    <2>2. (\A j \in DOMAIN flight : flight'[j].kind = "core") => server' = server
      BY <1>3, <1>5, <1>7
    <2>3. open /\ calm =>
            /\ (\A j \in DOMAIN flight : flight'[j].kind # "config") => form \in Configs
            /\ (\A j \in DOMAIN flight : flight'[j].kind = "core") => dirty \/ form = server'
            /\ \A j \in DOMAIN flight : flight'[j].kind = "put" => dirty \/ form = flight'[j].body
      BY <1>1, <1>5, <2>1, <2>2 DEF Held
    <2> QED
      BY <1>1, <1>8, <1>3, <2>3 DEF Held
  <1> QED
    BY <1>9, <1>10, <1>12, <1>13 DEF IInv

\* The last request on its way has been answered.
Ended(i) ==
    /\ Len(flight) = 1 /\ i = 1 /\ Len(flight') = 0 /\ DOMAIN flight' = {}
    /\ Fetching \/ Saving
    /\ ~isLoading'

\* One of the two requests of a loading has been answered.
HalfWay(i) ==
    /\ Len(flight) = 2 /\ i \in {1, 2} /\ Fetching /\ isLoading' = TRUE
    /\ Len(flight') = 1 /\ DOMAIN flight' = {1} /\ flight'[1] = flight[3 - i]

\* While all goes well an answer ends what the dialog waits for, or half of it.
LEMMA Arrival ==
    ASSUME IInv, NEW kind, NEW i \in DOMAIN flight, Arrives(i, kind)
    PROVE  /\ flight' \in Seq(Entry) /\ isLoading' \in BOOLEAN
           /\ \A k \in DOMAIN flight' : \E j \in DOMAIN flight : flight'[k] = flight[j]
           /\ calm => Ended(i) \/ HalfWay(i)
  <1>1. Typed /\ Carried /\ Ordered /\ Held
    BY DEF IInv
  <1>2. flight' = RemoveAt(flight, i) /\ isLoading' = (isLoading /\ ~RoundEnds(i))
    BY DEF Arrives
  <1>3. /\ flight' \in Seq(Entry) /\ Len(flight') = Len(flight) - 1
        /\ DOMAIN flight' = 1 .. Len(flight) - 1
    BY <1>1, <1>2, Removed
  <1>4. /\ \A k \in DOMAIN flight' : flight'[k] = IF k < i THEN flight[k] ELSE flight[k + 1]
        /\ \A k \in DOMAIN flight' : \E j \in DOMAIN flight : j # i /\ flight'[k] = flight[j]
    BY <1>1, <1>2, Removed
  <1>5. Len(flight) \in Nat /\ DOMAIN flight = 1 .. Len(flight)
    BY <1>1, Indices
  <1>6. calm => Fetching \/ Saving
    BY <1>1, <1>5 DEF Ordered, Idle
  <1>7. CASE calm /\ Saving
    <2>1. i = 1 /\ Len(flight) = 1 /\ ~isLoading
      BY <1>5, <1>7 DEF Saving
    <2>2. Len(flight') = 0 /\ DOMAIN flight' = {}
      BY <1>3, <2>1
    <2> QED
      BY <1>1, <1>2, <1>3, <1>4, <1>7, <2>1, <2>2 DEF Ended
  <1>8. CASE calm /\ Fetching /\ Len(flight) = 1
    <2>1. i = 1 /\ DOMAIN flight = {1}
      BY <1>5, <1>8
    <2>2. Others(i) = {} /\ flight[i].round # 0
      BY <1>8, <2>1 DEF Others, Fetching
    <2>3. Len(flight') = 0 /\ DOMAIN flight' = {}
      BY <1>3, <1>8
    <2> QED
      BY <1>1, <1>2, <1>3, <1>4, <1>8, <2>1, <2>2, <2>3 DEF Ended, RoundEnds
  <1>9. CASE calm /\ Fetching /\ Len(flight) = 2
    <2>1. i \in {1, 2} /\ 3 - i \in DOMAIN flight /\ 3 - i # i
      BY <1>5, <1>9
    <2>2. Others(i) # {}
      BY <1>9, <2>1 DEF Others, Fetching
    <2>3. Len(flight') = 1 /\ DOMAIN flight' = {1}
      BY <1>3, <1>9
    <2>4. flight'[1] = flight[3 - i]
      BY <1>4, <2>1, <2>3
    <2> QED
      BY <1>1, <1>2, <1>3, <1>4, <1>9, <2>1, <2>2, <2>3, <2>4 DEF HalfWay, RoundEnds, Fetching
  <1>10. CASE ~calm
    BY <1>1, <1>2, <1>3, <1>4, <1>10 DEF Typed
  <1> QED
    BY <1>1, <1>6, <1>7, <1>8, <1>9, <1>10 DEF Typed, Fetching

\* The state of the core arrives: nothing takes it but the waiting.
LEMMA CoreHolds ==
    ASSUME Parameters, IInv, NEW i \in DOMAIN flight, CoreArrives(i) PROVE IInv'
  <1>1. Typed /\ Carried /\ Ordered /\ Held
    BY DEF IInv
  <1>2. Arrives(i, "core")
    BY DEF CoreArrives
  <1>3. /\ flight' \in Seq(Entry) /\ isLoading' \in BOOLEAN
        /\ \A k \in DOMAIN flight' : \E j \in DOMAIN flight : flight'[k] = flight[j]
    BY <1>2, Arrival
  <1>4. calm => Ended(i) \/ HalfWay(i)
    BY <1>2, Arrival
  <1>5. flight[i].state = "ok" /\ flight[i].kind = "core"
        /\ UNCHANGED <<open, server, rounds, calm>>
    BY <1>2 DEF Arrives
  <1>6. flight[i].body \in Configs /\ (calm => flight[i].body = server)
    BY <1>1, <1>5 DEF Carried, Ordered
  <1>7. UNCHANGED <<isPostLoading, config, form, editor, dirty>>
    BY DEF CoreArrives
  <1>8. Typed'
    BY <1>1, <1>3, <1>5, <1>7 DEF Typed
  <1>9. Carried'
    BY <1>1, <1>3 DEF Carried
  <1>10. calm => ~Saving /\ ~isPostLoading /\ rounds # 0
    BY <1>1, <1>4, <1>5 DEF Ended, HalfWay, Fetching, Saving
  <1>11. Ordered'
    BY <1>1, <1>3, <1>4, <1>5, <1>7, <1>10
       DEF Ordered, Ended, HalfWay, Idle, Fetching
  <1>12. Held'
    <2>1. CASE calm /\ Ended(i)
      <3>1. \A j \in DOMAIN flight : flight[j].kind = "core"
        BY <1>1, <1>5, <2>1, Indices DEF Ended
      <3> QED
        BY <1>1, <1>5, <1>7, <2>1, <3>1 DEF Held, Ended
    <2>2. CASE calm /\ HalfWay(i)
      <3>1. i = 1 /\ flight'[1].kind = "config"
        BY <1>5, <2>2 DEF HalfWay, Fetching
      <3> QED
        BY <1>1, <1>5, <1>7, <2>2, <3>1 DEF Held, HalfWay
    <2> QED
      BY <1>1, <1>4, <1>5, <1>7, <2>1, <2>2 DEF Held
  <1> QED
    BY <1>8, <1>9, <1>11, <1>12 DEF IInv

\* The configuration arrives and an open dialog takes it.
LEMMA ConfigHolds ==
    ASSUME Parameters, IInv, NEW i \in DOMAIN flight, ConfigArrives(i) PROVE IInv'
  <1>1. Typed /\ Carried /\ Ordered /\ Held
    BY DEF IInv
  <1>2. Arrives(i, "config")
    BY DEF ConfigArrives
  <1>3. /\ flight' \in Seq(Entry) /\ isLoading' \in BOOLEAN
        /\ \A k \in DOMAIN flight' : \E j \in DOMAIN flight : flight'[k] = flight[j]
    BY <1>2, Arrival
  <1>4. calm => Ended(i) \/ HalfWay(i)
    BY <1>2, Arrival
  <1>5. flight[i].state = "ok" /\ flight[i].kind = "config"
        /\ UNCHANGED <<open, server, rounds, calm>>
    BY <1>2 DEF Arrives
  <1>6. flight[i].body \in Configs /\ (calm => flight[i].body = server)
    BY <1>1, <1>5 DEF Carried, Ordered
  <1>7. /\ config' = flight[i].body /\ UNCHANGED isPostLoading
        /\ open => form' = flight[i].body /\ editor' = flight[i].body /\ dirty' = FALSE
        /\ ~open => UNCHANGED <<form, editor, dirty>>
    BY DEF ConfigArrives, SetConfig
  <1>8. Typed'
    BY <1>1, <1>3, <1>5, <1>6, <1>7 DEF Typed
  <1>9. Carried'
    BY <1>1, <1>3 DEF Carried
  <1>10. calm => ~Saving /\ ~isPostLoading /\ rounds # 0
    BY <1>1, <1>4, <1>5 DEF Ended, HalfWay, Fetching, Saving
  <1>11. Ordered'
    BY <1>1, <1>3, <1>4, <1>5, <1>7, <1>10
       DEF Ordered, Ended, HalfWay, Idle, Fetching
  <1>12. Held'
    <2>1. calm => \A k \in DOMAIN flight' : flight'[k].kind # "put"
      BY <1>1, <1>4, Indices DEF Ended, HalfWay, Fetching
    <2> QED
      BY <1>1, <1>5, <1>6, <1>7, <2>1 DEF Held
  <1> QED
    BY <1>8, <1>9, <1>11, <1>12 DEF IInv

\* A save is confirmed: a draft that is still what was saved is no edited one.
LEMMA SavedHolds ==
    ASSUME Parameters, IInv, NEW i \in DOMAIN flight, Saved(i) PROVE IInv'
  <1>1. Typed /\ Carried /\ Ordered /\ Held
    BY DEF IInv
  <1>2. Arrives(i, "put")
    BY DEF Saved
  <1>3. /\ flight' \in Seq(Entry) /\ isLoading' \in BOOLEAN
        /\ \A k \in DOMAIN flight' : \E j \in DOMAIN flight : flight'[k] = flight[j]
    BY <1>2, Arrival
  <1>4. calm => Ended(i) \/ HalfWay(i)
    BY <1>2, Arrival
  <1>5. flight[i].state = "ok" /\ flight[i].kind = "put"
        /\ UNCHANGED <<open, server, rounds, calm>>
    BY <1>2 DEF Arrives
  <1>6. flight[i].body \in Configs /\ (calm => flight[i].body = server)
    BY <1>1, <1>5 DEF Carried, Ordered
  <1>7. /\ isPostLoading' = FALSE /\ dirty' = (dirty /\ form # flight[i].body)
        /\ UNCHANGED <<config, form, editor>>
    BY DEF Saved
  <1>8. Typed'
    BY <1>1, <1>3, <1>5, <1>7 DEF Typed
  <1>9. Carried'
    BY <1>1, <1>3 DEF Carried
  <1>10. calm => Ended(i)
    BY <1>1, <1>4, <1>5 DEF HalfWay, Fetching
  <1>11. Ordered'
    BY <1>1, <1>5, <1>7, <1>10 DEF Ordered, Ended, Idle
  <1>12. Held'
    BY <1>1, <1>5, <1>6, <1>7, <1>10 DEF Held, Ended
  <1> QED
    BY <1>8, <1>9, <1>11, <1>12 DEF IInv

\* After a failure the dialog promises nothing.
LEMMA FailingHolds ==
    ASSUME Parameters, IInv, NEW i \in DOMAIN flight, Failed(i) PROVE IInv'
  <1>1. Typed /\ Carried /\ Ordered /\ Held
    BY DEF IInv
  <1>2. /\ flight' \in Seq(Entry)
        /\ \A k \in DOMAIN flight' : \E j \in DOMAIN flight :
              /\ flight'[k].kind = flight[j].kind /\ flight'[k].state = flight[j].state
              /\ flight'[k].body = flight[j].body
    BY <1>1, Dropped
  <1>3. /\ isLoading' \in BOOLEAN /\ isPostLoading' \in BOOLEAN /\ calm' = FALSE
        /\ UNCHANGED <<open, config, form, editor, server, rounds, dirty>>
    BY <1>1 DEF Failed, Typed
  <1>4. Typed'
    BY <1>1, <1>2, <1>3 DEF Typed
  <1>5. Carried'
    BY <1>1, <1>2 DEF Carried
  <1>6. Ordered' /\ Held'
    BY <1>1, <1>3 DEF Ordered, Held
  <1> QED
    BY <1>4, <1>5, <1>6 DEF IInv

\* The invariant is inductive.
LEMMA Inductive == Parameters /\ IInv /\ [Next]_vars => IInv'
  <1> SUFFICES ASSUME Parameters, IInv, [Next]_vars PROVE IInv'
    OBVIOUS
  <1>1. CASE OnEditingCore
    BY <1>1, OpeningHolds
  <1>2. CASE OnClose
    BY <1>2, ClosingHolds
  <1>3. CASE HandleOnSave
    BY <1>3, SavingHolds
  <1>4. ASSUME NEW text \in Configs, OnChange(text) PROVE IInv'
    BY <1>4, ChangingHolds
  <1>5. ASSUME NEW i \in DOMAIN flight,
               Serve(i) \/ CoreArrives(i) \/ ConfigArrives(i) \/ Saved(i) \/ Failed(i)
        PROVE  IInv'
    BY <1>5, ServingHolds, CoreHolds, ConfigHolds, SavedHolds, FailingHolds
  <1>6. CASE UNCHANGED vars
    BY <1>6 DEF vars, IInv, Typed, Carried, Ordered, Idle, Fetching, Saving, Held
  <1> QED
    BY <1>1, <1>2, <1>3, <1>4, <1>5, <1>6 DEF Next

\* What the invariant leaves out of the typing: the editor, the count of the edits, and
\* that no request belongs to an opening that is yet to come.
Filled ==
    /\ editor \in Configs \cup {NoConfig}
    /\ edits \in Nat
    /\ \A i \in DOMAIN flight : flight[i].round <= rounds

\* Opening numbers its requests with the opening.
LEMMA OpeningFilled == ASSUME Parameters, IInv, Filled, OnEditingCore PROVE Filled'
  <1>1. Typed
    BY DEF IInv
  <1>2. /\ Len(flight) \in Nat /\ DOMAIN flight = 1 .. Len(flight)
        /\ \A j \in DOMAIN flight : flight[j] \in Entry
    BY <1>1, Indices
  <1> DEFINE first == Request("core", rounds', NoConfig)
             second == Request("config", rounds', NoConfig)
  <1>3. /\ rounds' = rounds + 1 /\ flight' = flight \o <<first, second>>
        /\ editor' = config /\ edits' = edits
    BY DEF OnEditingCore, FetchCoreSettings
  <1>4. first \in Entry /\ first.round = rounds' /\ second \in Entry /\ second.round = rounds'
    BY <1>1, <1>3 DEF Request, Entry, Typed
  <1> HIDE DEF first, second
  <1>5. /\ flight' \in Seq(Entry) /\ Len(flight') = Len(flight) + 2
        /\ \A k \in 1 .. Len(flight) : flight'[k] = flight[k]
        /\ flight'[Len(flight) + 1] = first /\ flight'[Len(flight) + 2] = second
    BY <1>1, <1>3, <1>4, Extension DEF Typed
  <1>6. \A k \in DOMAIN flight' :
            k \in DOMAIN flight \/ k = Len(flight) + 1 \/ k = Len(flight) + 2
    BY <1>2, <1>5, LenProperties
  <1>7. ASSUME NEW k \in DOMAIN flight' PROVE flight'[k].round <= rounds'
    <2>1. rounds \in Nat
      BY <1>1 DEF Typed
    <2>2. CASE k \in DOMAIN flight
      <3>1. flight'[k] = flight[k] /\ flight[k].round <= rounds /\ flight[k].round \in Nat
        BY <1>2, <1>5, <2>2 DEF Filled, Entry
      <3> QED
        BY <1>3, <2>1, <3>1
    <2>3. CASE k = Len(flight) + 1 \/ k = Len(flight) + 2
      <3>1. flight'[k].round = rounds' /\ rounds' \in Nat
        BY <1>3, <1>4, <1>5, <2>1, <2>3
      <3> QED
        BY <3>1
    <2> QED
      BY <1>6, <2>2, <2>3
  <1>8. editor' \in Configs \cup {NoConfig} /\ edits' \in Nat
    BY <1>1, <1>3 DEF Typed, Filled
  <1> QED
    BY <1>7, <1>8 DEF Filled

\* A save belongs to no opening.
LEMMA SavingFilled == ASSUME IInv, Filled, HandleOnSave PROVE Filled'
  <1>1. Typed
    BY DEF IInv
  <1> DEFINE put == Request("put", 0, form)
  <1>2. /\ rounds' = rounds /\ flight' = Append(flight, put)
        /\ editor' = editor /\ edits' = edits + 1
    BY DEF HandleOnSave
  <1>3. put \in Entry /\ put.round = 0
    BY <1>1 DEF Request, Entry, Typed
  <1> HIDE DEF put
  <1>4. /\ DOMAIN flight' = 1 .. Len(flight) + 1 /\ DOMAIN flight = 1 .. Len(flight)
        /\ Len(flight) \in Nat
        /\ \A k \in 1 .. Len(flight) : flight'[k] = flight[k]
        /\ flight'[Len(flight) + 1] = put
    BY <1>1, <1>2, <1>3, AppendProperties, LenProperties DEF Typed
  <1>5. ASSUME NEW k \in DOMAIN flight' PROVE flight'[k].round <= rounds'
    <2>1. k \in 1 .. Len(flight) \/ k = Len(flight) + 1
      BY <1>4
    <2>2. rounds \in Nat
      BY <1>1 DEF Typed
    <2> QED
      BY <1>2, <1>3, <1>4, <2>1, <2>2 DEF Filled
  <1> QED
    BY <1>2, <1>5 DEF Filled

\* An answer brings a configuration, a failure takes its round from the other request.
LEMMA AnswersFilled ==
    ASSUME Parameters, IInv, Filled, NEW i \in DOMAIN flight,
           Serve(i) \/ CoreArrives(i) \/ ConfigArrives(i) \/ Saved(i) \/ Failed(i)
    PROVE  Filled'
  <1>1. Typed /\ Carried
    BY DEF IInv
  <1>2. /\ Len(flight) \in Nat /\ DOMAIN flight = 1 .. Len(flight)
        /\ \A j \in DOMAIN flight : flight[j] \in Entry
    BY <1>1, Indices
  <1>3. CASE Serve(i)
    <2>1. /\ DOMAIN flight' = DOMAIN flight
          /\ \A j \in DOMAIN flight : flight'[j].round = flight[j].round
      BY <1>3, Served
    <2>2. editor' = editor /\ edits' = edits /\ rounds' = rounds
      BY <1>3 DEF Serve
    <2> QED
      BY <2>1, <2>2 DEF Filled
  <1>4. CASE CoreArrives(i) \/ ConfigArrives(i) \/ Saved(i)
    <2>1. flight' = RemoveAt(flight, i) /\ rounds' = rounds /\ edits' = edits
      BY <1>4 DEF CoreArrives, ConfigArrives, Saved, Arrives
    <2>2. \A k \in DOMAIN flight' : \E j \in DOMAIN flight : flight'[k] = flight[j]
      BY <1>1, <2>1, Removed
    <2>3. editor' \in Configs \cup {NoConfig}
      <3>1. editor' = editor \/ (editor' = flight[i].body /\ flight[i].state = "ok")
        BY <1>4 DEF CoreArrives, ConfigArrives, Saved, Arrives, SetConfig
      <3> QED
        BY <1>1, <3>1 DEF Carried, Filled
    <2> QED
      BY <2>1, <2>2, <2>3 DEF Filled
  <1>5. CASE Failed(i)
    <2> DEFINE left == [j \in DOMAIN flight |->
                          IF j \in Others(i) THEN [flight[j] EXCEPT !.round = 0] ELSE flight[j]]
    <2>1. \A j \in DOMAIN flight : left[j] \in Entry /\ left[j].round <= rounds
      <3>1. rounds \in Nat
        BY <1>1 DEF Typed
      <3> QED
        BY <1>2, <3>1 DEF Entry, Filled
    <2>2. /\ flight' = RemoveAt(left, i) /\ rounds' = rounds /\ edits' = edits
          /\ editor' = editor
      BY <1>5 DEF Failed
    <2>3. DOMAIN left = 1 .. Len(flight)
      BY <1>2
    <2> HIDE DEF left
    <2>4. left \in Seq(Entry) /\ Len(left) = Len(flight)
      <3>1. left \in [1 .. Len(flight) -> Entry]
        <4>1. left = [j \in 1 .. Len(flight) |-> left[j]]
          BY <1>2 DEF left
        <4> QED
          BY <1>2, <2>1, <4>1
      <3> QED
        BY <1>2, <2>3, <3>1
    <2>5. /\ flight' \in Seq(Entry) /\ Len(flight') = Len(left) - 1
          /\ \A k \in 1 .. Len(left) - 1 : flight'[k] = IF k < i THEN left[k] ELSE left[k + 1]
      <3>1. i \in DOMAIN left
        BY <1>2, <2>3
      <3> QED
        BY <2>2, <2>4, <3>1, Removal
    <2>6. DOMAIN flight' = 1 .. Len(flight) - 1
      BY <2>4, <2>5, LenProperties
    <2>7. ASSUME NEW k \in DOMAIN flight' PROVE flight'[k].round <= rounds'
      <3>1. k \in DOMAIN flight /\ k + 1 \in DOMAIN flight
        BY <1>2, <2>6
      <3> QED
        BY <2>1, <2>2, <2>4, <2>5, <2>6, <3>1
    <2> QED
      BY <2>2, <2>7 DEF Filled
  <1> QED
    BY <1>3, <1>4, <1>5

\* The variables are what they are said to be; the configuration in the editor is one
\* that was typed, was loaded, or is the empty store.
THEOREM CoreTyping == ASSUME Parameters PROVE Spec => []TypeOK
  <1>1. Init => Filled
    BY DEF Init, Filled
  <1>2. IInv /\ Filled /\ [Next]_vars => Filled'
    <2> SUFFICES ASSUME IInv, Filled, [Next]_vars PROVE Filled'
      OBVIOUS
    <2>1. CASE OnClose
      BY <2>1 DEF OnClose, Filled
    <2>2. ASSUME NEW text \in Configs, OnChange(text) PROVE Filled'
      BY <2>2 DEF OnChange, Filled
    <2>3. CASE UNCHANGED vars
      BY <2>3 DEF vars, Filled
    <2> QED
      BY <2>1, <2>2, <2>3, OpeningFilled, SavingFilled, AnswersFilled DEF Next
  <1>3. IInv /\ Filled => TypeOK
    <2> SUFFICES ASSUME IInv, Filled PROVE TypeOK
      OBVIOUS
    <2>1. Typed
      BY DEF IInv
    <2>2. ASSUME NEW i \in DOMAIN flight
          PROVE  /\ flight[i].kind \in {"core", "config", "put"}
                 /\ flight[i].round \in 0 .. rounds
                 /\ flight[i].state \in {"sent", "ok"}
      BY <2>1, Indices DEF Entry, Filled, Typed
    <2> QED
      BY <2>1, <2>2 DEF TypeOK, Typed, Filled
  <1> QED
    BY <1>1, <1>2, <1>3, Starts, Inductive, PTL DEF Spec

(***************************************************************************)
(* The editor of Draft: its mode, its draft and the drafts on their way.   *)
(***************************************************************************)
Drafted == IF Mode \in {"clean", "edited"} THEN form ELSE EmptyForm

Sent == {flight[i].body : i \in Puts}

\* The mode, condition by condition, before and after a step.
LEMMA Modes ==
    ASSUME Typed, Typed'
    PROVE  /\ Mode = IF ~open THEN "closed" ELSE IF ~calm THEN "astray"
                     ELSE IF isLoading \/ (isPostLoading /\ ~dirty) THEN "waiting"
                     ELSE IF dirty THEN "edited" ELSE "clean"
           /\ Mode' = IF ~open' THEN "closed" ELSE IF ~calm' THEN "astray"
                      ELSE IF isLoading' \/ (isPostLoading' /\ ~dirty') THEN "waiting"
                      ELSE IF dirty' THEN "edited" ELSE "clean"
  BY DEF Mode, Typed

\* Only configurations are on their way.
LEMMA Sending ==
    ASSUME Parameters, IInv, IInv'
    PROVE  Sent \subseteq Configs /\ Sent' \subseteq Configs
  <1>1. Typed /\ Carried /\ Typed' /\ Carried'
    BY DEF IInv
  <1>2. ASSUME NEW i \in Puts PROVE flight[i].body \in Configs
    <2>1. flight[i] \in Entry /\ i \in DOMAIN flight
      BY <1>1, Indices DEF Puts
    <2> QED
      BY <1>1, <2>1 DEF Puts, Carried, Entry
  <1>3. ASSUME NEW i \in Puts' PROVE flight'[i].body \in Configs
    <2>1. i \in DOMAIN flight' /\ flight'[i].kind = "put" /\ flight'[i].body # EmptyForm
      BY DEF Puts
    <2>2. flight'[i] \in Entry
      BY <1>1, <2>1, ElementOfSeq, LenProperties DEF Typed
    <2> QED
      BY <1>1, <2>1, <2>2 DEF Carried, Entry
  <1> QED
    BY <1>2, <1>3 DEF Sent

\* A step that only takes requests away, or only answers them, sends nothing.
LEMMA SendsNothing ==
    ASSUME \A k \in DOMAIN flight' : flight'[k].state = "sent" =>
               \E j \in DOMAIN flight :
                   /\ flight'[k].kind = flight[j].kind /\ flight'[k].state = flight[j].state
                   /\ flight'[k].body = flight[j].body
    PROVE  Sent' \subseteq Sent
  BY DEF Sent, Puts

\* A closed dialog may lose requests; an astray one may do anything but close.
LEMMA Straying ==
    ASSUME Parameters, IInv, IInv',
           \/ ~open /\ ~open' /\ Sent' \subseteq Sent
           \/ open /\ open' /\ ~calm'
    PROVE  Editor!Next
  <1>1. Typed /\ Typed'
    BY DEF IInv
  <1>2. server' \in Configs /\ Sent' \subseteq Configs
    BY <1>1, Sending DEF Typed
  <1>3. Mode' = IF ~open' THEN "closed" ELSE "astray"
    BY <1>1, Modes
  <1>4. Mode = "closed" <=> ~open
    BY <1>1, Modes
  <1>5. Drafted' = EmptyForm
    BY <1>3 DEF Drafted
  <1>6. Editor!Stray
    BY <1>2, <1>3, <1>4, <1>5 DEF Editor!Stray, Drafted, Sent
  <1> QED
    BY <1>6 DEF Editor!Next

\* Opening.
LEMMA OpeningSimulated ==
    ASSUME Parameters, IInv, IInv', OnEditingCore PROVE Editor!Next
  <1>1. Typed /\ Typed'
    BY DEF IInv
  <1>2. ~open /\ open' = TRUE /\ isLoading' = TRUE /\ UNCHANGED server
    BY DEF OnEditingCore, FetchCoreSettings
  <1>3. Mode = "closed" /\ Mode' \in {"waiting", "astray"}
    BY <1>1, <1>2, Modes
  <1>4. Drafted = EmptyForm /\ Drafted' = EmptyForm
    BY <1>3 DEF Drafted
  <1>5. Sent' = Sent
    <2> DEFINE first == Request("core", rounds', NoConfig)
               second == Request("config", rounds', NoConfig)
    <2>1. flight' = flight \o <<first, second>> /\ rounds' \in Nat
      BY <1>1 DEF OnEditingCore, FetchCoreSettings, Typed
    <2>2. first \in Entry /\ first.kind # "put" /\ second \in Entry /\ second.kind # "put"
      BY <2>1 DEF Request, Entry
    <2> HIDE DEF first, second
    <2>3. /\ flight' \in Seq(Entry) /\ Len(flight') = Len(flight) + 2
          /\ \A k \in 1 .. Len(flight) : flight'[k] = flight[k]
          /\ flight'[Len(flight) + 1] = first /\ flight'[Len(flight) + 2] = second
      BY <1>1, <2>1, <2>2, Extension DEF Typed
    <2>4. Len(flight) \in Nat /\ DOMAIN flight = 1 .. Len(flight)
      BY <1>1, Indices
    <2>5. /\ DOMAIN flight' = 1 .. Len(flight) + 2
          /\ \A k \in DOMAIN flight' :
                k \in DOMAIN flight \/ k = Len(flight) + 1 \/ k = Len(flight) + 2
          /\ \A k \in DOMAIN flight : k \in DOMAIN flight'
      BY <2>3, <2>4, LenProperties
    <2>6. Puts' = Puts /\ \A k \in Puts : flight'[k] = flight[k]
      BY <2>2, <2>3, <2>4, <2>5 DEF Puts
    <2> QED
      BY <2>6 DEF Sent
  <1>6. Editor!Open
    BY <1>2, <1>3, <1>4, <1>5 DEF Editor!Open, Drafted, Sent
  <1> QED
    BY <1>6 DEF Editor!Next

\* Closing.
LEMMA ClosingSimulated ==
    ASSUME Parameters, IInv, IInv', OnClose PROVE Editor!Next
  <1>1. Typed /\ Typed'
    BY DEF IInv
  <1>2. open /\ open' = FALSE /\ UNCHANGED <<server, flight>>
    BY DEF OnClose
  <1>3. Mode # "closed" /\ Mode' = "closed"
    BY <1>1, <1>2, Modes
  <1>4. Drafted' = EmptyForm /\ Sent' = Sent
    BY <1>2, <1>3 DEF Drafted, Sent, Puts
  <1>5. Editor!Close
    BY <1>2, <1>3, <1>4 DEF Editor!Close, Drafted, Sent
  <1> QED
    BY <1>5 DEF Editor!Next

\* Typing: while something is loading it changes nothing of the promise.
LEMMA ChangingSimulated ==
    ASSUME Parameters, IInv, IInv', NEW text \in Configs, OnChange(text)
    PROVE  Editor!Next \/ UNCHANGED Editor!vars
  <1>1. Typed /\ Typed'
    BY DEF IInv
  <1>2. /\ open /\ open' /\ form' = text /\ dirty' = TRUE
        /\ UNCHANGED <<isLoading, isPostLoading, flight, server, calm>>
    BY DEF OnChange
  <1>3. Sent' = Sent
    BY <1>2 DEF Sent, Puts
  <1>4. CASE ~calm
    BY <1>2, <1>4, Straying
  <1>5. CASE calm /\ isLoading
    <2>1. Mode = "waiting" /\ Mode' = "waiting"
      BY <1>1, <1>2, <1>5, Modes
    <2>2. Drafted' = Drafted
      BY <2>1 DEF Drafted
    <2> QED
      BY <1>2, <1>3, <2>1, <2>2 DEF Editor!vars, Drafted, Sent
  <1>6. CASE calm /\ ~isLoading
    <2>1. Mode \in {"waiting", "clean", "edited"} /\ Mode' = "edited"
      BY <1>1, <1>2, <1>6, Modes
    <2>2. Drafted' \in Configs
      BY <1>2, <2>1 DEF Drafted
    <2>3. Editor!Edit
      BY <1>2, <1>3, <2>1, <2>2 DEF Editor!Edit, Drafted, Sent
    <2> QED
      BY <2>3 DEF Editor!Next
  <1> QED
    BY <1>1, <1>4, <1>5, <1>6 DEF Typed

\* Saving.
LEMMA SavingSimulated ==
    ASSUME Parameters, IInv, IInv', HandleOnSave PROVE Editor!Next
  <1>1. Typed /\ Carried /\ Ordered /\ Held /\ Typed'
    BY DEF IInv
  <1>2. /\ open /\ open' /\ ~isLoading /\ ~isPostLoading /\ isPostLoading' = TRUE
        /\ flight' = Append(flight, Request("put", 0, form))
        /\ UNCHANGED <<isLoading, form, server, dirty, calm>>
    BY DEF HandleOnSave
  <1>3. CASE ~calm
    BY <1>2, <1>3, Straying
  <1>4. CASE calm
    <2>1. Len(flight) = 0 /\ Len(flight) \in Nat /\ DOMAIN flight = {}
      BY <1>1, <1>2, <1>4, Indices DEF Ordered, Idle, Fetching, Saving
    <2>2. form \in Configs /\ form # EmptyForm
      BY <1>1, <1>2, <1>4, <2>1 DEF Held, Parameters
    <2>3. DOMAIN flight' = {1} /\ flight'[1] = Request("put", 0, form)
      <3>1. Request("put", 0, form) \in Entry
        BY <1>1 DEF Request, Entry, Typed
      <3>2. flight' = <<Request("put", 0, form)>>
        <4>1. flight = << >>
          BY <1>1, <2>1 DEF Typed
        <4> QED
          BY <1>2, <4>1
      <3> QED
        BY <3>2
    <2>4. Puts' = {1} /\ Puts = {}
      BY <2>1, <2>2, <2>3 DEF Puts, Request
    <2>5. Sent = {} /\ Sent' = {form}
      BY <2>3, <2>4 DEF Sent, Request
    <2>6. Mode \in {"clean", "edited"}
          /\ IF Mode = "clean" THEN Mode' = "waiting" ELSE Mode' = "edited"
      BY <1>1, <1>2, <1>4, Modes
    <2>7. Drafted = form
          /\ IF Mode = "clean" THEN Drafted' = EmptyForm ELSE Drafted' = form
      BY <1>2, <2>6 DEF Drafted
    <2>8. Editor!Submit
      BY <1>2, <2>5, <2>6, <2>7 DEF Editor!Submit, Drafted, Sent
    <2> QED
      BY <2>8 DEF Editor!Next
  <1> QED
    BY <1>3, <1>4

\* Serving: a save reaches the server.
LEMMA ServingSimulated ==
    ASSUME Parameters, IInv, IInv', NEW i \in DOMAIN flight, Serve(i)
    PROVE  Editor!Next \/ UNCHANGED Editor!vars
  <1>1. Typed /\ Carried /\ Ordered /\ Held /\ Typed'
    BY DEF IInv
  <1>2. /\ DOMAIN flight' = DOMAIN flight
        /\ \A j \in DOMAIN flight : flight'[j].kind = flight[j].kind
        /\ \A j \in DOMAIN flight : j # i => flight'[j] = flight[j]
        /\ flight'[i].state = "ok"
        /\ flight[i].kind = "put" => server' = flight[i].body
        /\ flight[i].kind # "put" => server' = server
    BY Served
  <1>3. /\ flight[i].state = "sent" /\ flight[i].body # EmptyForm
        /\ UNCHANGED <<open, isLoading, isPostLoading, form, dirty, calm>>
    BY DEF Serve
  <1>4. Puts' = Puts \ {i} /\ \A j \in Puts' : flight'[j] = flight[j]
    BY <1>2 DEF Puts
  <1>5. Sent' \subseteq Sent
    BY <1>4 DEF Sent
  <1>6. Mode' = Mode /\ Drafted' = Drafted
    <2>1. Mode' = Mode
      BY <1>1, <1>3, Modes
    <2> QED
      BY <1>3, <2>1 DEF Drafted
  <1>7. CASE ~(open /\ calm)
    BY <1>1, <1>3, <1>5, <1>7, Straying DEF Typed
  <1>8. CASE open /\ calm /\ flight[i].kind # "put"
    <2>1. Puts' = Puts
      BY <1>4, <1>8 DEF Puts
    <2>2. Sent' = Sent
      BY <1>4, <2>1 DEF Sent
    <2> QED
      BY <1>2, <1>6, <1>8, <2>2 DEF Editor!vars, Drafted, Sent
  <1>9. CASE open /\ calm /\ flight[i].kind = "put"
    <2>1. Saving /\ DOMAIN flight = {1} /\ i = 1
      BY <1>1, <1>9, Indices DEF Ordered, Idle, Fetching, Saving
    <2>2. Puts = {1} /\ Puts' = {}
      BY <1>3, <1>4, <1>9, <2>1 DEF Puts
    <2>3. Sent = {flight[1].body} /\ Sent' = {}
      BY <2>2 DEF Sent
    <2>4. Mode # "clean"
      BY <1>1, <1>9, <2>1, Modes DEF Saving
    <2>5. server' \in Sent /\ Sent' = Sent \ {server'}
      BY <1>2, <1>9, <2>1, <2>3
    <2>6. Editor!Receive
      BY <1>6, <2>4, <2>5 DEF Editor!Receive, Drafted, Sent
    <2> QED
      BY <2>6 DEF Editor!Next
  <1> QED
    BY <1>7, <1>8, <1>9

\* The state of the core arrives and may end the waiting.
LEMMA CoreSimulated ==
    ASSUME Parameters, IInv, IInv', NEW i \in DOMAIN flight, CoreArrives(i)
    PROVE  Editor!Next \/ UNCHANGED Editor!vars
  <1>1. Typed /\ Carried /\ Ordered /\ Held /\ Typed' /\ Ordered' /\ Held'
    BY DEF IInv
  <1>2. Arrives(i, "core")
    BY DEF CoreArrives
  <1>3. /\ \A k \in DOMAIN flight' : \E j \in DOMAIN flight : flight'[k] = flight[j]
        /\ calm => Ended(i) \/ HalfWay(i)
    BY <1>2, Arrival
  <1>4. flight[i].state = "ok" /\ flight[i].kind = "core"
        /\ UNCHANGED <<open, server, rounds, calm>>
    BY <1>2 DEF Arrives
  <1>5. Sent' \subseteq Sent
    BY <1>3, SendsNothing
  <1>6. CASE ~(open /\ calm)
    BY <1>1, <1>4, <1>5, <1>6, Straying DEF Typed
  <1>7. UNCHANGED <<isPostLoading, form, dirty>>
    BY DEF CoreArrives
  <1>8. CASE open /\ calm
    <2>1. Fetching /\ (Ended(i) \/ HalfWay(i))
      BY <1>3, <1>4, <1>8 DEF Ended, HalfWay, Saving
    <2>2. Puts = {}
      BY <2>1 DEF Puts, Fetching
    <2>3. Sent = {} /\ Sent' = {}
      BY <1>5, <2>2 DEF Sent
    <2>4. Mode = "waiting"
      BY <1>1, <1>8, <2>1, Modes DEF Fetching
    <2>5. CASE HalfWay(i)
      <3>1. Mode' = "waiting"
        BY <1>1, <1>4, <1>8, <2>5, Modes DEF HalfWay
      <3>2. Drafted' = Drafted
        BY <2>4, <3>1 DEF Drafted
      <3> QED
        BY <1>4, <2>3, <2>4, <3>1, <3>2 DEF Editor!vars, Drafted, Sent
    <2>6. CASE Ended(i)
      <3>1. DOMAIN flight' = {} /\ ~isLoading' /\ ~isPostLoading'
        BY <1>7, <2>1, <2>6 DEF Ended, Fetching
      <3>2. Mode' = IF dirty THEN "edited" ELSE "clean"
        BY <1>1, <1>4, <1>7, <1>8, <3>1, Modes
      <3>3. form \in Configs /\ (dirty \/ form = server)
        BY <1>1, <1>4, <1>7, <1>8, <3>1 DEF Held
      <3>4. Drafted' = form
        BY <1>7, <3>2 DEF Drafted
      <3>5. dirty => Editor!Edit
        BY <1>4, <2>3, <2>4, <3>2, <3>3, <3>4 DEF Editor!Edit, Drafted, Sent
      <3>6. ~dirty => Editor!Show
        BY <1>4, <2>3, <2>4, <3>2, <3>3, <3>4 DEF Editor!Show, Drafted, Sent
      <3> QED
        BY <3>5, <3>6 DEF Editor!Next
    <2> QED
      BY <2>1, <2>5, <2>6
  <1> QED
    BY <1>6, <1>8

\* The configuration arrives and may end the waiting.
LEMMA ConfigSimulated ==
    ASSUME Parameters, IInv, IInv', NEW i \in DOMAIN flight, ConfigArrives(i)
    PROVE  Editor!Next \/ UNCHANGED Editor!vars
  <1>1. Typed /\ Carried /\ Ordered /\ Held /\ Typed' /\ Ordered' /\ Held'
    BY DEF IInv
  <1>2. Arrives(i, "config")
    BY DEF ConfigArrives
  <1>3. /\ \A k \in DOMAIN flight' : \E j \in DOMAIN flight : flight'[k] = flight[j]
        /\ calm => Ended(i) \/ HalfWay(i)
    BY <1>2, Arrival
  <1>4. flight[i].state = "ok" /\ flight[i].kind = "config"
        /\ UNCHANGED <<open, server, rounds, calm>>
    BY <1>2 DEF Arrives
  <1>5. Sent' \subseteq Sent
    BY <1>3, SendsNothing
  <1>6. CASE ~(open /\ calm)
    BY <1>1, <1>4, <1>5, <1>6, Straying DEF Typed
  <1>7. /\ UNCHANGED isPostLoading
        /\ open => form' = flight[i].body /\ dirty' = FALSE
    BY DEF ConfigArrives, SetConfig
  <1>8. CASE open /\ calm
    <2>1. Fetching /\ (Ended(i) \/ HalfWay(i))
      BY <1>3, <1>4, <1>8 DEF Ended, HalfWay, Saving
    <2>2. Puts = {}
      BY <2>1 DEF Puts, Fetching
    <2>3. Sent = {} /\ Sent' = {}
      BY <1>5, <2>2 DEF Sent
    <2>4. Mode = "waiting"
      BY <1>1, <1>8, <2>1, Modes DEF Fetching
    <2>5. CASE HalfWay(i)
      <3>1. Mode' = "waiting"
        BY <1>1, <1>4, <1>8, <2>5, Modes DEF HalfWay
      <3>2. Drafted' = Drafted
        BY <2>4, <3>1 DEF Drafted
      <3> QED
        BY <1>4, <2>3, <2>4, <3>1, <3>2 DEF Editor!vars, Drafted, Sent
    <2>6. CASE Ended(i)
      <3>1. ~isLoading' /\ ~isPostLoading' /\ ~dirty'
        BY <1>7, <1>8, <2>1, <2>6 DEF Ended, Fetching
      <3>2. Mode' = "clean"
        BY <1>1, <1>4, <1>8, <3>1, Modes
      <3>3. form' = server
        BY <1>1, <1>4, <1>7, <1>8 DEF Ordered
      <3>4. Drafted' = server
        BY <3>2, <3>3 DEF Drafted
      <3>5. Editor!Show
        BY <1>4, <2>3, <2>4, <3>2, <3>4 DEF Editor!Show, Drafted, Sent
      <3> QED
        BY <3>5 DEF Editor!Next
    <2> QED
      BY <2>1, <2>5, <2>6
  <1> QED
    BY <1>6, <1>8

\* A save is confirmed.
LEMMA SavedSimulated ==
    ASSUME Parameters, IInv, IInv', NEW i \in DOMAIN flight, Saved(i)
    PROVE  Editor!Next \/ UNCHANGED Editor!vars
  <1>1. Typed /\ Carried /\ Ordered /\ Held /\ Typed' /\ Ordered' /\ Held'
    BY DEF IInv
  <1>2. Arrives(i, "put")
    BY DEF Saved
  <1>3. /\ \A k \in DOMAIN flight' : \E j \in DOMAIN flight : flight'[k] = flight[j]
        /\ calm => Ended(i) \/ HalfWay(i)
    BY <1>2, Arrival
  <1>4. flight[i].state = "ok" /\ flight[i].kind = "put"
        /\ UNCHANGED <<open, server, rounds, calm>>
    BY <1>2 DEF Arrives
  <1>5. Sent' \subseteq Sent
    BY <1>3, SendsNothing
  <1>6. CASE ~(open /\ calm)
    BY <1>1, <1>4, <1>5, <1>6, Straying DEF Typed
  <1>7. /\ isPostLoading' = FALSE /\ dirty' = (dirty /\ form # flight[i].body)
        /\ UNCHANGED form
    BY DEF Saved
  <1>8. CASE open /\ calm
    <2>1. Saving /\ Ended(i) /\ DOMAIN flight = {1}
      BY <1>1, <1>3, <1>4, <1>8, Indices DEF Ended, HalfWay, Fetching
    <2>2. Puts = {}
      BY <1>4, <2>1 DEF Puts, Ended
    <2>3. Sent = {} /\ Sent' = {}
      BY <1>5, <2>2 DEF Sent
    <2>4. Mode = IF dirty THEN "edited" ELSE "waiting"
      BY <1>1, <1>8, <2>1, Modes DEF Saving
    <2>5. Mode' = IF dirty' THEN "edited" ELSE "clean"
      BY <1>1, <1>4, <1>7, <1>8, <2>1, Modes DEF Ended
    <2>6. flight[i].body = server /\ (dirty \/ form = flight[i].body)
      BY <1>1, <1>4, <1>8 DEF Ordered, Held
    <2>7. Drafted' = form
      BY <1>7, <2>5 DEF Drafted
    <2>8. CASE ~dirty
      <3>1. Mode = "waiting" /\ Mode' = "clean" /\ Drafted' = server
        BY <1>7, <2>4, <2>5, <2>6, <2>7, <2>8
      <3>2. Editor!Show
        BY <1>4, <2>3, <3>1 DEF Editor!Show, Drafted, Sent
      <3> QED
        BY <3>2 DEF Editor!Next
    <2>9. CASE dirty
      <3>1. Mode = "edited" /\ Drafted = form
        BY <2>4, <2>9 DEF Drafted
      <3>2. CASE dirty'
        <4>1. Mode' = "edited"
          BY <2>5, <3>2
        <4> QED
          BY <1>4, <2>3, <2>7, <3>1, <4>1 DEF Editor!vars, Drafted, Sent
      <3>3. CASE ~dirty'
        <4>1. Mode' = "clean" /\ form = server
          BY <1>7, <2>5, <2>6, <2>9, <3>3
        <4>2. Editor!Confirm
          BY <1>4, <2>3, <2>7, <3>1, <4>1 DEF Editor!Confirm, Drafted, Sent
        <4> QED
          BY <4>2 DEF Editor!Next
      <3> QED
        BY <3>2, <3>3
    <2> QED
      BY <2>8, <2>9
  <1> QED
    BY <1>6, <1>8

\* A failure leads astray.
LEMMA FailingSimulated ==
    ASSUME Parameters, IInv, IInv', NEW i \in DOMAIN flight, Failed(i)
    PROVE  Editor!Next
  <1>1. Typed
    BY DEF IInv
  <1>2. \A k \in DOMAIN flight' : \E j \in DOMAIN flight :
              /\ flight'[k].kind = flight[j].kind /\ flight'[k].state = flight[j].state
              /\ flight'[k].body = flight[j].body
    BY <1>1, Dropped
  <1>3. Sent' \subseteq Sent
    BY <1>2, SendsNothing
  <1>4. calm' = FALSE /\ UNCHANGED open
    BY DEF Failed
  <1> QED
    BY <1>3, <1>4, Straying

(***************************************************************************)
(* Theorem.                                                                *)
(***************************************************************************)
\* For any configurations and any number of openings, edits and saves the dialog of
\* the core does what Draft promises: a late answer never takes away what was typed,
\* and a form nobody has changed is what the server has.
THEOREM CoreImplementsDraft == ASSUME Parameters PROVE Spec => CoreKeepsDraft
  <1>1. Init => IInv
    BY Starts
  <1>2. IInv /\ [Next]_vars => IInv'
    BY Inductive
  <1>3. Init => Editor!Init
    <2> SUFFICES ASSUME Init PROVE Editor!Init
      OBVIOUS
    <2>1. Typed /\ DOMAIN flight = {} /\ ~open /\ server \in Configs
      BY <1>1 DEF Init, IInv
    <2>2. Mode = "closed" /\ Puts = {}
      BY <2>1 DEF Mode, Puts
    <2> QED
      BY <2>1, <2>2 DEF Editor!Init
  <1>4. IInv /\ IInv' /\ [Next]_vars => [Editor!Next]_(Editor!vars)
    <2> SUFFICES ASSUME IInv, IInv', [Next]_vars PROVE Editor!Next \/ UNCHANGED Editor!vars
      OBVIOUS
    <2>1. CASE OnEditingCore
      BY <2>1, OpeningSimulated
    <2>2. CASE OnClose
      BY <2>2, ClosingSimulated
    <2>3. CASE HandleOnSave
      BY <2>3, SavingSimulated
    <2>4. ASSUME NEW text \in Configs, OnChange(text)
          PROVE  Editor!Next \/ UNCHANGED Editor!vars
      BY <2>4, ChangingSimulated
    <2>5. ASSUME NEW i \in DOMAIN flight,
                 Serve(i) \/ CoreArrives(i) \/ ConfigArrives(i) \/ Saved(i) \/ Failed(i)
          PROVE  Editor!Next \/ UNCHANGED Editor!vars
      BY <2>5, ServingSimulated, CoreSimulated, ConfigSimulated, SavedSimulated, FailingSimulated
    <2>6. CASE UNCHANGED vars
      <3>1. Mode' = Mode /\ Drafted' = Drafted /\ Sent' = Sent
        BY <2>6 DEF vars, Mode, Drafted, Sent, Puts
      <3> QED
        BY <2>6, <3>1 DEF vars, Editor!vars, Drafted, Sent
    <2> QED
      BY <2>1, <2>2, <2>3, <2>4, <2>5, <2>6 DEF Next
  <1> QED
    BY <1>1, <1>2, <1>3, <1>4, PTL DEF Spec, CoreKeepsDraft, Editor!Spec

--------------------------------------------------------------------------------
(***************************************************************************)
(* What follows from the promise of Draft, whose steps are those of the    *)
(* editor: the dialog of the core inherits it.                             *)
(***************************************************************************)
LEMMA EditorShows == Editor!Spec => []Editor!CleanIsCurrent
  <1>1. Editor!Init => Editor!CleanIsCurrent
    BY DEF Editor!Init, Editor!CleanIsCurrent
  <1>2. Editor!CleanIsCurrent /\ [Editor!Next]_(Editor!vars) => Editor!CleanIsCurrent'
    <2> SUFFICES ASSUME Editor!CleanIsCurrent, [Editor!Next]_(Editor!vars)
                 PROVE  Editor!CleanIsCurrent'
      OBVIOUS
    <2> USE DEF Editor!CleanIsCurrent
    <2>1. CASE Editor!Stray
      BY <2>1 DEF Editor!Stray
    <2>2. CASE Editor!Open \/ Editor!Show \/ Editor!Edit \/ Editor!Submit
      BY <2>2 DEF Editor!Open, Editor!Show, Editor!Edit, Editor!Submit
    <2>3. CASE Editor!Receive \/ Editor!Confirm \/ Editor!Close
      BY <2>3 DEF Editor!Receive, Editor!Confirm, Editor!Close
    <2>4. CASE UNCHANGED Editor!vars
      BY <2>4 DEF Editor!vars
    <2> QED
      BY <2>1, <2>2, <2>3, <2>4 DEF Editor!Next
  <1> QED
    BY <1>1, <1>2, PTL DEF Editor!Spec

\* What is shown is a document, which keeps what is sent one.
DraftIsDocument == Mode \in {"clean", "edited"} =>
    (IF Mode \in {"clean", "edited"} THEN form ELSE EmptyForm) \in Configs

\* The variables of the editor are what they are said to be.
LEMMA EditorTyping == Editor!Spec => []Editor!TypeOK
  <1>1. Editor!Init => Editor!TypeOK /\ DraftIsDocument
    BY DEF Editor!Init, Editor!TypeOK, DraftIsDocument
  <1>2. Editor!TypeOK /\ DraftIsDocument /\ [Editor!Next]_(Editor!vars)
            => (Editor!TypeOK /\ DraftIsDocument)'
    <2> SUFFICES ASSUME Editor!TypeOK, DraftIsDocument, [Editor!Next]_(Editor!vars)
                 PROVE  Editor!TypeOK' /\ DraftIsDocument'
      OBVIOUS
    <2> USE DEF Editor!TypeOK, DraftIsDocument
    <2>1. CASE Editor!Stray
      BY <2>1 DEF Editor!Stray
    <2>2. CASE Editor!Open \/ Editor!Show \/ Editor!Edit
      BY <2>2 DEF Editor!Open, Editor!Show, Editor!Edit
    <2>3. CASE Editor!Submit
      BY <2>3 DEF Editor!Submit
    <2>4. CASE Editor!Receive \/ Editor!Confirm \/ Editor!Close
      BY <2>4 DEF Editor!Receive, Editor!Confirm, Editor!Close
    <2>5. CASE UNCHANGED Editor!vars
      BY <2>5 DEF Editor!vars
    <2> QED
      BY <2>1, <2>2, <2>3, <2>4, <2>5 DEF Editor!Next
  <1> QED
    BY <1>1, <1>2, PTL DEF Editor!Spec

\* Whatever is submitted is a configuration: never the empty form of a dialog that is
\* closed or astray.
THEOREM CoreSavesConfigs == ASSUME Parameters PROVE Spec => []Editor!TypeOK
  BY CoreImplementsDraft, EditorTyping, PTL DEF CoreKeepsDraft

\* A dialog that waits for nothing and was not edited shows what the server has:
\* CoreSettingsModal after the configuration has arrived.  It is inductive for Draft,
\* whose server takes nothing while the editor is clean.
THEOREM CoreCleanIsCurrent == ASSUME Parameters PROVE Spec => []Editor!CleanIsCurrent
  BY CoreImplementsDraft, EditorShows, PTL DEF CoreKeepsDraft

\* No answer replaces what was typed: the only way from an edited form to a clean one
\* is a save that is confirmed.
THEOREM CoreEditsSurvive == ASSUME Parameters PROVE Spec => Editor!EditsSurvive
  <1> DEFINE Kept == Mode = "edited" /\ Mode' = "clean" =>
                 (IF Mode \in {"clean", "edited"} THEN form ELSE EmptyForm)'
                     = (IF Mode \in {"clean", "edited"} THEN form ELSE EmptyForm)
  <1>1. [Editor!Next]_(Editor!vars) => [Kept]_(Editor!vars)
    <2> SUFFICES ASSUME Editor!Next, Mode = "edited", Mode' = "clean" PROVE Kept
      OBVIOUS
    <2> QED
      BY DEF Editor!Next, Editor!Stray, Editor!Open, Editor!Show, Editor!Edit, Editor!Submit,
             Editor!Receive, Editor!Confirm, Editor!Close
  <1> QED
    BY <1>1, CoreImplementsDraft, PTL DEF CoreKeepsDraft, Editor!Spec, Editor!EditsSurvive
================================================================================
