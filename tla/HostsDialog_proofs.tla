--------------------------- MODULE HostsDialog_proofs ---------------------------
(***************************************************************************)
(* HostsDialog implements Draft, for any inbounds and any number of hosts, *)
(* openings, edits and saves.                                              *)
(***************************************************************************)
EXTENDS HostsDialog, SequenceTheorems, TLAPS

\* A form that was never filled is no form.
AnyForm == Forms \cup {<< >>}

Entry == [kind : {"get", "put"}, body : AnyForm, state : {"sent", "done"}]

(***************************************************************************)
(* The inductive invariant.                                                *)
(***************************************************************************)
Typed ==
    /\ open \in BOOLEAN /\ isLoading \in BOOLEAN /\ isPostLoading \in BOOLEAN
    /\ listed \in BOOLEAN /\ submitted \in BOOLEAN /\ dirty \in BOOLEAN /\ calm \in BOOLEAN
    /\ form \in AnyForm /\ rows \in AnyForm /\ server \in Forms
    /\ accordions \subseteq Tags /\ errors \subseteq Tags
    /\ flight \in Seq(Entry)
    /\ edits \in Nat /\ requests \in Nat

\* Each host of the form is rendered as a row.
SameRows ==
    /\ form = << >> <=> rows = << >>
    /\ form # << >> => \A tag \in Tags : Len(rows[tag]) = Len(form[tag])

\* The server has ports that are numbers, which saving and loading leaves as they are.
Settled ==
    /\ Parsed(server) = server
    /\ \A i \in DOMAIN flight : Parsed(flight[i].body) = flight[i].body
    /\ \A i \in DOMAIN flight : flight[i].kind = "get" /\ flight[i].state = "done" =>
                                    flight[i].body \in Forms

\* While all goes well at most one request is on its way, and its answer is current.
Ordered ==
    calm =>
        /\ Len(flight) <= 1
        /\ \A i \in DOMAIN flight :
              /\ IF flight[i].kind = "get" THEN isLoading ELSE isPostLoading
              /\ flight[i].kind = "get" /\ flight[i].state = "done" => flight[i].body = server

\* Once the hosts have come the form is what the server has, or will have, or was edited.
Held ==
    /\ ~open => ~dirty
    /\ dirty => form # << >>
    /\ open /\ calm =>
          /\ (\E i \in DOMAIN flight : flight[i].kind = "get") => ~dirty
          /\ (\A i \in DOMAIN flight : flight[i].kind = "put") =>
                  form # << >> /\ (dirty \/ Parsed(form) = server)
          /\ \A i \in DOMAIN flight :
                flight[i].kind = "put" =>
                    /\ flight[i].body # << >>
                    /\ flight[i].state = "done" => flight[i].body = server
                    /\ dirty \/ flight[i].body = server

IInv == Typed /\ SameRows /\ Settled /\ Ordered /\ Held

(***************************************************************************)
(* Sequences.                                                              *)
(***************************************************************************)
\* The sequence without one of its elements.
LEMMA Removal ==
    ASSUME NEW S, NEW s \in Seq(S), NEW i \in DOMAIN s
    PROVE  /\ RemoveAt(s, i) \in Seq(S)
           /\ Len(RemoveAt(s, i)) = Len(s) - 1
           /\ \A k \in 1 .. Len(s) - 1 : RemoveAt(s, i)[k] = IF k < i THEN s[k] ELSE s[k + 1]
  <1> DEFINE before == SubSeq(s, 1, i - 1)
             after == SubSeq(s, i + 1, Len(s))
  <1>1. i \in 1 .. Len(s) /\ Len(s) \in Nat /\ \A k \in 1 .. Len(s) : s[k] \in S
    BY LenProperties
  <1>2. /\ before \in Seq(S) /\ Len(before) = i - 1
        /\ \A k \in 1 .. i - 1 : before[k] = s[k]
    BY <1>1, SubSeqProperties
  <1>3. /\ after \in Seq(S) /\ Len(after) = Len(s) - i
        /\ \A k \in 1 .. Len(s) - i : after[k] = s[k + i]
    <2>1. \A k \in i + 1 .. Len(s) : s[k] \in S
      BY <1>1
    <2>2. \A k \in 1 .. Len(s) - (i + 1) + 1 : after[k] = s[(i + 1) + k - 1]
      BY <1>1, <2>1, SubSeqProperties
    <2>3. after \in Seq(S) /\ Len(after) = Len(s) - i
      BY <1>1, SubSeqProperties
    <2>4. \A k \in 1 .. Len(s) - i : k \in 1 .. Len(s) - (i + 1) + 1 /\ (i + 1) + k - 1 = k + i
      BY <1>1
    <2> QED
      BY <2>2, <2>3, <2>4
  <1>4. RemoveAt(s, i) = before \o after
    BY DEF RemoveAt
  <1> HIDE DEF before, after
  <1>5. /\ before \o after \in Seq(S) /\ Len(before \o after) = Len(before) + Len(after)
        /\ \A k \in 1 .. Len(before) + Len(after) :
              (before \o after)[k] = IF k <= Len(before) THEN before[k] ELSE after[k - Len(before)]
    BY <1>2, <1>3, ConcatProperties
  <1>6. ASSUME NEW k \in 1 .. Len(s) - 1
        PROVE  (before \o after)[k] = IF k < i THEN s[k] ELSE s[k + 1]
    <2>1. k \in 1 .. Len(before) + Len(after)
      BY <1>1, <1>2, <1>3
    <2>2. CASE k < i
      BY <1>1, <1>2, <1>5, <2>1, <2>2
    <2>3. CASE ~(k < i)
      <3>1. k - Len(before) \in 1 .. Len(s) - i /\ k - Len(before) + i = k + 1
        BY <1>1, <1>2, <2>3
      <3>2. ~(k <= Len(before))
        BY <1>1, <1>2, <2>3
      <3>3. after[k - Len(before)] = s[k + 1]
        BY <1>3, <3>1
      <3> QED
        BY <1>5, <2>1, <2>3, <3>2, <3>3
    <2> QED
      BY <2>2, <2>3
  <1>7. Len(before) + Len(after) = Len(s) - 1
    BY <1>1, <1>2, <1>3
  <1> QED
    BY <1>4, <1>5, <1>6, <1>7


\* The sequence with one element more in between.
LEMMA Insertion ==
    ASSUME NEW S, NEW s \in Seq(S), NEW i \in 1 .. Len(s) + 1, NEW e \in S
    PROVE  InsertAt(s, i, e) \in Seq(S) /\ Len(InsertAt(s, i, e)) = Len(s) + 1
  <1> DEFINE before == SubSeq(s, 1, i - 1)
             after == SubSeq(s, i, Len(s))
  <1>1. Len(s) \in Nat /\ \A k \in 1 .. Len(s) : s[k] \in S
    BY LenProperties
  <1>2. before \in Seq(S) /\ Len(before) = i - 1
    BY <1>1, SubSeqProperties
  <1>3. after \in Seq(S) /\ Len(after) = Len(s) - i + 1
    BY <1>1, SubSeqProperties
  <1>4. InsertAt(s, i, e) = before \o <<e>> \o after
    BY DEF InsertAt
  <1>5. <<e>> \in Seq(S) /\ Len(<<e>>) = 1
    OBVIOUS
  <1> HIDE DEF before, after
  <1> DEFINE left == before \o <<e>>
  <1>6. left \in Seq(S) /\ Len(left) = i
    BY <1>2, <1>5, ConcatProperties
  <1>7. InsertAt(s, i, e) = left \o after
    BY <1>4
  <1> HIDE DEF left
  <1>8. left \o after \in Seq(S) /\ Len(left \o after) = Len(left) + Len(after)
    BY <1>3, <1>6, ConcatProperties
  <1> QED
    BY <1>1, <1>3, <1>6, <1>7, <1>8

\* Two elements change places.
LEMMA Exchange ==
    ASSUME NEW S, NEW s \in Seq(S), NEW i \in DOMAIN s, NEW j \in DOMAIN s
    PROVE  [s EXCEPT ![i] = s[j], ![j] = s[i]] \in Seq(S)
  <1> DEFINE half == [s EXCEPT ![i] = s[j]]
  <1>1. DOMAIN s = 1 .. Len(s) /\ s[i] \in S /\ s[j] \in S
    BY LenProperties
  <1>2. half \in Seq(S) /\ Len(half) = Len(s)
    BY <1>1, ExceptSeq
  <1> HIDE DEF half
  <1>3. [half EXCEPT ![j] = s[i]] \in Seq(S)
    BY <1>1, <1>2, ExceptSeq
  <1> QED
    BY <1>3 DEF half

(***************************************************************************)
(* Forms.                                                                  *)
(***************************************************************************)
\* A form names every inbound, the empty one none.
LEMMA FormIsFilled ==
    ASSUME Parameters, NEW f \in Forms
    PROVE  /\ DOMAIN f = Tags /\ f # << >>
           /\ \A tag \in Tags : f[tag] \in Seq(Host)
  <1>1. DOMAIN f = Tags /\ \A tag \in Tags : f[tag] \in Seq(Host)
    BY DEF Forms
  <1>2. DOMAIN << >> = {}
    OBVIOUS
  <1>3. f # << >>
    BY <1>1, <1>2 DEF Parameters
  <1> QED
    BY <1>1, <1>3

\* Whether a text field is empty; with it the fields of a host.
Filling == {"", "text"}

LEMMA HostFields ==
    /\ Host = [remark : Filling, address : Filling, port : {"null", "text", "number"},
               options : BOOLEAN, flags : BOOLEAN, is_disabled : BOOLEAN]
    /\ NewHost \in Host /\ OldHost \in Host /\ OldHost.port = "number"
  <1> DEFINE blank == ""
  <1>1. Host = [remark : Filling, address : Filling, port : {"null", "text", "number"},
                options : BOOLEAN, flags : BOOLEAN, is_disabled : BOOLEAN]
    BY Zenon DEF Host, Filling
  <1>2. blank \in Filling /\ "text" \in Filling
    BY Zenon DEF Filling
  <1>3. NewHost = [remark |-> blank, address |-> blank, port |-> "null", options |-> FALSE,
                   flags |-> FALSE, is_disabled |-> FALSE]
    BY Zenon DEF NewHost
  <1> HIDE DEF blank
  <1>4. NewHost \in Host
    BY <1>1, <1>2, <1>3
  <1>5. ASSUME NEW h \in Host PROVE [h EXCEPT !.remark = "text"] \in Host
    BY <1>1, <1>2
  <1>6. ASSUME NEW h \in Host PROVE [h EXCEPT !.address = "text"] \in Host
    BY <1>1, <1>2
  <1>7. ASSUME NEW h \in Host PROVE [h EXCEPT !.port = "number"] \in Host
    BY <1>1
  <1> DEFINE r == [NewHost EXCEPT !.remark = "text"]
             a == [r EXCEPT !.address = "text"]
             o == [a EXCEPT !.port = "number"]
  <1>8. r \in Host
    BY <1>4, <1>5
  <1> HIDE DEF r
  <1>9. a \in Host
    BY <1>6, <1>8
  <1> HIDE DEF a
  <1>10. o \in Host /\ o.port = "number"
    BY <1>1, <1>7, <1>9
  <1>11. OldHost = o
    BY DEF OldHost, r, a
  <1> QED
    BY <1>1, <1>4, <1>10, <1>11

\* What the schema makes of the hosts of an inbound.
Numbered(hosts) ==
    [i \in DOMAIN hosts |-> [hosts[i] EXCEPT !.port = IF @ = "text" THEN "number" ELSE @]]

LEMMA NumberedHosts ==
    ASSUME NEW hosts \in Seq(Host)
    PROVE  /\ Numbered(hosts) \in Seq(Host) /\ Len(Numbered(hosts)) = Len(hosts)
           /\ Numbered(Numbered(hosts)) = Numbered(hosts)
  <1>1. /\ Len(hosts) \in Nat /\ DOMAIN hosts = 1 .. Len(hosts)
        /\ \A i \in DOMAIN hosts : hosts[i] \in Host
    BY LenProperties
  <1> DEFINE ToNumber(h) == [h EXCEPT !.port = IF @ = "text" THEN "number" ELSE @]
             once == Numbered(hosts)
             twice == Numbered(once)
  <1>2. ASSUME NEW h \in Host PROVE ToNumber(h) \in Host /\ ToNumber(ToNumber(h)) = ToNumber(h)
    <2>1. ASSUME NEW g \in Host, g.port # "text" PROVE ToNumber(g) = g
      <3>1. ToNumber(g) = [g EXCEPT !.port = g.port]
        BY <2>1
      <3> HIDE DEF ToNumber
      <3> QED
        BY <3>1, HostFields
    <2>2. CASE h.port = "text"
      <3> DEFINE n == [h EXCEPT !.port = "number"]
      <3>1. ToNumber(h) = n
        BY <2>2
      <3>2. n \in Host /\ n.port = "number"
        BY HostFields
      <3> HIDE DEF n, ToNumber
      <3>3. ToNumber(n) = n
        BY <2>1, <3>2
      <3> QED
        BY <3>1, <3>2, <3>3
    <2>3. CASE h.port # "text"
      <3> HIDE DEF ToNumber
      <3> QED
        BY <2>1, <2>3
    <2> QED
      BY <2>2, <2>3
  <1>3. ASSUME NEW g
        PROVE  /\ DOMAIN Numbered(g) = DOMAIN g
               /\ \A i \in DOMAIN g : Numbered(g)[i] = ToNumber(g[i])
               /\ Numbered(g) = [i \in DOMAIN g |-> Numbered(g)[i]]
    BY DEF Numbered
  <1>4. /\ DOMAIN once = DOMAIN hosts /\ \A i \in DOMAIN hosts : once[i] = ToNumber(hosts[i])
        /\ DOMAIN twice = DOMAIN once /\ \A i \in DOMAIN once : twice[i] = ToNumber(once[i])
    <2> HIDE DEF ToNumber
    <2> QED
      BY <1>3
  <1>5. once = [i \in 1 .. Len(hosts) |-> once[i]] /\ twice = [i \in 1 .. Len(hosts) |-> twice[i]]
    <2> HIDE DEF ToNumber
    <2> QED
      BY <1>1, <1>3, <1>4
  <1> HIDE DEF once, twice, ToNumber
  <1>6. \A i \in 1 .. Len(hosts) : once[i] \in Host /\ twice[i] = once[i]
    BY <1>1, <1>2, <1>4
  <1>7. once \in [1 .. Len(hosts) -> Host]
    BY <1>5, <1>6
  <1>8. once \in Seq(Host) /\ Len(once) = Len(hosts)
    BY <1>1, <1>4, <1>7
  <1>9. twice = once
    BY <1>5, <1>6
  <1> QED
    BY <1>8, <1>9 DEF once, twice

LEMMA ParsedForm ==
    ASSUME NEW f \in Forms
    PROVE  Parsed(f) \in Forms /\ Parsed(Parsed(f)) = Parsed(f)
  <1>1. DOMAIN f = Tags /\ \A tag \in Tags : f[tag] \in Seq(Host)
    BY DEF Forms
  <1>2. ASSUME NEW g PROVE Parsed(g) = [tag \in DOMAIN g |-> Numbered(g[tag])]
    BY DEF Parsed, Numbered
  <1>3. \A tag \in Tags : /\ Numbered(f[tag]) \in Seq(Host)
                          /\ Numbered(Numbered(f[tag])) = Numbered(f[tag])
    BY <1>1, NumberedHosts
  <1>4. Parsed(f) = [tag \in Tags |-> Numbered(f[tag])]
    BY <1>1, <1>2
  <1>5. Parsed(Parsed(f)) = [tag \in Tags |-> Numbered(Parsed(f)[tag])]
    BY <1>2, <1>4
  <1>6. Parsed(f) \in Forms
    BY <1>3, <1>4 DEF Forms
  <1>7. \A tag \in Tags : Numbered(Parsed(f)[tag]) = Numbered(f[tag])
    BY <1>3, <1>4
  <1> QED
    BY <1>4, <1>5, <1>6, <1>7

LEMMA ParsedEmpty == Parsed(<< >>) = << >>
  <1>1. DOMAIN << >> = {}
    OBVIOUS
  <1> DEFINE p == Parsed(<< >>)
  <1>2. DOMAIN p = {}
    BY <1>1 DEF Parsed
  <1>3. p = [x \in {} |-> p[x]]
    BY <1>1 DEF Parsed
  <1>4. << >> = [x \in {} |-> p[x]]
    BY <1>1
  <1> QED
    BY <1>3, <1>4

LEMMA ParsedAny ==
    ASSUME NEW f \in AnyForm
    PROVE  Parsed(f) \in AnyForm /\ Parsed(Parsed(f)) = Parsed(f)
  BY ParsedForm, ParsedEmpty DEF AnyForm


\* A form is left as it is if its ports are numbers.
LEMMA SettledForm ==
    ASSUME NEW f \in Forms
    PROVE  Parsed(f) = f <=> \A tag \in Tags : \A i \in DOMAIN f[tag] : f[tag][i].port # "text"
  <1>1. DOMAIN f = Tags /\ f = [tag \in Tags |-> f[tag]] /\ \A tag \in Tags : f[tag] \in Seq(Host)
    BY DEF Forms
  <1>2. /\ DOMAIN Parsed(f) = Tags
        /\ Parsed(f) = [tag \in Tags |-> Numbered(f[tag])]
    BY <1>1 DEF Parsed, Numbered
  <1>3. ASSUME NEW hosts \in Seq(Host)
        PROVE  Numbered(hosts) = hosts <=> \A i \in DOMAIN hosts : hosts[i].port # "text"
    <2>1. DOMAIN hosts = 1 .. Len(hosts) /\ Len(hosts) \in Nat /\ \A i \in DOMAIN hosts : hosts[i] \in Host
      BY LenProperties
    <2>2. hosts = [i \in DOMAIN hosts |-> hosts[i]]
      BY <2>1
    <2> DEFINE ToNumber(h) == [h EXCEPT !.port = IF @ = "text" THEN "number" ELSE @]
    <2>3. ASSUME NEW h \in Host PROVE ToNumber(h) = h <=> h.port # "text"
      <3>1. CASE h.port = "text"
        <4>1. ToNumber(h).port = "number"
          BY <3>1, HostFields
        <4> QED
          BY <3>1, <4>1
      <3>2. CASE h.port # "text"
        <4>1. ToNumber(h) = [h EXCEPT !.port = h.port]
          BY <3>2
        <4> HIDE DEF ToNumber
        <4>2. ToNumber(h) = h
          BY <4>1, HostFields
        <4> QED
          BY <3>2, <4>2
      <3> HIDE DEF ToNumber
      <3> QED
        BY <3>1, <3>2
    <2>4. Numbered(hosts) = [i \in DOMAIN hosts |-> ToNumber(hosts[i])]
      BY DEF Numbered
    <2> HIDE DEF ToNumber
    <2>5. ASSUME Numbered(hosts) = hosts, NEW i \in DOMAIN hosts PROVE hosts[i].port # "text"
      <3>1. ToNumber(hosts[i]) = hosts[i]
        BY <2>4, <2>5
      <3> QED
        BY <2>1, <2>3, <3>1
    <2>6. ASSUME \A i \in DOMAIN hosts : hosts[i].port # "text" PROVE Numbered(hosts) = hosts
      <3>1. \A i \in DOMAIN hosts : ToNumber(hosts[i]) = hosts[i]
        BY <2>1, <2>3, <2>6
      <3> QED
        BY <2>2, <2>4, <3>1
    <2> QED
      BY <2>5, <2>6
  <1>4. Parsed(f) = f <=> \A tag \in Tags : Numbered(f[tag]) = f[tag]
    <2>1. ASSUME Parsed(f) = f, NEW tag \in Tags PROVE Numbered(f[tag]) = f[tag]
      BY <1>2, <2>1
    <2>2. ASSUME \A tag \in Tags : Numbered(f[tag]) = f[tag] PROVE Parsed(f) = f
      BY <1>1, <1>2, <2>2
    <2> QED
      BY <2>1, <2>2
  <1> QED
    BY <1>1, <1>3, <1>4

(***************************************************************************)
(* What the steps make of the requests on their way.                       *)
(***************************************************************************)
\* Requests are indexed from 1 and have the fields of a request.
LEMMA Indices ==
    ASSUME Typed
    PROVE  /\ Len(flight) \in Nat /\ DOMAIN flight = 1 .. Len(flight)
           /\ \A i \in DOMAIN flight : flight[i] \in Entry
  BY LenProperties DEF Typed

\* An answer that has arrived is on its way no longer.
LEMMA Removed ==
    ASSUME Typed, NEW i \in DOMAIN flight, flight' = RemoveAt(flight, i)
    PROVE  /\ flight' \in Seq(Entry) /\ Len(flight') = Len(flight) - 1
           /\ DOMAIN flight' = 1 .. Len(flight) - 1
           /\ \A k \in DOMAIN flight' :
                 flight'[k] = IF k < i THEN flight[k] ELSE flight[k + 1]
           /\ \A k \in DOMAIN flight' : \E j \in DOMAIN flight :
                 j # i /\ flight'[k] = flight[j]
  <1>1. /\ flight' \in Seq(Entry) /\ Len(flight') = Len(flight) - 1
        /\ \A k \in 1 .. Len(flight) - 1 :
              flight'[k] = IF k < i THEN flight[k] ELSE flight[k + 1]
    BY Removal DEF Typed
  <1>2. Len(flight) \in Nat /\ DOMAIN flight = 1 .. Len(flight)
    BY Indices
  <1>3. DOMAIN flight' = 1 .. Len(flight) - 1
    BY <1>1, LenProperties
  <1>4. ASSUME NEW k \in 1 .. Len(flight) - 1
        PROVE  \E j \in DOMAIN flight : j # i /\ flight'[k] = flight[j]
    <2>1. CASE k < i
      BY <1>1, <1>2, <2>1
    <2>2. CASE ~(k < i)
      <3>1. k + 1 \in DOMAIN flight /\ k + 1 # i
        BY <1>2, <2>2
      <3> QED
        BY <1>1, <2>2, <3>1
    <2> QED
      BY <2>1, <2>2
  <1> QED
    BY <1>1, <1>3, <1>4


\* A request is sent behind the others.
LEMMA Sent ==
    ASSUME Typed, NEW kind \in {"get", "put"}, NEW body \in AnyForm, Send(kind, body)
    PROVE  /\ flight' \in Seq(Entry) /\ Len(flight') = Len(flight) + 1
           /\ DOMAIN flight' = 1 .. Len(flight) + 1
           /\ \A j \in DOMAIN flight : j \in DOMAIN flight' /\ flight'[j] = flight[j]
           /\ flight'[Len(flight) + 1] = [kind |-> kind, body |-> body, state |-> "sent"]
           /\ \A k \in DOMAIN flight' : k \in DOMAIN flight \/ k = Len(flight) + 1
           /\ requests' \in Nat
  <1> DEFINE request == [kind |-> kind, body |-> body, state |-> "sent"]
  <1>1. request \in Entry
    BY DEF Entry
  <1>2. flight' = Append(flight, request) /\ requests' = requests + 1
    BY DEF Send
  <1> HIDE DEF request
  <1>3. Len(flight) \in Nat /\ DOMAIN flight = 1 .. Len(flight)
    BY Indices
  <1>4. flight' \in Seq(Entry) /\ Len(flight') = Len(flight) + 1
    BY <1>1, <1>2 DEF Typed
  <1>5. DOMAIN flight' = 1 .. Len(flight) + 1
    BY <1>4, LenProperties
  <1>6. /\ \A j \in 1 .. Len(flight) : flight'[j] = flight[j]
        /\ flight'[Len(flight) + 1] = request
    BY <1>1, <1>2 DEF Typed
  <1> QED
    BY <1>2, <1>3, <1>4, <1>5, <1>6 DEF Typed, request

\* A served request keeps its place and its kind; a list that is put becomes the server's.
LEMMA Served ==
    ASSUME Parameters, Typed, Settled, NEW i \in DOMAIN flight, Serve(i)
    PROVE  /\ flight' \in Seq(Entry) /\ Len(flight') = Len(flight)
           /\ DOMAIN flight' = DOMAIN flight
           /\ \A j \in DOMAIN flight : j # i => flight'[j] = flight[j]
           /\ flight'[i].kind = flight[i].kind /\ flight'[i].state = "done"
           /\ flight[i].state = "sent"
           /\ server' \in Forms
           /\ flight[i].kind = "get" => flight'[i].body = server /\ server' = server
           /\ flight[i].kind = "put" =>
                 /\ flight'[i].body = flight[i].body
                 /\ server' = IF flight[i].body = << >> THEN server ELSE flight[i].body
  <1>1. /\ Len(flight) \in Nat /\ DOMAIN flight = 1 .. Len(flight)
        /\ \A j \in DOMAIN flight : flight[j] \in Entry
    BY Indices
  <1>2. flight[i].state = "sent" /\ flight[i].kind \in {"get", "put"} /\ flight[i].body \in AnyForm
    BY <1>1 DEF Serve, Entry
  <1> DEFINE body == IF flight[i].kind = "get" THEN server ELSE flight[i].body
             done == [flight[i] EXCEPT !.state = "done"]
             answer == [done EXCEPT !.body = body]
  <1>3. flight' = [flight EXCEPT ![i] = answer]
    <2>1. flight' = [flight EXCEPT ![i] = [[flight[i] EXCEPT !.state = "done"] EXCEPT
                        !.body = IF flight[i].kind = "get" THEN server ELSE flight[i].body]]
      BY <1>2 DEF Serve, Entry
    <2> QED
      BY <2>1
  <1>4. body \in AnyForm
    BY <1>2 DEF Typed, AnyForm
  <1> HIDE DEF body
  <1>5. done \in Entry /\ done.kind = flight[i].kind /\ done.state = "done"
    BY <1>1 DEF Entry
  <1> HIDE DEF done
  <1>6. answer \in Entry /\ answer.kind = flight[i].kind /\ answer.state = "done" /\ answer.body = body
    BY <1>4, <1>5 DEF Entry
  <1> HIDE DEF answer
  <1>7. flight' \in Seq(Entry) /\ Len(flight') = Len(flight) /\ DOMAIN flight' = DOMAIN flight
    BY <1>1, <1>3, <1>6, ExceptSeq DEF Typed
  <1>8. \A j \in DOMAIN flight : flight'[j] = IF j = i THEN answer ELSE flight[j]
    BY <1>1, <1>3
  <1>9. flight[i].kind = "put" => server' = IF flight[i].body = << >> THEN server ELSE flight[i].body
    <2> SUFFICES ASSUME flight[i].kind = "put"
                 PROVE  server' = IF flight[i].body = << >> THEN server ELSE flight[i].body
      OBVIOUS
    <2> DEFINE b == flight[i].body
    <2>1. server' = [tag \in Tags |-> IF tag \in DOMAIN b THEN b[tag] ELSE server[tag]]
      BY DEF Serve
    <2>2. b \in AnyForm
      BY <1>2
    <2> HIDE DEF b
    <2>3. CASE b = << >>
      <3>1. DOMAIN b = {}
        BY <2>3
      <3>2. server' = [tag \in Tags |-> server[tag]]
        BY <2>1, <3>1
      <3>3. server = [tag \in Tags |-> server[tag]]
        BY DEF Typed, Forms
      <3> QED
        BY <2>3, <3>2, <3>3 DEF b
    <2>4. CASE b # << >>
      <3>1. b \in Forms
        BY <2>2, <2>4 DEF AnyForm
      <3>2. DOMAIN b = Tags /\ b = [tag \in Tags |-> b[tag]]
        BY <3>1 DEF Forms
      <3>3. server' = [tag \in Tags |-> b[tag]]
        BY <2>1, <3>2
      <3> QED
        BY <2>4, <3>2, <3>3 DEF b
    <2> QED
      BY <2>3, <2>4
  <1>10. flight[i].kind = "get" => server' = server
    BY DEF Serve
  <1>11. server' \in Forms
    BY <1>2, <1>9, <1>10 DEF Typed, AnyForm
  <1> QED
    BY <1>2, <1>6, <1>7, <1>8, <1>9, <1>10, <1>11 DEF body


(***************************************************************************)
(* What the steps make of the form.                                        *)
(***************************************************************************)
\* A form with an inbound has all of them, and a row for every host.
LEMMA FormHasRows ==
    ASSUME Parameters, Typed, SameRows, NEW tag \in DOMAIN form
    PROVE  /\ form \in Forms /\ rows \in Forms /\ tag \in Tags
           /\ form[tag] \in Seq(Host) /\ rows[tag] \in Seq(Host)
           /\ Len(rows[tag]) = Len(form[tag])
           /\ DOMAIN form[tag] = 1 .. Len(form[tag]) /\ DOMAIN rows[tag] = 1 .. Len(form[tag])
           /\ \A i \in DOMAIN form[tag] : form[tag][i] \in Host /\ rows[tag][i] \in Host
  <1>1. form # << >>
    <2>1. DOMAIN << >> = {}
      OBVIOUS
    <2> QED
      BY <2>1
  <1>2. rows # << >>
    BY <1>1 DEF SameRows
  <1>3. form \in Forms /\ rows \in Forms
    BY <1>1, <1>2 DEF Typed, AnyForm
  <1>4. /\ tag \in Tags /\ form[tag] \in Seq(Host) /\ rows[tag] \in Seq(Host)
    BY <1>3, FormIsFilled
  <1>5. Len(rows[tag]) = Len(form[tag])
    BY <1>1, <1>4 DEF SameRows
  <1>6. DOMAIN form[tag] = 1 .. Len(form[tag]) /\ DOMAIN rows[tag] = 1 .. Len(rows[tag])
    BY <1>4, LenProperties
  <1>7. ASSUME NEW i \in DOMAIN form[tag] PROVE form[tag][i] \in Host /\ rows[tag][i] \in Host
    BY <1>4, <1>5, <1>6, ElementOfSeq
  <1> QED
    BY <1>3, <1>4, <1>5, <1>6, <1>7

\* A change of the hosts of an inbound: with the rows, or of fields of the same hosts.
Edited(tag, hosts) ==
    /\ Change(tag, hosts)
    /\ rows' = form' \/ (rows' = rows /\ Len(hosts) = Len(form[tag]))

Edits == \E tag \in DOMAIN form : \E hosts \in Seq(Host) : Edited(tag, hosts)

LEMMA FieldChange ==
    ASSUME Parameters, Typed, SameRows, NEW tag \in DOMAIN form, NEW i \in DOMAIN form[tag],
           NEW host \in Host, SetField(tag, [form[tag] EXCEPT ![i] = host])
    PROVE  Edits
  <1>1. form[tag] \in Seq(Host) /\ i \in 1 .. Len(form[tag])
    BY FormHasRows
  <1> DEFINE hosts == [form[tag] EXCEPT ![i] = host]
  <1>2. hosts \in Seq(Host) /\ Len(hosts) = Len(form[tag])
    BY <1>1, ExceptSeq
  <1>3. Change(tag, hosts) /\ rows' = rows
    BY DEF SetField
  <1> HIDE DEF hosts
  <1> QED
    BY <1>2, <1>3 DEF Edits, Edited

LEMMA FieldsEdit ==
    ASSUME Parameters, Typed, SameRows, NEW tag \in DOMAIN form, NEW i \in DOMAIN form[tag],
           Fields(tag, i)
    PROVE  Edits
  <1>1. form[tag][i] \in Host
    BY FormHasRows
  <1> DEFINE h == form[tag][i]
  <1>2. CASE TypeRemark(tag, i)
    <2>1. \E text \in Filling : SetField(tag, [form[tag] EXCEPT ![i].remark = text])
      BY <1>2, Zenon DEF TypeRemark, Filling
    <2>2. PICK text \in Filling : SetField(tag, [form[tag] EXCEPT ![i].remark = text])
      BY <2>1
    <2> DEFINE g == [h EXCEPT !.remark = text]
    <2>3. g \in Host
      BY <1>1, HostFields
    <2>4. SetField(tag, [form[tag] EXCEPT ![i] = g])
      BY <2>2
    <2> HIDE DEF g
    <2> QED
      BY <2>3, <2>4, FieldChange
  <1>3. CASE TypeAddress(tag, i)
    <2>1. \E text \in Filling : SetField(tag, [form[tag] EXCEPT ![i].address = text])
      BY <1>3, Zenon DEF TypeAddress, Filling
    <2>2. PICK text \in Filling : SetField(tag, [form[tag] EXCEPT ![i].address = text])
      BY <2>1
    <2> DEFINE g == [h EXCEPT !.address = text]
    <2>3. g \in Host
      BY <1>1, HostFields
    <2>4. SetField(tag, [form[tag] EXCEPT ![i] = g])
      BY <2>2
    <2> HIDE DEF g
    <2> QED
      BY <2>3, <2>4, FieldChange
  <1>4. CASE TypePort(tag, i)
    <2> DEFINE g == [h EXCEPT !.port = "text"]
    <2>1. g \in Host
      BY <1>1, HostFields
    <2>2. SetField(tag, [form[tag] EXCEPT ![i] = g])
      BY <1>4 DEF TypePort
    <2> HIDE DEF g
    <2> QED
      BY <2>1, <2>2, FieldChange
  <1>5. CASE TypeNames(tag, i) \/ SetSecurity(tag, i) \/ TypeTricks(tag, i)
    <2> DEFINE g == [h EXCEPT !.options = TRUE]
    <2>1. g \in Host
      BY <1>1, HostFields
    <2>2. SetField(tag, [form[tag] EXCEPT ![i] = g])
      BY <1>5 DEF TypeNames, SetSecurity, TypeTricks
    <2> HIDE DEF g
    <2> QED
      BY <2>1, <2>2, FieldChange
  <1>6. CASE CheckFlags(tag, i)
    <2> DEFINE g == [h EXCEPT !.flags = ~h.flags]
    <2>1. g \in Host
      BY <1>1, HostFields
    <2>2. SetField(tag, [form[tag] EXCEPT ![i] = g])
      BY <1>6 DEF CheckFlags
    <2> HIDE DEF g
    <2> QED
      BY <2>1, <2>2, FieldChange
  <1>7. CASE SwitchHost(tag, i)
    <2> DEFINE g == [h EXCEPT !.is_disabled = ~h.is_disabled]
    <2>1. g \in Host
      BY <1>1, HostFields
    <2>2. SetField(tag, [form[tag] EXCEPT ![i] = g])
      BY <1>7 DEF SwitchHost
    <2> HIDE DEF g
    <2> QED
      BY <2>1, <2>2, FieldChange
  <1> QED
    BY <1>2, <1>3, <1>4, <1>5, <1>6, <1>7 DEF Fields

LEMMA RowsEdit ==
    ASSUME Parameters, Typed, SameRows, NEW tag \in DOMAIN form,
           \/ HandleAddHost(tag)
           \/ \E i \in DOMAIN form[tag] :
                 \/ DuplicateHost(tag, i) \/ RemoveHost(tag, i)
                 \/ \E j \in {i - 1, i + 1} \cap DOMAIN form[tag] : MoveHostPosition(tag, i, j)
    PROVE  Edits
  <1>1. ASSUME NEW hosts \in Seq(Host), ChangeRows(tag, hosts) PROVE Edits
    BY <1>1 DEF ChangeRows, Edits, Edited
  <1>2. /\ form[tag] \in Seq(Host) /\ Len(form[tag]) \in Nat
        /\ DOMAIN form[tag] = 1 .. Len(form[tag])
        /\ \A i \in DOMAIN form[tag] : rows[tag][i] \in Host
    BY FormHasRows, LenProperties
  <1>3. CASE HandleAddHost(tag)
    <2> DEFINE hosts == Append(form[tag], NewHost)
    <2>1. hosts \in Seq(Host)
      BY <1>2, HostFields
    <2> HIDE DEF hosts
    <2> QED
      BY <1>1, <1>3, <2>1 DEF HandleAddHost, hosts
  <1>4. ASSUME NEW i \in DOMAIN form[tag], DuplicateHost(tag, i) PROVE Edits
    <2> DEFINE hosts == InsertAt(form[tag], i + 1, rows[tag][i])
    <2>1. i + 1 \in 1 .. Len(form[tag]) + 1
      BY <1>2
    <2>2. hosts \in Seq(Host)
      BY <1>2, <2>1, Insertion
    <2>3. ChangeRows(tag, hosts)
      BY <1>4 DEF DuplicateHost
    <2> HIDE DEF hosts
    <2> QED
      BY <1>1, <2>2, <2>3
  <1>5. ASSUME NEW i \in DOMAIN form[tag], RemoveHost(tag, i) PROVE Edits
    <2> DEFINE hosts == RemoveAt(form[tag], i)
    <2>1. hosts \in Seq(Host)
      BY <1>2, Removal
    <2>2. ChangeRows(tag, hosts)
      BY <1>5 DEF RemoveHost
    <2> HIDE DEF hosts
    <2> QED
      BY <1>1, <2>1, <2>2
  <1>6. ASSUME NEW i \in DOMAIN form[tag], NEW j \in DOMAIN form[tag], MoveHostPosition(tag, i, j)
        PROVE  Edits
    <2> DEFINE hosts == [form[tag] EXCEPT ![i] = form[tag][j], ![j] = form[tag][i]]
    <2>1. hosts \in Seq(Host)
      BY <1>2, Exchange
    <2>2. ChangeRows(tag, hosts)
      BY <1>6 DEF MoveHostPosition
    <2> HIDE DEF hosts
    <2> QED
      BY <1>1, <2>1, <2>2
  <1> QED
    BY <1>3, <1>4, <1>5, <1>6

LEMMA StepCases ==
    ASSUME Parameters, Typed, SameRows, Next
    PROVE  \/ OnEditingHosts \/ OnClose \/ HandleFormSubmit
           \/ \E i \in DOMAIN flight : Serve(i) \/ HostsArrive(i) \/ Saved(i) \/ Failed(i)
           \/ \E tag \in Tags : SomebodyElseSaves(tag) \/ ToggleAccordion(tag)
           \/ Edits
  <1>1. ASSUME NEW tag \in DOMAIN form,
               \/ HandleAddHost(tag)
               \/ \E i \in DOMAIN form[tag] :
                     \/ DuplicateHost(tag, i) \/ RemoveHost(tag, i) \/ Fields(tag, i)
                     \/ \E j \in {i - 1, i + 1} \cap DOMAIN form[tag] : MoveHostPosition(tag, i, j)
        PROVE  Edits
    <2>1. CASE \E i \in DOMAIN form[tag] : Fields(tag, i)
      BY <2>1, FieldsEdit
    <2>2. CASE ~\E i \in DOMAIN form[tag] : Fields(tag, i)
      <3>1. \/ HandleAddHost(tag)
            \/ \E i \in DOMAIN form[tag] :
                  \/ DuplicateHost(tag, i) \/ RemoveHost(tag, i)
                  \/ \E j \in {i - 1, i + 1} \cap DOMAIN form[tag] : MoveHostPosition(tag, i, j)
        BY <1>1, <2>2
      <3> QED
        BY <3>1, RowsEdit
    <2> QED
      BY <2>1, <2>2
  <1> QED
    BY <1>1 DEF Next


(***************************************************************************)
(* Every action preserves the invariant.                                   *)
(***************************************************************************)
LEMMA FormsOrEmpty == Parameters => AnyForm \ {<< >>} = Forms /\ << >> \notin Forms
  BY FormIsFilled DEF AnyForm

\* Initially the dialog is closed, nothing is on its way, and ports are numbers.
LEMMA Starts == Parameters /\ Init => IInv
  <1> SUFFICES ASSUME Parameters, Init PROVE IInv
    OBVIOUS
  <1>1. flight \in Seq(Entry) /\ Len(flight) = 0 /\ DOMAIN flight = {}
    BY DEF Init
  <1>2. server \in Forms /\ \A tag \in Tags : server[tag] = <<OldHost>>
    BY HostFields DEF Init, Forms
  <1>3. \A tag \in Tags : \A i \in DOMAIN server[tag] : server[tag][i].port # "text"
    <2>1. DOMAIN <<OldHost>> = {1} /\ <<OldHost>>[1] = OldHost
      OBVIOUS
    <2> QED
      BY <1>2, <2>1, HostFields
  <1>4. Typed
    BY <1>1, <1>2 DEF Init, Typed, AnyForm
  <1>5. SameRows
    BY DEF Init, SameRows
  <1>6. Settled
    BY <1>1, <1>2, <1>3, SettledForm DEF Settled
  <1>7. Ordered
    BY <1>1 DEF Ordered
  <1>8. Held
    BY DEF Init, Held
  <1> QED
    BY <1>4, <1>5, <1>6, <1>7, <1>8 DEF IInv

\* The dialog is opened: it asks for the hosts.
LEMMA OpeningHolds == ASSUME Parameters, IInv, OnEditingHosts PROVE IInv'
  <1>1. Typed /\ SameRows /\ Settled /\ Ordered /\ Held
    BY DEF IInv
  <1>2. /\ ~open /\ open' = TRUE /\ isLoading' = TRUE /\ Send("get", << >>)
        /\ calm' = (flight = << >>)
        /\ UNCHANGED <<accordions, errors, submitted, isPostLoading, listed, form, rows, server,
                       edits, dirty>>
    BY DEF OnEditingHosts, FetchHosts
  <1>3. << >> \in AnyForm /\ Parsed(<< >>) = << >>
    BY ParsedEmpty DEF AnyForm
  <1>4. /\ flight' \in Seq(Entry) /\ Len(flight') = Len(flight) + 1
        /\ DOMAIN flight' = 1 .. Len(flight) + 1
        /\ \A j \in DOMAIN flight : j \in DOMAIN flight' /\ flight'[j] = flight[j]
        /\ flight'[Len(flight) + 1] = [kind |-> "get", body |-> << >>, state |-> "sent"]
        /\ \A k \in DOMAIN flight' : k \in DOMAIN flight \/ k = Len(flight) + 1
        /\ requests' \in Nat
    BY <1>1, <1>2, <1>3, Sent
  <1> DEFINE last == flight'[Len(flight) + 1]
  <1>5. last.kind = "get" /\ last.body = << >> /\ last.state = "sent"
    BY <1>4
  <1> HIDE DEF last
  <1>8. Typed'
    BY <1>1, <1>2, <1>4 DEF Typed
  <1>9. SameRows'
    BY <1>1, <1>2 DEF SameRows
  <1>10. Settled'
    BY <1>1, <1>2, <1>3, <1>4, <1>5 DEF Settled, last
  <1>11. calm' => Len(flight) = 0 /\ DOMAIN flight' = {1} /\ flight'[1] = last
    <2> SUFFICES ASSUME calm' PROVE Len(flight) = 0 /\ DOMAIN flight' = {1} /\ flight'[1] = last
      OBVIOUS
    <2>1. flight = << >>
      BY <1>2
    <2>2. Len(flight) = 0
      BY <2>1
    <2> QED
      BY <1>4, <2>2 DEF last
  <1>12. Ordered'
    BY <1>2, <1>4, <1>5, <1>11 DEF Ordered
  <1>13. Held'
    <2>1. ~dirty
      BY <1>1, <1>2 DEF Held
    <2>2. calm' => /\ ~\A i \in DOMAIN flight' : flight'[i].kind = "put"
                   /\ \A i \in DOMAIN flight' : flight'[i].kind # "put"
      BY <1>5, <1>11
    <2> QED
      BY <1>2, <2>1, <2>2 DEF Held
  <1> QED
    BY <1>8, <1>9, <1>10, <1>12, <1>13 DEF IInv

\* Closing forgets what was changed.
LEMMA ClosingHolds == ASSUME Parameters, IInv, OnClose PROVE IInv'
  <1>1. Typed /\ SameRows /\ Settled /\ Ordered /\ Held
    BY DEF IInv
  <1> USE DEF OnClose
  <1>2. Typed'
    BY <1>1 DEF Typed
  <1>3. SameRows' /\ Settled'
    BY <1>1 DEF SameRows, Settled
  <1>4. Ordered'
    BY <1>1 DEF Ordered
  <1>5. Held'
    BY <1>1 DEF Held
  <1> QED
    BY <1>2, <1>3, <1>4, <1>5 DEF IInv

LEMMA TogglingHolds ==
    ASSUME Parameters, IInv, NEW tag \in Tags, ToggleAccordion(tag) PROVE IInv'
  <1>1. Typed /\ SameRows /\ Settled /\ Ordered /\ Held
    BY DEF IInv
  <1>2. /\ accordions' = Toggled({tag})
        /\ UNCHANGED <<open, errors, submitted, isLoading, isPostLoading, listed, form, rows,
                       flight, server, edits, requests, dirty, calm>>
    BY DEF ToggleAccordion
  <1>3. accordions' \subseteq Tags
    BY <1>1, <1>2 DEF Typed, Toggled
  <1>4. Typed'
    BY <1>1, <1>2, <1>3 DEF Typed
  <1>5. SameRows' /\ Settled'
    BY <1>1, <1>2 DEF SameRows, Settled
  <1>6. Ordered'
    BY <1>1, <1>2 DEF Ordered
  <1>7. Held'
    BY <1>1, <1>2 DEF Held
  <1> QED
    BY <1>4, <1>5, <1>6, <1>7 DEF IInv

\* What is changed is a form; while the hosts are loading nothing is.
LEMMA EditingHolds ==
    ASSUME Parameters, IInv, NEW tag \in DOMAIN form, NEW hosts \in Seq(Host),
           Edited(tag, hosts)
    PROVE  IInv'
  <1>1. Typed /\ SameRows /\ Settled /\ Ordered /\ Held
    BY DEF IInv
  <1>2. /\ open /\ ~isLoading
        /\ edits' = edits + 1
        /\ form' = [form EXCEPT ![tag] = hosts]
        /\ dirty' = TRUE
        /\ errors' = IF submitted THEN (errors \ {tag}) \cup (Faulty(form') \cap {tag}) ELSE errors
        /\ UNCHANGED <<open, accordions, submitted, isLoading, isPostLoading, listed, flight,
                       server, requests, calm>>
        /\ rows' = form' \/ (rows' = rows /\ Len(hosts) = Len(form[tag]))
    BY DEF Edited, Change, Shown, Listing
  <1>3. /\ form \in Forms /\ rows \in Forms /\ tag \in Tags
    BY <1>1, FormHasRows
  <1>4. form' \in Forms
    BY <1>2, <1>3 DEF Forms
  <1>5. form' # << >> /\ form # << >> /\ rows # << >>
    BY <1>3, <1>4, FormsOrEmpty
  <1>6. errors' \subseteq Tags
    BY <1>1, <1>2, <1>3 DEF Typed
  <1>7. rows' \in Forms
    BY <1>2, <1>3, <1>4
  <1>8. Typed'
    <2>1. edits' \in Nat /\ form' \in AnyForm /\ rows' \in AnyForm
      BY <1>1, <1>2, <1>4, <1>7 DEF Typed, AnyForm
    <2> QED
      BY <1>1, <1>2, <1>6, <2>1 DEF Typed
  <1>9. SameRows'
    <2>1. rows' # << >>
      BY <1>2, <1>5
    <2>2. CASE rows' = form'
      BY <2>2 DEF SameRows
    <2>3. CASE rows' = rows /\ Len(hosts) = Len(form[tag])
      <3>1. ASSUME NEW other \in Tags PROVE Len(rows'[other]) = Len(form'[other])
        <4>1. DOMAIN form = Tags
          BY <1>3 DEF Forms
        <4>2. form'[other] = IF other = tag THEN hosts ELSE form[other]
          BY <1>2, <4>1
        <4>3. Len(rows[other]) = Len(form[other])
          BY <1>1, <1>5 DEF SameRows
        <4> QED
          BY <2>3, <4>2, <4>3
      <3> QED
        BY <1>5, <2>1, <3>1 DEF SameRows
    <2> QED
      BY <1>2, <2>2, <2>3
  <1>10. Settled' /\ Ordered'
    BY <1>1, <1>2 DEF Settled, Ordered
  <1>11. Held'
    <2>1. calm => \A i \in DOMAIN flight : flight[i].kind # "get"
      BY <1>1, <1>2 DEF Ordered
    <2> QED
      BY <1>1, <1>2, <1>5, <2>1 DEF Held
  <1> QED
    BY <1>8, <1>9, <1>10, <1>11 DEF IInv

\* Somebody else enables or disables a host.
LEMMA OthersHold ==
    ASSUME Parameters, IInv, NEW tag \in Tags, SomebodyElseSaves(tag) PROVE IInv'
  <1>1. Typed /\ SameRows /\ Settled /\ Ordered /\ Held
    BY DEF IInv
  <1>2. /\ server[tag] # << >> /\ edits' = edits + 1 /\ calm' = FALSE
        /\ server' = [server EXCEPT ![tag] = [server[tag] EXCEPT
                          ![1] = [server[tag][1] EXCEPT !.is_disabled = ~server[tag][1].is_disabled]]]
        /\ UNCHANGED <<screenVars, isLoading, isPostLoading, listed, form, rows, flight,
                       requests, dirty>>
    BY DEF SomebodyElseSaves
  <1> DEFINE h == server[tag][1]
             g == [h EXCEPT !.is_disabled = ~h.is_disabled]
             hosts == [server[tag] EXCEPT ![1] = g]
  <1>3. server[tag] \in Seq(Host) /\ Len(server[tag]) \in Nat
        /\ DOMAIN server[tag] = 1 .. Len(server[tag]) /\ 1 \in 1 .. Len(server[tag])
    <2>1. server[tag] \in Seq(Host)
      BY <1>1 DEF Typed, Forms
    <2> QED
      BY <1>2, <2>1, EmptySeq, LenProperties
  <1>4. h \in Host
    BY <1>3, ElementOfSeq
  <1> HIDE DEF h
  <1>5. g \in Host /\ g.port = h.port
    BY <1>4, HostFields
  <1>6. h.port # "text"
    BY <1>1, <1>3, SettledForm DEF Settled, Typed, h
  <1> HIDE DEF g
  <1>7. hosts \in Seq(Host) /\ Len(hosts) = Len(server[tag])
        /\ \A i \in 1 .. Len(server[tag]) : hosts[i] = IF i = 1 THEN g ELSE server[tag][i]
    BY <1>3, <1>5, ExceptSeq
  <1> HIDE DEF hosts
  <1>8. server' = [server EXCEPT ![tag] = hosts]
    BY <1>2 DEF hosts, g, h
  <1>9. server' \in Forms /\ \A other \in Tags : server'[other] = IF other = tag THEN hosts ELSE server[other]
    BY <1>1, <1>7, <1>8 DEF Typed, Forms
  <1>10. \A other \in Tags : \A i \in DOMAIN server[other] : server[other][i].port # "text"
    BY <1>1, SettledForm DEF Settled, Typed
  <1>11. DOMAIN hosts = 1 .. Len(server[tag])
    BY <1>7, LenProperties
  <1>12. ASSUME NEW other \in Tags, NEW i \in DOMAIN server'[other] PROVE server'[other][i].port # "text"
    <2>1. CASE other = tag
      BY <1>3, <1>5, <1>6, <1>7, <1>9, <1>10, <1>11, <2>1
    <2>2. CASE other # tag
      BY <1>9, <1>10, <2>2
    <2> QED
      BY <2>1, <2>2
  <1>13. Parsed(server') = server'
    BY <1>9, <1>12, SettledForm
  <1>14. Typed'
    <2>1. edits' \in Nat
      BY <1>1, <1>2 DEF Typed
    <2>2. UNCHANGED <<open, accordions, errors, submitted>>
      BY <1>2 DEF screenVars
    <2> QED
      BY <1>1, <1>2, <1>9, <2>1, <2>2 DEF Typed
  <1>15. SameRows' /\ Settled'
    BY <1>1, <1>2, <1>13 DEF SameRows, Settled
  <1>16. Ordered' /\ Held'
    BY <1>1, <1>2 DEF Ordered, Held, screenVars
  <1> QED
    BY <1>14, <1>15, <1>16 DEF IInv


\* A form with errors opens the accordions; one without is put, if the hosts have come
\* when nothing else is on its way.
LEMMA SubmittingHolds == ASSUME Parameters, IInv, HandleFormSubmit PROVE IInv'
  <1>1. Typed /\ SameRows /\ Settled /\ Ordered /\ Held
    BY DEF IInv
  <1>2. /\ open /\ ~isPostLoading /\ submitted' = TRUE /\ errors' = Faulty(form)
        /\ UNCHANGED <<open, isLoading, listed, form, rows, server, edits, dirty>>
    BY DEF HandleFormSubmit
  <1>3. errors' \subseteq Tags
    <2>1. errors' \subseteq DOMAIN form
      BY <1>2 DEF Faulty
    <2>2. DOMAIN form \subseteq Tags
      <3>1. DOMAIN << >> = {}
        OBVIOUS
      <3> QED
        BY <1>1, <3>1 DEF Typed, AnyForm, Forms
    <2> QED
      BY <2>1, <2>2
  <1>4. CASE errors' # {}
    <2>1. /\ accordions' = IF Listing THEN Toggled(errors' \ accordions) ELSE accordions
          /\ UNCHANGED <<isPostLoading, flight, requests, calm>>
      BY <1>4 DEF HandleFormSubmit
    <2>2. accordions' \subseteq Tags
      BY <1>1, <1>3, <2>1 DEF Typed, Toggled
    <2>3. Typed'
      BY <1>1, <1>2, <1>3, <2>1, <2>2 DEF Typed
    <2>4. SameRows' /\ Settled'
      BY <1>1, <1>2, <2>1 DEF SameRows, Settled
    <2>5. Ordered'
      BY <1>1, <1>2, <2>1 DEF Ordered
    <2>6. Held'
      BY <1>1, <1>2, <2>1 DEF Held
    <2> QED
      BY <2>3, <2>4, <2>5, <2>6 DEF IInv
  <1>5. CASE errors' = {}
    <2> DEFINE body == Parsed(form)
    <2>1. /\ isPostLoading' = TRUE /\ Send("put", body) /\ calm' = (calm /\ ~isLoading)
          /\ accordions' = accordions
      BY <1>5 DEF HandleFormSubmit
    <2>2. body \in AnyForm /\ Parsed(body) = body
      BY <1>1, ParsedAny DEF Typed
    <2>3. form # << >> => body # << >>
      BY <1>1, ParsedForm, FormsOrEmpty DEF Typed, AnyForm
    <2> HIDE DEF body
    <2>4. /\ flight' \in Seq(Entry) /\ Len(flight') = Len(flight) + 1
          /\ DOMAIN flight' = 1 .. Len(flight) + 1
          /\ \A j \in DOMAIN flight : j \in DOMAIN flight' /\ flight'[j] = flight[j]
          /\ flight'[Len(flight) + 1] = [kind |-> "put", body |-> body, state |-> "sent"]
          /\ \A k \in DOMAIN flight' : k \in DOMAIN flight \/ k = Len(flight) + 1
          /\ requests' \in Nat
      BY <1>1, <2>1, <2>2, Sent
    <2> DEFINE last == flight'[Len(flight) + 1]
    <2>5. last.kind = "put" /\ last.body = body /\ last.state = "sent"
      BY <2>4
    <2> HIDE DEF last
    <2>6. Typed'
      BY <1>1, <1>2, <1>3, <2>1, <2>4 DEF Typed
    <2>7. SameRows'
      BY <1>1, <1>2 DEF SameRows
    <2>8. Settled'
      BY <1>1, <1>2, <2>2, <2>4, <2>5 DEF Settled, last
    <2>9. calm' => DOMAIN flight = {} /\ DOMAIN flight' = {1} /\ flight'[1] = last
      <3> SUFFICES ASSUME calm' PROVE DOMAIN flight = {} /\ DOMAIN flight' = {1} /\ flight'[1] = last
        OBVIOUS
      <3>1. calm /\ ~isLoading
        BY <2>1, Zenon
      <3>2. DOMAIN flight = {}
        BY <1>1, <1>2, <3>1 DEF Ordered
      <3>3. Len(flight) \in Nat /\ DOMAIN flight = 1 .. Len(flight)
        BY <1>1, Indices
      <3>4. Len(flight) = 0
        BY <3>2, <3>3
      <3> QED
        BY <2>4, <3>2, <3>4 DEF last
    <2>10. Ordered'
      BY <2>1, <2>4, <2>5, <2>9 DEF Ordered
    <2>11. Held'
      <3>1. calm' => form # << >> /\ (dirty \/ body = server)
        BY <1>1, <1>2, <2>1, <2>9 DEF Held, body
      <3> QED
        BY <1>1, <1>2, <2>3, <2>5, <2>9, <3>1 DEF Held, body
    <2> QED
      BY <2>6, <2>7, <2>8, <2>10, <2>11 DEF IInv
  <1> QED
    BY <1>4, <1>5

\* The server answers with what it has.
LEMMA ServingHolds ==
    ASSUME Parameters, IInv, NEW i \in DOMAIN flight, Serve(i) PROVE IInv'
  <1>1. Typed /\ SameRows /\ Settled /\ Ordered /\ Held
    BY DEF IInv
  <1>2. /\ flight' \in Seq(Entry) /\ Len(flight') = Len(flight)
        /\ DOMAIN flight' = DOMAIN flight
        /\ \A j \in DOMAIN flight : j # i => flight'[j] = flight[j]
        /\ flight'[i].kind = flight[i].kind /\ flight'[i].state = "done"
        /\ flight[i].state = "sent"
        /\ server' \in Forms
        /\ flight[i].kind = "get" => flight'[i].body = server /\ server' = server
        /\ flight[i].kind = "put" =>
              /\ flight'[i].body = flight[i].body
              /\ server' = IF flight[i].body = << >> THEN server ELSE flight[i].body
    BY <1>1, Served
  <1>3. UNCHANGED <<open, accordions, errors, submitted, isLoading, isPostLoading, listed, form,
                    rows, edits, requests, dirty, calm>>
    BY DEF Serve, screenVars
  <1>4. /\ Len(flight) \in Nat /\ DOMAIN flight = 1 .. Len(flight)
        /\ \A j \in DOMAIN flight : flight[j].kind \in {"get", "put"}
    BY <1>1, Indices DEF Entry
  <1>5. Typed'
    BY <1>1, <1>2, <1>3 DEF Typed
  <1>6. SameRows'
    BY <1>1, <1>3 DEF SameRows
  <1>7. Settled'
    <2>1. Parsed(server') = server'
      BY <1>1, <1>2, <1>4 DEF Settled
    <2>2. ASSUME NEW j \in DOMAIN flight
          PROVE  /\ Parsed(flight'[j].body) = flight'[j].body
                 /\ flight'[j].kind = "get" /\ flight'[j].state = "done" => flight'[j].body \in Forms
      BY <1>1, <1>2, <1>4 DEF Settled, Typed
    <2> QED
      BY <1>2, <2>1, <2>2 DEF Settled
  <1>8. calm => DOMAIN flight = {i}
    BY <1>1, <1>4 DEF Ordered
  <1>9. Ordered'
    BY <1>1, <1>2, <1>3, <1>8 DEF Ordered
  <1>10. Held'
    BY <1>1, <1>2, <1>3, <1>4, <1>8 DEF Held
  <1> QED
    BY <1>5, <1>6, <1>7, <1>9, <1>10 DEF IInv

\* The hosts that arrive fill the form and its rows.
LEMMA ArrivingHolds ==
    ASSUME Parameters, IInv, NEW i \in DOMAIN flight, HostsArrive(i) PROVE IInv'
  <1>1. Typed /\ SameRows /\ Settled /\ Ordered /\ Held
    BY DEF IInv
  <1>2. /\ flight[i].kind = "get" /\ flight[i].state = "done"
        /\ listed' = TRUE /\ isLoading' = FALSE
        /\ flight' = RemoveAt(flight, i)
        /\ UNCHANGED <<open, accordions, isPostLoading, server, edits, requests, calm>>
    BY DEF HostsArrive
  <1>3. IF open
        THEN /\ form' = flight[i].body /\ rows' = flight[i].body
             /\ errors' = {} /\ submitted' = FALSE /\ dirty' = FALSE
        ELSE UNCHANGED <<form, rows, errors, submitted, dirty>>
    BY DEF HostsArrive, Reset
  <1>4. flight[i].body \in Forms /\ flight[i].body # << >> /\ Parsed(flight[i].body) = flight[i].body
    BY <1>1, <1>2, FormsOrEmpty DEF Settled
  <1>5. /\ flight' \in Seq(Entry) /\ Len(flight') = Len(flight) - 1
        /\ DOMAIN flight' = 1 .. Len(flight) - 1
        /\ \A k \in DOMAIN flight' : \E j \in DOMAIN flight : j # i /\ flight'[k] = flight[j]
    BY <1>1, <1>2, Removed
  <1>6. Typed'
    <2>1. form' \in AnyForm /\ rows' \in AnyForm
      BY <1>1, <1>3, <1>4 DEF Typed, AnyForm
    <2>2. errors' \subseteq Tags /\ submitted' \in BOOLEAN /\ dirty' \in BOOLEAN
      BY <1>1, <1>3 DEF Typed
    <2> QED
      BY <1>1, <1>2, <1>5, <2>1, <2>2 DEF Typed
  <1>7. SameRows'
    BY <1>1, <1>3, <1>4 DEF SameRows
  <1>8. Settled'
    BY <1>1, <1>2, <1>5 DEF Settled
  <1>9. calm => DOMAIN flight' = {}
    <2>1. Len(flight) \in Nat /\ (calm => Len(flight) <= 1)
      BY <1>1, Indices DEF Ordered
    <2> QED
      BY <1>5, <2>1
  <1>10. Ordered'
    <2>1. calm => Len(flight') <= 1
      <3>1. Len(flight) \in Nat /\ (calm => Len(flight) <= 1)
        BY <1>1, Indices DEF Ordered
      <3> QED
        BY <1>5, <3>1
    <2> QED
      BY <1>2, <1>9, <2>1 DEF Ordered
  <1>11. Held'
    <2>1. calm => flight[i].body = server
      BY <1>1, <1>2 DEF Ordered
    <2>2. CASE open
      BY <1>2, <1>3, <1>4, <1>9, <2>1, <2>2 DEF Held
    <2>3. CASE ~open
      BY <1>1, <1>2, <1>3, <2>3 DEF Held
    <2> QED
      BY <2>2, <2>3
  <1> QED
    BY <1>6, <1>7, <1>8, <1>10, <1>11 DEF IInv

\* A save is confirmed: the form is clean unless it was changed since.
LEMMA ConfirmingHolds ==
    ASSUME Parameters, IInv, NEW i \in DOMAIN flight, Saved(i) PROVE IInv'
  <1>1. Typed /\ SameRows /\ Settled /\ Ordered /\ Held
    BY DEF IInv
  <1>2. /\ flight[i].kind = "put" /\ flight[i].state = "done"
        /\ isPostLoading' = FALSE
        /\ dirty' = (dirty /\ flight[i].body # Parsed(form))
        /\ flight' = RemoveAt(flight, i)
        /\ UNCHANGED <<open, accordions, errors, submitted, isLoading, listed, form, rows,
                       server, edits, requests, calm>>
    BY DEF Saved, screenVars
  <1>3. /\ flight' \in Seq(Entry) /\ Len(flight') = Len(flight) - 1
        /\ DOMAIN flight' = 1 .. Len(flight) - 1
        /\ \A k \in DOMAIN flight' : \E j \in DOMAIN flight : j # i /\ flight'[k] = flight[j]
    BY <1>1, <1>2, Removed
  <1>4. Len(flight) \in Nat /\ DOMAIN flight = 1 .. Len(flight)
    BY <1>1, Indices
  <1>5. Typed'
    <2>1. dirty' \in BOOLEAN
      BY <1>2
    <2> QED
      BY <1>1, <1>2, <1>3, <2>1 DEF Typed
  <1>6. SameRows' /\ Settled'
    BY <1>1, <1>2, <1>3 DEF SameRows, Settled
  <1>7. calm => Len(flight') <= 1 /\ DOMAIN flight' = {} /\ DOMAIN flight = {i}
    BY <1>1, <1>3, <1>4 DEF Ordered
  <1>8. Ordered'
    BY <1>2, <1>7 DEF Ordered
  <1>9. Held'
    <2>1. (~open' => ~dirty') /\ (dirty' => form' # << >>)
      BY <1>1, <1>2 DEF Held
    <2>2. ASSUME open, calm PROVE form # << >> /\ (dirty' \/ Parsed(form) = server)
      BY <1>1, <1>2, <1>7, <2>2 DEF Held
    <2> QED
      BY <1>2, <1>7, <2>1, <2>2 DEF Held
  <1> QED
    BY <1>5, <1>6, <1>8, <1>9 DEF IInv

\* A failure ends the calm; the form it may show again is the one there was, or empty.
LEMMA FailingHolds ==
    ASSUME Parameters, IInv, NEW i \in DOMAIN flight, Failed(i) PROVE IInv'
  <1>1. Typed /\ SameRows /\ Settled /\ Ordered /\ Held
    BY DEF IInv
  <1>2. /\ isLoading' = (isLoading /\ flight[i].kind # "get")
        /\ isPostLoading' = (isPostLoading /\ flight[i].kind # "put")
        /\ calm' = FALSE
        /\ flight' = RemoveAt(flight, i)
        /\ \/ /\ accordions' = Toggled(errors \ accordions)
              /\ form' = IF form = << >> THEN Blank ELSE form
              /\ rows' = form'
           \/ UNCHANGED <<accordions, form, rows>>
        /\ UNCHANGED <<open, errors, submitted, listed, server, edits, requests, dirty>>
    BY DEF Failed
  <1>3. /\ flight' \in Seq(Entry)
        /\ \A k \in DOMAIN flight' : \E j \in DOMAIN flight : j # i /\ flight'[k] = flight[j]
    BY <1>1, <1>2, Removed
  <1>4. isLoading' \in BOOLEAN /\ isPostLoading' \in BOOLEAN /\ accordions' \subseteq Tags
    BY <1>1, <1>2 DEF Typed, Toggled
  <1>5. Blank \in Forms
    <2>1. Blank = [tag \in Tags |-> << >>] /\ << >> \in Seq(Host)
      BY DEF Blank
    <2> QED
      BY <2>1 DEF Forms
  <1>6. Blank # << >> /\ form' \in AnyForm /\ rows' \in AnyForm
    BY <1>1, <1>2, <1>5, FormsOrEmpty DEF Typed, AnyForm
  <1>7. Typed'
    BY <1>1, <1>2, <1>3, <1>4, <1>6 DEF Typed
  <1>8. SameRows' /\ Settled'
    BY <1>1, <1>2, <1>3 DEF SameRows, Settled
  <1>9. Ordered' /\ Held'
    BY <1>1, <1>2, <1>6 DEF Ordered, Held
  <1> QED
    BY <1>7, <1>8, <1>9 DEF IInv

LEMMA Inductive == ASSUME Parameters PROVE IInv /\ [Next]_vars => IInv'
  <1> SUFFICES ASSUME IInv, [Next]_vars PROVE IInv'
    OBVIOUS
  <1>1. Typed /\ SameRows
    BY DEF IInv
  <1>2. CASE UNCHANGED vars
    <2>1. Typed'
      BY <1>1, <1>2 DEF Typed, vars, screenVars
    <2> QED
      BY <1>2, <2>1 DEF vars, screenVars, IInv, SameRows, Settled, Ordered, Held
  <1>3. CASE Edits
    BY <1>3, EditingHolds DEF Edits
  <1> QED
    BY <1>1, <1>2, <1>3, StepCases, OpeningHolds, ClosingHolds, SubmittingHolds, ServingHolds,
       ArrivingHolds, ConfirmingHolds, FailingHolds, OthersHold, TogglingHolds

LEMMA Invariance == ASSUME Parameters PROVE Spec => []IInv
  <1>1. Init => IInv
    BY Starts
  <1>2. IInv /\ [Next]_vars => IInv'
    BY Inductive
  <1> QED
    BY <1>1, <1>2, PTL DEF Spec


(***************************************************************************)
(* Every step of the dialog is one of Draft, or leaves its state alone.    *)
(***************************************************************************)
Drafted == IF Mode \in {"clean", "edited"} THEN Parsed(form) ELSE << >>
SentForms == {flight[i].body : i \in Puts}

\* The mode, condition by condition, before and after a step.
LEMMA Modes ==
    ASSUME Typed, Typed'
    PROVE  /\ Mode = IF ~open THEN "closed" ELSE IF ~calm THEN "astray"
                     ELSE IF dirty THEN "edited" ELSE IF flight = << >> THEN "clean" ELSE "waiting"
           /\ Mode' = IF ~open' THEN "closed" ELSE IF ~calm' THEN "astray"
                      ELSE IF dirty' THEN "edited" ELSE IF flight' = << >> THEN "clean" ELSE "waiting"
  BY DEF Mode, Typed

\* The forms on their way name every inbound.
LEMMA Sending ==
    ASSUME Typed, Typed'
    PROVE  SentForms \subseteq Forms /\ SentForms' \subseteq Forms
  <1>1. ASSUME NEW i \in Puts PROVE flight[i].body \in Forms
    <2>1. i \in DOMAIN flight /\ flight[i].body # << >>
      BY DEF Puts
    <2>2. flight[i] \in Entry
      BY <2>1, Indices
    <2> QED
      BY <2>1, <2>2 DEF Entry, AnyForm
  <1>2. ASSUME NEW i \in Puts' PROVE flight'[i].body \in Forms
    <2>1. i \in DOMAIN flight' /\ flight'[i].body # << >>
      BY DEF Puts
    <2>2. flight'[i] \in Entry
      BY <2>1, ElementOfSeq, LenProperties DEF Typed
    <2> QED
      BY <2>1, <2>2 DEF Entry, AnyForm
  <1> QED
    BY <1>1, <1>2 DEF SentForms

\* A step that only takes requests away sends nothing.
LEMMA SendsNothing ==
    ASSUME \A k \in DOMAIN flight' : \E j \in DOMAIN flight : flight'[k] = flight[j]
    PROVE  SentForms' \subseteq SentForms
  BY DEF SentForms, Puts

\* Nothing is on its way exactly if there is no request.
LEMMA EmptyFlight ==
    ASSUME Typed, Typed'
    PROVE  /\ flight = << >> <=> DOMAIN flight = {}
           /\ flight' = << >> <=> DOMAIN flight' = {}
  <1>1. ASSUME NEW s \in Seq(Entry) PROVE s = << >> <=> DOMAIN s = {}
    <2>1. DOMAIN s = 1 .. Len(s) /\ Len(s) \in Nat
      BY LenProperties
    <2>2. s # << >> => Len(s) \in Nat \ {0}
      BY EmptySeq
    <2>3. DOMAIN << >> = {}
      OBVIOUS
    <2>4. CASE s # << >>
      <3>1. 1 \in DOMAIN s
        BY <2>1, <2>2, <2>4
      <3> QED
        BY <2>4, <3>1
    <2>5. CASE s = << >>
      <3>1. DOMAIN s = {}
        BY <2>3, <2>5
      <3> QED
        BY <2>5, <3>1
    <2> QED
      BY <2>4, <2>5
  <1> QED
    BY <1>1 DEF Typed

\* A closed dialog may lose requests; an astray one may do anything but close.
LEMMA Straying ==
    ASSUME Parameters, IInv, IInv',
           \/ ~open /\ ~open' /\ SentForms' \subseteq SentForms
           \/ open /\ open' /\ ~calm'
    PROVE  Editor!Next
  <1>1. Typed /\ Typed'
    BY DEF IInv
  <1>2. server' \in Forms /\ SentForms' \subseteq Forms
    BY <1>1, Sending DEF Typed
  <1>3. Mode' = IF ~open' THEN "closed" ELSE "astray"
    BY <1>1, Modes
  <1>4. Mode = "closed" <=> ~open
    BY <1>1, Modes
  <1>5. Drafted' = << >>
    BY <1>3 DEF Drafted
  <1>6. Editor!Stray
    BY <1>2, <1>3, <1>4, <1>5 DEF Editor!Stray, Drafted, SentForms
  <1> QED
    BY <1>6 DEF Editor!Next

LEMMA OpeningSimulated ==
    ASSUME Parameters, IInv, IInv', OnEditingHosts PROVE Editor!Next
  <1>1. Typed /\ Typed' /\ Held'
    BY DEF IInv
  <1>2. ~open /\ open' = TRUE /\ Send("get", << >>) /\ UNCHANGED <<server, dirty>>
    BY DEF OnEditingHosts, FetchHosts
  <1>3. << >> \in AnyForm
    BY DEF AnyForm
  <1>4. /\ DOMAIN flight' = 1 .. Len(flight) + 1
        /\ \A j \in DOMAIN flight : j \in DOMAIN flight' /\ flight'[j] = flight[j]
        /\ flight'[Len(flight) + 1] = [kind |-> "get", body |-> << >>, state |-> "sent"]
        /\ \A k \in DOMAIN flight' : k \in DOMAIN flight \/ k = Len(flight) + 1
    BY <1>1, <1>2, <1>3, Sent
  <1>5. flight'[Len(flight) + 1].kind = "get"
    BY <1>4
  <1>6. Puts' = Puts /\ \A j \in Puts : flight'[j] = flight[j]
    BY <1>4, <1>5 DEF Puts
  <1>7. SentForms' = SentForms
    BY <1>6 DEF SentForms
  <1>8. Len(flight) \in Nat
    BY <1>1, Indices
  <1>9. flight' # << >> /\ ~dirty'
    <2>1. Len(flight) + 1 \in DOMAIN flight'
      BY <1>4, <1>8
    <2>2. flight' # << >>
      BY <1>1, <2>1, EmptyFlight
    <2>3. ~dirty
      BY <1>2 DEF IInv, Held
    <2> QED
      BY <1>2, <2>2, <2>3
  <1>10. Mode = "closed" /\ Mode' \in {"waiting", "astray"}
    BY <1>1, <1>2, <1>9, Modes
  <1>11. Drafted = << >> /\ Drafted' = << >>
    BY <1>10 DEF Drafted
  <1>12. Editor!Open
    BY <1>2, <1>7, <1>10, <1>11 DEF Editor!Open, Drafted, SentForms
  <1> QED
    BY <1>12 DEF Editor!Next

LEMMA ClosingSimulated == ASSUME Parameters, IInv, IInv', OnClose PROVE Editor!Next
  <1>1. Typed /\ Typed'
    BY DEF IInv
  <1>2. open /\ open' = FALSE /\ UNCHANGED <<server, flight>>
    BY DEF OnClose
  <1>3. Mode # "closed" /\ Mode' = "closed"
    BY <1>1, <1>2, Modes
  <1>4. Drafted' = << >> /\ SentForms' = SentForms
    BY <1>2, <1>3 DEF Drafted, SentForms, Puts
  <1>5. Editor!Close
    BY <1>2, <1>3, <1>4 DEF Editor!Close, Drafted, SentForms
  <1> QED
    BY <1>5 DEF Editor!Next

LEMMA EditingSimulated ==
    ASSUME Parameters, IInv, IInv', NEW tag \in DOMAIN form, NEW hosts \in Seq(Host),
           Edited(tag, hosts)
    PROVE  Editor!Next
  <1>1. Typed /\ SameRows /\ Typed' /\ Held'
    BY DEF IInv
  <1>2. open /\ dirty' = TRUE /\ UNCHANGED <<open, calm, flight, server>>
    BY DEF Edited, Change, Shown, Listing
  <1>3. CASE ~calm
    BY <1>2, <1>3, Straying
  <1>4. CASE calm
    <2>1. Mode \in {"waiting", "clean", "edited"} /\ Mode' = "edited"
      BY <1>1, <1>2, <1>4, Modes
    <2>2. form' \in Forms
      BY <1>1, <1>2 DEF Held, Typed, AnyForm
    <2>3. Drafted' \in Forms
      BY <2>1, <2>2, ParsedForm DEF Drafted
    <2>4. SentForms' = SentForms
      BY <1>2 DEF SentForms, Puts
    <2>5. Editor!Edit
      BY <1>2, <2>1, <2>3, <2>4 DEF Editor!Edit, Drafted, SentForms
    <2> QED
      BY <2>5 DEF Editor!Next
  <1> QED
    BY <1>3, <1>4

LEMMA SubmittingSimulated ==
    ASSUME Parameters, IInv, IInv', HandleFormSubmit
    PROVE  Editor!Next \/ UNCHANGED Editor!vars
  <1>1. Typed /\ Ordered /\ Held /\ Typed'
    BY DEF IInv
  <1>2. open /\ ~isPostLoading /\ UNCHANGED <<open, isLoading, form, server, dirty>>
    BY DEF HandleFormSubmit
  <1>3. CASE ~calm'
    BY <1>2, <1>3, Straying
  <1>4. CASE calm' /\ errors' # {}
    <2>1. UNCHANGED <<flight, calm>>
      BY <1>4 DEF HandleFormSubmit
    <2>2. Mode' = Mode
      BY <1>1, <1>2, <2>1, Modes
    <2>3. Drafted' = Drafted /\ SentForms' = SentForms
      BY <1>2, <2>1, <2>2 DEF Drafted, SentForms, Puts
    <2> QED
      BY <1>2, <2>2, <2>3 DEF Editor!vars, Drafted, SentForms
  <1>5. CASE calm' /\ errors' = {}
    <2>1. Send("put", Parsed(form)) /\ calm' = (calm /\ ~isLoading)
      BY <1>5 DEF HandleFormSubmit
    <2>2. calm /\ ~isLoading
      BY <1>5, <2>1, Zenon
    <2>3. DOMAIN flight = {}
      BY <1>1, <1>2, <2>2 DEF Ordered
    <2>4. Len(flight) \in Nat /\ DOMAIN flight = 1 .. Len(flight)
      BY <1>1, Indices
    <2>5. form \in Forms /\ Parsed(form) \in Forms /\ Parsed(form) # << >> /\ Parsed(form) \in AnyForm
      <3>1. form # << >>
        BY <1>1, <1>2, <2>2, <2>3 DEF Held
      <3>2. form \in Forms
        BY <1>1, <3>1 DEF Typed, AnyForm
      <3> QED
        BY <3>2, ParsedForm, FormsOrEmpty DEF AnyForm
    <2>6. /\ DOMAIN flight' = 1 .. Len(flight) + 1
          /\ flight'[Len(flight) + 1] = [kind |-> "put", body |-> Parsed(form), state |-> "sent"]
      BY <1>1, <2>1, <2>5, Sent
    <2>7. Len(flight) = 0
      BY <2>3, <2>4
    <2>8. /\ DOMAIN flight' = {1} /\ flight'[1].kind = "put" /\ flight'[1].state = "sent"
          /\ flight'[1].body = Parsed(form)
      BY <2>6, <2>7
    <2>9. Puts = {} /\ Puts' = {1}
      BY <2>3, <2>5, <2>8 DEF Puts
    <2>10. SentForms = {} /\ SentForms' = {Parsed(form)}
      BY <2>8, <2>9 DEF SentForms
    <2>11. flight = << >> /\ flight' # << >>
      BY <1>1, <2>3, <2>8, EmptyFlight
    <2>12. /\ Mode = IF dirty THEN "edited" ELSE "clean"
           /\ Mode' = IF dirty THEN "edited" ELSE "waiting"
      BY <1>1, <1>2, <1>5, <2>2, <2>11, Modes
    <2>13. Drafted = Parsed(form) /\ Drafted' = IF dirty THEN Parsed(form) ELSE << >>
      BY <1>2, <2>12 DEF Drafted
    <2>14. Editor!Submit
      BY <1>2, <2>10, <2>12, <2>13 DEF Editor!Submit, Drafted, SentForms
    <2> QED
      BY <2>14 DEF Editor!Next
  <1> QED
    BY <1>3, <1>4, <1>5

LEMMA ServingSimulated ==
    ASSUME Parameters, IInv, IInv', NEW i \in DOMAIN flight, Serve(i)
    PROVE  Editor!Next \/ UNCHANGED Editor!vars
  <1>1. Typed /\ Settled /\ Ordered /\ Held /\ Typed'
    BY DEF IInv
  <1>2. /\ DOMAIN flight' = DOMAIN flight
        /\ \A j \in DOMAIN flight : j # i => flight'[j] = flight[j]
        /\ flight'[i].kind = flight[i].kind /\ flight'[i].state = "done"
        /\ flight[i].state = "sent"
        /\ flight[i].kind = "get" => server' = server
        /\ flight[i].kind = "put" =>
              server' = IF flight[i].body = << >> THEN server ELSE flight[i].body
    BY <1>1, Served
  <1>3. UNCHANGED <<open, form, dirty, calm>>
    BY DEF Serve, screenVars
  <1>4. Puts' = Puts \ {i} /\ \A j \in Puts' : flight'[j] = flight[j]
    BY <1>2 DEF Puts
  <1>5. SentForms' \subseteq SentForms
    BY <1>4 DEF SentForms
  <1>6. flight # << >> /\ flight' # << >>
    BY <1>1, <1>2, EmptyFlight
  <1>7. Mode' = Mode /\ Drafted' = Drafted
    <2>1. Mode' = Mode
      BY <1>1, <1>3, <1>6, Modes
    <2> QED
      BY <1>3, <2>1 DEF Drafted
  <1>8. CASE ~(open /\ calm)
    BY <1>1, <1>3, <1>5, <1>8, Straying DEF Typed
  <1>9. CASE i \notin Puts
    <2>1. Puts' = Puts
      BY <1>4, <1>9
    <2>2. SentForms' = SentForms
      BY <1>4, <2>1 DEF SentForms
    <2>3. server' = server
      <3>1. flight[i].kind \in {"get", "put"}
        BY <1>1, Indices DEF Entry
      <3> QED
        BY <1>2, <1>9, <3>1 DEF Puts
    <2> QED
      BY <1>7, <2>2, <2>3 DEF Editor!vars, Drafted, SentForms
  <1>10. CASE open /\ calm /\ i \in Puts
    <2>1. DOMAIN flight = {i}
      <3>1. Len(flight) \in Nat /\ DOMAIN flight = 1 .. Len(flight) /\ Len(flight) <= 1
        BY <1>1, <1>10, Indices DEF Ordered
      <3> QED
        BY <3>1
    <2>2. Puts = {i} /\ Puts' = {}
      BY <1>4, <1>10, <2>1 DEF Puts
    <2>3. SentForms = {flight[i].body} /\ SentForms' = {}
      BY <2>2 DEF SentForms
    <2>4. server' = flight[i].body
      BY <1>2, <1>10 DEF Puts
    <2>5. Mode # "clean"
      BY <1>1, <1>6, Modes
    <2>6. server' \in SentForms /\ SentForms' = SentForms \ {server'}
      BY <2>3, <2>4
    <2>7. Editor!Receive
      BY <1>7, <2>5, <2>6 DEF Editor!Receive, Drafted, SentForms
    <2> QED
      BY <2>7 DEF Editor!Next
  <1> QED
    BY <1>8, <1>9, <1>10

LEMMA ArrivingSimulated ==
    ASSUME Parameters, IInv, IInv', NEW i \in DOMAIN flight, HostsArrive(i)
    PROVE  Editor!Next \/ UNCHANGED Editor!vars
  <1>1. Typed /\ Settled /\ Ordered /\ Held /\ Typed'
    BY DEF IInv
  <1>2. /\ flight[i].kind = "get" /\ flight[i].state = "done"
        /\ flight' = RemoveAt(flight, i)
        /\ UNCHANGED <<open, server, calm>>
        /\ open => form' = flight[i].body /\ dirty' = FALSE
    BY DEF HostsArrive, Reset
  <1>3. /\ DOMAIN flight' = 1 .. Len(flight) - 1
        /\ \A k \in DOMAIN flight' : \E j \in DOMAIN flight : flight'[k] = flight[j]
    BY <1>1, <1>2, Removed
  <1>4. SentForms' \subseteq SentForms
    BY <1>3, SendsNothing
  <1>5. CASE ~(open /\ calm)
    BY <1>1, <1>2, <1>4, <1>5, Straying DEF Typed
  <1>6. CASE open /\ calm
    <2>1. Len(flight) \in Nat /\ DOMAIN flight = 1 .. Len(flight) /\ Len(flight) <= 1
      BY <1>1, <1>6, Indices DEF Ordered
    <2>2. DOMAIN flight = {i} /\ DOMAIN flight' = {}
      BY <1>3, <2>1
    <2>3. Puts = {} /\ Puts' = {}
      BY <1>2, <2>2 DEF Puts
    <2>4. SentForms = {} /\ SentForms' = {}
      BY <2>3 DEF SentForms
    <2>5. ~dirty
      BY <1>1, <1>2, <1>6 DEF Held
    <2>6. Mode = "waiting" /\ Mode' = "clean"
      BY <1>1, <1>2, <1>6, <2>2, <2>5, EmptyFlight, Modes
    <2>7. flight[i].body = server /\ Parsed(flight[i].body) = flight[i].body
      BY <1>1, <1>2, <1>6 DEF Ordered, Settled
    <2>8. Drafted' = server
      BY <1>2, <1>6, <2>6, <2>7 DEF Drafted
    <2>9. Editor!Show
      BY <1>2, <2>4, <2>6, <2>8 DEF Editor!Show, Drafted, SentForms
    <2> QED
      BY <2>9 DEF Editor!Next
  <1> QED
    BY <1>5, <1>6

LEMMA ConfirmingSimulated ==
    ASSUME Parameters, IInv, IInv', NEW i \in DOMAIN flight, Saved(i)
    PROVE  Editor!Next \/ UNCHANGED Editor!vars
  <1>1. Typed /\ Ordered /\ Held /\ Typed'
    BY DEF IInv
  <1>2. /\ flight[i].kind = "put" /\ flight[i].state = "done"
        /\ dirty' = (dirty /\ flight[i].body # Parsed(form))
        /\ flight' = RemoveAt(flight, i)
        /\ UNCHANGED <<open, form, server, calm>>
    BY DEF Saved, screenVars
  <1>3. /\ DOMAIN flight' = 1 .. Len(flight) - 1
        /\ \A k \in DOMAIN flight' : \E j \in DOMAIN flight : flight'[k] = flight[j]
    BY <1>1, <1>2, Removed
  <1>4. SentForms' \subseteq SentForms
    BY <1>3, SendsNothing
  <1>5. CASE ~(open /\ calm)
    BY <1>1, <1>2, <1>4, <1>5, Straying DEF Typed
  <1>6. CASE open /\ calm
    <2>1. Len(flight) \in Nat /\ DOMAIN flight = 1 .. Len(flight) /\ Len(flight) <= 1
      BY <1>1, <1>6, Indices DEF Ordered
    <2>2. DOMAIN flight = {i} /\ DOMAIN flight' = {}
      BY <1>3, <2>1
    <2>3. Puts = {} /\ Puts' = {}
      BY <1>2, <2>2 DEF Puts
    <2>4. SentForms = {} /\ SentForms' = {}
      BY <2>3 DEF SentForms
    <2>5. flight # << >> /\ flight' = << >>
      BY <1>1, <2>2, EmptyFlight
    <2>6. /\ Mode = IF dirty THEN "edited" ELSE "waiting"
          /\ Mode' = IF dirty' THEN "edited" ELSE "clean"
      BY <1>1, <1>2, <1>6, <2>5, Modes
    <2>7. flight[i].body = server /\ (dirty \/ Parsed(form) = server)
      BY <1>1, <1>2, <1>6, <2>2 DEF Held
    <2>8. Drafted' = Parsed(form)
      BY <1>2, <2>6 DEF Drafted
    <2>9. CASE ~dirty
      <3>1. Mode = "waiting" /\ Mode' = "clean" /\ Drafted' = server
        BY <1>2, <2>6, <2>7, <2>8, <2>9
      <3>2. Editor!Show
        BY <1>2, <2>4, <3>1 DEF Editor!Show, Drafted, SentForms
      <3> QED
        BY <3>2 DEF Editor!Next
    <2>10. CASE dirty
      <3>1. Mode = "edited" /\ Drafted = Parsed(form)
        BY <2>6, <2>10 DEF Drafted
      <3>2. CASE dirty'
        <4>1. Mode' = "edited"
          BY <2>6, <3>2
        <4> QED
          BY <1>2, <2>4, <2>8, <3>1, <4>1 DEF Editor!vars, Drafted, SentForms
      <3>3. CASE ~dirty'
        <4>1. Mode' = "clean" /\ Parsed(form) = server
          BY <1>2, <2>6, <2>7, <2>10, <3>3
        <4>2. Editor!Confirm
          BY <1>2, <2>4, <2>8, <3>1, <4>1 DEF Editor!Confirm, Drafted, SentForms
        <4> QED
          BY <4>2 DEF Editor!Next
      <3> QED
        BY <3>2, <3>3
    <2> QED
      BY <2>9, <2>10
  <1> QED
    BY <1>5, <1>6

LEMMA FailingSimulated ==
    ASSUME Parameters, IInv, IInv', NEW i \in DOMAIN flight, Failed(i)
    PROVE  Editor!Next
  <1>1. Typed
    BY DEF IInv
  <1>2. flight' = RemoveAt(flight, i) /\ calm' = FALSE /\ UNCHANGED open
    BY DEF Failed
  <1>3. \A k \in DOMAIN flight' : \E j \in DOMAIN flight : flight'[k] = flight[j]
    BY <1>1, <1>2, Removed
  <1>4. SentForms' \subseteq SentForms
    BY <1>3, SendsNothing
  <1>5. open \in BOOLEAN
    BY <1>1 DEF Typed
  <1> QED
    BY <1>2, <1>4, <1>5, Straying

LEMMA OthersSimulated ==
    ASSUME Parameters, IInv, IInv', NEW tag \in Tags, SomebodyElseSaves(tag)
    PROVE  Editor!Next
  <1>1. Typed
    BY DEF IInv
  <1>2. calm' = FALSE /\ UNCHANGED <<open, flight>>
    BY DEF SomebodyElseSaves, screenVars
  <1>3. SentForms' = SentForms /\ open \in BOOLEAN
    BY <1>1, <1>2 DEF SentForms, Puts, Typed
  <1> QED
    BY <1>2, <1>3, Straying

LEMMA ToggleSimulated ==
    ASSUME NEW tag \in Tags, ToggleAccordion(tag)
    PROVE  UNCHANGED Editor!vars
  <1>1. UNCHANGED <<open, calm, dirty, flight, form, server>>
    BY DEF ToggleAccordion
  <1>2. Mode' = Mode
    BY <1>1 DEF Mode
  <1>3. Drafted' = Drafted /\ SentForms' = SentForms
    BY <1>1, <1>2 DEF Drafted, SentForms, Puts
  <1> QED
    BY <1>1, <1>2, <1>3 DEF Editor!vars, Drafted, SentForms


(***************************************************************************)
(* Theorems.                                                               *)
(***************************************************************************)
\* The hosts of the form, of the store's list and of every request keep their types, for
\* any inbounds and any number of hosts.
THEOREM HostsTyping == ASSUME Parameters PROVE Spec => []TypeOK
  <1>1. ASSUME Typed PROVE TypeOK
    <2>1. ASSUME NEW i \in DOMAIN flight
          PROVE  /\ flight[i].kind \in {"get", "put"} /\ flight[i].state \in {"sent", "done"}
                 /\ flight[i].body \in Forms \cup {<< >>}
      BY <1>1, Indices DEF Entry, AnyForm
    <2> QED
      BY <1>1, <2>1 DEF Typed, TypeOK, AnyForm
  <1>2. IInv => TypeOK
    BY <1>1 DEF IInv
  <1> QED
    BY <1>2, Invariance, PTL

\* For any inbounds and any number of openings, edits and saves the dialog for the hosts
\* does what Draft promises: no list that arrives takes away what was changed, and a
\* form that was opened or applied is what the server has.
THEOREM HostsImplementDraft == ASSUME Parameters PROVE Spec => HostsKeepDraft
  <1>1. Init => Editor!Init
    <2> SUFFICES ASSUME Init PROVE Editor!Init
      OBVIOUS
    <2>1. Typed /\ DOMAIN flight = {} /\ ~open /\ server \in Forms
      <3>1. Typed
        BY Starts DEF IInv
      <3> QED
        BY <3>1 DEF Init, Typed
    <2>2. Mode = "closed" /\ Puts = {}
      BY <2>1 DEF Mode, Puts
    <2> QED
      BY <2>1, <2>2 DEF Editor!Init
  <1>2. IInv /\ IInv' /\ [Next]_vars => [Editor!Next]_(Editor!vars)
    <2> SUFFICES ASSUME IInv, IInv', [Next]_vars PROVE Editor!Next \/ UNCHANGED Editor!vars
      OBVIOUS
    <2>1. Typed /\ SameRows
      BY DEF IInv
    <2>2. CASE UNCHANGED vars
      <3>1. UNCHANGED <<open, calm, dirty, flight, form, server>>
        BY <2>2 DEF vars, screenVars
      <3>2. Mode' = Mode
        BY <3>1 DEF Mode
      <3>3. Drafted' = Drafted /\ SentForms' = SentForms
        BY <3>1, <3>2 DEF Drafted, SentForms, Puts
      <3> QED
        BY <3>1, <3>2, <3>3 DEF Editor!vars, Drafted, SentForms
    <2>3. CASE Edits
      BY <2>3, EditingSimulated DEF Edits
    <2> QED
      BY <2>1, <2>2, <2>3, StepCases, OpeningSimulated, ClosingSimulated, SubmittingSimulated,
         ServingSimulated, ArrivingSimulated, ConfirmingSimulated, FailingSimulated,
         OthersSimulated, ToggleSimulated
  <1> QED
    BY <1>1, <1>2, Invariance, Inductive, PTL DEF Spec, HostsKeepDraft, Editor!Spec

\* An error that comes up while the list is on the screen, or comes back to the screen
\* with it, is in an accordion that is open, for any number of inbounds: those with
\* errors whose accordions are closed are opened by a refused form and by a list that
\* could not be had, and an error that comes up while a host is edited is in an
\* accordion that is open.
THEOREM HostsErrorsAreShown == ASSUME Parameters PROVE Spec => NewErrorsAreShown
  <1>1. IInv /\ [Next]_vars => [\A tag \in Told' \ Told : Shown(tag)']_vars
    <2> SUFFICES ASSUME IInv, Next, NEW tag \in Told' \ Told PROVE Shown(tag)'
      BY DEF Shown
    <2>1. Typed /\ SameRows
      BY DEF IInv
    <2>2. Listing' /\ tag \in errors' /\ ~(Listing /\ tag \in errors)
      BY DEF Told
    <2>3. SUFFICES tag \in accordions'
      BY <2>2 DEF Shown
    <2>4. CASE OnEditingHosts \/ OnClose
      BY <2>2, <2>4 DEF OnEditingHosts, FetchHosts, OnClose, Listing
    <2>5. CASE HandleFormSubmit
      <3>1. Listing /\ errors' # {}
        BY <2>2, <2>5 DEF HandleFormSubmit, Listing
      <3>2. accordions' = Toggled(errors' \ accordions)
        BY <2>5, <3>1 DEF HandleFormSubmit
      <3> QED
        BY <2>2, <3>2 DEF Toggled
    <2>6. ASSUME NEW i \in DOMAIN flight, Serve(i) \/ Saved(i) PROVE FALSE
      BY <2>2, <2>6 DEF Serve, Saved, screenVars, Listing
    <2>7. ASSUME NEW i \in DOMAIN flight, HostsArrive(i) PROVE FALSE
      BY <2>2, <2>7 DEF HostsArrive, Reset, Listing
    <2>8. ASSUME NEW i \in DOMAIN flight, Failed(i) PROVE tag \in accordions'
      <3>1. open /\ listed /\ isLoading /\ ~isLoading' /\ tag \in errors
        BY <2>1, <2>2, <2>8 DEF Failed, Listing, Typed
      <3>2. accordions' = Toggled(errors \ accordions)
        BY <2>8, <3>1 DEF Failed
      <3> QED
        BY <3>1, <3>2 DEF Toggled
    <2>9. ASSUME NEW t \in Tags, SomebodyElseSaves(t) \/ ToggleAccordion(t) PROVE FALSE
      BY <2>2, <2>9 DEF SomebodyElseSaves, ToggleAccordion, screenVars, Listing
    <2>10. CASE Edits
      <3>1. PICK t \in DOMAIN form, hosts \in Seq(Host) : Change(t, hosts)
        BY <2>10 DEF Edits, Edited
      <3>2. /\ Listing /\ t \in accordions /\ accordions' = accordions
            /\ errors' \subseteq errors \cup {t}
        BY <3>1 DEF Change, Shown
      <3> QED
        BY <2>2, <3>2
    <2> QED
      BY <2>1, <2>4, <2>5, <2>6, <2>7, <2>8, <2>9, <2>10, StepCases
  <1> QED
    BY <1>1, Invariance, PTL DEF Spec, NewErrorsAreShown
================================================================================
