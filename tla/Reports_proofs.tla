--------------------------- MODULE Reports_proofs ---------------------------
(***************************************************************************)
(* Proofs about Transport: where requests go and how often, for any        *)
(* locations, origins and limits, whatever the server answers; and about   *)
(* Reports: no report tells a secret of the call, for any secrets, those   *)
(* that share characters with the marker included.  A call that is         *)
(* observed with its reports is a call as Transport has it, so that what   *)
(* is proved of one holds of the other.                                    *)
(*                                                                         *)
(* Redaction is recursive over a text and over a list of secrets.  What it *)
(* yields is proved with the least element of a set of numbers (Least):    *)
(* the places of a text are gone through from its end (UpTo).              *)
(***************************************************************************)
EXTENDS Reports, WellFoundedInduction, TLAPS

\* While limits are kept, a location that may be visited was not visited too often.
LEMMA NotEndless ==
    ASSUME TypeOK, NEW location \in Locations, ~Endless(location)
    PROVE  visited[location] + 1 \in 0..MaxRepeats
<1>1. visited[location] \in 0..MaxRepeats
  BY DEF TypeOK
<1>2. Seen = {} => visited[location] = 0
  BY <1>1, TransportAssumption DEF Seen
<1>3. visited[location] < MaxRepeats
  BY <1>1, <1>2, TransportAssumption DEF Endless
<1>4. QED
  BY <1>1, <1>3, TransportAssumption

\* The request under way is for the profile's origin; a POST is under way only as
\* the first request.
Inv == /\ TypeOK
       /\ request.origin = Home
       /\ TokenStaysHome
       /\ pc = "send" /\ request.method = "POST" => sent = {} /\ request = called

LEMMA InitInv == Init => Inv
BY TransportAssumption DEF Init, Inv, TypeOK, TokenStaysHome, Requests

LEMMA RedirectInv == Inv /\ Redirect => Inv'
<1> SUFFICES ASSUME Inv, Redirect PROVE Inv'
  OBVIOUS
<1>1. UNCHANGED <<called, sent>>
  BY DEF Redirect
<1>2. PICK code \in Codes, origin \in Origins, location \in Locations :
         IF SameOrigin(request.origin, origin) /\ Followed(code) /\ ~Endless(location)
         THEN /\ request' = [Redirected(location) EXCEPT !.origin = origin]
              /\ visited' = [visited EXCEPT ![location] = @ + 1]
              /\ pc' = "send"
              /\ UNCHANGED result
         ELSE Return("transport") /\ UNCHANGED <<request, visited>>
  BY DEF Redirect
<1>3. CASE SameOrigin(request.origin, origin) /\ Followed(code) /\ ~Endless(location)
  <2>1. request' = [origin |-> Home, location |-> location, method |-> "GET"]
    BY <1>2, <1>3 DEF SameOrigin, Redirected, Inv, TypeOK, Requests
  <2>2. request' \in Requests
    BY <2>1, TransportAssumption DEF Requests
  <2>3. visited' \in [Locations -> 0..MaxRepeats]
    BY <1>2, <1>3, NotEndless DEF Inv, TypeOK
  <2>4. QED
    BY <1>1, <1>2, <1>3, <2>1, <2>2, <2>3 DEF Inv, TypeOK, TokenStaysHome
<1>4. CASE ~(SameOrigin(request.origin, origin) /\ Followed(code) /\ ~Endless(location))
  BY <1>1, <1>2, <1>4 DEF Return, Inv, TypeOK, TokenStaysHome
<1>5. QED
  BY <1>3, <1>4

LEMMA NextInv == Inv /\ [Next]_vars => Inv'
<1> SUFFICES ASSUME Inv, [Next]_vars PROVE Inv'
  OBVIOUS
<1>1. CASE Send
  BY <1>1 DEF Send, Inv, TypeOK, TokenStaysHome
<1>2. CASE Redirect
  BY <1>2, RedirectInv
<1>3. CASE Fail \/ Garbled \/ Answer
  BY <1>3 DEF Fail, Garbled, Answer, Return, Inv, TypeOK, TokenStaysHome
<1>4. CASE UNCHANGED vars
  BY <1>4 DEF vars, Inv, TypeOK, TokenStaysHome
<1>5. QED
  BY <1>1, <1>2, <1>3, <1>4 DEF Next

\* The state has its types, and no location is redirected to more often than
\* the limit: a call makes a bounded number of requests.
THEOREM CallTypes == Spec => []TypeOK
<1>1. Inv => TypeOK
  BY DEF Inv
<1>2. QED
  BY <1>1, InitInv, NextInv, PTL DEF Spec

\* The API token goes to the profile's origin alone.
THEOREM TokenIsKept == Spec => []TokenStaysHome
<1>1. Inv => TokenStaysHome
  BY DEF Inv
<1>2. QED
  BY <1>1, InitInv, NextInv, PTL DEF Spec

\* A POST leaves the client once, as the request that was asked for.
THEOREM PostIsSentOnce == Spec => ContentIsSentOnce
<1>1. Inv /\ [Next]_vars
      => [pc = "send" /\ pc' = "wait" /\ request.method = "POST"
          => sent = {} /\ request = called]_vars
  BY DEF Inv
<1>2. QED
  BY <1>1, InitInv, NextInv, PTL DEF Spec, ContentIsSentOnce

------------------------------------------------------------------------------
(* The call with its parameters and reports.                                *)

LEMMA ReportStepIsCallStep == [ReportNext]_reportVars => [Next]_vars
BY DEF ReportNext, Silent, Fixed, NetworkFails, Succeed, Refused, Next, reportVars

LEMMA ReportImplementsCall == ReportSpec => Spec
<1>1. ReportInit => Init
  BY DEF ReportInit
<1>2. QED
  BY <1>1, ReportStepIsCallStep, PTL DEF ReportSpec, Spec

\* With parameters, values and reports of any kind, the API token goes to the
\* profile's origin alone and a POST is sent once.
THEOREM ReportedCallsKeepHome == ReportSpec => []TokenStaysHome /\ ContentIsSentOnce
BY ReportImplementsCall, TokenIsKept, PostIsSentOnce, PTL

------------------------------------------------------------------------------
(* Induction over the natural numbers, with a set in the place of a         *)
(* predicate.                                                               *)

LEMMA Least ==
  ASSUME NEW T \in SUBSET Nat, T # {}
  PROVE \E x \in T : \A y \in T : x <= y
<1> DEFINE R == {ss \in Nat \X Nat : ss[1] < ss[2]}
<1>1. IsWellFoundedOn(R, Nat)
  BY NatLessThanWellFounded DEF OpToRel
<1>2. PICK x \in T : \A y \in T : <<y,x>> \notin R
  BY <1>1, WFMin
<1>3. ASSUME NEW y \in T PROVE x <= y
  <2>1. ~(y < x)
    BY <1>2
  <2>2. QED
    BY <2>1
<1>4. QED
  BY <1>3

\* Induction, over a set instead of a predicate.
LEMMA UpTo ==
    ASSUME NEW n \in Nat, NEW S, 0 \in S, \A d \in 1..n : d - 1 \in S => d \in S
    PROVE  0..n \subseteq S
<1> DEFINE T == (0..n) \ S
<1>1. CASE T = {}
  BY <1>1
<1>2. CASE T # {}
  <2>1. PICK d \in T : \A e \in T : d <= e
    <3>1. T \in SUBSET Nat
      OBVIOUS
    <3> HIDE DEF T
    <3>2. QED
      BY <1>2, <3>1, Least
  <2>2. d \in 1..n /\ d - 1 \in 0..n
    BY <2>1
  <2>3. d - 1 \notin T
    BY <2>1, <2>2
  <2>4. QED
    BY <2>1, <2>2, <2>3
<1>3. QED
  BY <1>1, <1>2

------------------------------------------------------------------------------
(* One secret in a text.                                                    *)

Secret == Seq(Characters)

Marked == [char : Characters, origin : {"said", "marker"}]

Text == Seq(Marked)

Kept(c) == c.origin = "said"

LEMMA MarkerIsText ==
    /\ Marker \in Text /\ Marker # <<>> /\ DOMAIN Marker = 1..Len(Marker)
    /\ \A j \in DOMAIN Marker : ~Kept(Marker[j])
<1>1. DOMAIN Marker = 1..Len(REDACTED) /\ Len(REDACTED) \in Nat \ {0}
  BY ReportAssumption DEF Marker, From
<1>2. \A j \in DOMAIN Marker : Marker[j] = [char |-> REDACTED[j], origin |-> "marker"]
  BY DEF Marker, From
<1>3. \A j \in 1..Len(REDACTED) : REDACTED[j] \in Characters
  BY ReportAssumption
<1>4. \A j \in DOMAIN Marker : Marker[j] \in Marked
  BY <1>1, <1>2, <1>3 DEF Marked
<1>5. Marker \in [1..Len(REDACTED) -> Marked]
  <2>1. Marker = [j \in 1..Len(REDACTED) |-> Marker[j]]
    BY <1>1 DEF Marker, From
  <2>2. QED
    BY <1>1, <1>4, <2>1
<1>6. Marker \in Text /\ Len(Marker) = Len(REDACTED)
  BY <1>1, <1>5 DEF Text
<1>7. QED
  BY <1>1, <1>2, <1>6 DEF Kept

LEMMA SaidIsText == \A characters \in Secret : Said(characters) \in Text
<1> SUFFICES ASSUME NEW characters \in Secret PROVE Said(characters) \in Text
  OBVIOUS
<1>1. Len(characters) \in Nat /\ DOMAIN characters = 1..Len(characters)
      /\ \A i \in DOMAIN characters : characters[i] \in Characters
  BY DEF Secret
<1>2. Said(characters) \in [1..Len(characters) -> Marked]
  BY <1>1 DEF Said, From, Marked
<1>3. QED
  BY <1>1, <1>2 DEF Text

\* What str.replace has made of a text from each of its positions on.
Scan(text, secret) ==
    LET from[i \in 1..(Len(text) + 1)] ==
            IF i > Len(text) THEN <<>>
            ELSE IF OccursAt(secret, text, i) THEN Marker \o from[i + Len(secret)]
            ELSE <<text[i]>> \o from[i + 1]
    IN  from

LEMMA ReplacedIsScan == \A text, secret : Replaced(text, secret) = Scan(text, secret)[1]
BY DEF Replaced, Scan

\* The recursion has a solution: each position refers to later ones only.
LEMMA ScanIsDefined ==
    ASSUME NEW text, Len(text) \in Nat, NEW secret, Len(secret) \in Nat \ {0}
    PROVE  Scan(text, secret) =
              [i \in 1..(Len(text) + 1) |->
                  IF i > Len(text) THEN <<>>
                  ELSE IF OccursAt(secret, text, i)
                       THEN Marker \o Scan(text, secret)[i + Len(secret)]
                  ELSE <<text[i]>> \o Scan(text, secret)[i + 1]]
<1> DEFINE n == Len(text)
           body(g, i) == IF i > Len(text) THEN <<>>
                         ELSE IF OccursAt(secret, text, i) THEN Marker \o g[i + Len(secret)]
                         ELSE <<text[i]>> \o g[i + 1]
           S == {d \in 0..n : \E g : g = [i \in (n + 1 - d)..(n + 1) |-> body(g, i)]}
<1>1. ASSUME NEW g, NEW h, NEW i \in 1..(n + 1), \A j \in (i + 1)..(n + 1) : g[j] = h[j]
      PROVE  body(g, i) = body(h, i)
  <2>1. CASE i > Len(text)
    BY <2>1
  <2>2. CASE i <= Len(text) /\ OccursAt(secret, text, i)
    <3>1. i + Len(secret) \in (i + 1)..(n + 1)
      BY <2>2 DEF OccursAt
    <3>2. QED
      BY <1>1, <2>2, <3>1
  <2>3. CASE i <= Len(text) /\ ~OccursAt(secret, text, i)
    BY <1>1, <2>3
  <2>4. QED
    BY <2>1, <2>2, <2>3
<1>2. \A g : body(g, n + 1) = <<>>
  OBVIOUS
<1> HIDE DEF body
<1>3. 0 \in S
  <2> DEFINE g == [i \in {n + 1} |-> <<>>]
  <2>1. (n + 1 - 0)..(n + 1) = {n + 1}
    OBVIOUS
  <2>2. g = [i \in (n + 1 - 0)..(n + 1) |-> body(g, i)]
    BY <1>2, <2>1
  <2>3. QED
    BY <2>2
<1>4. ASSUME NEW d \in 1..n, d - 1 \in S PROVE d \in S
  <2> DEFINE first == n + 1 - d
  <2>1. PICK g : g = [i \in (first + 1)..(n + 1) |-> body(g, i)]
    <3>1. n + 1 - (d - 1) = first + 1
      OBVIOUS
    <3>2. QED
      BY <1>4, <3>1
  <2> DEFINE h == [i \in first..(n + 1) |-> IF i = first THEN body(g, i) ELSE g[i]]
  <2>2. \A i \in (first + 1)..(n + 1) : h[i] = g[i]
    OBVIOUS
  <2>3. ASSUME NEW i \in first..(n + 1) PROVE h[i] = body(h, i)
    <3>1. body(g, i) = body(h, i)
      <4>1. i \in 1..(n + 1) /\ \A j \in (i + 1)..(n + 1) : j \in (first + 1)..(n + 1)
        OBVIOUS
      <4> HIDE DEF h
      <4>2. QED
        BY <1>1, <2>2, <4>1
    <3>2. h[i] = body(g, i)
      BY <2>1
    <3>3. QED
      BY <3>1, <3>2
  <2>4. h = [i \in first..(n + 1) |-> body(h, i)]
    BY <2>3
  <2> HIDE DEF h
  <2>5. \E f : f = [i \in (n + 1 - d)..(n + 1) |-> body(f, i)]
    BY <2>4
  <2>6. QED
    BY <2>5
<1>5. n \in S
  <2> HIDE DEF S
  <2>1. 0..n \subseteq S
    BY <1>3, <1>4, UpTo
  <2>2. QED
    BY <2>1
<1>6. \E g : g = [i \in 1..(n + 1) |-> body(g, i)]
  <2>1. n + 1 - n = 1
    OBVIOUS
  <2>2. QED
    BY <1>5, <2>1
<1>7. Scan(text, secret) = CHOOSE g : g = [i \in 1..(n + 1) |-> body(g, i)]
  BY DEF Scan, body
<1>8. Scan(text, secret) = [i \in 1..(n + 1) |-> body(Scan(text, secret), i)]
  BY <1>6, <1>7
<1>9. QED
  BY <1>8 DEF body

\* The same by position, with the types.
LEMMA ScanSteps ==
    ASSUME NEW text \in Text, NEW t \in Secret, t # <<>>
    PROVE  /\ Scan(text, t)[Len(text) + 1] = <<>>
           /\ \A i \in 1..Len(text) :
                /\ OccursAt(t, text, i) =>
                     /\ i + Len(t) \in (i + 1)..(Len(text) + 1)
                     /\ Scan(text, t)[i] = Marker \o Scan(text, t)[i + Len(t)]
                /\ ~OccursAt(t, text, i) => Scan(text, t)[i] = <<text[i]>> \o Scan(text, t)[i + 1]
           /\ \A i \in 1..(Len(text) + 1) : Scan(text, t)[i] \in Text
<1> DEFINE n == Len(text)
           F == Scan(text, t)
<1>1. n \in Nat /\ Len(t) \in Nat \ {0}
  BY DEF Text, Secret
<1>2. \A i \in 1..(n + 1) :
         F[i] = IF i > n THEN <<>>
                ELSE IF OccursAt(t, text, i) THEN Marker \o F[i + Len(t)]
                ELSE <<text[i]>> \o F[i + 1]
  <2>1. F = [i \in 1..(n + 1) |->
               IF i > n THEN <<>>
               ELSE IF OccursAt(t, text, i) THEN Marker \o F[i + Len(t)]
               ELSE <<text[i]>> \o F[i + 1]]
    BY <1>1, ScanIsDefined
  <2> HIDE DEF F
  <2>2. QED
    BY <2>1
<1> HIDE DEF F
<1>3. F[n + 1] = <<>>
  <2>1. n + 1 \in 1..(n + 1) /\ n + 1 > n
    BY <1>1
  <2> HIDE DEF n
  <2>2. QED
    BY <1>2, <2>1
<1>4. ASSUME NEW i \in 1..n
      PROVE  /\ OccursAt(t, text, i) =>
                  i + Len(t) \in (i + 1)..(n + 1) /\ F[i] = Marker \o F[i + Len(t)]
             /\ ~OccursAt(t, text, i) => F[i] = <<text[i]>> \o F[i + 1]
  <2>1. OccursAt(t, text, i) => i + Len(t) <= n + 1
    BY DEF OccursAt
  <2>2. OccursAt(t, text, i) => i + Len(t) \in (i + 1)..(n + 1)
    BY <1>1, <2>1
  <2>3. i \in 1..(n + 1) /\ ~(i > n)
    BY <1>1
  <2> HIDE DEF n
  <2>4. F[i] = IF OccursAt(t, text, i) THEN Marker \o F[i + Len(t)] ELSE <<text[i]>> \o F[i + 1]
    BY <1>2, <2>3
  <2>5. QED
    BY <2>2, <2>4
<1> DEFINE S == {d \in 0..n : \A i \in (n + 1 - d)..(n + 1) : F[i] \in Text}
<1>5. 0 \in S
  <2>1. 0 \in 0..n /\ (n + 1 - 0)..(n + 1) = {n + 1}
    BY <1>1
  <2>2. F[n + 1] \in Text
    BY <1>3 DEF Text
  <2> HIDE DEF n
  <2>3. \A i \in (n + 1 - 0)..(n + 1) : F[i] \in Text
    BY <2>1, <2>2
  <2>4. QED
    BY <2>1, <2>3
<1>6. ASSUME NEW d \in 1..n, d - 1 \in S PROVE d \in S
  <2>1. \A j \in (n + 1 - (d - 1))..(n + 1) : F[j] \in Text
    BY <1>6
  <2>2. ASSUME NEW i \in (n + 1 - d)..(n + 1) PROVE F[i] \in Text
    <3>0. d \in Nat /\ d \in 1..n /\ i \in 1..(n + 1) /\ n + 1 - (d - 1) = n + 2 - d
      BY <1>1
    <3>1. CASE i # n + 1 - d
      <4>1. i \in (n + 1 - (d - 1))..(n + 1)
        BY <1>1, <3>1
      <4>2. QED
        BY <2>1, <4>1
    <3>2. CASE i = n + 1 - d /\ OccursAt(t, text, i)
      <4>1. i \in 1..n
        BY <1>1, <3>2
      <4>2. i + Len(t) \in (i + 1)..(n + 1) /\ F[i] = Marker \o F[i + Len(t)]
        BY <1>4, <3>2, <4>1
      <4>3. i + Len(t) \in (n + 1 - (d - 1))..(n + 1)
        BY <1>1, <3>2, <4>2
      <4>4. F[i + Len(t)] \in Text
        BY <2>1, <4>3
      <4>5. QED
        BY <4>2, <4>4, MarkerIsText DEF Text
    <3>3. CASE i = n + 1 - d /\ ~OccursAt(t, text, i)
      <4>1. i \in 1..n /\ i + 1 \in (n + 1 - (d - 1))..(n + 1)
        BY <1>1, <3>3
      <4>2. F[i] = <<text[i]>> \o F[i + 1]
        BY <1>4, <3>3, <4>1
      <4>3. F[i + 1] \in Text
        BY <2>1, <4>1
      <4>4. text[i] \in Marked
        BY <4>1 DEF Text
      <4>5. QED
        BY <4>2, <4>3, <4>4 DEF Text
    <3>4. QED
      BY <3>1, <3>2, <3>3
  <2>3. d \in 0..n
    BY <1>1
  <2>4. QED
    BY <2>2, <2>3
<1> HIDE DEF S
<1>7. n \in S
  <2>1. 0..n \subseteq S
    BY <1>1, <1>5, <1>6, UpTo
  <2>2. QED
    BY <1>1, <2>1
<1>8. \A i \in 1..(n + 1) : F[i] \in Text
  <2>1. \A i \in (n + 1 - n)..(n + 1) : F[i] \in Text
    BY <1>7 DEF S
  <2>2. n + 1 - n = 1
    BY <1>1
  <2>3. QED
    BY <2>1, <2>2
<1>9. QED
  BY <1>3, <1>4, <1>8 DEF F

\* A run of characters in the result, none of which is a marker's, stands in the text
\* at the place that the scan had come to.
LEMMA RunsAreKept ==
    ASSUME NEW text \in Text, NEW t \in Secret, t # <<>>,
           NEW i \in 1..(Len(text) + 1), NEW m \in Nat, m <= Len(Scan(text, t)[i]),
           \A k \in 1..m : Kept(Scan(text, t)[i][k])
    PROVE  /\ i + m <= Len(text) + 1
           /\ \A k \in 1..m : Scan(text, t)[i][k] = text[i + k - 1]
<1> DEFINE n == Len(text)
           F == Scan(text, t)
           Run(h, l) == l <= Len(F[h]) /\ (\A k \in 1..l : Kept(F[h][k]))
           Stands(h, l) == h + l <= n + 1 /\ (\A k \in 1..l : F[h][k] = text[h + k - 1])
           S == {d \in 0..n : \A h \in (n + 1 - d)..(n + 1) : \A l \in Nat : Run(h, l) => Stands(h, l)}
<1>1. n \in Nat /\ Len(t) \in Nat \ {0}
  BY DEF Text, Secret
<1>2. /\ F[n + 1] = <<>>
      /\ \A h \in 1..n : /\ OccursAt(t, text, h) => /\ h + Len(t) \in (h + 1)..(n + 1)
                                                    /\ F[h] = Marker \o F[h + Len(t)]
                         /\ ~OccursAt(t, text, h) => F[h] = <<text[h]>> \o F[h + 1]
      /\ \A h \in 1..(n + 1) : F[h] \in Text
  BY ScanSteps
<1> HIDE DEF F
<1>3. 0 \in S
  <2>1. 0 \in 0..n /\ (n + 1 - 0)..(n + 1) = {n + 1}
    BY <1>1
  <2>2. ASSUME NEW l \in Nat, Run(n + 1, l) PROVE Stands(n + 1, l)
    <3>1. l = 0
      BY <1>2, <2>2
    <3>2. QED
      BY <1>1, <3>1
  <2> HIDE DEF n, Run, Stands
  <2>3. \A h \in (n + 1 - 0)..(n + 1) : \A l \in Nat : Run(h, l) => Stands(h, l)
    BY <2>1, <2>2
  <2>4. QED
    BY <2>1, <2>3
<1>4. ASSUME NEW d \in 1..n, d - 1 \in S PROVE d \in S
  <2> DEFINE first == n + 1 - d
  <2>1. /\ first \in 1..n /\ first + 1 \in (n + 1 - (d - 1))..(n + 1) /\ first + 1 \in 1..(n + 1)
        /\ \A h \in first..(n + 1) : h = first \/ h \in (n + 1 - (d - 1))..(n + 1)
    BY <1>1
  <2>2. \A h \in (n + 1 - (d - 1))..(n + 1) : \A l \in Nat : Run(h, l) => Stands(h, l)
    BY <1>4
  <2> HIDE DEF n, first
  <2>3. ASSUME NEW l \in Nat, Run(first, l), l # 0 PROVE Stands(first, l)
    <3>1. ~OccursAt(t, text, first)
      <4>1. SUFFICES ASSUME OccursAt(t, text, first) PROVE FALSE
        OBVIOUS
      <4>2. /\ F[first] = Marker \o F[first + Len(t)]
            /\ first + Len(t) \in (first + 1)..(n + 1)
        BY <1>2, <2>1, <4>1
      <4>3. F[first + Len(t)] \in Text
        <5>1. first + Len(t) \in 1..(n + 1)
          BY <1>1, <2>1, <4>2
        <5>2. QED
          BY <1>2, <5>1
      <4>4. F[first][1] = Marker[1] /\ 1 \in DOMAIN Marker
        BY <4>2, <4>3, MarkerIsText DEF Text
      <4>5. Kept(F[first][1])
        BY <2>3
      <4>6. QED
        BY <4>4, <4>5, MarkerIsText
    <3>2. F[first] = <<text[first]>> \o F[first + 1] /\ F[first + 1] \in Text /\ <<text[first]>> \in Text
      BY <1>2, <2>1, <3>1 DEF Text, n
    <3>3. /\ Len(F[first]) = 1 + Len(F[first + 1]) /\ Len(F[first + 1]) \in Nat
          /\ F[first][1] = text[first]
          /\ \A k \in 1..Len(F[first + 1]) : F[first][k + 1] = F[first + 1][k]
      <4>1. PICK u \in Text : u = <<text[first]>> /\ Len(u) = 1 /\ u[1] = text[first]
        <5>1. <<text[first]>> \in Text /\ Len(<<text[first]>>) = 1
          BY <3>2
        <5>2. QED
          BY <5>1
      <4>2. Len(F[first + 1]) \in Nat /\ F[first] = u \o F[first + 1]
        BY <3>2, <4>1 DEF Text
      <4>3. /\ Len(F[first]) = Len(u) + Len(F[first + 1])
            /\ F[first][1] = u[1]
            /\ \A k \in 1..Len(F[first + 1]) : F[first][Len(u) + k] = F[first + 1][k]
        BY <3>2, <4>1, <4>2 DEF Text
      <4>4. \A k \in 1..Len(F[first + 1]) : Len(u) + k = k + 1
        BY <4>1, <4>2
      <4>5. QED
        BY <4>1, <4>2, <4>3, <4>4
    <3>4. l - 1 \in Nat /\ l - 1 <= Len(F[first + 1])
      BY <2>3, <3>3
    <3>5. \A k \in 1..(l - 1) : F[first + 1][k] = F[first][k + 1] /\ k + 1 \in 1..l
      BY <2>3, <3>3, <3>4
    <3>6. Run(first + 1, l - 1)
      BY <2>3, <3>4, <3>5
    <3>7. Stands(first + 1, l - 1)
      <4> HIDE DEF Run, Stands
      <4>1. QED
        BY <2>1, <2>2, <3>4, <3>6
    <3>8. first + l <= n + 1
      BY <1>1, <2>1, <3>4, <3>7 DEF n
    <3>9. ASSUME NEW k \in 1..l PROVE F[first][k] = text[first + k - 1]
      <4>1. CASE k = 1
        <5>1. first + k - 1 = first
          BY <2>1, <4>1, <1>1 DEF n
        <5>2. QED
          BY <3>3, <4>1, <5>1
      <4>2. CASE k # 1
        <5>1. k - 1 \in 1..(l - 1) /\ (k - 1) + 1 = k /\ first + 1 + (k - 1) - 1 = first + k - 1
          BY <2>1, <4>2, <1>1 DEF n
        <5>2. F[first][k] = F[first + 1][k - 1]
          BY <3>5, <5>1
        <5>3. F[first + 1][k - 1] = text[first + 1 + (k - 1) - 1]
          BY <3>7, <5>1
        <5>4. QED
          BY <5>1, <5>2, <5>3
      <4>3. QED
        BY <4>1, <4>2
    <3>10. QED
      BY <3>8, <3>9
  <2>4. Stands(first, 0)
    BY <1>1, <2>1 DEF n
  <2> HIDE DEF Run, Stands
  <2>5. \A h \in first..(n + 1) : \A l \in Nat : Run(h, l) => Stands(h, l)
    BY <2>1, <2>2, <2>3, <2>4
  <2>6. d \in 0..n
    BY <1>1 DEF n
  <2>7. QED
    BY <2>5, <2>6 DEF first
<1>5. n \in S
  <2> HIDE DEF S
  <2>1. 0..n \subseteq S
    BY <1>1, <1>3, <1>4, UpTo
  <2>2. QED
    BY <1>1, <2>1
<1>6. Run(i, m) => Stands(i, m)
  <2>1. n + 1 - n = 1
    BY <1>1
  <2> HIDE DEF n, Run, Stands
  <2>2. \A h \in (n + 1 - n)..(n + 1) : \A l \in Nat : Run(h, l) => Stands(h, l)
    BY <1>5
  <2>3. i \in 1..(n + 1)
    BY DEF n
  <2>4. QED
    BY <2>1, <2>2, <2>3
<1>7. QED
  BY <1>6 DEF F

\* What is told by the result was told by the text, at a place where the scan found no
\* secret.
LEMMA OccurrencesAreOld ==
    ASSUME NEW text \in Text, NEW t \in Secret, t # <<>>, NEW s \in Secret, s # <<>>,
           Told(s, Replaced(text, t))
    PROVE  \E q \in 1..Len(text) : SaidAt(s, text, q) /\ ~OccursAt(t, text, q)
<1> DEFINE n == Len(text)
           F == Scan(text, t)
           Old == \E q \in 1..n : SaidAt(s, text, q) /\ ~OccursAt(t, text, q)
           S == {d \in 0..n : \A h \in (n + 1 - d)..(n + 1) :
                                \A p \in 1..Len(F[h]) : SaidAt(s, F[h], p) => Old}
<1>1. n \in Nat /\ Len(t) \in Nat \ {0} /\ Len(s) \in Nat \ {0}
  BY DEF Text, Secret
<1>2. /\ F[n + 1] = <<>>
      /\ \A h \in 1..n : /\ OccursAt(t, text, h) => /\ h + Len(t) \in (h + 1)..(n + 1)
                                                    /\ F[h] = Marker \o F[h + Len(t)]
                         /\ ~OccursAt(t, text, h) => F[h] = <<text[h]>> \o F[h + 1]
      /\ \A h \in 1..(n + 1) : F[h] \in Text
  BY ScanSteps
<1>3. ASSUME NEW h \in 1..n, ~OccursAt(t, text, h), SaidAt(s, F[h], 1) PROVE Old
  <2>1. F[h] \in Text /\ Len(F[h]) \in Nat
    BY <1>1, <1>2 DEF Text
  <2>2. Len(s) <= Len(F[h]) /\ \A k \in 1..Len(s) : F[h][1 + k - 1].char = s[k]
                                                    /\ Kept(F[h][1 + k - 1])
    BY <1>1, <1>3, <2>1 DEF SaidAt, OccursAt, Kept
  <2>3. \A k \in 1..Len(s) : F[h][k].char = s[k] /\ Kept(F[h][k])
    <3>1. \A k \in 1..Len(s) : 1 + k - 1 = k
      BY <1>1
    <3>2. QED
      BY <2>2, <3>1
  <2>4. h \in 1..(n + 1) /\ Len(s) \in Nat
    BY <1>1
  <2>6. h + Len(s) <= n + 1 /\ \A k \in 1..Len(s) : F[h][k] = text[h + k - 1]
    BY <2>2, <2>3, <2>4, RunsAreKept
  <2>7. SaidAt(s, text, h)
    BY <2>3, <2>6 DEF SaidAt, OccursAt, Kept
  <2>8. QED
    BY <1>3, <2>7
<1> HIDE DEF F, Old
<1>4. 0 \in S
  <2>1. 0 \in 0..n /\ (n + 1 - 0)..(n + 1) = {n + 1}
    BY <1>1
  <2>2. Len(F[n + 1]) = 0
    BY <1>2
  <2> HIDE DEF n
  <2>3. \A h \in (n + 1 - 0)..(n + 1) : \A p \in 1..Len(F[h]) : SaidAt(s, F[h], p) => Old
    BY <2>1, <2>2
  <2>4. QED
    BY <2>1, <2>3
<1>5. ASSUME NEW d \in 1..n, d - 1 \in S PROVE d \in S
  <2> DEFINE first == n + 1 - d
  <2>1. /\ first \in 1..n /\ first + 1 \in (n + 1 - (d - 1))..(n + 1) /\ first + 1 \in 1..(n + 1)
        /\ \A h \in (first + 1)..(n + 1) : h \in (n + 1 - (d - 1))..(n + 1) /\ h \in 1..(n + 1)
        /\ \A h \in first..(n + 1) : h = first \/ h \in (n + 1 - (d - 1))..(n + 1)
    BY <1>1
  <2>2. \A h \in (n + 1 - (d - 1))..(n + 1) :
          \A p \in 1..Len(F[h]) : SaidAt(s, F[h], p) => Old
    BY <1>5
  <2>3. d \in 0..n
    BY <1>1
  <2> HIDE DEF n, first
  <2>4. ASSUME NEW p \in 1..Len(F[first]), SaidAt(s, F[first], p) PROVE Old
    \* An occurrence after a prefix is an occurrence in what follows.
    <3>1. ASSUME NEW u \in Text, NEW v \in Text, F[first] = u \o v, p > Len(u)
          PROVE  p - Len(u) \in 1..Len(v) /\ SaidAt(s, v, p - Len(u))
      <4>1. /\ Len(u) \in Nat /\ Len(v) \in Nat /\ Len(F[first]) = Len(u) + Len(v)
            /\ \A k \in 1..Len(v) : F[first][Len(u) + k] = v[k]
        BY <3>1 DEF Text
      <4>2. p - Len(u) \in 1..Len(v)
        BY <3>1, <4>1
      <4>3. p + Len(s) <= Len(F[first]) + 1 /\ \A k \in 1..Len(s) : F[first][p + k - 1].char = s[k]
                                                                  /\ Kept(F[first][p + k - 1])
        BY <2>4 DEF SaidAt, OccursAt, Kept
      <4>4. p - Len(u) + Len(s) <= Len(v) + 1
        BY <1>1, <4>1, <4>2, <4>3
      <4>5. ASSUME NEW k \in 1..Len(s) PROVE v[p - Len(u) + k - 1].char = s[k] /\ Kept(v[p - Len(u) + k - 1])
        <5>1. p - Len(u) + k - 1 \in 1..Len(v) /\ Len(u) + (p - Len(u) + k - 1) = p + k - 1
          BY <1>1, <4>1, <4>2, <4>4
        <5>2. QED
          BY <4>1, <4>3, <5>1
      <4>6. QED
        BY <4>2, <4>4, <4>5 DEF SaidAt, OccursAt, Kept
    <3>2. CASE OccursAt(t, text, first)
      <4> DEFINE next == first + Len(t)
      <4>1. /\ F[first] = Marker \o F[next] /\ next \in (first + 1)..(n + 1)
        BY <1>2, <2>1, <3>2
      <4>2. F[next] \in Text /\ next \in (n + 1 - (d - 1))..(n + 1)
        BY <1>2, <2>1, <4>1
      <4>3. Kept(F[first][p])
        <5>1. Kept(F[first][p + 1 - 1])
          BY <1>1, <2>4 DEF SaidAt, Kept
        <5>2. p + 1 - 1 = p
          OBVIOUS
        <5>3. QED
          BY <5>1, <5>2
      <4>4. Marker \in Text /\ Len(Marker) \in Nat
        BY MarkerIsText DEF Text
      <4>5. p > Len(Marker)
        <5>1. SUFFICES ASSUME p <= Len(Marker) PROVE FALSE
          BY <4>4
        <5>2. p \in DOMAIN Marker /\ F[first][p] = Marker[p]
          BY <4>1, <4>2, <4>4, <5>1, MarkerIsText DEF Text
        <5>3. QED
          BY <4>3, <5>2, MarkerIsText
      <4>6. p - Len(Marker) \in 1..Len(F[next]) /\ SaidAt(s, F[next], p - Len(Marker))
        BY <3>1, <4>1, <4>2, <4>4, <4>5
      <4>7. QED
        BY <2>2, <4>2, <4>6
    <3>3. CASE ~OccursAt(t, text, first) /\ p = 1
      BY <1>3, <2>1, <2>4, <3>3
    <3>4. CASE ~OccursAt(t, text, first) /\ p # 1
      <4>1. F[first] = <<text[first]>> \o F[first + 1] /\ F[first + 1] \in Text /\ <<text[first]>> \in Text
        BY <1>2, <2>1, <3>4 DEF Text, n
      <4>2. <<text[first]>> \in Text /\ Len(<<text[first]>>) = 1 /\ p > 1
        BY <3>4, <4>1
      <4>3. p - 1 \in 1..Len(F[first + 1]) /\ SaidAt(s, F[first + 1], p - 1)
        BY <3>1, <4>1, <4>2
      <4>4. QED
        BY <2>1, <2>2, <4>3
    <3>5. QED
      BY <3>2, <3>3, <3>4
  <2>5. \A h \in first..(n + 1) : \A p \in 1..Len(F[h]) : SaidAt(s, F[h], p) => Old
    BY <2>1, <2>2, <2>4
  <2>6. QED
    BY <2>3, <2>5 DEF first
<1>6. \A p \in 1..Len(F[1]) : SaidAt(s, F[1], p) => Old
  <2>1. n \in 0..n /\ n + 1 - n = 1 /\ 1 \in 1..(n + 1)
    BY <1>1
  <2>2. n \in S
    <3> HIDE DEF S
    <3>1. 0..n \subseteq S
      BY <1>1, <1>4, <1>5, UpTo
    <3>2. QED
      BY <2>1, <3>1
  <2> HIDE DEF n
  <2>3. \A h \in (n + 1 - n)..(n + 1) : \A p \in 1..Len(F[h]) : SaidAt(s, F[h], p) => Old
    BY <2>2
  <2>4. QED
    BY <2>1, <2>3
<1>7. \E p \in 1..Len(F[1]) : SaidAt(s, F[1], p)
  BY ReplacedIsScan DEF Told, F
<1>8. QED
  BY <1>6, <1>7 DEF Old

\* Once a secret is replaced it is not told, and replacing another one does not bring it
\* back.
LEMMA ReplacedHides ==
    ASSUME NEW text \in Text, NEW t \in Secret, t # <<>>
    PROVE  /\ Replaced(text, t) \in Text
           /\ ~Told(t, Replaced(text, t))
           /\ \A s \in Secret : s # <<>> /\ ~Told(s, text) => ~Told(s, Replaced(text, t))
<1>1. Replaced(text, t) \in Text
  <2>1. 1 \in 1..(Len(text) + 1)
    BY DEF Text
  <2>2. QED
    BY <2>1, ScanSteps, ReplacedIsScan
<1>2. ~Told(t, Replaced(text, t))
  BY OccurrencesAreOld DEF SaidAt
<1>3. ASSUME NEW s \in Secret, s # <<>>, ~Told(s, text) PROVE ~Told(s, Replaced(text, t))
  BY <1>3, OccurrencesAreOld DEF Told
<1>4. QED
  BY <1>1, <1>2, <1>3

------------------------------------------------------------------------------
(* All secrets, one after the other.                                        *)

\* The functions that start with base and go on step by step; there is one.
Courses(X, base, n, step) ==
    {g \in [0..n -> X] : \A k \in 0..n : g[k] = IF k = 0 THEN base ELSE step[k][g[k - 1]]}

LEMMA CourseExists ==
    ASSUME NEW X, NEW base \in X, NEW n \in Nat, NEW step \in [1..n -> [X -> X]]
    PROVE  Courses(X, base, n, step) # {}
<1> DEFINE S == {d \in 0..n : \E g \in [0..d -> X] :
                                \A k \in 0..d : g[k] = IF k = 0 THEN base ELSE step[k][g[k - 1]]}
<1>1. 0 \in S
  <2> DEFINE g == [k \in 0..0 |-> base]
  <2>1. g \in [0..0 -> X] /\ \A k \in 0..0 : g[k] = IF k = 0 THEN base ELSE step[k][g[k - 1]]
    OBVIOUS
  <2> HIDE DEF g
  <2>2. QED
    BY <2>1
<1>2. ASSUME NEW d \in 1..n, d - 1 \in S PROVE d \in S
  <2>1. PICK g \in [0..(d - 1) -> X] :
           \A k \in 0..(d - 1) : g[k] = IF k = 0 THEN base ELSE step[k][g[k - 1]]
    BY <1>2
  <2> DEFINE h == [k \in 0..d |-> IF k = d THEN step[d][g[d - 1]] ELSE g[k]]
  <2>2. g[d - 1] \in X /\ step[d][g[d - 1]] \in X
    OBVIOUS
  <2>3. h \in [0..d -> X] /\ h[d] = step[d][g[d - 1]] /\ \A k \in 0..(d - 1) : h[k] = g[k]
    BY <2>2
  <2> HIDE DEF h
  <2>4. ASSUME NEW k \in 0..d PROVE h[k] = IF k = 0 THEN base ELSE step[k][h[k - 1]]
    <3>1. CASE k = d
      <4>1. k # 0 /\ h[k - 1] = g[d - 1]
        BY <2>3, <3>1
      <4>2. QED
        BY <2>3, <3>1, <4>1
    <3>2. CASE k # d /\ k # 0
      <4>1. k \in 0..(d - 1) /\ k - 1 \in 0..(d - 1)
        BY <3>2
      <4>2. QED
        BY <2>1, <2>3, <3>2, <4>1
    <3>3. CASE k # d /\ k = 0
      <4>1. 0 \in 0..(d - 1)
        OBVIOUS
      <4>2. QED
        BY <2>1, <2>3, <3>3, <4>1
    <3>4. QED
      BY <3>1, <3>2, <3>3
  <2>5. QED
    BY <2>3, <2>4
<1>3. n \in S
  <2> HIDE DEF S
  <2>1. 0..n \subseteq S
    BY <1>1, <1>2, UpTo
  <2>2. QED
    BY <2>1
<1>4. QED
  BY <1>3 DEF Courses

\* What redaction has made of a text after some of the secrets.
After(text, secrets) ==
    LET after[k \in 0..Len(secrets)] ==
            IF k = 0 THEN text
            ELSE IF secrets[k] = <<>> THEN after[k - 1]
            ELSE Replaced(after[k - 1], secrets[k])
    IN  after

LEMMA RedactStringIsAfter ==
    \A text, secrets : RedactString(text, secrets) = After(text, secrets)[Len(secrets)]
BY DEF RedactString, After

LEMMA AfterSteps ==
    ASSUME NEW text \in Text, NEW secrets \in Seq(Secret)
    PROVE  \A k \in 0..Len(secrets) :
              After(text, secrets)[k] =
                 IF k = 0 THEN text
                 ELSE IF secrets[k] = <<>> THEN After(text, secrets)[k - 1]
                 ELSE Replaced(After(text, secrets)[k - 1], secrets[k])
<1> DEFINE n == Len(secrets)
           A == After(text, secrets)
           body(g, k) == IF k = 0 THEN text
                         ELSE IF secrets[k] = <<>> THEN g[k - 1]
                         ELSE Replaced(g[k - 1], secrets[k])
           step == [k \in 1..n |-> [x \in Text |->
                       IF secrets[k] = <<>> THEN x ELSE Replaced(x, secrets[k])]]
<1>1. n \in Nat /\ \A k \in 1..n : secrets[k] \in Secret
  OBVIOUS
<1>2. step \in [1..n -> [Text -> Text]]
  <2>1. ASSUME NEW k \in 1..n, NEW x \in Text
        PROVE  (IF secrets[k] = <<>> THEN x ELSE Replaced(x, secrets[k])) \in Text
    BY <1>1, <2>1, ReplacedHides
  <2>2. QED
    BY <2>1
<1>3. \A k \in 1..n, x \in Text :
         step[k][x] = IF secrets[k] = <<>> THEN x ELSE Replaced(x, secrets[k])
  OBVIOUS
<1> HIDE DEF step, n
<1>4. PICK g \in [0..n -> Text] : \A k \in 0..n : g[k] = IF k = 0 THEN text ELSE step[k][g[k - 1]]
  <2>1. Courses(Text, text, n, step) # {}
    BY <1>1, <1>2, CourseExists
  <2>2. QED
    BY <2>1 DEF Courses
<1>5. ASSUME NEW k \in 0..n PROVE g[k] = body(g, k)
  <2>1. CASE k = 0
    BY <1>4, <2>1
  <2>2. CASE k # 0
    <3>1. k \in 1..n /\ k - 1 \in 0..n
      BY <1>1, <2>2
    <3>2. g[k - 1] \in Text
      BY <1>4, <3>1
    <3>3. QED
      BY <1>3, <1>4, <2>2, <3>1, <3>2
  <2>3. QED
    BY <2>1, <2>2
<1> HIDE DEF body
<1>6. g = [k \in 0..n |-> body(g, k)]
  BY <1>4, <1>5
<1>7. A = CHOOSE f : f = [k \in 0..n |-> body(f, k)]
  BY DEF After, body, n
<1> HIDE DEF A
<1>8. A = [k \in 0..n |-> body(A, k)]
  BY <1>6, <1>7
<1>9. \A k \in 0..n : A[k] = body(A, k)
  BY <1>8
<1>10. QED
  BY <1>9 DEF A, body, n

\* A redacted text tells none of the secrets.
LEMMA RedactedHides ==
    ASSUME NEW text \in Text, NEW secrets \in Seq(Secret), NEW i \in DOMAIN secrets, secrets[i] # <<>>
    PROVE  ~Told(secrets[i], RedactString(text, secrets))
<1> DEFINE n == Len(secrets)
           A == After(text, secrets)
           S == {d \in 0..n : A[d] \in Text /\ (i <= d => ~Told(secrets[i], A[d]))}
<1>1. n \in Nat /\ i \in 1..n /\ \A k \in 1..n : secrets[k] \in Secret
  OBVIOUS
<1>2. \A k \in 0..n : A[k] = IF k = 0 THEN text
                             ELSE IF secrets[k] = <<>> THEN A[k - 1]
                             ELSE Replaced(A[k - 1], secrets[k])
  BY AfterSteps
<1> HIDE DEF A, n
<1>3. 0 \in S
  BY <1>1, <1>2
<1>4. ASSUME NEW d \in 1..n, d - 1 \in S PROVE d \in S
  <2>1. A[d - 1] \in Text /\ (i <= d - 1 => ~Told(secrets[i], A[d - 1]))
    BY <1>4
  <2>2. d \in 0..n /\ d # 0 /\ (i <= d => i = d \/ i <= d - 1)
    BY <1>1
  <2>3. A[d] = IF secrets[d] = <<>> THEN A[d - 1] ELSE Replaced(A[d - 1], secrets[d])
    BY <1>2, <2>2
  <2>4. CASE secrets[d] = <<>>
    <3>1. i # d
      BY <2>4
    <3>2. QED
      BY <2>1, <2>2, <2>3, <2>4, <3>1
  <2>5. CASE secrets[d] # <<>>
    <3>1. secrets[d] \in Secret /\ secrets[i] \in Secret
      BY <1>1
    <3>2. A[d] \in Text
      BY <2>1, <2>3, <2>5, <3>1, ReplacedHides
    <3>3. i <= d => ~Told(secrets[i], A[d])
      BY <2>1, <2>2, <2>3, <2>5, <3>1, ReplacedHides
    <3>4. QED
      BY <2>2, <3>2, <3>3
  <2>6. QED
    BY <2>4, <2>5
<1>5. n \in S
  <2> HIDE DEF S
  <2>1. 0..n \subseteq S
    BY <1>1, <1>3, <1>4, UpTo
  <2>2. QED
    BY <1>1, <2>1
<1>6. ~Told(secrets[i], A[n])
  BY <1>1, <1>5
<1>7. QED
  BY <1>6, RedactStringIsAfter DEF A, n

\* Nor does a marker.
LEMMA MarkerIsClean ==
    ASSUME NEW s \in Secret, s # <<>>
    PROVE  ~Told(s, Marker)
<1> SUFFICES ASSUME NEW p \in 1..Len(Marker), SaidAt(s, Marker, p) PROVE FALSE
  BY DEF Told
<1>1. 1 \in 1..Len(s)
  BY DEF Secret
<1>2. Kept(Marker[p + 1 - 1])
  BY <1>1 DEF SaidAt, Kept
<1>3. p + 1 - 1 = p
  OBVIOUS
<1>4. QED
  BY <1>2, <1>3, MarkerIsText

------------------------------------------------------------------------------
(* Whole results, and joined errors.                                        *)

LEMMA ShownPaths ==
    ASSUME NEW path \in Seq(STRING \cup Nat)
    PROVE  /\ ~Hidden(path) => Shown(path) = path
           /\ Hidden(path) => Hidden(Shown(path))
<1>1. ~Hidden(path) => Shown(path) = path
  BY DEF Shown
<1>2. ASSUME Hidden(path) PROVE Hidden(Shown(path))
  <2> DEFINE T == {i \in DOMAIN path : path[i] \in SENSITIVE_KEYS}
             First(i) == path[i] \in SENSITIVE_KEYS
                         /\ \A j \in 1..(i - 1) : path[j] \notin SENSITIVE_KEYS
             c == CHOOSE i \in DOMAIN path : First(i)
  <2>1. T \in SUBSET Nat /\ T # {}
    BY <1>2 DEF Hidden
  <2>2. PICK i \in T : \A j \in T : i <= j
    <3> HIDE DEF T
    <3>1. QED
      BY <2>1, Least
  <2>3. \E i_1 \in DOMAIN path : First(i_1)
    <3>1. i \in DOMAIN path /\ path[i] \in SENSITIVE_KEYS
      BY <2>2
    <3>2. ASSUME NEW j \in 1..(i - 1) PROVE path[j] \notin SENSITIVE_KEYS
      <4>1. j \in DOMAIN path /\ ~(i <= j)
        BY <2>2
      <4>2. QED
        BY <2>2, <4>1
    <3>3. QED
      BY <3>1, <3>2
  <2>4. c \in DOMAIN path /\ path[c] \in SENSITIVE_KEYS
    BY <2>3
  <2>5. Shown(path) = SubSeq(path, 1, c)
    BY <1>2 DEF Shown
  <2> HIDE DEF c
  <2>6. c \in 1..Len(path) /\ c \in DOMAIN SubSeq(path, 1, c) /\ SubSeq(path, 1, c)[c] = path[c]
    BY <2>4
  <2>7. QED
    BY <2>4, <2>5, <2>6 DEF Hidden
<1>3. QED
  BY <1>1, <1>2

\* A redacted result tells none of the secrets.
LEMMA RedactHides ==
    ASSUME NEW D \in SUBSET Seq(STRING \cup Nat), NEW data \in [D -> Text],
           NEW secrets \in Seq(Secret), NEW i \in DOMAIN secrets, secrets[i] # <<>>,
           NEW path \in DOMAIN Redact(data, secrets)
    PROVE  ~Told(secrets[i], Redact(data, secrets)[path])
<1>1. /\ path \in {Shown(p) : p \in D}
      /\ Redact(data, secrets)[path] = IF Hidden(path) THEN Marker
                                       ELSE RedactString(data[path], secrets)
  BY DEF Redact
<1>2. CASE Hidden(path)
  BY <1>1, <1>2, MarkerIsClean
<1>3. CASE ~Hidden(path)
  <2>1. PICK p \in D : path = Shown(p)
    BY <1>1
  <2>2. path = p
    BY <1>3, <2>1, ShownPaths
  <2>3. data[path] \in Text
    BY <2>2
  <2>4. QED
    BY <1>1, <1>3, <2>3, RedactedHides
<1>4. QED
  BY <1>2, <1>3

\* What "; ".join has made of the first errors.
Upto(errors) ==
    LET upto[k \in 0..Len(errors)] ==
            IF k = 0 THEN <<>>
            ELSE IF k = 1 THEN errors[1]
            ELSE upto[k - 1] \o Between \o errors[k]
    IN  upto

LEMMA Concatenation == \A u, v \in Secret : u \o Between \o v \in Secret
<1> SUFFICES ASSUME NEW u \in Secret, NEW v \in Secret PROVE u \o Between \o v \in Secret
  OBVIOUS
<1>1. u \o Between \in Secret
  BY ReportAssumption DEF Secret
<1>2. QED
  BY <1>1 DEF Secret

LEMMA JoinedIsPlain ==
    ASSUME NEW errors \in Seq(Secret)
    PROVE  Joined(errors) \in Secret
<1> DEFINE n == Len(errors)
           U == Upto(errors)
           body(g, k) == IF k = 0 THEN <<>>
                         ELSE IF k = 1 THEN errors[1]
                         ELSE g[k - 1] \o Between \o errors[k]
           step == [k \in 1..n |-> [x \in Secret |->
                       IF k = 1 THEN errors[1] ELSE x \o Between \o errors[k]]]
<1>1. n \in Nat /\ \A k \in 1..n : errors[k] \in Secret
  OBVIOUS
<1>2. step \in [1..n -> [Secret -> Secret]]
  <2>1. ASSUME NEW k \in 1..n, NEW x \in Secret
        PROVE  (IF k = 1 THEN errors[1] ELSE x \o Between \o errors[k]) \in Secret
    BY <1>1, <2>1, Concatenation
  <2>2. QED
    BY <2>1
<1>3. \A k \in 1..n, x \in Secret :
         step[k][x] = IF k = 1 THEN errors[1] ELSE x \o Between \o errors[k]
  OBVIOUS
<1> HIDE DEF step, n
<1>4. PICK g \in [0..n -> Secret] : \A k \in 0..n : g[k] = IF k = 0 THEN <<>> ELSE step[k][g[k - 1]]
  <2>1. <<>> \in Secret
    BY DEF Secret
  <2>2. Courses(Secret, <<>>, n, step) # {}
    BY <1>1, <1>2, <2>1, CourseExists
  <2>3. QED
    BY <2>2 DEF Courses
<1>5. ASSUME NEW k \in 0..n PROVE g[k] = body(g, k)
  <2>1. CASE k = 0
    BY <1>4, <2>1
  <2>2. CASE k # 0
    <3>1. k \in 1..n /\ k - 1 \in 0..n
      BY <1>1, <2>2
    <3>2. g[k - 1] \in Secret
      BY <1>4, <3>1
    <3>3. QED
      BY <1>3, <1>4, <2>2, <3>1, <3>2
  <2>3. QED
    BY <2>1, <2>2
<1> HIDE DEF body
<1>6. g = [k \in 0..n |-> body(g, k)]
  BY <1>4, <1>5
<1>7. U = CHOOSE f : f = [k \in 0..n |-> body(f, k)]
  BY DEF Upto, body, n
<1> HIDE DEF U
<1>8. U = [k \in 0..n |-> body(U, k)]
  BY <1>6, <1>7
<1> DEFINE S == {k \in 0..n : U[k] \in Secret}
<1>9. \A k \in 0..n : U[k] = body(U, k)
  BY <1>8
<1>10. 0 \in S
  <2>1. 0 \in 0..n /\ <<>> \in Secret
    BY <1>1 DEF Secret
  <2>2. U[0] = <<>>
    BY <1>9, <2>1 DEF body
  <2>3. QED
    BY <2>1, <2>2
<1>11. ASSUME NEW k \in 1..n, k - 1 \in S PROVE k \in S
  <2>1. k \in 0..n /\ k # 0 /\ errors[k] \in Secret /\ (k = 1 => errors[1] \in Secret)
    BY <1>1
  <2>2. U[k] = IF k = 1 THEN errors[1] ELSE U[k - 1] \o Between \o errors[k]
    BY <1>9, <2>1 DEF body
  <2>3. U[k - 1] \in Secret
    BY <1>11
  <2>4. U[k] \in Secret
    BY <2>1, <2>2, <2>3, Concatenation
  <2>5. QED
    BY <2>1, <2>4
<1>12. n \in S
  <2> HIDE DEF S
  <2>1. 0..n \subseteq S
    BY <1>1, <1>10, <1>11, UpTo
  <2>2. QED
    BY <1>1, <2>1
<1>13. Joined(errors) = U[n]
  BY DEF Joined, Upto, U, n
<1>14. QED
  BY <1>12, <1>13

------------------------------------------------------------------------------
(* The secrets of a call.                                                   *)

\* Whatever is submitted as a secret is sent under a name that the transport's list has.
LEMMA SecretsHaveSensitiveNames ==
    \A op \in DOMAIN ParametersOf :
        /\ Len(ParametersOf[op]) \in Nat /\ DOMAIN ParametersOf[op] = 1..Len(ParametersOf[op])
        /\ \A i \in DOMAIN ParametersOf[op] :
              ParametersOf[op][i].kind \in SecretKinds
              => ParametersOf[op][i].uapi_name \in SENSITIVE_PARAMETER_NAMES
<1> DEFINE good(ps) == Len(ps) \in Nat /\ DOMAIN ps = 1..Len(ps)
                       /\ \A i \in DOMAIN ps : ps[i].kind \in SecretKinds
                                               => ps[i].uapi_name \in SENSITIVE_PARAMETER_NAMES
<1>1. good(ParametersOf["write"])
  BY DEF ParametersOf, Param, SecretKinds, SENSITIVE_PARAMETER_NAMES
<1>2. good(ParametersOf["install"])
  BY DEF ParametersOf, Param, SecretKinds, SENSITIVE_PARAMETER_NAMES
<1>3. good(ParametersOf["create_user"])
  BY DEF ParametersOf, Param, SecretKinds, SENSITIVE_PARAMETER_NAMES
<1>4. good(ParametersOf["remove"])
  BY DEF ParametersOf, Param, SecretKinds, SENSITIVE_PARAMETER_NAMES
<1>5. DOMAIN ParametersOf = {"write", "install", "create_user", "remove"}
  BY DEF ParametersOf
<1> HIDE DEF good
<1>6. \A op \in DOMAIN ParametersOf : good(ParametersOf[op])
  BY <1>1, <1>2, <1>3, <1>4, <1>5
<1>7. QED
  BY <1>6 DEF good

\* What is submitted is not empty.
LEMMA SubmittedIsSecret ==
    ASSUME NEW op \in DOMAIN ParametersOf, NEW v \in Submittable(ParametersOf[op])
    PROVE  \A name \in DOMAIN v : v[name] \in Secret /\ v[name] # <<>>
<1>1. PICK names : v \in [names -> Texts]
  BY DEF Submittable
<1>2. \A text \in Texts : text \in Secret /\ text # <<>>
  BY ReportAssumption DEF Secret
<1>3. QED
  BY <1>1, <1>2

\* Both lists hold the token and every secret that was submitted.
LEMMA ListsAreComplete ==
    ASSUME NEW op \in DOMAIN ParametersOf, NEW v \in Submittable(ParametersOf[op]), NEW t \in Tokens,
           NEW secrets \in {<<t>> \o SubmittedSecrets(ParametersOf[op], v),
                            <<t>> \o RequestSecrets(ParametersOf[op], v)}
    PROVE  /\ secrets \in Seq(Secret)
           /\ 1 \in DOMAIN secrets /\ secrets[1] = t
           /\ \A q \in Range(ParametersOf[op]) :
                 q.kind \in SecretKinds /\ q.name \in DOMAIN v
                 => \E i \in DOMAIN secrets : secrets[i] = v[q.name]
<1> DEFINE ps == ParametersOf[op]
<1>1. /\ Len(ps) \in Nat /\ DOMAIN ps = 1..Len(ps)
      /\ \A i \in DOMAIN ps : ps[i].kind \in SecretKinds
                              => ps[i].uapi_name \in SENSITIVE_PARAMETER_NAMES
  BY SecretsHaveSensitiveNames
<1>2. \A name \in DOMAIN v : v[name] \in Secret
  BY SubmittedIsSecret
<1>3. t \in Secret
  BY ReportAssumption DEF Secret
<1> HIDE DEF ps
<1>4. PICK rest : /\ secrets = <<t>> \o rest
                  /\ rest \in Seq(Secret)
                  /\ \A i \in DOMAIN ps : /\ i \in DOMAIN rest
                                          /\ ps[i].kind \in SecretKinds /\ ps[i].name \in DOMAIN v
                                             => rest[i] = v[ps[i].name]
  <2>1. ASSUME NEW test,
               NEW rest, rest = [i \in DOMAIN ps |-> IF ps[i].name \in DOMAIN v /\ i \in test
                                                     THEN v[ps[i].name] ELSE <<>>],
               \A i \in DOMAIN ps : ps[i].kind \in SecretKinds => i \in test
        PROVE  /\ rest \in Seq(Secret)
               /\ \A i \in DOMAIN ps : /\ i \in DOMAIN rest
                                       /\ ps[i].kind \in SecretKinds /\ ps[i].name \in DOMAIN v
                                          => rest[i] = v[ps[i].name]
    <3>1. <<>> \in Secret
      BY DEF Secret
    <3>2. rest \in [DOMAIN ps -> Secret]
      BY <1>2, <2>1, <3>1
    <3>3. rest \in Seq(Secret)
      BY <1>1, <3>2
    <3>4. QED
      BY <2>1, <3>3
  <2>2. CASE secrets = <<t>> \o SubmittedSecrets(ps, v)
    <3> DEFINE test == {i \in DOMAIN ps : ps[i].kind \in SecretKinds}
    <3>1. PICK rest : rest = SubmittedSecrets(ps, v)
      OBVIOUS
    <3>2. rest = [i \in DOMAIN ps |-> IF ps[i].name \in DOMAIN v /\ i \in test
                                      THEN v[ps[i].name] ELSE <<>>]
      BY <3>1 DEF SubmittedSecrets, Given
    <3>3. \A i \in DOMAIN ps : ps[i].kind \in SecretKinds => i \in test
      OBVIOUS
    <3> HIDE DEF test
    <3>4. /\ rest \in Seq(Secret)
          /\ \A i \in DOMAIN ps : /\ i \in DOMAIN rest
                                  /\ ps[i].kind \in SecretKinds /\ ps[i].name \in DOMAIN v
                                     => rest[i] = v[ps[i].name]
      BY <2>1, <3>2, <3>3
    <3>5. QED
      BY <2>2, <3>1, <3>4
  <2>3. CASE secrets = <<t>> \o RequestSecrets(ps, v)
    <3> DEFINE test == {i \in DOMAIN ps : ps[i].uapi_name \in SENSITIVE_PARAMETER_NAMES}
    <3>1. PICK rest : rest = RequestSecrets(ps, v)
      OBVIOUS
    <3>2. rest = [i \in DOMAIN ps |-> IF ps[i].name \in DOMAIN v /\ i \in test
                                      THEN v[ps[i].name] ELSE <<>>]
      BY <3>1 DEF RequestSecrets, Given
    <3>3. \A i \in DOMAIN ps : ps[i].kind \in SecretKinds => i \in test
      BY <1>1
    <3> HIDE DEF test
    <3>4. /\ rest \in Seq(Secret)
          /\ \A i \in DOMAIN ps : /\ i \in DOMAIN rest
                                  /\ ps[i].kind \in SecretKinds /\ ps[i].name \in DOMAIN v
                                     => rest[i] = v[ps[i].name]
      BY <2>1, <3>2, <3>3
    <3>5. QED
      BY <2>3, <3>1, <3>4
  <2>4. QED
    BY <2>2, <2>3 DEF ps
<1>5. /\ secrets \in Seq(Secret) /\ Len(secrets) = 1 + Len(rest) /\ secrets[1] = t
      /\ \A i \in DOMAIN rest : 1 + i \in DOMAIN secrets /\ secrets[1 + i] = rest[i]
  BY <1>3, <1>4
<1>6. ASSUME NEW q \in Range(ps), q.kind \in SecretKinds, q.name \in DOMAIN v
      PROVE  \E i \in DOMAIN secrets : secrets[i] = v[q.name]
  <2>1. PICK i \in DOMAIN ps : q = ps[i]
    BY <1>6 DEF Range
  <2>2. i \in DOMAIN rest /\ rest[i] = v[q.name]
    BY <1>4, <1>6, <2>1
  <2>3. QED
    BY <1>5, <2>2
<1>7. 1 \in DOMAIN secrets
  BY <1>4, <1>5
<1>8. QED
  BY <1>5, <1>6, <1>7 DEF ps


------------------------------------------------------------------------------
(* The reports.                                                             *)

\* The call keeps what was submitted, and reports once, when it is over.
ReportInv ==
    /\ operation \in DOMAIN ParametersOf
    /\ values \in Submittable(ParametersOf[operation])
    /\ token \in Tokens
    /\ pc # "done" => shown = <<>>
    /\ NoSecretIsReported

\* A report that has nothing in it keeps everything.
LEMMA NothingShown == shown = <<>> => NoSecretIsReported
BY DEF NoSecretIsReported

LEMMA ReportInitInv == ReportInit => ReportInv
BY NothingShown DEF ReportInit, ReportInv

LEMMA SilentInv == ReportInv /\ (Silent \/ Fixed) => ReportInv'
<1> SUFFICES ASSUME ReportInv, Silent \/ Fixed PROVE ReportInv'
  OBVIOUS
<1>1. shown = <<>> /\ UNCHANGED <<submitted, shown>>
  BY DEF ReportInv, Silent, Fixed, Send, Redirect, Fail, Garbled, Answer
<1>2. shown' = <<>>
  BY <1>1
<1>3. NoSecretIsReported'
  BY <1>2 DEF NoSecretIsReported
<1>4. QED
  BY <1>1, <1>2, <1>3 DEF ReportInv, submitted

LEMMA NetworkFailsInv == ReportInv /\ NetworkFails => ReportInv'
<1> SUFFICES ASSUME ReportInv, NetworkFails PROVE ReportInv'
  OBVIOUS
<1>1. PICK reason \in Messages :
         shown' = [path \in {<<"reason">>} |-> RedactString(Said(reason), <<token>>)]
  BY DEF NetworkFails
<1>2. pc' = "done" /\ result' = "transport" /\ UNCHANGED submitted
  BY DEF NetworkFails, Fail, Return
<1>3. ~Told(token, RedactString(Said(reason), <<token>>))
  <2>1. Said(reason) \in Text /\ token \in Secret /\ token # <<>>
    BY ReportAssumption, SaidIsText DEF ReportInv, Secret
  <2>2. PICK secrets \in Seq(Secret) : secrets = <<token>> /\ 1 \in DOMAIN secrets /\ secrets[1] = token
    <3>1. <<token>> \in Seq(Secret)
      BY <2>1
    <3>2. 1 \in DOMAIN <<token>> /\ <<token>>[1] = token
      OBVIOUS
    <3>3. QED
      BY <3>1, <3>2
  <2>3. ~Told(secrets[1], RedactString(Said(reason), secrets))
    BY <2>1, <2>2, RedactedHides
  <2>4. QED
    BY <2>2, <2>3
<1>4. token' = token /\ \A path \in DOMAIN shown' : ~Told(token, shown'[path])
  BY <1>1, <1>2, <1>3 DEF submitted
<1>5. NoSecretIsReported'
  BY <1>2, <1>4 DEF NoSecretIsReported, Told, SaidAt, OccursAt
<1>6. QED
  BY <1>2, <1>5 DEF ReportInv, submitted

\* A list that has the token and every secret, and texts from which all that the
\* list has is gone: the report is as it should be.
LEMMA CleanReport ==
    ASSUME ReportInv, UNCHANGED submitted, pc' = "done", NEW secrets,
           1 \in DOMAIN secrets, secrets[1] = token,
           \A q \in Range(ParametersOf[operation]) :
               q.kind \in SecretKinds /\ q.name \in DOMAIN values
               => \E i \in DOMAIN secrets : secrets[i] = values[q.name],
           \A path \in DOMAIN shown', i \in DOMAIN secrets :
               secrets[i] # <<>> => ~Told(secrets[i], shown'[path])
    PROVE  ReportInv'
<1>1. operation' = operation /\ values' = values /\ token' = token
  BY DEF submitted
<1>2. token # <<>>
  BY ReportAssumption DEF ReportInv
<1>3. \A path \in DOMAIN shown' : ~Told(token, shown'[path])
  BY <1>2
<1>4. ASSUME NEW path \in DOMAIN shown', NEW q \in Range(ParametersOf[operation]),
             q.kind \in SecretKinds, q.name \in DOMAIN values
      PROVE  ~Told(values[q.name], shown'[path])
  <2>1. values[q.name] # <<>>
    BY <1>4, SubmittedIsSecret DEF ReportInv
  <2>2. PICK i \in DOMAIN secrets : secrets[i] = values[q.name]
    BY <1>4
  <2>3. QED
    BY <2>1, <2>2
<1>5. NoSecretIsReported'
  BY <1>1, <1>3, <1>4 DEF NoSecretIsReported
<1>6. QED
  BY <1>1, <1>5 DEF ReportInv

LEMMA SucceedInv == ReportInv /\ Succeed => ReportInv'
<1> SUFFICES ASSUME ReportInv, Succeed PROVE ReportInv'
  OBVIOUS
<1> DEFINE secrets == <<token>> \o SubmittedSecrets(ParametersOf[operation], values)
<1>1. PICK data \in [DataPaths -> {Said(message) : message \in Messages}] : shown' = Redact(data, secrets)
  BY DEF Succeed
<1>2. pc' = "done" /\ UNCHANGED submitted
  BY DEF Succeed, Answer, Return
<1>3. /\ secrets \in Seq(Secret) /\ 1 \in DOMAIN secrets /\ secrets[1] = token
      /\ \A q \in Range(ParametersOf[operation]) :
            q.kind \in SecretKinds /\ q.name \in DOMAIN values
            => \E i \in DOMAIN secrets : secrets[i] = values[q.name]
  BY ListsAreComplete DEF ReportInv
<1>4. DataPaths \in SUBSET Seq(STRING \cup Nat) /\ data \in [DataPaths -> Text]
  <2>1. {Said(message) : message \in Messages} \subseteq Text
    BY ReportAssumption, SaidIsText DEF Secret
  <2>2. QED
    BY <2>1, ReportAssumption
<1> HIDE DEF secrets
<1>5. \A path \in DOMAIN shown', i \in DOMAIN secrets :
         secrets[i] # <<>> => ~Told(secrets[i], shown'[path])
  BY <1>1, <1>3, <1>4, RedactHides
<1>6. QED
  BY <1>2, <1>3, <1>5, CleanReport

LEMMA RefusedInv == ReportInv /\ Refused => ReportInv'
<1> SUFFICES ASSUME ReportInv, Refused PROVE ReportInv'
  OBVIOUS
<1> DEFINE secrets == <<token>> \o RequestSecrets(ParametersOf[operation], values)
<1>1. PICK errors \in {<<a>> : a \in Messages} \cup {<<a, b>> : a, b \in Messages} :
         shown' = [path \in {<<"reason">>} |-> RedactString(Said(Joined(errors)), secrets)]
  BY DEF Refused
<1>2. pc' = "done" /\ UNCHANGED submitted
  BY DEF Refused, Answer, Return
<1>3. /\ secrets \in Seq(Secret) /\ 1 \in DOMAIN secrets /\ secrets[1] = token
      /\ \A q \in Range(ParametersOf[operation]) :
            q.kind \in SecretKinds /\ q.name \in DOMAIN values
            => \E i \in DOMAIN secrets : secrets[i] = values[q.name]
  BY ListsAreComplete DEF ReportInv
<1>4. Said(Joined(errors)) \in Text
  <2>1. Messages \subseteq Secret
    BY ReportAssumption DEF Secret
  <2>2. errors \in Seq(Secret)
    <3>1. \A a, b \in Secret : <<a>> \in Seq(Secret) /\ <<a, b>> \in Seq(Secret)
      OBVIOUS
    <3>2. CASE errors \in {<<a>> : a \in Messages}
      <4>1. PICK a \in Messages : errors = <<a>>
        BY <3>2
      <4>2. QED
        BY <2>1, <3>1, <4>1
    <3>3. CASE errors \in {<<a, b>> : a, b \in Messages}
      <4>1. PICK a \in Messages, b \in Messages : errors = <<a, b>>
        BY <3>3
      <4>2. QED
        BY <2>1, <3>1, <4>1
    <3>4. QED
      BY <3>2, <3>3
  <2>3. QED
    BY <2>2, JoinedIsPlain, SaidIsText
<1> HIDE DEF secrets
<1>5. \A path \in DOMAIN shown', i \in DOMAIN secrets :
         secrets[i] # <<>> => ~Told(secrets[i], shown'[path])
  <2>1. \A i \in DOMAIN secrets :
           secrets[i] # <<>> => ~Told(secrets[i], RedactString(Said(Joined(errors)), secrets))
    BY <1>3, <1>4, RedactedHides
  <2>2. QED
    BY <1>1, <2>1
<1>6. QED
  BY <1>2, <1>3, <1>5, CleanReport

LEMMA ReportNextInv == ReportInv /\ [ReportNext]_reportVars => ReportInv'
<1> SUFFICES ASSUME ReportInv, [ReportNext]_reportVars PROVE ReportInv'
  OBVIOUS
<1>1. CASE ReportNext
  BY <1>1, SilentInv, NetworkFailsInv, SucceedInv, RefusedInv DEF ReportNext
<1>2. CASE UNCHANGED reportVars
  BY <1>2 DEF reportVars, vars, submitted, ReportInv, NoSecretIsReported
<1>3. QED
  BY <1>1, <1>2

\* Whatever is submitted and whatever the server or the network says, no report tells
\* the token, and no report of an answer a secret that was submitted.  Nothing is
\* assumed of the secrets but that they are not empty.
THEOREM SecretsAreRedacted == ReportSpec => []NoSecretIsReported
<1>1. ReportInv => NoSecretIsReported
  BY DEF ReportInv
<1>2. QED
  BY <1>1, ReportInitInv, ReportNextInv, PTL DEF ReportSpec

==============================================================================
