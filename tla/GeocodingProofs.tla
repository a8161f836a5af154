-------------------------- MODULE GeocodingProofs --------------------------
(***************************************************************************)
(* Theorems about the lookup of a place: the client's retries, for any     *)
(* bound on them, and what the lookup concludes, for any cities and texts. *)
(***************************************************************************)
EXTENDS Geocoding, FiniteSetTheorems, TLAPS

(***************************************************************************)
(* The HTTP client.                                                        *)
(***************************************************************************)
HiccupsOnly == call \in {"sending", "pausing"} =>
                  /\ Len(log) <= MaxRetries
                  /\ \A i \in 1..Len(log) : log[i] \in Hiccups

EmptyIs404 == outcome = "empty" => log # <<>> /\ log[Len(log)] = "404"

ClientInv == /\ ClientTypeOK
             /\ call = "idle" => log = <<>>
             /\ HiccupsOnly
             /\ RetriesWhereItHelps
             /\ EmptyIs404

LEMMA VerdictFacts ==
  ASSUME NEW reply
  PROVE  /\ Verdict(reply) \in Outcome
         /\ Verdict(reply) = "page" <=> reply = "page"
         /\ Verdict(reply) = "empty" <=> reply = "404"
<1>1. CASE reply = "keyRejected"
  BY <1>1 DEF Verdict, Outcome
<1>2. CASE reply = "404"
  BY <1>2 DEF Verdict, Outcome
<1>3. CASE reply = "page"
  BY <1>3 DEF Verdict, Outcome
<1>4. CASE reply = "notJson"
  BY <1>4 DEF Verdict, Outcome
<1>5. CASE reply \notin {"keyRejected", "404", "page", "notJson"}
  BY <1>5 DEF Verdict, Outcome
<1> QED
  BY <1>1, <1>2, <1>3, <1>4, <1>5

LEMMA CallKeepsClient ==
  ASSUME ClientInv, call = "idle", Call
  PROVE  ClientInv'
<1>1. log = <<>> /\ log' = <<>> /\ apiKey' = apiKey /\ outcome = "none"
  BY DEF ClientInv, ClientTypeOK, Call
<1>2. \/ call' = "sending" /\ outcome' = "none"
      \/ call' = "ended" /\ outcome' = "authError"
  BY <1>1 DEF Call, End
<1>3. Len(<<>>) = 0 /\ <<>> \in Seq(Reply)
  OBVIOUS
<1> QED
  BY <1>1, <1>2, <1>3, MaxRetriesNat
     DEF ClientInv, ClientTypeOK, HiccupsOnly, RetriesWhereItHelps, EmptyIs404,
         Outcome

LEMMA ReceiveKeepsClient ==
  ASSUME ClientInv, NEW reply \in Reply, Receive(reply)
  PROVE  ClientInv'
<1> DEFINE n == Len(log)
<1>1. /\ log \in Seq(Reply) /\ n \in Nat /\ n <= MaxRetries
      /\ \A i \in 1..n : log[i] \in Hiccups
      /\ call = "sending" /\ outcome = "none" /\ apiKey' = apiKey
      /\ apiKey \in BOOLEAN
  BY DEF ClientInv, ClientTypeOK, HiccupsOnly, Receive
<1>2. log' = Append(log, reply)
  BY DEF Receive
<1>3. /\ log' \in Seq(Reply) /\ Len(log') = n + 1 /\ log'[n + 1] = reply
      /\ \A i \in 1..n : log'[i] = log[i]
      /\ log' # <<>>
  BY <1>1, <1>2
<1>4. \A i \in 1..n : log'[i] \in Hiccups
  BY <1>1, <1>3
<1>5. CASE Transient(reply) /\ AttemptsLeft
  <2>1. /\ call' = "pausing" /\ outcome' = "none" /\ reply \in Hiccups
        /\ n < MaxRetries
    BY <1>1, <1>5 DEF Receive, Transient, AttemptsLeft
  <2>2. \A i \in 1..(n + 1) : log'[i] \in Hiccups
    BY <1>1, <1>3, <1>4, <2>1
  <2>3. n + 1 <= MaxRetries + 1 /\ (n + 1) - 1 = n
    BY <1>1, <2>1, MaxRetriesNat
  <2>4. HiccupsOnly'
    BY <1>1, <1>3, <2>1, <2>2, MaxRetriesNat DEF HiccupsOnly
  <2>5. RetriesWhereItHelps'
    BY <1>3, <1>4, <2>1, <2>3 DEF RetriesWhereItHelps, Hiccups
  <2> QED
    BY <1>1, <1>3, <2>1, <2>3, <2>4, <2>5 DEF ClientInv, ClientTypeOK, EmptyIs404
<1>6. CASE ~(Transient(reply) /\ AttemptsLeft)
  <2>1. call' = "ended" /\ outcome' = Verdict(reply)
    BY <1>6 DEF Receive, End
  <2>2. n = MaxRetries \/ reply \notin Hiccups
    BY <1>1, <1>6, MaxRetriesNat DEF Transient, AttemptsLeft
  <2>3. /\ outcome' \in Outcome /\ outcome' # "none"
        /\ outcome' = "page" <=> reply = "page"
        /\ outcome' = "empty" <=> reply = "404"
    BY <2>1, VerdictFacts DEF Outcome
  <2>4. n + 1 <= MaxRetries + 1 /\ (n + 1) - 1 = n
    BY <1>1, MaxRetriesNat
  <2>5. n = MaxRetries => n + 1 \notin 1..MaxRetries
    BY <1>1, MaxRetriesNat
  <2>6. RetriesWhereItHelps'
    BY <1>3, <1>4, <2>2, <2>3, <2>4, <2>5 DEF RetriesWhereItHelps
  <2> QED
    BY <1>1, <1>3, <2>1, <2>3, <2>4, <2>6
       DEF ClientInv, ClientTypeOK, HiccupsOnly, EmptyIs404
<1> QED
  BY <1>5, <1>6

LEMMA RetryKeepsClient ==
  ASSUME ClientInv, Retry
  PROVE  ClientInv'
  BY DEF ClientInv, ClientTypeOK, HiccupsOnly, RetriesWhereItHelps, EmptyIs404,
         Retry

LEMMA ForgetKeepsClient ==
  ASSUME ClientInv, Forget
  PROVE  ClientInv' /\ call' = "idle"
<1>1. Len(<<>>) = 0 /\ <<>> \in Seq(Reply)
  OBVIOUS
<1> QED
  BY <1>1, MaxRetriesNat
     DEF ClientInv, ClientTypeOK, HiccupsOnly, RetriesWhereItHelps, EmptyIs404,
         Forget

LEMMA QuietKeepsClient ==
  ASSUME ClientInv, UNCHANGED clientVars
  PROVE  ClientInv'
  BY DEF ClientInv, ClientTypeOK, HiccupsOnly, RetriesWhereItHelps, EmptyIs404,
         clientVars

(***************************************************************************)
(* A lookup that has not begun has sent nothing.                           *)
(***************************************************************************)
LookupInv == ClientInv /\ (stage = "asked" => call = "idle")

LEMMA LookupInit == Init => LookupInv
<1>1. Len(<<>>) = 0 /\ <<>> \in Seq(Reply)
  OBVIOUS
<1> QED
  BY <1>1, MaxRetriesNat
     DEF Init, ClientInit, LookupInv, ClientInv, ClientTypeOK, HiccupsOnly,
         RetriesWhereItHelps, EmptyIs404

LEMMA ResolveEffect ==
  ASSUME NEW found, Resolve(found)
  PROVE  \/ found = {} /\ Settle("notFound", {}, Nobody)
         \/ /\ Cardinality(found) = 1
            /\ \E c \in found : Settle("found", {}, [geo |-> c, label |-> c])
         \/ /\ found # {} /\ Cardinality(found) # 1
            /\ Settle("ambiguous", found, Nobody)
  BY DEF Resolve

LEMMA LookupNext == LookupInv /\ [Next]_vars => LookupInv'
<1> SUFFICES ASSUME LookupInv, [Next]_vars PROVE LookupInv'
  OBVIOUS
<1>1. ClientInv /\ (stage = "asked" => call = "idle")
  BY DEF LookupInv
<1>2. CASE Look
  BY <1>1, <1>2, CallKeepsClient DEF Look, LookupInv
<1>3. CASE NoSuchPoint \/ FindCities \/ LookupFails \/ NearestCity
  <2>1. UNCHANGED clientVars /\ stage' # "asked"
    BY <1>3, ResolveEffect DEF NoSuchPoint, FindCities, LookupFails,
       NearestCity, Borrow, Settle
  <2> QED
    BY <1>1, <2>1, QuietKeepsClient DEF LookupInv
<1>4. CASE Exchange
  <2>1. stage' # "asked"
    BY <1>4 DEF Exchange, pageVars
  <2>2. Retry \/ \E reply \in Reply : Receive(reply)
    BY <1>4 DEF Exchange
  <2> QED
    BY <1>1, <2>1, <2>2, RetryKeepsClient, ReceiveKeepsClient DEF LookupInv
<1>5. CASE \/ \E text \in Typed : Type(text)
           \/ \E c \in Cities : Pick(c)
  <2>1. Forget /\ stage' = "asked"
    BY <1>5 DEF Type, Pick, Submit
  <2> QED
    BY <1>1, <2>1, ForgetKeepsClient DEF LookupInv
<1>6. CASE UNCHANGED vars
  <2>1. UNCHANGED clientVars /\ UNCHANGED <<stage, call>>
    BY <1>6 DEF vars, pageVars, clientVars
  <2> QED
    BY <1>1, <2>1, QuietKeepsClient DEF LookupInv
<1> QED
  BY <1>2, <1>3, <1>4, <1>5, <1>6 DEF Next

(***************************************************************************)
(* The client retries only where retrying helps, gives up on a hiccup only *)
(* with its retries spent, and returns a page exactly for one.             *)
(***************************************************************************)
THEOREM ClientRetriesWell == Spec => []RetriesWhereItHelps
<1>1. LookupInv => RetriesWhereItHelps
  BY DEF LookupInv, ClientInv
<1> QED
  BY <1>1, LookupInit, LookupNext, PTL DEF Spec
-----------------------------------------------------------------------------
(***************************************************************************)
(* The types of the page.                                                  *)
(***************************************************************************)
PlaceType == [geo : Cities \cup {Point}, label : Cities \cup {Point}]

LEMMA PlaceIsSomebody ==
  ASSUME NEW g, NEW l
  PROVE  [geo |-> g, label |-> l] # Nobody
<1>1. DOMAIN [geo |-> g, label |-> l] = {"geo", "label"}
  OBVIOUS
<1>2. DOMAIN Nobody = {"id"}
  BY DEF Nobody
<1> QED
  BY <1>1, <1>2

PageTypeOK == /\ live \subseteq Cities
              /\ box \in Typed \cup {Label(c) : c \in Cities}
              /\ picked \in Cities \cup {Nobody}
              /\ stage \in Stage
              /\ candidates \subseteq Cities
              /\ place \in PlaceType \cup {Nobody}
              /\ candidates # {} <=> stage = "ambiguous"
              /\ Cardinality(candidates) # 1
              /\ place # Nobody <=> stage = "found"

LEMMA PageTypeInit == Init => PageTypeOK
  BY FS_EmptySet DEF Init, PageTypeOK, Stage

LEMMA PageTypeNext == PageTypeOK /\ [Next]_vars => PageTypeOK'
<1> SUFFICES ASSUME PageTypeOK, [Next]_vars PROVE PageTypeOK'
  OBVIOUS
<1>1. Cardinality({}) # 1
  BY FS_EmptySet
<1>2. ASSUME NEW found \in SUBSET Cities, Resolve(found),
             UNCHANGED <<live, box, picked>>
      PROVE  PageTypeOK'
  <2>1. CASE found = {} /\ Settle("notFound", {}, Nobody)
    BY <1>1, <1>2, <2>1 DEF PageTypeOK, Settle, Stage
  <2>2. CASE \E c \in found : Settle("found", {}, [geo |-> c, label |-> c])
    BY <1>1, <1>2, <2>2, PlaceIsSomebody DEF PageTypeOK, Settle, Stage, PlaceType
  <2>3. CASE /\ found # {} /\ Cardinality(found) # 1
             /\ Settle("ambiguous", found, Nobody)
    BY <1>2, <2>3 DEF PageTypeOK, Settle, Stage
  <2> QED
    BY <1>2, <2>1, <2>2, <2>3, ResolveEffect
<1>3. CASE Look
  BY <1>3 DEF Look, PageTypeOK, Stage
<1>4. CASE NoSuchPoint
  BY <1>2, <1>4 DEF NoSuchPoint
<1>5. CASE Exchange \/ UNCHANGED vars
  BY <1>5 DEF Exchange, vars, pageVars, PageTypeOK
<1>6. CASE FindCities
  <2>1. PICK sent \in Payload(Matches(box), 10) : Resolve(Mappable(sent))
    BY <1>6 DEF FindCities
  <2>2. sent \subseteq live
    BY <2>1 DEF Payload, Sent, kSubset, Matches
  <2>3. Mappable(sent) \in SUBSET Cities
    BY <2>2 DEF Mappable, PageTypeOK
  <2> QED
    BY <1>2, <1>6, <2>1, <2>3 DEF FindCities
<1>7. CASE LookupFails
  BY <1>1, <1>7 DEF LookupFails, Settle, PageTypeOK, Stage
<1>8. CASE NearestCity
  <2>1. PICK l \in Cities \cup {Point} :
               Settle("found", {}, [geo |-> Point, label |-> l])
    <3>1. PICK sent \in Payload(Near, 5) :
             \/ \E c \in Busiest(sent) : c.mappable /\ Borrow(c)
             \/ Settle("found", {}, [geo |-> Point, label |-> Point])
      BY <1>8 DEF NearestCity
    <3>2. Busiest(sent) \subseteq Cities
      BY <3>1 DEF Busiest, Payload, Sent, kSubset, Near, PageTypeOK
    <3> QED
      BY <3>1, <3>2 DEF Borrow
  <2>2. UNCHANGED <<live, box, picked>>
    BY <1>8 DEF NearestCity
  <2> QED
    BY <1>1, <2>1, <2>2, PlaceIsSomebody DEF PageTypeOK, Settle, Stage, PlaceType
<1>9. CASE \/ \E text \in Typed : Type(text)
           \/ \E c \in Cities : Pick(c)
  BY <1>1, <1>9 DEF Type, Pick, Submit, PageTypeOK, Stage
<1> QED
  BY <1>3, <1>4, <1>5, <1>6, <1>7, <1>8, <1>9 DEF Next

(***************************************************************************)
(* Every variable of the lookup keeps its type; the page asks between two  *)
(* places at least, and names one only when it has found one.              *)
(***************************************************************************)
THEOREM LookupTypeCorrect == Spec => []TypeOK
<1>1. LookupInv /\ PageTypeOK => TypeOK
  BY DEF LookupInv, ClientInv, PageTypeOK, PlaceType, TypeOK
<1> QED
  BY <1>1, LookupInit, LookupNext, PageTypeInit, PageTypeNext, PTL DEF Spec
-----------------------------------------------------------------------------
(***************************************************************************)
(* What a lookup by name concludes.  A page of the API holds ten cities;   *)
(* as long as no more than ten exist, none is cut off.                     *)
(***************************************************************************)
FewCities == IsFiniteSet(Cities) /\ Cardinality(Cities) <= 10

LEMMA NothingIsCutOff ==
  ASSUME FewCities, PageTypeOK, outcome = "page",
         NEW sent \in Payload(Matches(box), 10)
  PROVE  sent = Matches(box)
<1> DEFINE S == Matches(box)
<1>1. S \subseteq Cities
  BY DEF Matches, PageTypeOK
<1>2. IsFiniteSet(S) /\ Cardinality(S) <= 10 /\ Cardinality(S) \in Nat
  BY <1>1, FS_Subset, FS_CardinalityType DEF FewCities
<1>3. sent \in Sent(S, 10)
  BY DEF Payload
<1>4. sent \subseteq S /\ Cardinality(sent) = Cardinality(S)
  BY <1>2, <1>3 DEF Sent, kSubset
<1> QED
  BY <1>2, <1>4, FS_Subset

LookupTells == NoOtherFits /\ NotFoundIsTold

LEMMA LookupTellsNext ==
  ASSUME FewCities
  PROVE  LookupInv /\ PageTypeOK /\ LookupTells /\ [Next]_vars => LookupTells'
<1> SUFFICES ASSUME LookupInv, PageTypeOK, LookupTells, [Next]_vars
             PROVE  LookupTells'
  OBVIOUS
<1>1. CASE Look \/ Exchange \/ LookupFails
  <2>1. stage' \notin {"found", "notFound"}
    BY <1>1 DEF Look, Exchange, LookupFails, Settle, pageVars
  <2> QED
    BY <2>1 DEF LookupTells, NoOtherFits, NotFoundIsTold
<1>2. CASE NoSuchPoint \/ NearestCity
  <2>1. box'.kind # "name"
    BY <1>2 DEF NoSuchPoint, NearestCity
  <2> QED
    BY <2>1 DEF LookupTells, NoOtherFits, NotFoundIsTold
<1>3. CASE FindCities
  <2>1. /\ UNCHANGED <<live, box, log>>
        /\ outcome \in {"page", "empty"}
    BY <1>3 DEF FindCities, clientVars
  <2>2. Matches(box)' = Matches(box)
    BY <2>1 DEF Matches, Hint
  <2>3. PICK sent \in Payload(Matches(box), 10) : Resolve(Mappable(sent))
    BY <1>3 DEF FindCities
  <2>4. CASE outcome = "page"
    <3> DEFINE fit == Mappable(Matches(box))
    <3>1. Resolve(fit) /\ Mappable(Matches(box))' = fit
      BY <2>2, <2>3, <2>4, NothingIsCutOff DEF Mappable
    <3>2. CASE fit = {} /\ Settle("notFound", {}, Nobody)
      BY <3>1, <3>2 DEF LookupTells, NoOtherFits, NotFoundIsTold, Settle
    <3>3. CASE /\ Cardinality(fit) = 1
               /\ \E c \in fit : Settle("found", {}, [geo |-> c, label |-> c])
      <4>1. PICK c \in fit : Settle("found", {}, [geo |-> c, label |-> c])
        BY <3>3
      <4>2. fit \subseteq Cities
        BY DEF Mappable, Matches, PageTypeOK
      <4>3. \A d \in fit : d = c
        BY <3>3, <4>2, FS_Singleton, FS_Subset DEF FewCities
      <4> QED
        BY <3>1, <4>1, <4>3 DEF LookupTells, NoOtherFits, NotFoundIsTold, Settle
    <3>4. CASE Settle("ambiguous", fit, Nobody)
      BY <3>4 DEF LookupTells, NoOtherFits, NotFoundIsTold, Settle
    <3> QED
      BY <3>1, <3>2, <3>3, <3>4, ResolveEffect
  <2>5. CASE outcome = "empty"
    <3>1. Resolve({})
      BY <2>3, <2>5 DEF Payload, Mappable
    <3>2. stage' = "notFound"
      BY <3>1 DEF Resolve, Settle
    <3>3. log' # <<>> /\ log'[Len(log')] = "404"
      BY <2>1, <2>5 DEF LookupInv, ClientInv, EmptyIs404
    <3> QED
      BY <3>2, <3>3 DEF LookupTells, NoOtherFits, NotFoundIsTold
  <2> QED
    BY <2>1, <2>4, <2>5
<1>4. CASE \/ \E text \in Typed : Type(text)
           \/ \E c \in Cities : Pick(c)
  <2>1. stage' = "asked"
    BY <1>4 DEF Type, Pick, Submit
  <2> QED
    BY <2>1 DEF LookupTells, NoOtherFits, NotFoundIsTold
<1>5. CASE UNCHANGED vars
  BY <1>5 DEF vars, pageVars, clientVars, LookupTells, NoOtherFits,
     NotFoundIsTold, Mappable, Matches, Hint
<1> QED
  BY <1>1, <1>2, <1>3, <1>4, <1>5 DEF Next

(***************************************************************************)
(* With no more cities than a page holds, a place is never guessed: no     *)
(* other city with events fits the text.                                   *)
(***************************************************************************)
THEOREM PlaceIsNotGuessed ==
  ASSUME FewCities
  PROVE  Spec => []NoOtherFits
<1>1. Init => LookupTells
  BY DEF Init, LookupTells, NoOtherFits, NotFoundIsTold
<1>2. LookupTells => NoOtherFits
  BY DEF LookupTells
<1> QED
  BY <1>1, <1>2, LookupTellsNext, LookupInit, LookupNext, PageTypeInit,
     PageTypeNext, PTL DEF Spec

(***************************************************************************)
(* With no more cities than a page holds, "could not find" is said only    *)
(* when nothing fits or the API itself said 404, never for an outage.      *)
(***************************************************************************)
THEOREM OutageIsNotAbsence ==
  ASSUME FewCities
  PROVE  Spec => []NotFoundIsTold
<1>1. Init => LookupTells
  BY DEF Init, LookupTells, NoOtherFits, NotFoundIsTold
<1>2. LookupTells => NotFoundIsTold
  BY DEF LookupTells
<1> QED
  BY <1>1, <1>2, LookupTellsNext, LookupInit, LookupNext, PageTypeInit,
     PageTypeNext, PTL DEF Spec
-----------------------------------------------------------------------------
(***************************************************************************)
(* Picking.  The buttons stand for cities that the API has, the text in    *)
(* the box is the label of the city picked last.                           *)
(***************************************************************************)
PickInv == /\ candidates \subseteq Mappable(live)
           /\ picked # Nobody => /\ picked \in Mappable(live)
                                 /\ box = Label(picked)
           /\ PickSettles

LEMMA LabelMatchesOne ==
  ASSUME Pickable(Cities), live \subseteq Cities,
         NEW c \in Mappable(live)
  PROVE  Mappable(Matches(Label(c))) = {c}
<1>1. /\ c \in Mappable(Cities) /\ c \in live
      /\ c.country = "US" /\ c.region \in USStates
      /\ <<c.name, c.name>> \in Begins
  BY DEF Mappable, Pickable
<1>2. /\ Label(c).name = c.name
      /\ Hint(Label(c)) = c.region /\ c.region # "none"
  BY <1>1, NoneIsNoState DEF Label, Text, Hint
<1>3. Matches(Label(c)) = {d \in live : /\ <<c.name, d.name>> \in Begins
                                        /\ d.country = "US"
                                        /\ d.region = c.region}
  BY <1>2 DEF Matches
<1>4. c \in Mappable(Matches(Label(c)))
  BY <1>1, <1>3 DEF Mappable
<1>5. ASSUME NEW d \in Mappable(Matches(Label(c)))
      PROVE  d = c
  <2>1. /\ d \in Mappable(Cities) /\ d.country = "US" /\ d.region = c.region
        /\ <<c.name, d.name>> \in Begins
    BY <1>3 DEF Mappable
  <2> QED
    BY <1>1, <2>1 DEF Pickable
<1> QED
  BY <1>4, <1>5

LEMMA PickNext ==
  ASSUME FewCities, Pickable(Cities)
  PROVE  LookupInv /\ PageTypeOK /\ PickInv /\ [Next]_vars => PickInv'
<1> SUFFICES ASSUME LookupInv, PageTypeOK, PickInv, [Next]_vars
             PROVE  PickInv'
  OBVIOUS
<1>1. Mappable(live)' = Mappable(live)
  <2>1. UNCHANGED live
    BY DEF Next, vars, pageVars, Look, NoSuchPoint, Exchange, FindCities,
       NearestCity, LookupFails, Type, Pick, Submit
  <2> QED
    BY <2>1 DEF Mappable
<1>2. CASE Look \/ Exchange
  <2>1. UNCHANGED <<box, picked, candidates>> /\ stage' = "looking"
    BY <1>2 DEF Look, Exchange, pageVars
  <2> QED
    BY <1>1, <2>1 DEF PickInv, PickSettles, Label
<1>3. CASE LookupFails
  BY <1>1, <1>3 DEF LookupFails, Settle, clientVars, PickInv, PickSettles, Label
<1>4. CASE NoSuchPoint \/ NearestCity
  <2>1. UNCHANGED <<box, picked>> /\ candidates' = {} /\ box.kind # "name"
    BY <1>4 DEF NoSuchPoint, NearestCity, Resolve, Borrow, Settle
  <2>2. picked = Nobody
    BY <2>1 DEF PickInv, Label, Text
  <2> QED
    BY <2>1, <2>2 DEF PickInv, PickSettles
<1>5. CASE FindCities
  <2>1. UNCHANGED <<box, picked, outcome>>
    BY <1>5 DEF FindCities, clientVars
  <2>2. PICK sent \in Payload(Matches(box), 10) : Resolve(Mappable(sent))
    BY <1>5 DEF FindCities
  <2>3. Mappable(sent) \subseteq Mappable(live)
    BY <2>2 DEF Payload, Sent, kSubset, Matches, Mappable
  <2>4. candidates' \subseteq Mappable(live)
    BY <2>2, <2>3, ResolveEffect DEF Settle
  <2>5. PickSettles'
    <3> SUFFICES ASSUME picked # Nobody, outcome = "page"
                 PROVE  stage' = "found" /\ place'.geo = picked
      BY <2>1 DEF PickSettles
    <3>1. /\ live \subseteq Cities
          /\ picked \in Mappable(live) /\ box = Label(picked)
      BY DEF PickInv, PageTypeOK
    <3>2. Mappable(sent) = {picked}
      BY <2>2, <3>1, NothingIsCutOff, LabelMatchesOne
    <3>3. PICK c \in {picked} : Settle("found", {}, [geo |-> c, label |-> c])
      BY <2>2, <3>2, FS_Singleton, ResolveEffect
    <3> QED
      BY <3>3 DEF Settle
  <2> QED
    BY <1>1, <2>1, <2>4, <2>5 DEF PickInv, Label
<1>6. CASE \E text \in Typed : Type(text)
  BY <1>6 DEF Type, Submit, PickInv, PickSettles
<1>7. CASE \E c \in Cities : Pick(c)
  <2>1. PICK c \in candidates : Submit(Label(c), c)
    BY <1>7 DEF Pick
  <2>2. outcome' = "none"
    BY <2>1 DEF Submit, Forget
  <2> QED
    BY <1>1, <2>1, <2>2 DEF Submit, PickInv, PickSettles, Label
<1>8. CASE UNCHANGED vars
  BY <1>1, <1>8 DEF vars, pageVars, clientVars, PickInv, PickSettles, Label
<1> QED
  BY <1>2, <1>3, <1>4, <1>5, <1>6, <1>7, <1>8 DEF Next

(***************************************************************************)
(* Picking one of the suggested cities finds that city, as long as a page  *)
(* holds all cities and none of them is abroad or shares its state with a  *)
(* city whose name begins with its own.                                    *)
(***************************************************************************)
THEOREM PicksAreFound ==
  ASSUME FewCities, Pickable(Cities)
  PROVE  Spec => []PickSettles
<1>1. Init => PickInv
  BY DEF Init, ClientInit, PickInv, PickSettles
<1>2. PickInv => PickSettles
  BY DEF PickInv
<1> QED
  BY <1>1, <1>2, PickNext, LookupInit, LookupNext, PageTypeInit, PageTypeNext,
     PTL DEF Spec
=============================================================================
