--------------------------- MODULE TaxiiFeedProofs ---------------------------
(* Theorems about TaxiiFeed for any collections, page and update limits,    *)
(* and any number of objects and faults.                                    *)
EXTENDS TaxiiFeed, TLAPS

LEMMA InitType == Init => TypeOK
BY TaxiiFeedAssumption DEF Init, TypeOK, Object

(* Where a page ends, and what is left after it. *)
LEMMA PageType ==
  ASSUME TypeOK, stage = "fetch", NEW b \in PageEnds
  PROVE  /\ b \in 0 .. now
         /\ Objects(current, from, b) \subseteq Object
         /\ Objects(current, b + 1, now) # {} => b + 1 \in 1 .. now
<1>1. /\ now \in Nat /\ now <= MaxObjects /\ MaxObjects \in Nat
      /\ from \in Nat /\ 1 <= from
  BY TaxiiFeedAssumption DEF TypeOK
<1>2. b \in 0 .. now
  <2>1. Objects(current, from, now) \subseteq 0 .. now
    BY <1>1 DEF Objects
  <2>2. QED
    BY <1>1, <2>1 DEF PageEnds
<1>3. Objects(current, from, b) \subseteq Object
  BY <1>1, <1>2 DEF Object, Objects
<1>4. Objects(current, b + 1, now) # {} => b + 1 \in 1 .. now
  BY <1>1, <1>2 DEF Objects
<1>5. QED
  BY <1>2, <1>3, <1>4

(* A page keeps every variable in its type. *)
LEMMA NextPageType ==
  ASSUME TypeOK, NEW b, NEW missed, NextPage(b, missed), faults' \in Nat
  PROVE  TypeOK'
<1>1. stage = "fetch" /\ current \in Collection /\ b \in PageEnds
  BY DEF NextPage, TypeOK
<1>2. /\ b \in 0 .. now
      /\ Objects(current, from, b) \subseteq Object
      /\ Objects(current, b + 1, now) # {} => b + 1 \in 1 .. now
  BY <1>1, PageType
<1>3. now \in Nat /\ 0 \in 0 .. now
  BY TaxiiFeedAssumption DEF TypeOK
<1>4. stored' \subseteq Object /\ lost' \subseteq Object
  BY <1>2 DEF NextPage, TypeOK
<1>5. CASE Objects(current, b + 1, now) # {}
  <2>1. b + 1 \in 0 .. now /\ b + 1 # 0 /\ page + 1 \in Nat /\ b + 1 \in Nat
    BY <1>2, <1>3, <1>5 DEF TypeOK
  <2>2. cursor' = [cursor EXCEPT ![current] = b + 1]
    BY <1>5 DEF NextPage
  <2>3. cursor' \in [Collection -> 0 .. now]
    BY <2>1, <2>2 DEF TypeOK
  <2>4. QED
    BY <1>1, <1>4, <1>5, <2>1, <2>3 DEF NextPage, EndCollection, TypeOK, server
<1>6. CASE Objects(current, b + 1, now) = {}
  <2>1. cursor' = [cursor EXCEPT ![current] = 0]
    BY <1>6 DEF NextPage
  <2>2. cursor' \in [Collection -> 0 .. now]
    BY <1>3, <2>1 DEF TypeOK
  <2>3. QED
    BY <1>1, <1>4, <1>6, <2>2 DEF NextPage, EndCollection, TypeOK, server
<1>7. QED
  BY <1>5, <1>6

LEMMA TypeStep ==
  ASSUME TypeOK, [Next]_vars
  PROVE  TypeOK'
<1> USE TaxiiFeedAssumption DEF server, updateVars
<1>0. now \in Nat /\ now <= MaxObjects /\ faults + 1 \in Nat
  BY DEF TypeOK
<1>1. ASSUME NEW c \in Collection, Publish(c)
      PROVE  TypeOK'
  <2>1. now + 1 \in Object /\ now' = now + 1 /\ now' \in 0 .. MaxObjects
    BY <1>0, <1>1 DEF Publish, Object
  <2>2. home' \in [Object -> Collection \cup {None}]
    BY <1>1, <2>1 DEF Publish, TypeOK
  <2>3. \A n \in 1 .. now' : home'[n] \in Collection
    BY <1>0, <1>1, <2>1 DEF Publish, TypeOK
  <2>4. 0 .. now \subseteq 0 .. now'
    BY <1>0, <2>1
  <2>5. cursor \in [Collection -> 0 .. now']
    BY <2>4 DEF TypeOK
  <2>6. late' \subseteq Object
    BY <1>1, <2>1 DEF Publish, TypeOK
  <2>7. QED
    BY <1>1, <2>1, <2>2, <2>3, <2>5, <2>6 DEF Publish, TypeOK
<1>2. CASE Discover \/ DiscoverFails
  BY <1>0, <1>2 DEF Discover, DiscoverFails, Fault, TypeOK
<1>3. CASE BeginUpdate
  <2>1. lost' \subseteq Object
    <3>1. lastUpdate + 1 .. now \subseteq Object
      BY <1>0 DEF TypeOK, Object
    <3>2. QED
      BY <1>3, <3>1 DEF BeginUpdate, TypeOK
  <2>2. start' \in Nat
    BY <1>0, <1>3 DEF BeginUpdate, ClientTime
  <2>3. QED
    BY <1>0, <1>3, <2>1, <2>2 DEF BeginUpdate, TypeOK
<1>4. ASSUME NEW c \in Collection, BeginCollection(c)
      PROVE  TypeOK'
  <2>1. cursor[c] \in 0 .. now /\ lastUpdate \in Nat
    BY DEF TypeOK
  <2>2. from' \in Nat /\ from' # 0
    BY <1>0, <1>4, <2>1 DEF BeginCollection
  <2>3. QED
    BY <1>4, <2>2 DEF BeginCollection, TypeOK
<1>5. ASSUME NEW b, NEW n, Fetch(b) \/ FetchLosing(b, n)
      PROVE  TypeOK'
  <2>1. faults' \in Nat
    BY <1>0, <1>5 DEF Fetch, FetchLosing, Fault, TypeOK
  <2>2. QED
    BY <1>5, <2>1, NextPageType DEF Fetch, FetchLosing
<1>6. CASE FetchFails
  <2>1. Objects(current, from, now) \subseteq Object
    <3>1. from >= 1 /\ from \in Nat
      BY <1>6 DEF FetchFails, TypeOK
    <3>2. QED
      BY <1>0, <3>1 DEF Objects, Object
  <2>2. lost' \subseteq Object
    BY <1>6, <2>1 DEF FetchFails, TypeOK
  <2>3. QED
    BY <1>0, <1>6, <2>2 DEF FetchFails, EndCollection, Fault, TypeOK
<1>7. CASE Finish
  BY <1>0, <1>7 DEF Finish, TypeOK
<1>8. CASE Restart
  <2>1. cursor' \in [Collection -> 0 .. now]
    BY <1>0, <1>8 DEF Restart
  <2>2. known' \subseteq Collection
    BY <1>8 DEF Restart
  <2>3. QED
    BY <1>0, <1>8, <2>1, <2>2 DEF Restart, Fault, TypeOK
<1>9. CASE UNCHANGED vars
  BY <1>9 DEF vars, TypeOK
<1>10. QED
  BY <1>1, <1>2, <1>3, <1>4, <1>5, <1>6, <1>7, <1>8, <1>9 DEF Next, Update, Break

(* Every variable keeps its type: a cursor stands for an object that the   *)
(* server has, and a request never asks for objects before the first.      *)
THEOREM TypeCorrect == Spec => []TypeOK
BY InitType, TypeStep, PTL DEF Spec

-----------------------------------------------------------------------------
(* What holds when last_update moves was prepared by the pages before it.   *)

(* Object n was stored, cut off by a fault or late. *)
Dealt(n) == n \in stored \cup lost \cup late

(* Everything of a collection before its cursor was dealt with. *)
CursorInv ==
  \A c \in Collection : \A n \in 1 .. now :
    cursor[c] # 0 /\ home[n] = c /\ n < cursor[c] => Dealt(n)

(* The collections that had their turn are accounted for up to the start. *)
TurnInv ==
  stage \in {"choose", "fetch"} =>
    \A n \in 1 .. now : n <= start /\ home[n] \notin todo /\ home[n] # current => Accounted(n)

(* The current collection is dealt with before its next request, which is  *)
(* for what its cursor or last_update says.                                *)
RequestInv ==
  stage = "fetch" =>
    /\ \A n \in 1 .. now : home[n] = current /\ n < from => Dealt(n)
    /\ cursor[current] # 0 => from = cursor[current]
    /\ from <= now \/ from <= lastUpdate + 1

FeedInv ==
  /\ NothingPassedOver
  /\ CursorInv
  /\ stage # "fetch" => current = None
  /\ TurnInv
  /\ RequestInv

LEMMA InitFeed == Init => FeedInv
BY DEF Init, FeedInv, NothingPassedOver, CursorInv, TurnInv, RequestInv

(* The bounds of the type invariant, as arithmetic. *)
LEMMA Bounds ==
  ASSUME TypeOK
  PROVE  /\ now \in Nat /\ lastUpdate \in Nat /\ start \in Nat /\ from \in Nat
         /\ \A c \in Collection : cursor[c] \in Nat /\ cursor[c] <= now
         /\ \A n \in 1 .. now : home[n] \in Collection /\ home[n] # None
BY TaxiiFeedAssumption DEF TypeOK

(* A new object is behind no cursor; behind a request, the start of an     *)
(* update or last_update it is late.                                       *)
LEMMA PublishFeed ==
  ASSUME TypeOK, FeedInv, NEW c \in Collection, Publish(c)
  PROVE  FeedInv'
<1>0. PICK m : m = now + 1
  OBVIOUS
<1>1. /\ now' = now + 1
      /\ now + 1 \in Object
      /\ \A n \in 1 .. now : home'[n] = home[n]
      /\ home'[now + 1] = c
  <2>1. now + 1 \in Object
    BY TaxiiFeedAssumption, Bounds DEF Publish, Object
  <2>2. QED
    BY <2>1, Bounds, TaxiiFeedAssumption DEF Publish, TypeOK, Object
<1>2. /\ UNCHANGED <<lastUpdate, cursor, stage, start, todo, current, from, stored, lost>>
      /\ late \subseteq late'
      /\ Passed(m) => m \in late'
  BY <1>0 DEF Publish, updateVars
<1>3. /\ \A n \in 1 .. now : Accounted(n) => Accounted(n)'
      /\ \A n \in 1 .. now : Dealt(n) => Dealt(n)'
      /\ Passed(m) => Dealt(m)' /\ Accounted(m)'
  BY <1>1, <1>2 DEF Accounted, Dealt, UnderCursor
<1>4. ASSUME NEW n \in 1 .. now'
      PROVE  n \in 1 .. now \/ n = m
  BY <1>0, <1>1, Bounds
<1>5. NothingPassedOver'
  <2> SUFFICES ASSUME NEW n \in 1 .. now', n <= lastUpdate
               PROVE  Accounted(n)'
    BY <1>2 DEF NothingPassedOver
  <2>1. CASE n \in 1 .. now
    BY <1>3, <2>1 DEF FeedInv, NothingPassedOver
  <2>2. CASE n = m
    BY <1>3, <2>2 DEF Passed
  <2>3. QED
    BY <1>4, <2>1, <2>2
<1>6. CursorInv'
  <2> SUFFICES ASSUME NEW d \in Collection, NEW n \in 1 .. now',
                      cursor[d] # 0, home'[n] = d, n < cursor[d]
               PROVE  Dealt(n)'
    BY <1>2 DEF CursorInv
  <2>1. n \in 1 .. now
    BY <1>1, Bounds
  <2>2. QED
    BY <1>1, <1>3, <2>1 DEF FeedInv, CursorInv
<1>7. TurnInv'
  <2> SUFFICES ASSUME stage \in {"choose", "fetch"}, NEW n \in 1 .. now', n <= start,
                      home'[n] \notin todo, home'[n] # current
               PROVE  Accounted(n)'
    BY <1>2 DEF TurnInv
  <2>1. CASE n \in 1 .. now
    BY <1>1, <1>3, <2>1 DEF FeedInv, TurnInv
  <2>2. CASE n = m
    BY <1>3, <2>2 DEF Passed
  <2>3. QED
    BY <1>4, <2>1, <2>2
<1>8. RequestInv'
  <2>1. ASSUME stage = "fetch", NEW n \in 1 .. now', home'[n] = current, n < from
        PROVE  Dealt(n)'
    <3>1. CASE n \in 1 .. now
      BY <1>1, <1>3, <2>1, <3>1 DEF FeedInv, RequestInv
    <3>2. CASE n = m
      <4>1. from <= now \/ from <= lastUpdate + 1
        BY <2>1 DEF FeedInv, RequestInv
      <4>2. n <= lastUpdate
        BY <1>0, <2>1, <3>2, <4>1, Bounds
      <4>3. QED
        BY <1>3, <3>2, <4>2 DEF Passed
    <3>3. QED
      BY <1>4, <3>1, <3>2
  <2>2. stage = "fetch" => from <= now' \/ from <= lastUpdate + 1
    BY <1>1, Bounds DEF FeedInv, RequestInv
  <2>3. QED
    BY <1>2, <2>1, <2>2 DEF FeedInv, RequestInv
<1>9. QED
  BY <1>2, <1>5, <1>6, <1>7, <1>8 DEF FeedInv

(* What the list of collections leaves out is cut off. *)
LEMMA BeginUpdateFeed ==
  ASSUME TypeOK, FeedInv, BeginUpdate
  PROVE  FeedInv'
<1>1. /\ UNCHANGED <<now, home, known, lastUpdate, cursor, current, from, stored, late>>
      /\ lost \subseteq lost'
      /\ stage' = "choose" /\ todo' = known /\ stage = "idle"
  BY DEF BeginUpdate, server
<1>2. NothingPassedOver' /\ CursorInv' /\ current' = None /\ RequestInv'
  BY <1>1 DEF FeedInv, NothingPassedOver, CursorInv, RequestInv, Accounted, Dealt, UnderCursor
<1>3. ASSUME NEW n \in 1 .. now, n <= start', home[n] \notin known
      PROVE  Accounted(n)'
  <2>1. CASE n <= lastUpdate
    BY <1>1, <2>1 DEF FeedInv, NothingPassedOver, Accounted, UnderCursor
  <2>2. CASE ~(n <= lastUpdate)
    <3>1. n \in lastUpdate + 1 .. now
      BY <2>2, Bounds
    <3>2. n \in lost' \/ UnderCursor(n)
      BY <1>3, <3>1 DEF BeginUpdate
    <3>3. QED
      BY <1>1, <3>2 DEF Accounted, UnderCursor
  <2>3. QED
    BY <2>1, <2>2
<1>4. TurnInv'
  BY <1>1, <1>3 DEF TurnInv
<1>5. QED
  BY <1>2, <1>4 DEF FeedInv

(* The first request leaves out nothing that is not accounted for. *)
LEMMA BeginCollectionFeed ==
  ASSUME TypeOK, FeedInv, NEW c \in Collection, BeginCollection(c)
  PROVE  FeedInv'
<1>1. /\ UNCHANGED <<now, home, known, lastUpdate, cursor, start, stored, lost, late>>
      /\ stage = "choose" /\ stage' = "fetch" /\ todo' = todo \ {c} /\ current' = c
      /\ from' = IF cursor[c] # 0 THEN cursor[c] ELSE lastUpdate + 1
      /\ current = None
  BY DEF BeginCollection, server, FeedInv
<1>2. NothingPassedOver' /\ CursorInv'
  BY <1>1 DEF FeedInv, NothingPassedOver, CursorInv, Accounted, Dealt, UnderCursor
<1>3. ASSUME NEW n \in 1 .. now, n <= start, home[n] \notin todo', home[n] # c
      PROVE  Accounted(n)'
  <2>1. home[n] # None
    BY Bounds
  <2>2. Accounted(n)
    BY <1>1, <1>3, <2>1 DEF FeedInv, TurnInv
  <2>3. QED
    BY <1>1, <2>2 DEF Accounted, UnderCursor
<1>4. TurnInv'
  BY <1>1, <1>3 DEF TurnInv
<1>5. ASSUME NEW n \in 1 .. now, home[n] = c, n < from'
      PROVE  Dealt(n)
  <2>1. CASE cursor[c] # 0
    BY <1>1, <1>5, <2>1 DEF FeedInv, CursorInv
  <2>2. CASE cursor[c] = 0
    <3>1. n <= lastUpdate
      BY <1>1, <1>5, <2>2, Bounds
    <3>2. QED
      BY <1>5, <2>2, <3>1 DEF FeedInv, NothingPassedOver, Accounted, Dealt, UnderCursor
  <2>3. QED
    BY <2>1, <2>2
<1>6. RequestInv'
  <2>1. from' <= now \/ from' <= lastUpdate + 1
    BY <1>1, Bounds
  <2>2. QED
    BY <1>1, <1>5, <2>1 DEF RequestInv, Dealt
<1>7. QED
  BY <1>1, <1>2, <1>4, <1>6 DEF FeedInv

(* After a page its collection is accounted for: what was on it or before  *)
(* it was stored or cut off, what comes after it is under the cursor.      *)
LEMMA NextPageFeed ==
  ASSUME TypeOK, FeedInv, NEW b, NEW missed, NextPage(b, missed)
  PROVE  FeedInv'
<1> DEFINE more == Objects(current, b + 1, now) # {}
<1>1. /\ stage = "fetch" /\ current \in Collection /\ b \in PageEnds
      /\ UNCHANGED <<now, home, lastUpdate, start, todo, late>>
      /\ stored' = stored \cup (Objects(current, from, b) \ missed)
      /\ lost' = lost \cup missed
  BY DEF NextPage, TypeOK, server
<1>2. b \in 0 .. now /\ (more => b + 1 \in 1 .. now)
  BY <1>1, PageType
<1>3. ASSUME NEW n \in 1 .. now, home[n] = current, n < b + 1
      PROVE  Dealt(n)'
  <2>1. CASE n < from
    BY <1>1, <1>3, <2>1 DEF FeedInv, RequestInv, Dealt
  <2>2. CASE ~(n < from)
    <3>1. n \in Objects(current, from, b)
      BY <1>2, <1>3, <2>2, Bounds DEF Objects
    <3>2. QED
      BY <1>1, <3>1 DEF Dealt
  <2>3. QED
    BY <2>1, <2>2
<1>4. /\ cursor'[current] = IF more THEN b + 1 ELSE 0
      /\ \A c \in Collection : c # current => cursor'[c] = cursor[c]
  <2>1. cursor' = [cursor EXCEPT ![current] = IF more THEN b + 1 ELSE 0]
    BY DEF NextPage
  <2>2. QED
    BY <1>1, <2>1 DEF TypeOK
<1>5. ASSUME NEW n \in 1 .. now, home[n] = current
      PROVE  Accounted(n)'
  <2>1. CASE n < b + 1
    BY <1>3, <1>5, <2>1 DEF Accounted, Dealt
  <2>2. CASE ~(n < b + 1)
    <3>1. n \in Objects(current, b + 1, now)
      BY <1>2, <1>5, <2>2, Bounds DEF Objects
    <3>2. cursor'[current] = b + 1 /\ home' = home /\ b + 1 <= n /\ b + 1 # 0
      BY <1>1, <1>2, <1>4, <2>2, <3>1, Bounds
    <3>3. QED
      BY <1>5, <3>2 DEF Accounted, UnderCursor
  <2>3. QED
    BY <2>1, <2>2
<1>6. ASSUME NEW n \in 1 .. now, Accounted(n)
      PROVE  Accounted(n)'
  <2>1. CASE home[n] = current
    BY <1>5, <2>1
  <2>2. CASE home[n] # current
    BY <1>1, <1>4, <1>6, <2>2, Bounds DEF Accounted, UnderCursor
  <2>3. QED
    BY <2>1, <2>2
<1>7. NothingPassedOver'
  BY <1>1, <1>6 DEF FeedInv, NothingPassedOver
<1>8. CursorInv'
  <2> SUFFICES ASSUME NEW c \in Collection, NEW n \in 1 .. now,
                      cursor'[c] # 0, home[n] = c, n < cursor'[c]
               PROVE  Dealt(n)'
    BY <1>1 DEF CursorInv
  <2>1. CASE c = current
    <3>1. cursor'[c] = b + 1
      BY <1>4, <2>1
    <3>2. QED
      BY <1>3, <2>1, <3>1
  <2>2. CASE c # current
    <3>1. Dealt(n)
      BY <1>4, <2>2 DEF FeedInv, CursorInv
    <3>2. QED
      BY <1>1, <3>1 DEF Dealt
  <2>3. QED
    BY <2>1, <2>2
<1>9. CASE stage' = "fetch" /\ current' = current
  <2>1. more /\ from' = b + 1
    BY <1>9 DEF NextPage, EndCollection
  <2>2. TurnInv'
    BY <1>1, <1>6, <1>9 DEF FeedInv, TurnInv
  <2>3. cursor'[current] = b + 1 /\ from' <= now
    BY <1>2, <1>4, <2>1, Bounds
  <2>4. RequestInv'
    BY <1>1, <1>3, <1>9, <2>1, <2>3 DEF RequestInv
  <2>5. QED
    BY <1>7, <1>8, <1>9, <2>2, <2>4 DEF FeedInv
<1>10. CASE stage' = "choose" /\ current' = None
  <2>1. TurnInv'
    BY <1>1, <1>5, <1>6, <1>10 DEF FeedInv, TurnInv
  <2>2. RequestInv'
    BY <1>10 DEF RequestInv
  <2>3. QED
    BY <1>7, <1>8, <1>10, <2>1, <2>2 DEF FeedInv
<1>11. QED
  BY <1>1, <1>9, <1>10 DEF NextPage, EndCollection

(* A failed request cuts off what no cursor stands for. *)
LEMMA FetchFailsFeed ==
  ASSUME TypeOK, FeedInv, FetchFails
  PROVE  FeedInv'
<1>1. /\ stage = "fetch" /\ stage' = "choose" /\ current' = None
      /\ UNCHANGED <<now, home, lastUpdate, cursor, start, todo, stored, late>>
      /\ lost \subseteq lost'
      /\ cursor[current] = 0 => {n \in Objects(current, from, now) : n <= start} \subseteq lost'
  BY DEF FetchFails, EndCollection, server
<1>2. NothingPassedOver' /\ CursorInv' /\ RequestInv'
  BY <1>1 DEF FeedInv, NothingPassedOver, CursorInv, RequestInv, Accounted, Dealt, UnderCursor
<1>3. ASSUME NEW n \in 1 .. now, n <= start, home[n] \notin todo
      PROVE  Accounted(n)'
  <2>1. CASE home[n] # current
    BY <1>1, <1>3, <2>1 DEF FeedInv, TurnInv, Accounted, UnderCursor
  <2>2. CASE home[n] = current /\ n < from
    BY <1>1, <2>2 DEF FeedInv, RequestInv, Accounted, Dealt
  <2>3. CASE home[n] = current /\ ~(n < from)
    <3>1. CASE cursor[current] = 0
      <4>1. n \in Objects(current, from, now)
        BY <2>3, Bounds DEF Objects
      <4>2. QED
        BY <1>1, <1>3, <3>1, <4>1 DEF Accounted
    <3>2. CASE cursor[current] # 0
      <4>1. from = cursor[current] /\ from <= n
        BY <1>1, <2>3, <3>2, Bounds DEF FeedInv, RequestInv
      <4>2. QED
        BY <1>1, <2>3, <3>2, <4>1 DEF Accounted, UnderCursor
    <3>3. QED
      BY <3>1, <3>2
  <2>4. QED
    BY <2>1, <2>2, <2>3
<1>4. TurnInv'
  BY <1>1, <1>3 DEF TurnInv
<1>5. QED
  BY <1>1, <1>2, <1>4 DEF FeedInv

LEMMA FeedStep ==
  ASSUME TypeOK, FeedInv, [Next]_vars
  PROVE  FeedInv'
<1>1. ASSUME NEW c \in Collection, Publish(c) \/ BeginCollection(c)
      PROVE  FeedInv'
  BY <1>1, PublishFeed, BeginCollectionFeed
<1>2. CASE Discover \/ DiscoverFails
  BY <1>2 DEF Discover, DiscoverFails, server, updateVars, FeedInv, NothingPassedOver,
              CursorInv, TurnInv, RequestInv, Accounted, Dealt, UnderCursor
<1>3. CASE BeginUpdate \/ FetchFails
  BY <1>3, BeginUpdateFeed, FetchFailsFeed
<1>4. ASSUME NEW b, NEW n, Fetch(b) \/ FetchLosing(b, n)
      PROVE  FeedInv'
  BY <1>4, NextPageFeed DEF Fetch, FetchLosing
<1>5. CASE Finish
  <2>1. \A n \in 1 .. now : n <= start => Accounted(n)
    <3>1. current = None /\ todo = {} /\ stage = "choose"
      BY <1>5 DEF Finish, FeedInv
    <3>2. QED
      BY <3>1, Bounds DEF FeedInv, TurnInv
  <2>2. NothingPassedOver'
    BY <1>5, <2>1 DEF Finish, server, NothingPassedOver, Accounted, UnderCursor
  <2>3. CursorInv' /\ TurnInv' /\ RequestInv' /\ current' = None
    BY <1>5 DEF Finish, server, FeedInv, CursorInv, TurnInv, RequestInv, Dealt
  <2>4. QED
    BY <2>2, <2>3 DEF FeedInv
<1>6. CASE Restart
  <2>1. NothingPassedOver'
    BY <1>6, Bounds DEF Restart, server, NothingPassedOver
  <2>2. CursorInv' /\ TurnInv' /\ RequestInv' /\ current' = None
    BY <1>6 DEF Restart, CursorInv, TurnInv, RequestInv
  <2>3. QED
    BY <2>1, <2>2 DEF FeedInv
<1>7. CASE UNCHANGED vars
  BY <1>7 DEF vars, server, updateVars, FeedInv, NothingPassedOver, CursorInv, TurnInv,
              RequestInv, Accounted, Dealt, UnderCursor
<1>8. QED
  BY <1>1, <1>2, <1>3, <1>4, <1>5, <1>6, <1>7 DEF Next, Update, Break

(* An object from before last_update was stored, or is still under a       *)
(* cursor, or a fault cut it off, or it showed up when the client's clock  *)
(* had passed its time: for any collections, pages, clocks and faults.     *)
THEOREM LastUpdateIsTrue == Spec => []NothingPassedOver
<1>1. Init => TypeOK /\ FeedInv
  BY InitType, InitFeed
<1>2. TypeOK /\ FeedInv /\ [Next]_vars => (TypeOK /\ FeedInv)'
  BY TypeStep, FeedStep
<1>3. TypeOK /\ FeedInv => NothingPassedOver
  BY DEF FeedInv
<1>4. QED
  BY <1>1, <1>2, <1>3, PTL DEF Spec
=============================================================================
