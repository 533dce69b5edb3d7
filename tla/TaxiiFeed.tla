------------------------------ MODULE TaxiiFeed ------------------------------
(***************************************************************************)
(* How aaa-monitor follows one TAXII 2.x feed (threat_intel/               *)
(* taxii_client.py).                                                       *)
(*                                                                         *)
(* The feed's loop asks every collection it knows for the objects that     *)
(* were added after last_update, page by page, and then moves last_update  *)
(* to the time at which the update began.  It does so even when a request  *)
(* failed, which is only logged.  Between two pages the next cursor is     *)
(* remembered in memory, and an update that finds one goes on from it.     *)
(* Neither outlives the process: cursors are not saved, and saving         *)
(* last_update fails every time, for the database has no table feeds.      *)
(*                                                                         *)
(* The server is external.  Its clock counts the objects, so the object n  *)
(* was added at time n; it orders the objects of a collection by time, may *)
(* break a page anywhere up to the limit, and reads a cursor as the place  *)
(* at which the page it came with was broken.  The start of an update is   *)
(* read from the client's own clock, which may differ from the server's.   *)
(***************************************************************************)
EXTENDS Naturals, FiniteSets

CONSTANTS
  Collection,  (* the collections of the feed                              *)
  None,        (* no collection                                            *)
  PageLimit,   (* the limit parameter                                      *)
  MaxPages,    (* pages in one update: 100 in the code                     *)
  MaxObjects,  (* bound on the objects ever added                          *)
  Ahead,       (* how far the client's clock may be ahead of the times of  *)
               (* the objects that show up: its skew, and the time between *)
               (* an object's time and the object's being served           *)
  Behind,      (* how far it may be behind them                            *)
  Faults,      (* kinds of fault that may happen                           *)
  MaxFaults    (* bound on the number of faults                            *)

(* "request" is an HTTP error, a timeout or an exception in a request for  *)
(* a page, "store" the loss of an object that is parsed or stored,         *)
(* "discovery" a failing request for the collections, "restart" a restart  *)
(* of the service.                                                         *)
FaultKind == {"request", "store", "discovery", "restart"}

ASSUME TaxiiFeedAssumption ==
  /\ None \notin Collection
  /\ PageLimit \in Nat \ {0}
  /\ MaxPages \in Nat \ {0}
  /\ MaxObjects \in Nat
  /\ Ahead \in Nat
  /\ Behind \in Nat
  /\ MaxFaults \in Nat
  /\ Faults \subseteq FaultKind

VARIABLES
  now,        (* the time: the number of objects added so far              *)
  home,       (* the collection of each object                             *)
  known,      (* collections: those the last discovery returned            *)
  lastUpdate, (* last_updates of the feed, 0 for none                      *)
  cursor,     (* pagination_cursors: the first object not seen, 0 for none *)
  stage,      (* what the update does                                      *)
  start,      (* its start_time, by the client's clock                     *)
  todo,       (* collections it has not begun                              *)
  current,    (* the collection it is reading                              *)
  from,       (* the first object that its next request asks for           *)
  page,       (* page_count                                                *)
  stored,     (* objects in the indicator database                         *)
  lost,       (* objects that a fault cut off                              *)
  late,       (* objects that showed up with a time that the client had    *)
              (* already taken as the start of an update                   *)
  faults      (* faults so far                                             *)

server     == <<now, home>>
updateVars == <<stage, start, todo, current, from, page>>
vars       == <<server, known, lastUpdate, cursor, updateVars, stored, lost, late, faults>>

Object == 1 .. MaxObjects

TypeOK ==
  /\ now \in 0 .. MaxObjects
  /\ home \in [Object -> Collection \cup {None}]
  /\ \A n \in 1 .. now : home[n] \in Collection
  /\ known \subseteq Collection
  /\ lastUpdate \in Nat
  /\ cursor \in [Collection -> 0 .. now]
  /\ stage \in {"idle", "choose", "fetch"}
  /\ start \in Nat
  /\ todo \subseteq Collection
  /\ current \in Collection \cup {None}
  /\ stage = "fetch" => current \in Collection /\ from # 0
  /\ from \in Nat
  /\ page \in Nat
  /\ stored \subseteq Object
  /\ lost \subseteq Object
  /\ late \subseteq Object
  /\ faults \in Nat

Init ==
  /\ now = 0
  /\ home = [n \in Object |-> None]
  /\ known \in {{}, Collection}
  /\ known = {} => "discovery" \in Faults
  /\ lastUpdate = 0
  /\ cursor = [c \in Collection |-> 0]
  /\ stage = "idle"
  /\ start = 0
  /\ todo = {}
  /\ current = None
  /\ from = 0
  /\ page = 0
  /\ stored = {}
  /\ lost = {}
  /\ late = {}
  /\ faults = 0

Fault(kind) ==
  /\ kind \in Faults
  /\ faults < MaxFaults
  /\ faults' = faults + 1

(* The objects of c from a to b. *)
Objects(c, a, b) == {n \in a .. b : home[n] = c}

(* The cursor stands for object n: it will be asked for again. *)
UnderCursor(n) == cursor[home[n]] # 0 /\ cursor[home[n]] <= n

-----------------------------------------------------------------------------
(* The server *)

(* A time that this update, or one before it, has passed by its own clock. *)
Passed(n) == n <= lastUpdate \/ (stage # "idle" /\ n <= start)

Publish(c) ==
  /\ now < MaxObjects
  /\ now' = now + 1
  /\ home' = [home EXCEPT ![now + 1] = c]
  /\ late' = IF Passed(now + 1) THEN late \cup {now + 1} ELSE late
  /\ UNCHANGED <<known, lastUpdate, cursor, updateVars, stored, lost, faults>>

-----------------------------------------------------------------------------
(* Discovery, at the start and every two hours *)

Discover ==
  /\ known # Collection
  /\ known' = Collection
  /\ UNCHANGED <<server, lastUpdate, cursor, updateVars, stored, lost, late, faults>>

(* A failed discovery leaves an empty list. *)
DiscoverFails ==
  /\ Fault("discovery")
  /\ known' = {}
  /\ UNCHANGED <<server, lastUpdate, cursor, updateVars, stored, lost, late>>

-----------------------------------------------------------------------------
(* update_feed *)

(* datetime.utcnow() of the client *)
ClientTime == {t \in 0 .. now + Ahead : now <= t + Behind}

(* The start time is taken and the list of collections is read.  What was  *)
(* added by then to one that is not in the list, and stands under no       *)
(* cursor, will be behind last_update.                                     *)
BeginUpdate ==
  /\ stage = "idle"
  /\ stage' = "choose"
  /\ start' \in ClientTime
  /\ todo' = known
  /\ lost' = lost \cup
       {n \in lastUpdate + 1 .. now : n <= start' /\ home[n] \notin known /\ ~UnderCursor(n)}
  /\ UNCHANGED <<server, known, lastUpdate, cursor, current, from, page, stored, late, faults>>

(* Variant: a remembered cursor is not looked up. *)
BeginCollectionAfresh(c) ==
  /\ stage = "choose"
  /\ c \in todo
  /\ stage' = "fetch"
  /\ todo' = todo \ {c}
  /\ current' = c
  /\ from' = lastUpdate + 1
  /\ page' = 0
  /\ UNCHANGED <<server, known, lastUpdate, cursor, start, stored, lost, late, faults>>

(* The first request of a collection: from its cursor, if there is one,    *)
(* otherwise after last_update.                                            *)
BeginCollection(c) ==
  /\ stage = "choose"
  /\ c \in todo
  /\ stage' = "fetch"
  /\ todo' = todo \ {c}
  /\ current' = c
  /\ from' = IF cursor[c] # 0 THEN cursor[c] ELSE lastUpdate + 1
  /\ page' = 0
  /\ UNCHANGED <<server, known, lastUpdate, cursor, start, stored, lost, late, faults>>

EndCollection ==
  /\ stage' = "choose"
  /\ current' = None
  /\ from' = 0
  /\ page' = 0

(* Where a page may end: the server sends at least one object if there is  *)
(* one.                                                                    *)
PageEnds ==
  LET rest == Objects(current, from, now) IN
  IF rest = {} THEN {now}
  ELSE {b \in rest : Cardinality(Objects(current, from, b)) <= PageLimit}

(* A page with the objects up to b is stored.  If there are more, the      *)
(* cursor is kept and, unless this was the last page of the update, the    *)
(* next page is asked for; otherwise the cursor is cleared.                *)
NextPage(b, missed) ==
  LET c == current IN
  /\ stage = "fetch"
  /\ b \in PageEnds
  /\ missed \subseteq Objects(c, from, b)
  /\ stored' = stored \cup (Objects(c, from, b) \ missed)
  /\ lost' = lost \cup missed
  /\ IF Objects(c, b + 1, now) # {}
     THEN /\ cursor' = [cursor EXCEPT ![c] = b + 1]
          /\ IF page + 1 < MaxPages
             THEN /\ from' = b + 1
                  /\ page' = page + 1
                  /\ UNCHANGED <<stage, current>>
             ELSE EndCollection
     ELSE /\ cursor' = [cursor EXCEPT ![c] = 0]
          /\ EndCollection
  /\ UNCHANGED <<server, known, lastUpdate, start, todo, late>>

Fetch(b) == NextPage(b, {}) /\ UNCHANGED faults

(* An object that cannot be parsed or stored is logged and passed over. *)
FetchLosing(b, n) == NextPage(b, {n}) /\ Fault("store")

(* The request fails: the collection is left, with the cursor it has.  If  *)
(* it has none, what was asked for will be behind last_update (and what    *)
(* the client's clock is behind of will be asked for once more).           *)
FetchFails ==
  /\ stage = "fetch"
  /\ Fault("request")
  /\ lost' = IF cursor[current] = 0
             THEN lost \cup {n \in Objects(current, from, now) : n <= start}
             ELSE lost
  /\ EndCollection
  /\ UNCHANGED <<server, known, lastUpdate, cursor, start, todo, stored, late>>

(* Variant: last_update is the time at which the update ends. *)
FinishLate ==
  /\ stage = "choose"
  /\ todo = {}
  /\ stage' = "idle"
  /\ lastUpdate' \in ClientTime
  /\ UNCHANGED <<server, known, cursor, start, todo, current, from, page, stored, lost, late,
                 faults>>

(* Every collection has had its turn: the update counts as a success.      *)
(* set_feed_last_update, called next, raises on the missing table and logs *)
(* it.                                                                     *)
Finish ==
  /\ stage = "choose"
  /\ todo = {}
  /\ stage' = "idle"
  /\ lastUpdate' = start
  /\ UNCHANGED <<server, known, cursor, start, todo, current, from, page, stored, lost, late,
                 faults>>

(* Variant: the page that was being read is asked for again. *)
RestartInPlace ==
  /\ Fault("restart")
  /\ lastUpdate' = 0
  /\ cursor' = [c \in Collection |-> 0]
  /\ lost' = {}
  /\ late' = {}
  /\ todo' = {}
  /\ current' = None
  /\ UNCHANGED <<server, known, stage, start, from, page, stored>>

(* The service restarts without last_update and without cursors, and will  *)
(* ask for everything again: nothing is cut off any more.  The collections *)
(* are discovered again, with success or without.                          *)
Restart ==
  /\ Fault("restart")
  /\ lastUpdate' = 0
  /\ cursor' = [c \in Collection |-> 0]
  /\ lost' = {}
  /\ late' = {}
  /\ known' \in {{}, Collection}
  /\ known' = {} => "discovery" \in Faults
  /\ stage' = "idle"
  /\ todo' = {}
  /\ current' = None
  /\ from' = 0
  /\ page' = 0
  /\ UNCHANGED <<server, start, stored>>

-----------------------------------------------------------------------------
Update ==
  \/ BeginUpdate
  \/ \E c \in Collection : BeginCollection(c)
  \/ \E b \in 0 .. now : Fetch(b)
  \/ Finish

Break ==
  \/ DiscoverFails
  \/ \E b \in 0 .. now : \E n \in Object : FetchLosing(b, n)
  \/ FetchFails
  \/ Restart

Next ==
  \/ \E c \in Collection : Publish(c)
  \/ Discover
  \/ Update
  \/ Break

Spec == Init /\ [][Next]_vars

(* The loops of the feed and of the discovery run for as long as the       *)
(* service does.                                                           *)
FairSpec == Spec /\ WF_vars(Update) /\ WF_vars(Discover)

-----------------------------------------------------------------------------
(* Properties *)

(* Object n was stored, stands under a cursor, was cut off by a fault, or  *)
(* showed up when the client's clock had passed it.                        *)
Accounted(n) == n \in stored \cup lost \cup late \/ UnderCursor(n)

(* The time of the last update can be trusted, though objects are added    *)
(* while pages are read, updates stop at the page limit, requests and the  *)
(* service fail and the clocks of the client and the server differ:        *)
(* update_feed passes over no object but those that a fault cut off and    *)
(* those that showed up with a time the client's clock had passed.         *)
NothingPassedOver ==
  \A n \in 1 .. now : n <= lastUpdate => Accounted(n)

(* Whatever the interleaving of publications, pages and faults, every      *)
(* object is stored in the end (those that are still under a cursor too)   *)
(* or a fault or the client's clock cut it off.                            *)
PublishedIsStored ==
  \A n \in Object : (n <= now) ~> (n \in stored \cup lost \cup late)
=============================================================================
