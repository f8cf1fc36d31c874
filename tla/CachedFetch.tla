---------------------------- MODULE CachedFetch ----------------------------
(* A customer's orders as read through the cache: cachedFetch with its soft    *)
(* and hard time to live, its lock and the coalescing of each process, over    *)
(* the two ways the order cache is told of a write. The list is stored under a *)
(* key that carries a version, which a write increments; the detail is stored  *)
(* under one key, which a write deletes.                                       *)
(*                                                                             *)
(* The order is the number of writes it has seen. An envelope turns stale and  *)
(* goes at any time.                                                           *)
EXTENDS Integers, FiniteSets

CONSTANTS Proc,      \* server processes
          Req,       \* requests followed, each <<the process that serves it, a number>>
          MaxFills,  \* bound: fills in flight when one begins that no request waits for
          MaxWrites  \* bound: writes to the order

ASSUME RequestAssumption == Req \subseteq Proc \X Nat
ASSUME CacheBoundAssumption == MaxWrites \in Nat /\ MaxFills \in Nat \ {0}

VARIABLES
    db,       \* writes done to the order; 0: there is no such order
    telling,  \* <<w, step>>: invalidateUserOrderCache after write w
    version,  \* cache:orders:ver:<user>
    told,     \* history: the last write whose increment is done
    envelope, \* what Redis holds under each key
    fill,     \* the entries of each process's inFlight map
    request

cacheVars == <<db, telling, version, told, envelope, fill, request>>
writers == <<db, telling, version, told>>

DetailKey == <<"detail", 0>>

(* Mutant: the key leaves the version out.                                     *)
OneListKey(v) == <<"list", 0>>

ListKey(v) == <<"list", v>>
Key == {ListKey(v) : v \in 0 .. MaxWrites} \cup {DetailKey}

Null == -1
NoEnvelope == [data |-> Null, fresh |-> FALSE]
NoFill == [pc |-> "none", data |-> Null, began |-> 0]
NoRequest == [pc |-> "idle", key |-> DetailKey, floor |-> 0, data |-> Null]

Stored(k) == envelope[k].data # Null
Fresh(k) == Stored(k) /\ envelope[k].fresh
StaleButValid(k) == Stored(k) /\ ~envelope[k].fresh

Data == {Null} \cup 0 .. MaxWrites
FillPhase == {"none", "locking", "polling", "fetching", "alone", "storing"}
Fill == [pc : FillPhase, data : Data, began : 0 .. MaxWrites]
Request ==
    [pc : {"idle", "asking", "waiting", "answered"}, key : Key, floor : 0 .. MaxWrites, data : Data]

CacheTypeOK ==
    /\ db \in 0 .. MaxWrites
    /\ telling \subseteq (1 .. MaxWrites) \X {"bump", "delete"}
    /\ version \in 0 .. MaxWrites
    /\ told \in 0 .. MaxWrites
    /\ envelope \in [Key -> [data : Data, fresh : BOOLEAN]]
    /\ fill \in [Proc \X Key -> Fill]
    /\ request \in [Req -> Request]

CacheInit ==
    /\ db = 0
    /\ telling = {}
    /\ version = 0
    /\ told = 0
    /\ envelope = [k \in Key |-> NoEnvelope]
    /\ fill = [x \in Proc \X Key |-> NoFill]
    /\ request = [r \in Req |-> NoRequest]

-----------------------------------------------------------------------------
(* Requests                                                                    *)

(* The version is read first, and the key made from it.                        *)
AskForList(r) ==
    /\ request[r].pc = "idle"
    /\ request' = [request EXCEPT ![r] =
           [@ EXCEPT !.pc = "asking", !.key = ListKey(version), !.floor = told]]
    /\ UNCHANGED <<writers, envelope, fill>>

AskForDetail(r) ==
    /\ request[r].pc = "idle"
    /\ request' = [request EXCEPT ![r] = [@ EXCEPT !.pc = "asking", !.key = DetailKey]]
    /\ UNCHANGED <<writers, envelope, fill>>

Idle == Cardinality({x \in DOMAIN fill : fill[x].pc # "none"}) < MaxFills

(* coalesceInFlight: a fill in flight in this process is joined.               *)
Refresh(p, k) ==
    IF fill[<<p, k>>].pc # "none" THEN UNCHANGED fill
    ELSE fill' = [fill EXCEPT ![<<p, k>>] = [@ EXCEPT !.pc = "locking", !.began = db]]

Lookup(r) ==
    LET k == request[r].key
        answered == [request EXCEPT ![r] = [@ EXCEPT !.pc = "answered",
                                                     !.data = envelope[k].data]]
    IN  /\ request[r].pc = "asking"
        /\ \/ Fresh(k) /\ request' = answered /\ UNCHANGED fill
           \/ /\ StaleButValid(k)
              /\ request' = answered
              /\ IF Idle THEN Refresh(r[1], k) ELSE UNCHANGED fill \* bound
           \/ /\ ~Stored(k)
              /\ request' = [request EXCEPT ![r].pc = "waiting"]
              /\ Refresh(r[1], k)
        /\ UNCHANGED <<writers, envelope>>

(* A request that is not followed begins a fill: its version was read at some  *)
(* time before.                                                                *)
LookupElsewhere(p, k) ==
    /\ ~Fresh(k)
    /\ k = DetailKey \/ k[2] <= version
    /\ Idle
    /\ Refresh(p, k)
    /\ UNCHANGED <<writers, envelope, request>>

Respond(r) ==
    /\ request[r].pc = "answered"
    /\ request' = [request EXCEPT ![r] = NoRequest]
    /\ UNCHANGED <<writers, envelope, fill>>

-----------------------------------------------------------------------------
(* computeAndStore, for whoever waits in the process                           *)

Waiting(p, k) == {r \in Req : r[1] = p /\ request[r].pc = "waiting" /\ request[r].key = k}

Settle(p, k, d) ==
    /\ fill' = [fill EXCEPT ![<<p, k>>] = NoFill]
    /\ request' = [r \in Req |-> IF r \in Waiting(p, k)
                                 THEN [request[r] EXCEPT !.pc = "answered", !.data = d]
                                 ELSE request[r]]

Reject(p, k) ==
    /\ fill' = [fill EXCEPT ![<<p, k>>] = NoFill]
    /\ request' = [r \in Req |-> IF r \in Waiting(p, k) THEN NoRequest ELSE request[r]]

Goto(p, k, pc, d) ==
    /\ fill' = [fill EXCEPT ![<<p, k>>] = [@ EXCEPT !.pc = pc, !.data = d]]
    /\ UNCHANGED request

(* setCacheEnvelope                                                            *)
Put(k, d) == envelope' = [envelope EXCEPT ![k] = [data |-> d, fresh |-> TRUE]]

LockNotWon(p, k) == Goto(p, k, "polling", Null)

(* Mutant: a stale envelope found is stored again, with a new time.            *)
LockAndKeep(p, k) ==
    /\ fill[<<p, k>>].pc = "locking"
    /\ \/ LockNotWon(p, k) /\ UNCHANGED envelope
       \/ ~Stored(k) /\ Goto(p, k, "fetching", Null) /\ UNCHANGED envelope
       \/ Fresh(k) /\ Settle(p, k, envelope[k].data) /\ UNCHANGED envelope
       \/ StaleButValid(k) /\ Settle(p, k, envelope[k].data) /\ Put(k, envelope[k].data)
    /\ UNCHANGED writers

(* Five attempts at the mutex. It runs out while its holder works, whoever     *)
(* finishes deletes it and it outlives a process that died, so it is won or    *)
(* not whatever the other fills do. Under it any envelope that is still valid, *)
(* stale or fresh, ends the fill.                                              *)
LockAndCheck(p, k) ==
    /\ fill[<<p, k>>].pc = "locking"
    /\ \/ LockNotWon(p, k)
       \/ ~Stored(k) /\ Goto(p, k, "fetching", Null)
       \/ Fresh(k) /\ Settle(p, k, envelope[k].data)
       \/ StaleButValid(k) /\ Settle(p, k, envelope[k].data)
    /\ UNCHANGED <<writers, envelope>>

(* Only a detail can be missing.                                               *)
NotFound(k) == k = DetailKey /\ db = 0

(* A null from under the mutex is taken for a mutex that was not won.          *)
Fetch(p, k) ==
    /\ fill[<<p, k>>].pc = "fetching"
    /\ IF NotFound(k) THEN LockNotWon(p, k) ELSE Goto(p, k, "storing", db)
    /\ UNCHANGED <<writers, envelope>>

(* Mutant: the wait has no end.                                                *)
PollForever(p, k) ==
    /\ fill[<<p, k>>].pc = "polling"
    /\ Stored(k)
    /\ Settle(p, k, envelope[k].data)
    /\ UNCHANGED <<writers, envelope>>

(* waitForCacheEnvelope: an envelope appears, or two seconds pass.             *)
Poll(p, k) ==
    /\ fill[<<p, k>>].pc = "polling"
    /\ IF Stored(k) THEN Settle(p, k, envelope[k].data) ELSE Goto(p, k, "alone", Null)
    /\ UNCHANGED <<writers, envelope>>

(* The fetch without the mutex.                                                *)
FetchAlone(p, k) ==
    /\ fill[<<p, k>>].pc = "alone"
    /\ IF NotFound(k) THEN Settle(p, k, Null) ELSE Goto(p, k, "storing", db)
    /\ UNCHANGED <<writers, envelope>>

Store(p, k) ==
    /\ fill[<<p, k>>].pc = "storing"
    /\ Put(k, fill[<<p, k>>].data)
    /\ Settle(p, k, fill[<<p, k>>].data)
    /\ UNCHANGED writers

FetchFails(p, k) ==
    /\ fill[<<p, k>>].pc \in {"fetching", "alone"}
    /\ Reject(p, k)
    /\ UNCHANGED <<writers, envelope>>

FillStep(p, k) ==
    \/ LockAndCheck(p, k)
    \/ Fetch(p, k)
    \/ Poll(p, k)
    \/ FetchAlone(p, k)
    \/ Store(p, k)

-----------------------------------------------------------------------------
(* Writes to the order. A customer's cancellation and a verified payment tell  *)
(* the cache; the admin's handlers and the jobs do not.                        *)

WriteOrder(tells) ==
    /\ db < MaxWrites
    /\ db' = db + 1
    /\ telling' = IF tells THEN telling \cup {<<db + 1, "bump">>} ELSE telling
    /\ UNCHANGED <<version, told, envelope, fill, request>>

Bump(w) ==
    /\ <<w, "bump">> \in telling
    /\ telling' = (telling \ {<<w, "bump">>}) \cup {<<w, "delete">>}
    /\ version' = version + 1
    /\ told' = IF w > told THEN w ELSE told
    /\ UNCHANGED <<db, envelope, fill, request>>

DeleteDetail(w) ==
    /\ <<w, "delete">> \in telling
    /\ telling' = telling \ {<<w, "delete">>}
    /\ envelope' = [envelope EXCEPT ![DetailKey] = NoEnvelope]
    /\ UNCHANGED <<db, version, told, fill, request>>

(* The call is not awaited by the handler and its failure is only logged.      *)
TellingFails(t) ==
    /\ t \in telling
    /\ telling' = telling \ {t}
    /\ UNCHANGED <<db, version, told, envelope, fill, request>>

-----------------------------------------------------------------------------
(* Time and crashes                                                            *)

TurnStale(k) ==
    /\ Fresh(k)
    /\ envelope' = [envelope EXCEPT ![k].fresh = FALSE]
    /\ UNCHANGED <<writers, fill, request>>

Expire(k) ==
    /\ StaleButValid(k)
    /\ envelope' = [envelope EXCEPT ![k] = NoEnvelope]
    /\ UNCHANGED <<writers, fill, request>>

ProcessDies(p) ==
    /\ \E k \in Key : fill[<<p, k>>].pc # "none"
    /\ fill' = [x \in DOMAIN fill |-> IF x[1] = p THEN NoFill ELSE fill[x]]
    /\ request' = [r \in Req |-> IF r[1] = p THEN NoRequest ELSE request[r]]
    /\ UNCHANGED <<writers, envelope>>

CacheNext ==
    \/ \E r \in Req : AskForList(r) \/ AskForDetail(r) \/ Lookup(r) \/ Respond(r)
    \/ \E p \in Proc, k \in Key : LookupElsewhere(p, k) \/ FillStep(p, k) \/ FetchFails(p, k)
    \/ \E tells \in BOOLEAN : WriteOrder(tells)
    \/ \E w \in 1 .. MaxWrites : Bump(w) \/ DeleteDetail(w)
    \/ \E t \in telling : TellingFails(t)
    \/ \E k \in Key : TurnStale(k) \/ Expire(k)
    \/ \E p \in Proc : ProcessDies(p)

CacheSpec == CacheInit /\ [][CacheNext]_cacheVars

(* A request and a fill go on while their process lives.                       *)
Fairness ==
    /\ \A r \in Req : WF_cacheVars(Lookup(r))
    /\ \A p \in Proc, k \in Key : WF_cacheVars(FillStep(p, k))

FairCacheSpec == CacheSpec /\ Fairness

-----------------------------------------------------------------------------
(* Properties                                                                  *)

(* A list that is asked for after the version was incremented for a write      *)
(* shows that write, whoever filled its key, whenever that fill began, however *)
(* old the envelope is and whether or not the lock lasted.                     *)
ListShowsAnnouncedWrites ==
    \A r \in Req : request[r].pc = "answered" /\ request[r].key # DetailKey
                       => request[r].data >= request[r].floor

(* What gets a new time to live was current at some time since the fill that   *)
(* stored it began: no path of a fill gives an old value a new time, so none   *)
(* outlives the hard limit by more than a fill takes.                          *)
StoredWasCurrent ==
    [][\A k \in Key : ~Fresh(k) /\ Fresh(k)' =>
          \E p \in Proc : /\ fill[<<p, k>>].pc # "none"
                          /\ fill'[<<p, k>>].pc = "none"
                          /\ envelope'[k].data >= fill[<<p, k>>].began]_cacheVars

(* A request is answered, or fails, whoever holds the lock, dies with it or    *)
(* stores nothing.                                                             *)
EveryRequestEnds ==
    \A r \in Req : request[r].pc \in {"asking", "waiting"} ~> request[r].pc \in {"idle", "answered"}
=============================================================================
