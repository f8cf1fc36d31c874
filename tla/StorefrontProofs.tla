--------------------------- MODULE StorefrontProofs ---------------------------
(* What a customer is shown: the orders read through the cache (CachedFetch),  *)
(* then the cart (Cart), for any numbers of processes, requests, items, writes *)
(* and crashes. The two specifications share no variable.                      *)
EXTENDS CachedFetch, Cart, FiniteSetTheorems, TLAPS

-----------------------------------------------------------------------------
(* The cache. A list asked for after the cache was told of a write shows that  *)
(* write, and no fill gives an old value a new time to live.                   *)

ListKeys == Key \ {DetailKey}

LEMMA Keys ==
  /\ DetailKey \in Key
  /\ \A v \in 0 .. MaxWrites : ListKey(v) \in ListKeys /\ ListKey(v)[2] = v
  /\ \A k \in ListKeys : k[2] \in 0 .. MaxWrites
BY DEF Key, ListKeys, ListKey, DetailKey

(* Why a list shows what was announced. The version of a key is one that the   *)
(* cache was told of some writes for; a fill of that key begins later and      *)
(* reads later still, so all that is stored under it, or about to be, has seen *)
(* them. No key is used before its version is there.                           *)
Announced == {t \in telling : t[2] = "bump"}
Counted ==
    /\ told <= db
    /\ \A t \in telling : t[1] <= db
    /\ version + Cardinality(Announced) <= db

Shows(k, n) ==
    /\ Stored(k) => envelope[k].data >= n
    /\ \A p \in Proc : fill[<<p, k>>].pc = "storing" => fill[<<p, k>>].data >= n
Unused(k) == ~Stored(k) /\ \A p \in Proc : fill[<<p, k>>].pc = "none"

Versions ==
    \A k \in ListKeys :
        /\ k[2] = version => Shows(k, told)
        /\ k[2] > version => Unused(k)
Floors ==
    \A r \in Req : request[r].pc # "idle" /\ request[r].key # DetailKey =>
        /\ request[r].key[2] <= version
        /\ request[r].floor <= told
        /\ Shows(request[r].key, request[r].floor)
        /\ request[r].pc = "answered" => request[r].data >= request[r].floor
Began ==
    \A x \in Proc \X Key :
        /\ fill[x].pc # "none" => fill[x].began <= db
        /\ fill[x].pc = "storing" => fill[x].data >= fill[x].began
CacheInv == CacheTypeOK /\ Counted /\ Versions /\ Floors /\ Began

----------------------------------------------------------------------------
(* What the operators on the fills and the requests do, entry by entry.        *)
LEMMA FillSet ==
  ASSUME CacheTypeOK, NEW x \in Proc \X Key, NEW f \in Fill, fill' = [fill EXCEPT ![x] = f]
  PROVE  /\ fill' \in [Proc \X Key -> Fill]
         /\ fill'[x] = f
         /\ \A y \in Proc \X Key : y # x => fill'[y] = fill[y]
BY DEF CacheTypeOK

LEMMA Nulls ==
  /\ Null \in Data /\ 0 .. MaxWrites \subseteq Data
  /\ NoFill \in Fill /\ NoRequest \in Request
  /\ NoEnvelope \in [data : Data, fresh : BOOLEAN]
BY Keys, CacheBoundAssumption DEF Data, Null, NoFill, NoRequest, NoEnvelope, Fill, FillPhase, Request

LEMMA Refreshed ==
  ASSUME CacheTypeOK, NEW p \in Proc, NEW k \in Key, Refresh(p, k)
  PROVE  /\ fill' \in [Proc \X Key -> Fill]
         /\ \A y \in Proc \X Key :
              \/ fill'[y] = fill[y]
              \/ y = <<p, k>> /\ fill[y].pc = "none" /\ fill'[y].pc = "locking" /\ fill'[y].began = db
<1>1. fill \in [Proc \X Key -> Fill] /\ <<p, k>> \in Proc \X Key /\ db \in 0 .. MaxWrites
  BY DEF CacheTypeOK
<1>2. CASE fill[<<p, k>>].pc # "none"
  BY <1>1, <1>2 DEF Refresh
<1>3. CASE fill[<<p, k>>].pc = "none"
  <2> DEFINE f == [fill[<<p, k>>] EXCEPT !.pc = "locking", !.began = db]
  <2>1. fill[<<p, k>>] \in Fill
    BY <1>1
  <2>2. f \in Fill /\ f.pc = "locking" /\ f.began = db
    BY <1>1, <2>1 DEF Fill, FillPhase
  <2>3. fill' = [fill EXCEPT ![<<p, k>>] = f]
    BY <1>3 DEF Refresh
  <2> HIDE DEF f
  <2>4. /\ fill' \in [Proc \X Key -> Fill]
        /\ fill'[<<p, k>>] = f
        /\ \A y \in Proc \X Key : y # <<p, k>> => fill'[y] = fill[y]
    BY <1>1, <2>2, <2>3, FillSet
  <2>5. QED
    BY <1>3, <2>2, <2>4
<1>4. QED
  BY <1>2, <1>3

LEMMA Gone ==
  ASSUME CacheTypeOK, NEW p \in Proc, NEW k \in Key, NEW pc \in FillPhase, NEW d \in Data, Goto(p, k, pc, d)
  PROVE  /\ fill' \in [Proc \X Key -> Fill]
         /\ fill'[<<p, k>>].pc = pc /\ fill'[<<p, k>>].data = d
         /\ fill'[<<p, k>>].began = fill[<<p, k>>].began
         /\ \A y \in Proc \X Key : y # <<p, k>> => fill'[y] = fill[y]
         /\ request' = request
<1>1. fill \in [Proc \X Key -> Fill] /\ <<p, k>> \in Proc \X Key
  BY DEF CacheTypeOK
<1> DEFINE f == [fill[<<p, k>>] EXCEPT !.pc = pc, !.data = d]
<1>2. fill[<<p, k>>] \in Fill
  BY <1>1
<1>3. f \in Fill /\ f.pc = pc /\ f.data = d /\ f.began = fill[<<p, k>>].began
  BY <1>2 DEF Fill
<1>4. fill' = [fill EXCEPT ![<<p, k>>] = f] /\ request' = request
  BY DEF Goto
<1> HIDE DEF f
<1>5. QED
  BY <1>1, <1>3, <1>4, FillSet

LEMMA SettledRequest ==
  ASSUME CacheTypeOK, NEW p \in Proc, NEW k \in Key, NEW d \in Data, Settle(p, k, d)
  PROVE  /\ fill' \in [Proc \X Key -> Fill] /\ request' \in [Req -> Request]
         /\ fill'[<<p, k>>].pc = "none"
         /\ \A y \in Proc \X Key : y # <<p, k>> => fill'[y] = fill[y]
         /\ \A r \in Req :
              \/ request'[r] = request[r]
              \/ /\ request[r].pc = "waiting" /\ request[r].key = k
                 /\ request'[r].pc = "answered" /\ request'[r].data = d
                 /\ request'[r].key = k /\ request'[r].floor = request[r].floor
<1>1. /\ fill \in [Proc \X Key -> Fill] /\ <<p, k>> \in Proc \X Key
      /\ request \in [Req -> Request]
  BY DEF CacheTypeOK
<1>2. /\ fill' \in [Proc \X Key -> Fill] /\ fill'[<<p, k>>] = NoFill
      /\ \A y \in Proc \X Key : y # <<p, k>> => fill'[y] = fill[y]
  BY <1>1, Nulls, FillSet DEF Settle
<1> DEFINE a(r) == [request[r] EXCEPT !.pc = "answered", !.data = d]
<1>3. ASSUME NEW r \in Req
      PROVE  /\ a(r) \in Request /\ a(r).pc = "answered" /\ a(r).data = d
             /\ a(r).key = request[r].key /\ a(r).floor = request[r].floor
  <2>1. request[r] \in Request
    BY <1>1
  <2>2. QED
    BY <2>1 DEF Request
<1>4. request' = [r \in Req |-> IF r \in Waiting(p, k) THEN a(r) ELSE request[r]]
  BY DEF Settle
<1> HIDE DEF a
<1>5. request' \in [Req -> Request]
  BY <1>1, <1>3, <1>4
<1>6. ASSUME NEW r \in Req
      PROVE  \/ request'[r] = request[r]
             \/ /\ request[r].pc = "waiting" /\ request[r].key = k
                /\ request'[r].pc = "answered" /\ request'[r].data = d
                /\ request'[r].key = k /\ request'[r].floor = request[r].floor
  BY <1>3, <1>4, <1>6 DEF Waiting
<1>7. QED
  BY <1>2, <1>5, <1>6 DEF NoFill

LEMMA Rejected ==
  ASSUME CacheTypeOK, NEW p \in Proc, NEW k \in Key, Reject(p, k)
  PROVE  /\ fill' \in [Proc \X Key -> Fill] /\ request' \in [Req -> Request]
         /\ fill'[<<p, k>>].pc = "none"
         /\ \A y \in Proc \X Key : y # <<p, k>> => fill'[y] = fill[y]
         /\ \A r \in Req : request'[r] = request[r] \/ request'[r].pc = "idle"
<1>1. /\ fill \in [Proc \X Key -> Fill] /\ <<p, k>> \in Proc \X Key
      /\ request \in [Req -> Request]
  BY DEF CacheTypeOK
<1>2. /\ fill' \in [Proc \X Key -> Fill] /\ fill'[<<p, k>>] = NoFill
      /\ \A y \in Proc \X Key : y # <<p, k>> => fill'[y] = fill[y]
  BY <1>1, Nulls, FillSet DEF Reject
<1>3. request' = [r \in Req |-> IF r \in Waiting(p, k) THEN NoRequest ELSE request[r]]
  BY DEF Reject
<1>4. QED
  BY <1>1, <1>2, <1>3, Nulls DEF NoFill, NoRequest

----------------------------------------------------------------------------
(* What one step does to a fill, a request and an envelope.                    *)
FillMoved(y) ==
    \/ fill'[y] = fill[y]
    \/ fill'[y].pc = "none"
    \/ /\ fill[y].pc # "none" /\ fill'[y].began = fill[y].began
       /\ fill'[y].pc = "storing" => fill'[y].data = db
    \/ /\ fill[y].pc = "none" /\ fill'[y].pc = "locking" /\ fill'[y].began = db
       /\ y[2] # DetailKey => y[2][2] <= version
AllFillsMoved == fill' \in [Proc \X Key -> Fill] /\ \A y \in Proc \X Key : FillMoved(y)

RequestMoved(r) ==
    \/ request'[r].pc = "idle"
    \/ request'[r].key = DetailKey
    \/ /\ request'[r].pc = "asking" /\ request'[r].key = ListKey(version)
       /\ request'[r].floor = told
    \/ /\ request[r].pc # "idle"
       /\ request'[r].key = request[r].key /\ request'[r].floor = request[r].floor
       /\ request'[r].pc = "answered" => request'[r].data >= request[r].floor
AllRequestsMoved == request' \in [Req -> Request] /\ \A r \in Req : RequestMoved(r)

EnvelopeMoved(k) ==
    \/ envelope'[k] = envelope[k]
    \/ envelope'[k].data = Null
    \/ envelope'[k].data = envelope[k].data /\ ~envelope'[k].fresh
    \/ \E p \in Proc :
         /\ fill[<<p, k>>].pc = "storing" /\ fill'[<<p, k>>].pc = "none"
         /\ envelope'[k].data = fill[<<p, k>>].data
AllEnvelopesMoved ==
    envelope' \in [Key -> [data : Data, fresh : BOOLEAN]] /\ \A k \in Key : EnvelopeMoved(k)

(* A request that stays as it is moves in this sense, since its data is as new *)
(* as its floor already.                                                       *)
LEMMA Unmoved ==
  ASSUME Floors, NEW r \in Req, request'[r] = request[r]
  PROVE  RequestMoved(r)
BY DEF Floors, RequestMoved

(* A settled fill answers with something at least as new as every floor.       *)
LEMMA SettledMoves ==
  ASSUME CacheTypeOK, Floors, NEW p \in Proc, NEW k \in Key, NEW d \in Data, Settle(p, k, d),
         \/ k = DetailKey
         \/ Stored(k) /\ d = envelope[k].data
         \/ fill[<<p, k>>].pc = "storing" /\ d = fill[<<p, k>>].data
  PROVE  AllFillsMoved /\ AllRequestsMoved
<1>1. AllFillsMoved
  <2>1. /\ fill' \in [Proc \X Key -> Fill] /\ fill'[<<p, k>>].pc = "none"
        /\ \A y \in Proc \X Key : y # <<p, k>> => fill'[y] = fill[y]
    BY SettledRequest
  <2>2. ASSUME NEW y \in Proc \X Key PROVE FillMoved(y)
    BY <2>1 DEF FillMoved
  <2>3. QED
    BY <2>1, <2>2 DEF AllFillsMoved
<1>2. ASSUME NEW r \in Req PROVE RequestMoved(r)
  <2>1. CASE request'[r] = request[r]
    BY <2>1, Unmoved
  <2>2. CASE /\ request[r].pc = "waiting" /\ request[r].key = k
             /\ request'[r].pc = "answered" /\ request'[r].data = d
             /\ request'[r].key = k /\ request'[r].floor = request[r].floor
    <3>1. CASE k = DetailKey
      BY <2>2, <3>1 DEF RequestMoved
    <3>2. CASE k # DetailKey
      <4>1. Shows(k, request[r].floor)
        BY <2>2, <3>2 DEF Floors
      <4>2. d >= request[r].floor
        BY <3>2, <4>1 DEF Shows
      <4>3. QED
        BY <2>2, <4>2 DEF RequestMoved
    <3>3. QED
      BY <3>1, <3>2
  <2>3. QED
    BY <2>1, <2>2, SettledRequest
<1>3. request' \in [Req -> Request]
  BY SettledRequest
<1>4. QED
  BY <1>1, <1>2, <1>3 DEF AllRequestsMoved

LEMMA GoneMoves ==
  ASSUME CacheTypeOK, Floors, NEW p \in Proc, NEW k \in Key, NEW pc \in FillPhase, NEW d \in Data,
         Goto(p, k, pc, d), fill[<<p, k>>].pc # "none", pc = "storing" => d = db
  PROVE  AllFillsMoved /\ AllRequestsMoved
<1>1. AllFillsMoved
  <2>1. FillMoved(<<p, k>>)
    BY Gone DEF FillMoved
  <2>2. /\ fill' \in [Proc \X Key -> Fill]
        /\ \A y \in Proc \X Key : y # <<p, k>> => fill'[y] = fill[y]
    BY Gone
  <2>3. \A y \in Proc \X Key : y # <<p, k>> => FillMoved(y)
    BY <2>2 DEF FillMoved
  <2>4. QED
    BY <2>1, <2>2, <2>3 DEF AllFillsMoved
<1>2. AllRequestsMoved
  <2>1. request' = request
    BY Gone
  <2>2. QED
    BY <2>1, Unmoved DEF AllRequestsMoved, CacheTypeOK
<1>3. QED
  BY <1>1, <1>2

LEMMA SameEnvelope == ASSUME CacheTypeOK, envelope' = envelope PROVE AllEnvelopesMoved
BY DEF CacheTypeOK, AllEnvelopesMoved, EnvelopeMoved
LEMMA SameFill == ASSUME CacheTypeOK, fill' = fill PROVE AllFillsMoved
BY DEF CacheTypeOK, AllFillsMoved, FillMoved
LEMMA SameRequest == ASSUME CacheTypeOK, Floors, request' = request PROVE AllRequestsMoved
BY Unmoved DEF CacheTypeOK, AllRequestsMoved

(* The steps of a fill.                                                        *)
LEMMA FillStepMoves ==
  ASSUME CacheTypeOK, Floors, NEW p \in Proc, NEW k \in Key, FillStep(p, k) \/ FetchFails(p, k)
  PROVE  AllFillsMoved /\ AllRequestsMoved /\ AllEnvelopesMoved
<1>0. /\ envelope \in [Key -> [data : Data, fresh : BOOLEAN]]
      /\ fill \in [Proc \X Key -> Fill] /\ <<p, k>> \in Proc \X Key
      /\ db \in Data /\ Null \in Data
  BY Nulls DEF CacheTypeOK
<1>1. envelope[k].data \in Data /\ fill[<<p, k>>].data \in Data
  <2>1. fill[<<p, k>>] \in Fill
    BY <1>0
  <2>2. QED
    BY <1>0, <2>1 DEF Fill
<1>2. CASE LockAndCheck(p, k)
  <2>1. AllFillsMoved /\ AllRequestsMoved
    <3>1. CASE LockNotWon(p, k)
      <4>1. Goto(p, k, "polling", Null) /\ "polling" \in FillPhase /\ fill[<<p, k>>].pc # "none"
        BY <1>2, <3>1 DEF LockAndCheck, LockNotWon, FillPhase
      <4>2. QED
        BY <1>0, <4>1, GoneMoves
    <3>2. CASE Goto(p, k, "fetching", Null)
      <4>1. "fetching" \in FillPhase /\ fill[<<p, k>>].pc # "none"
        BY <1>2 DEF LockAndCheck, FillPhase
      <4>2. QED
        BY <1>0, <3>2, <4>1, GoneMoves
    <3>3. CASE Stored(k) /\ Settle(p, k, envelope[k].data)
      BY <1>1, <3>3, SettledMoves
    <3>4. QED
      BY <1>2, <3>1, <3>2, <3>3 DEF LockAndCheck, Fresh, StaleButValid
  <2>2. QED
    BY <1>2, <2>1, SameEnvelope DEF LockAndCheck
<1>3. CASE Fetch(p, k)
  <2>1. AllFillsMoved /\ AllRequestsMoved
    <3>1. CASE LockNotWon(p, k)
      <4>1. Goto(p, k, "polling", Null) /\ "polling" \in FillPhase /\ fill[<<p, k>>].pc # "none"
        BY <1>3, <3>1 DEF Fetch, LockNotWon, FillPhase
      <4>2. QED
        BY <1>0, <4>1, GoneMoves
    <3>2. CASE Goto(p, k, "storing", db)
      <4>1. "storing" \in FillPhase /\ fill[<<p, k>>].pc # "none"
        BY <1>3 DEF Fetch, FillPhase
      <4>2. QED
        BY <1>0, <3>2, <4>1, GoneMoves
    <3>3. QED
      BY <1>3, <3>1, <3>2 DEF Fetch
  <2>2. QED
    BY <1>3, <2>1, SameEnvelope DEF Fetch
<1>4. CASE Poll(p, k)
  <2>1. AllFillsMoved /\ AllRequestsMoved
    <3>1. CASE Stored(k)
      BY <1>1, <1>4, <3>1, SettledMoves DEF Poll
    <3>2. CASE ~Stored(k)
      <4>1. Goto(p, k, "alone", Null) /\ "alone" \in FillPhase /\ fill[<<p, k>>].pc # "none"
        BY <1>4, <3>2 DEF Poll, FillPhase
      <4>2. QED
        BY <1>0, <4>1, GoneMoves
    <3>3. QED
      BY <3>1, <3>2
  <2>2. QED
    BY <1>4, <2>1, SameEnvelope DEF Poll
<1>5. CASE FetchAlone(p, k)
  <2>1. AllFillsMoved /\ AllRequestsMoved
    <3>1. CASE NotFound(k)
      <4>1. k = DetailKey /\ Settle(p, k, Null)
        BY <1>5, <3>1 DEF FetchAlone, NotFound
      <4>2. QED
        BY <1>0, <4>1, SettledMoves
    <3>2. CASE ~NotFound(k)
      <4>1. Goto(p, k, "storing", db) /\ "storing" \in FillPhase /\ fill[<<p, k>>].pc # "none"
        BY <1>5, <3>2 DEF FetchAlone, FillPhase
      <4>2. QED
        BY <1>0, <4>1, GoneMoves
    <3>3. QED
      BY <3>1, <3>2
  <2>2. QED
    BY <1>5, <2>1, SameEnvelope DEF FetchAlone
<1>6. CASE Store(p, k)
  <2> DEFINE d == fill[<<p, k>>].data
             e == [data |-> d, fresh |-> TRUE]
  <2>1. fill[<<p, k>>].pc = "storing" /\ Settle(p, k, d) /\ d \in Data
    BY <1>1, <1>6 DEF Store
  <2>2. AllFillsMoved /\ AllRequestsMoved /\ fill'[<<p, k>>].pc = "none"
    BY <2>1, SettledMoves, SettledRequest
  <2>3. envelope' = [envelope EXCEPT ![k] = e]
    BY <1>6 DEF Store, Put
  <2>4. e \in [data : Data, fresh : BOOLEAN] /\ e.data = d
    BY <2>1
  <2> HIDE DEF e
  <2>5. /\ envelope' \in [Key -> [data : Data, fresh : BOOLEAN]]
        /\ envelope'[k].data = d
        /\ \A l \in Key \ {k} : envelope'[l] = envelope[l]
    BY <1>0, <2>3, <2>4
  <2>6. AllEnvelopesMoved
    BY <2>1, <2>2, <2>5 DEF AllEnvelopesMoved, EnvelopeMoved
  <2>7. QED
    BY <2>2, <2>6
<1>7. CASE FetchFails(p, k)
  <2>1. Reject(p, k)
    BY <1>7 DEF FetchFails
  <2>2. AllFillsMoved
    BY <2>1, Rejected DEF AllFillsMoved, FillMoved
  <2>3. AllRequestsMoved
    BY <2>1, Rejected, Unmoved DEF AllRequestsMoved, RequestMoved
  <2>4. QED
    BY <1>7, <2>2, <2>3, SameEnvelope DEF FetchFails
<1>8. QED
  BY <1>2, <1>3, <1>4, <1>5, <1>6, <1>7 DEF FillStep

(* A request's own steps change its entry only.                                *)
LEMMA RequestSet ==
  ASSUME CacheTypeOK, Floors, NEW r \in Req, NEW q \in Request, request' = [request EXCEPT ![r] = q],
         request'[r] = q => RequestMoved(r)
  PROVE  AllRequestsMoved
<1>1. /\ request' \in [Req -> Request] /\ request'[r] = q
      /\ \A s \in Req : s # r => request'[s] = request[s]
  BY DEF CacheTypeOK
<1>2. RequestMoved(r)
  BY <1>1
<1>3. \A s \in Req : s # r => RequestMoved(s)
  BY <1>1, Unmoved
<1>4. QED
  BY <1>1, <1>2, <1>3 DEF AllRequestsMoved

LEMMA LookupMoves ==
  ASSUME CacheTypeOK, Floors, NEW r \in Req, Lookup(r)
  PROVE  AllFillsMoved /\ AllRequestsMoved /\ AllEnvelopesMoved
<1> DEFINE k == request[r].key
           q == [request[r] EXCEPT !.pc = "answered", !.data = envelope[k].data]
           w == [request[r] EXCEPT !.pc = "waiting"]
<1>1. /\ request[r] \in Request /\ k \in Key /\ r[1] \in Proc
      /\ request[r].pc = "asking" /\ envelope[k].data \in Data
  BY RequestAssumption DEF CacheTypeOK, Request, Lookup
<1>2. /\ q \in Request /\ q.pc = "answered" /\ q.data = envelope[k].data
      /\ q.key = k /\ q.floor = request[r].floor
      /\ w \in Request /\ w.pc = "waiting" /\ w.key = k /\ w.floor = request[r].floor
  BY <1>1 DEF Request
<1>3. \/ Stored(k) /\ request' = [request EXCEPT ![r] = q] /\ UNCHANGED fill
      \/ Stored(k) /\ request' = [request EXCEPT ![r] = q] /\ Refresh(r[1], k)
      \/ request' = [request EXCEPT ![r] = w] /\ Refresh(r[1], k)
  BY DEF Lookup, Fresh, StaleButValid
<1>4. AllEnvelopesMoved
  BY SameEnvelope DEF Lookup
<1> HIDE DEF q, w
<1>5. AllRequestsMoved
  <2>1. CASE Stored(k) /\ request' = [request EXCEPT ![r] = q]
    <3>1. k # DetailKey => envelope[k].data >= request[r].floor
      BY <1>1, <2>1 DEF Floors, Shows
    <3>2. request'[r] = q => RequestMoved(r)
      BY <1>1, <1>2, <3>1 DEF RequestMoved
    <3>3. QED
      BY <1>2, <2>1, <3>2, RequestSet
  <2>2. CASE request' = [request EXCEPT ![r] = w]
    <3>1. request'[r] = w => RequestMoved(r)
      BY <1>1, <1>2 DEF RequestMoved
    <3>2. QED
      BY <1>2, <2>2, <3>1, RequestSet
  <2>3. QED
    BY <1>3, <2>1, <2>2
<1>6. AllFillsMoved
  <2>1. CASE UNCHANGED fill
    BY <2>1, SameFill
  <2>2. CASE Refresh(r[1], k)
    <3>1. k # DetailKey => k[2] <= version
      BY <1>1 DEF Floors
    <3>2. /\ fill' \in [Proc \X Key -> Fill]
          /\ \A y \in Proc \X Key :
               \/ fill'[y] = fill[y]
               \/ y = <<r[1], k>> /\ fill[y].pc = "none" /\ fill'[y].pc = "locking"
                  /\ fill'[y].began = db
      BY <1>1, <2>2, Refreshed
    <3> HIDE DEF k
    <3>3. ASSUME NEW y \in Proc \X Key PROVE FillMoved(y)
      BY <3>1, <3>2 DEF FillMoved
    <3>4. QED
      BY <3>2, <3>3 DEF AllFillsMoved
  <2>3. QED
    BY <1>3, <2>1, <2>2
<1>7. QED
  BY <1>4, <1>5, <1>6

(* Every step moves fills, requests and envelopes in these ways alone.         *)
LEMMA StepMoves ==
  ASSUME CacheTypeOK, Floors, [CacheNext]_cacheVars
  PROVE  AllFillsMoved /\ AllRequestsMoved /\ AllEnvelopesMoved
<1>0. /\ envelope \in [Key -> [data : Data, fresh : BOOLEAN]]
      /\ fill \in [Proc \X Key -> Fill] /\ request \in [Req -> Request]
      /\ version \in 0 .. MaxWrites /\ told \in 0 .. MaxWrites
  BY DEF CacheTypeOK
<1>1. ASSUME NEW r \in Req, AskForList(r) \/ AskForDetail(r) \/ Lookup(r) \/ Respond(r)
      PROVE  AllFillsMoved /\ AllRequestsMoved /\ AllEnvelopesMoved
  <2>0. request[r] \in Request
    BY <1>0
  <2>1. CASE AskForList(r)
    <3> DEFINE q == [request[r] EXCEPT !.pc = "asking", !.key = ListKey(version), !.floor = told]
    <3>1. /\ q \in Request /\ q.pc = "asking" /\ q.key = ListKey(version) /\ q.floor = told
      <4>1. ListKey(version) \in Key
        BY <1>0, Keys DEF ListKeys
      <4>2. QED
        BY <1>0, <2>0, <4>1 DEF Request
    <3>2. request' = [request EXCEPT ![r] = q] /\ UNCHANGED <<envelope, fill>>
      BY <2>1 DEF AskForList
    <3> HIDE DEF q
    <3>3. AllRequestsMoved
      BY <3>1, <3>2, RequestSet DEF RequestMoved
    <3>4. QED
      BY <3>2, <3>3, SameEnvelope, SameFill
  <2>2. CASE AskForDetail(r)
    <3> DEFINE q == [request[r] EXCEPT !.pc = "asking", !.key = DetailKey]
    <3>1. q \in Request /\ q.key = DetailKey
      BY <2>0, Keys DEF Request
    <3>2. request' = [request EXCEPT ![r] = q] /\ UNCHANGED <<envelope, fill>>
      BY <2>2 DEF AskForDetail
    <3> HIDE DEF q
    <3>3. AllRequestsMoved
      BY <3>1, <3>2, RequestSet DEF RequestMoved
    <3>4. QED
      BY <3>2, <3>3, SameEnvelope, SameFill
  <2>3. CASE Lookup(r)
    BY <2>3, LookupMoves
  <2>4. CASE Respond(r)
    <3>1. request' = [request EXCEPT ![r] = NoRequest] /\ UNCHANGED <<envelope, fill>>
      BY <2>4 DEF Respond
    <3>2. request'[r] = NoRequest => RequestMoved(r)
      BY DEF RequestMoved, NoRequest
    <3>3. AllRequestsMoved
      BY <3>1, <3>2, Nulls, RequestSet
    <3>4. QED
      BY <3>1, <3>3, SameEnvelope, SameFill
  <2>5. QED
    BY <1>1, <2>1, <2>2, <2>3, <2>4
<1>2. ASSUME NEW p \in Proc, NEW k \in Key,
             LookupElsewhere(p, k) \/ FillStep(p, k) \/ FetchFails(p, k)
      PROVE  AllFillsMoved /\ AllRequestsMoved /\ AllEnvelopesMoved
  <2>1. CASE LookupElsewhere(p, k)
    <3>1. Refresh(p, k) /\ (k # DetailKey => k[2] <= version) /\ UNCHANGED <<envelope, request>>
      BY <2>1 DEF LookupElsewhere
    <3>2. /\ fill' \in [Proc \X Key -> Fill]
          /\ \A y \in Proc \X Key :
               \/ fill'[y] = fill[y]
               \/ y = <<p, k>> /\ fill[y].pc = "none" /\ fill'[y].pc = "locking"
                  /\ fill'[y].began = db
      BY <3>1, Refreshed
    <3>3. ASSUME NEW y \in Proc \X Key PROVE FillMoved(y)
      BY <3>1, <3>2 DEF FillMoved
    <3>4. QED
      BY <3>1, <3>2, <3>3, SameEnvelope, SameRequest DEF AllFillsMoved
  <2>2. QED
    BY <1>2, <2>1, FillStepMoves
<1>3. ASSUME NEW w \in 1 .. MaxWrites, DeleteDetail(w)
      PROVE  AllFillsMoved /\ AllRequestsMoved /\ AllEnvelopesMoved
  <2>1. envelope' = [envelope EXCEPT ![DetailKey] = NoEnvelope] /\ UNCHANGED <<fill, request>>
    BY <1>3 DEF DeleteDetail
  <2>2. AllEnvelopesMoved
    BY <1>0, <2>1, Nulls, Keys DEF AllEnvelopesMoved, EnvelopeMoved, NoEnvelope
  <2>3. QED
    BY <2>1, <2>2, SameFill, SameRequest
<1>4. ASSUME NEW k \in Key, TurnStale(k) \/ Expire(k)
      PROVE  AllFillsMoved /\ AllRequestsMoved /\ AllEnvelopesMoved
  <2>1. UNCHANGED <<fill, request>>
    BY <1>4 DEF TurnStale, Expire
  <2>2. CASE TurnStale(k)
    <3>1. envelope' = [envelope EXCEPT ![k].fresh = FALSE]
      BY <2>2 DEF TurnStale
    <3>2. /\ envelope' \in [Key -> [data : Data, fresh : BOOLEAN]]
          /\ envelope'[k].data = envelope[k].data /\ envelope'[k].fresh = FALSE
          /\ \A l \in Key \ {k} : envelope'[l] = envelope[l]
      BY <1>0, <3>1
    <3>3. EnvelopeMoved(k)
      BY <3>2 DEF EnvelopeMoved
    <3>4. \A l \in Key \ {k} : EnvelopeMoved(l)
      BY <3>2 DEF EnvelopeMoved
    <3>5. AllEnvelopesMoved
      BY <3>2, <3>3, <3>4 DEF AllEnvelopesMoved
    <3>6. QED
      BY <2>1, <3>5, SameFill, SameRequest
  <2>3. CASE Expire(k)
    <3>1. envelope' = [envelope EXCEPT ![k] = NoEnvelope]
      BY <2>3 DEF Expire
    <3>2. AllEnvelopesMoved
      BY <1>0, <3>1, Nulls DEF AllEnvelopesMoved, EnvelopeMoved, NoEnvelope
    <3>3. QED
      BY <2>1, <3>2, SameFill, SameRequest
  <2>4. QED
    BY <1>4, <2>2, <2>3
<1>5. ASSUME NEW p \in Proc, ProcessDies(p)
      PROVE  AllFillsMoved /\ AllRequestsMoved /\ AllEnvelopesMoved
  <2>1. /\ fill' = [x \in Proc \X Key |-> IF x[1] = p THEN NoFill ELSE fill[x]]
        /\ request' = [r \in Req |-> IF r[1] = p THEN NoRequest ELSE request[r]]
        /\ envelope' = envelope
    BY <1>0, <1>5 DEF ProcessDies
  <2>2. /\ fill' \in [Proc \X Key -> Fill]
        /\ \A y \in Proc \X Key : fill'[y] = fill[y] \/ fill'[y].pc = "none"
    BY <1>0, <2>1, Nulls DEF NoFill
  <2>3. /\ request' \in [Req -> Request]
        /\ \A r \in Req : request'[r] = request[r] \/ request'[r].pc = "idle"
    BY <1>0, <2>1, Nulls DEF NoRequest
  <2>4. AllFillsMoved
    BY <2>2 DEF AllFillsMoved, FillMoved
  <2>5. AllRequestsMoved
    BY <2>3, Unmoved DEF AllRequestsMoved, RequestMoved
  <2>6. QED
    BY <2>1, <2>4, <2>5, SameEnvelope
<1>6. CASE \/ \E tells \in BOOLEAN : WriteOrder(tells)
           \/ \E w \in 1 .. MaxWrites : Bump(w)
           \/ \E t \in telling : TellingFails(t)
           \/ UNCHANGED cacheVars
  <2>1. UNCHANGED <<envelope, fill, request>>
    BY <1>6 DEF WriteOrder, Bump, TellingFails, cacheVars
  <2>2. QED
    BY <2>1, SameEnvelope, SameFill, SameRequest
<1>7. QED
  BY <1>1, <1>2, <1>3, <1>4, <1>5, <1>6 DEF CacheNext

----------------------------------------------------------------------------
(* The writers. Each write has one increment at most, so the version stays     *)
(* within the number of writes.                                                *)
WritersMoved ==
    /\ db \in Nat /\ db' \in Nat /\ db <= db'
    /\ version \in Nat /\ told \in Nat /\ told' \in Nat /\ told <= told'
    /\ \/ version' = version /\ told' = told
       \/ version' = version + 1 /\ UNCHANGED <<db, envelope, fill, request>>

LEMMA WritersStep ==
  ASSUME CacheTypeOK, Counted, [CacheNext]_cacheVars
  PROVE  /\ Counted' /\ WritersMoved
         /\ db' \in 0 .. MaxWrites /\ version' \in 0 .. MaxWrites /\ told' \in 0 .. MaxWrites
         /\ telling' \subseteq (1 .. MaxWrites) \X {"bump", "delete"}
<1>0. /\ MaxWrites \in Nat
      /\ db \in 0 .. MaxWrites /\ version \in 0 .. MaxWrites /\ told \in 0 .. MaxWrites
      /\ telling \subseteq (1 .. MaxWrites) \X {"bump", "delete"}
  BY CacheBoundAssumption DEF CacheTypeOK
<1>1. /\ told <= db
      /\ \A t \in telling : t[1] <= db
      /\ version + Cardinality(Announced) <= db
  BY DEF Counted
<1>2. IsFiniteSet(Announced) /\ Cardinality(Announced) \in Nat
  <2>1. IsFiniteSet(1 .. MaxWrites)
    BY <1>0, FS_Interval
  <2>a. IsFiniteSet({"bump"})
    BY FS_Singleton
  <2>2. IsFiniteSet((1 .. MaxWrites) \X {"bump"})
    BY <2>1, <2>a, FS_Product
  <2>3. Announced \subseteq (1 .. MaxWrites) \X {"bump"}
    BY <1>0 DEF Announced
  <2>4. QED
    BY <2>2, <2>3, FS_Subset, FS_CardinalityType
<1>3. ASSUME Announced' \subseteq Announced PROVE Cardinality(Announced') <= Cardinality(Announced)
  <2> DEFINE A == Announced'
  <2>1. A \subseteq Announced
    BY <1>3
  <2> HIDE DEF A
  <2>2. Cardinality(A) <= Cardinality(Announced)
    BY <1>2, <2>1, FS_Subset
  <2>3. QED
    BY <2>2 DEF A
<1>4. ASSUME Announced' \subseteq Announced PROVE Cardinality(Announced') \in Nat
  <2> DEFINE A == Announced'
  <2>1. A \subseteq Announced
    BY <1>4
  <2> HIDE DEF A
  <2>2. Cardinality(A) \in Nat
    BY <1>2, <2>1, FS_Subset, FS_CardinalityType
  <2>3. QED
    BY <2>2 DEF A
<1>5. ASSUME NEW tells \in BOOLEAN, WriteOrder(tells)
      PROVE  /\ Counted' /\ WritersMoved
             /\ db' \in 0 .. MaxWrites /\ version' \in 0 .. MaxWrites /\ told' \in 0 .. MaxWrites
             /\ telling' \subseteq (1 .. MaxWrites) \X {"bump", "delete"}
  <2>1. /\ db' = db + 1 /\ db' \in 1 .. MaxWrites /\ version' = version /\ told' = told
        /\ telling' \subseteq telling \cup {<<db + 1, "bump">>}
    BY <1>0, <1>5 DEF WriteOrder
  <2>2. telling' \subseteq (1 .. MaxWrites) \X {"bump", "delete"}
    BY <1>0, <2>1
  <2>3. \A t \in telling' : t[1] <= db'
    <3> SUFFICES ASSUME NEW t \in telling' PROVE t[1] <= db + 1
      BY <2>1
    <3>1. CASE t \in telling
      <4>1. t[1] \in 1 .. MaxWrites /\ t[1] <= db
        BY <1>0, <1>1, <3>1
      <4>2. QED
        BY <1>0, <4>1
    <3>2. CASE t = <<db + 1, "bump">>
      BY <1>0, <3>2
    <3>3. QED
      BY <2>1, <3>1, <3>2
  <2>4. Cardinality(Announced') <= Cardinality(Announced) + 1 /\ Cardinality(Announced') \in Nat
    <3> DEFINE A == Announced'
               B == Announced \cup {<<db + 1, "bump">>}
    <3>1. A \subseteq B
      BY <2>1 DEF Announced
    <3>2. IsFiniteSet(B) /\ Cardinality(B) <= Cardinality(Announced) + 1 /\ Cardinality(B) \in Nat
      <4>1. /\ IsFiniteSet(B)
            /\ Cardinality(B) = IF <<db + 1, "bump">> \in Announced
                                THEN Cardinality(Announced) ELSE Cardinality(Announced) + 1
        BY <1>2, FS_AddElement
      <4>2. QED
        BY <1>2, <4>1
    <3> HIDE DEF A, B
    <3>3. Cardinality(A) <= Cardinality(B) /\ Cardinality(A) \in Nat
      BY <3>1, <3>2, FS_Subset, FS_CardinalityType
    <3>4. Cardinality(A) <= Cardinality(Announced) + 1
      BY <1>2, <3>2, <3>3
    <3>5. QED
      BY <3>3, <3>4 DEF A
  <2>5. version + Cardinality(Announced') <= db'
    BY <1>0, <1>1, <1>2, <2>1, <2>4
  <2>6. Counted'
    BY <1>0, <1>1, <2>1, <2>3, <2>5 DEF Counted
  <2>7. QED
    BY <1>0, <2>1, <2>2, <2>6 DEF WritersMoved
<1>6. ASSUME NEW w \in 1 .. MaxWrites, Bump(w)
      PROVE  /\ Counted' /\ WritersMoved
             /\ db' \in 0 .. MaxWrites /\ version' \in 0 .. MaxWrites /\ told' \in 0 .. MaxWrites
             /\ telling' \subseteq (1 .. MaxWrites) \X {"bump", "delete"}
  <2>1. /\ <<w, "bump">> \in Announced /\ <<w, "bump">> \in telling
        /\ telling' = (telling \ {<<w, "bump">>}) \cup {<<w, "delete">>}
        /\ version' = version + 1 /\ told' = (IF w > told THEN w ELSE told)
        /\ UNCHANGED <<db, envelope, fill, request>>
    BY <1>6 DEF Bump, Announced
  <2>2. w <= db
    BY <1>1, <2>1
  <2>3. Announced' = Announced \ {<<w, "bump">>}
    BY <2>1 DEF Announced
  <2>4. Cardinality(Announced') = Cardinality(Announced) - 1 /\ Cardinality(Announced') \in Nat
    <3>1. /\ IsFiniteSet(Announced \ {<<w, "bump">>})
          /\ Cardinality(Announced \ {<<w, "bump">>}) = Cardinality(Announced) - 1
      BY <1>2, <2>1, FS_RemoveElement
    <3>2. QED
      BY <2>3, <3>1, FS_CardinalityType
  <2>5. version' + Cardinality(Announced') <= db' /\ version' <= db
    BY <1>0, <1>1, <1>2, <2>1, <2>4
  <2>6. telling' \subseteq (1 .. MaxWrites) \X {"bump", "delete"}
    BY <1>0, <2>1
  <2>7. \A t \in telling' : t[1] <= db'
    BY <1>1, <2>1, <2>2
  <2>8. /\ told' \in 0 .. MaxWrites /\ told <= told' /\ told' <= db'
        /\ version' \in 0 .. MaxWrites
    BY <1>0, <1>1, <2>1, <2>2, <2>5
  <2>9. Counted'
    BY <2>5, <2>7, <2>8 DEF Counted
  <2>10. QED
    BY <1>0, <2>1, <2>6, <2>8, <2>9 DEF WritersMoved
<1>7. CASE /\ UNCHANGED <<db, version, told>>
           /\ Announced' \subseteq Announced
           /\ telling' \subseteq (1 .. MaxWrites) \X {"bump", "delete"}
           /\ \A t \in telling' : t[1] <= db
  <2>1. version + Cardinality(Announced') <= db
    BY <1>0, <1>1, <1>2, <1>3, <1>4, <1>7
  <2>2. Counted'
    BY <1>1, <1>7, <2>1 DEF Counted
  <2>3. QED
    BY <1>0, <1>7, <2>2 DEF WritersMoved
<1>8. ASSUME NEW w \in 1 .. MaxWrites, DeleteDetail(w)
      PROVE  /\ UNCHANGED <<db, version, told>> /\ telling' \subseteq telling
  BY <1>8 DEF DeleteDetail
<1>9. ASSUME NEW t \in telling, TellingFails(t)
      PROVE  /\ UNCHANGED <<db, version, told>> /\ telling' \subseteq telling
  BY <1>9 DEF TellingFails
<1>10. ASSUME \/ \E r \in Req : AskForList(r) \/ AskForDetail(r) \/ Lookup(r) \/ Respond(r)
              \/ \E p \in Proc, k \in Key :
                   LookupElsewhere(p, k) \/ FillStep(p, k) \/ FetchFails(p, k)
              \/ \E k \in Key : TurnStale(k) \/ Expire(k)
              \/ \E p \in Proc : ProcessDies(p)
              \/ UNCHANGED cacheVars
       PROVE  UNCHANGED <<db, version, told, telling>>
  BY <1>10 DEF AskForList, AskForDetail, Lookup, Respond, LookupElsewhere, FillStep, FetchFails,
               LockAndCheck, Fetch, Poll, FetchAlone, Store, TurnStale, Expire, ProcessDies, writers, cacheVars
<1>11. ASSUME UNCHANGED <<db, version, told>>, telling' \subseteq telling
       PROVE  /\ Counted' /\ WritersMoved
              /\ db' \in 0 .. MaxWrites /\ version' \in 0 .. MaxWrites /\ told' \in 0 .. MaxWrites
              /\ telling' \subseteq (1 .. MaxWrites) \X {"bump", "delete"}
  <2>1. Announced' \subseteq Announced
    BY <1>11 DEF Announced
  <2>2. QED
    BY <1>0, <1>1, <1>7, <1>11, <2>1
<1>12. QED
  BY <1>5, <1>6, <1>8, <1>9, <1>10, <1>11 DEF CacheNext

----------------------------------------------------------------------------
(* What is stored under a list's key, or about to be, does not get older.      *)
LEMMA ShowsStep ==
  ASSUME CacheTypeOK, AllFillsMoved, AllEnvelopesMoved,
         NEW k \in ListKeys, NEW n \in Nat, n <= db, Shows(k, n)
  PROVE  /\ Stored(k)' => envelope'[k].data >= n
         /\ \A p \in Proc : fill'[<<p, k>>].pc = "storing" => fill'[<<p, k>>].data >= n
<1>0. k \in Key /\ db \in Nat
  BY DEF ListKeys, CacheTypeOK
<1>1. EnvelopeMoved(k) /\ \A p \in Proc : FillMoved(<<p, k>>)
  BY <1>0 DEF AllEnvelopesMoved, AllFillsMoved
<1>2. ASSUME envelope'[k].data # Null PROVE envelope'[k].data >= n
  BY <1>1, <1>2 DEF EnvelopeMoved, Shows, Stored
<1>3. ASSUME NEW p \in Proc, fill'[<<p, k>>].pc = "storing" PROVE fill'[<<p, k>>].data >= n
  BY <1>0, <1>1, <1>3 DEF FillMoved, Shows
<1>4. QED
  BY <1>2, <1>3 DEF Stored

(* A key of a version to come stays unused.                                    *)
LEMMA UnusedStep ==
  ASSUME CacheTypeOK, AllFillsMoved, AllEnvelopesMoved,
         NEW k \in ListKeys, k[2] > version, Unused(k)
  PROVE  ~Stored(k)' /\ \A p \in Proc : fill'[<<p, k>>].pc = "none"
<1>0. /\ k \in Key /\ k # DetailKey /\ k[2] \in Nat /\ version \in Nat
      /\ ~(k[2] <= version)
  BY Keys DEF ListKeys, CacheTypeOK
<1>1. EnvelopeMoved(k) /\ \A p \in Proc : FillMoved(<<p, k>>)
  BY <1>0 DEF AllEnvelopesMoved, AllFillsMoved
<1>2. envelope'[k].data = Null
  BY <1>1 DEF EnvelopeMoved, Unused, Stored
<1>3. ASSUME NEW p \in Proc PROVE fill'[<<p, k>>].pc = "none"
  BY <1>0, <1>1 DEF FillMoved, Unused
<1>4. QED
  BY <1>2, <1>3 DEF Stored

LEMMA VersionsStep ==
  ASSUME CacheInv, AllFillsMoved, AllEnvelopesMoved, WritersMoved
  PROVE  Versions'
<1>0. /\ CacheTypeOK /\ Versions /\ told <= db
      /\ version \in Nat /\ told \in Nat
      /\ \A k \in ListKeys : k[2] \in Nat
  BY Keys DEF CacheInv, Counted, WritersMoved
<1> SUFFICES ASSUME NEW k \in ListKeys
             PROVE  /\ k[2] = version' =>
                          /\ Stored(k)' => envelope'[k].data >= told'
                          /\ \A p \in Proc : fill'[<<p, k>>].pc = "storing"
                                               => fill'[<<p, k>>].data >= told'
                    /\ k[2] > version' =>
                          /\ ~Stored(k)'
                          /\ \A p \in Proc : fill'[<<p, k>>].pc = "none"
  BY DEF Versions, Shows, Unused
<1>1. (k[2] = version => Shows(k, told)) /\ (k[2] > version => Unused(k))
  BY <1>0 DEF Versions
<1>2. CASE version' = version /\ told' = told
  <2>1. ASSUME k[2] = version
        PROVE  /\ Stored(k)' => envelope'[k].data >= told
               /\ \A p \in Proc : fill'[<<p, k>>].pc = "storing" => fill'[<<p, k>>].data >= told
    <3>1. PICK n \in Nat : n = told
      BY <1>0
    <3>2. QED
      BY <1>0, <1>1, <2>1, <3>1, ShowsStep
  <2>2. ASSUME k[2] > version
        PROVE  ~Stored(k)' /\ \A p \in Proc : fill'[<<p, k>>].pc = "none"
    BY <1>0, <1>1, <2>2, UnusedStep
  <2>3. QED
    BY <1>2, <2>1, <2>2
<1>3. CASE version' = version + 1 /\ UNCHANGED <<db, envelope, fill, request>>
  <2>1. k[2] >= version' => Unused(k)
    BY <1>0, <1>1, <1>3
  <2>2. QED
    BY <1>0, <1>3, <2>1 DEF Unused, Stored
<1>4. QED
  BY <1>2, <1>3 DEF WritersMoved

LEMMA FloorsStep ==
  ASSUME CacheInv, AllFillsMoved, AllEnvelopesMoved, AllRequestsMoved, WritersMoved
  PROVE  Floors'
<1>0. /\ CacheTypeOK /\ Versions /\ Floors /\ told <= db
      /\ version \in Nat /\ told \in Nat /\ db \in Nat /\ told' \in Nat /\ version' \in Nat
      /\ version <= version' /\ told <= told'
      /\ request' \in [Req -> Request]
      /\ version \in 0 .. MaxWrites
  BY DEF CacheInv, Counted, WritersMoved, AllRequestsMoved, CacheTypeOK
<1> SUFFICES ASSUME NEW r \in Req, request'[r].pc # "idle", request'[r].key # DetailKey
             PROVE  /\ request'[r].key[2] <= version'
                    /\ request'[r].floor <= told'
                    /\ Stored(request[r].key)' => envelope'[request'[r].key].data >= request'[r].floor
                    /\ \A p \in Proc : fill'[<<p, request'[r].key>>].pc = "storing"
                           => fill'[<<p, request'[r].key>>].data >= request'[r].floor
                    /\ request'[r].pc = "answered" => request'[r].data >= request'[r].floor
  BY DEF Floors, Shows, Stored
<1>1. PICK k \in ListKeys, n \in Nat : k = request'[r].key /\ n = request'[r].floor
  <2>1. request'[r] \in Request
    BY <1>0
  <2>2. QED
    BY <2>1 DEF Request, ListKeys
<1>2. k[2] \in Nat
  BY Keys
<1>3. /\ k[2] <= version /\ n <= told /\ Shows(k, n)
      /\ request'[r].pc = "answered" => request'[r].data >= n
  <2>1. CASE /\ request'[r].pc = "asking" /\ request'[r].key = ListKey(version)
             /\ request'[r].floor = told
    <3>1. k[2] = version
      BY <1>0, <1>1, <2>1, Keys
    <3>2. QED
      BY <1>0, <1>1, <2>1, <3>1 DEF Versions
  <2>2. CASE /\ request[r].pc # "idle"
             /\ request'[r].key = request[r].key /\ request'[r].floor = request[r].floor
             /\ request'[r].pc = "answered" => request'[r].data >= request[r].floor
    BY <1>0, <1>1, <2>2 DEF Floors
  <2>3. QED
    BY <1>1, <2>1, <2>2 DEF AllRequestsMoved, RequestMoved
<1>4. n <= db
  BY <1>0, <1>3
<1>5. /\ Stored(k)' => envelope'[k].data >= n
      /\ \A p \in Proc : fill'[<<p, k>>].pc = "storing" => fill'[<<p, k>>].data >= n
  BY <1>0, <1>3, <1>4, ShowsStep
<1>6. k[2] <= version' /\ n <= told'
  BY <1>0, <1>2, <1>3
<1>7. QED
  BY <1>1, <1>3, <1>5, <1>6 DEF Stored

LEMMA BeganStep ==
  ASSUME CacheInv, AllFillsMoved, WritersMoved
  PROVE  Began'
<1> SUFFICES ASSUME NEW x \in Proc \X Key
             PROVE  /\ fill'[x].pc # "none" => fill'[x].began <= db'
                    /\ fill'[x].pc = "storing" => fill'[x].data >= fill'[x].began
  BY DEF Began
<1>1. fill[x] \in Fill /\ fill'[x] \in Fill /\ FillMoved(x)
  BY DEF CacheInv, CacheTypeOK, AllFillsMoved
<1>2. /\ fill[x].began \in Nat /\ db \in Nat /\ db' \in Nat /\ db <= db'
      /\ fill'[x].began \in Nat
  BY <1>1, CacheBoundAssumption DEF Fill, WritersMoved
<1>3. /\ fill[x].pc # "none" => fill[x].began <= db
      /\ fill[x].pc = "storing" => fill[x].data >= fill[x].began
  BY DEF CacheInv, Began
<1>4. QED
  BY <1>1, <1>2, <1>3 DEF FillMoved

LEMMA CacheStep == CacheInv /\ [CacheNext]_cacheVars => CacheInv'
<1> SUFFICES ASSUME CacheInv, [CacheNext]_cacheVars PROVE CacheInv'
  OBVIOUS
<1>1. AllFillsMoved /\ AllRequestsMoved /\ AllEnvelopesMoved
  BY StepMoves DEF CacheInv
<1>2. /\ Counted' /\ WritersMoved
      /\ db' \in 0 .. MaxWrites /\ version' \in 0 .. MaxWrites /\ told' \in 0 .. MaxWrites
      /\ telling' \subseteq (1 .. MaxWrites) \X {"bump", "delete"}
  BY WritersStep DEF CacheInv
<1>3. CacheTypeOK'
  BY <1>1, <1>2 DEF CacheTypeOK, AllFillsMoved, AllRequestsMoved, AllEnvelopesMoved
<1>4. Versions' /\ Floors' /\ Began'
  BY <1>1, <1>2, VersionsStep, FloorsStep, BeganStep
<1>5. QED
  BY <1>2, <1>3, <1>4 DEF CacheInv

LEMMA CacheStarts == CacheInit => CacheInv
<1> SUFFICES ASSUME CacheInit PROVE CacheInv
  OBVIOUS
<1>1. CacheTypeOK
  BY Nulls, CacheBoundAssumption DEF CacheInit, CacheTypeOK
<1>2. Announced = {} /\ Cardinality(Announced) = 0
  <2>1. Announced = {}
    BY DEF CacheInit, Announced
  <2>2. QED
    BY <2>1, FS_EmptySet
<1>3. Counted
  BY <1>2 DEF CacheInit, Counted
<1>4. /\ \A k \in Key : envelope[k].data = Null
      /\ \A x \in Proc \X Key : fill[x].pc = "none"
      /\ \A r \in Req : request[r].pc = "idle"
  BY DEF CacheInit, NoEnvelope, NoFill, NoRequest
<1>5. Versions
  <2>1. \A k \in ListKeys, p \in Proc : <<p, k>> \in Proc \X Key
    BY DEF ListKeys
  <2>2. QED
    BY <1>4, <2>1 DEF Versions, Shows, Unused, Stored, ListKeys
<1>6. Floors /\ Began
  BY <1>4 DEF Floors, Began
<1>7. QED
  BY <1>1, <1>3, <1>5, <1>6 DEF CacheInv

(* Every reachable state is well typed: the version too, since each write      *)
(* increments it at most once.                                                 *)
THEOREM CacheTyped == CacheSpec => []CacheTypeOK
<1>1. CacheInv => CacheTypeOK
  BY DEF CacheInv
<1>2. QED
  BY <1>1, CacheStarts, CacheStep, PTL DEF CacheSpec

(* A list asked for after the cache was told of a write shows that write,      *)
(* whoever filled its key.                                                     *)
THEOREM ListIsCurrent == CacheSpec => []ListShowsAnnouncedWrites
<1>1. CacheInv => ListShowsAnnouncedWrites
  BY DEF CacheInv, Floors, ListShowsAnnouncedWrites
<1>2. QED
  BY <1>1, CacheStarts, CacheStep, PTL DEF CacheSpec

(* What gets a new time to live was current at some time since the fill that   *)
(* stores it began.                                                            *)
THEOREM StoredCurrent == CacheSpec => StoredWasCurrent
<1>1. ASSUME CacheInv, [CacheNext]_cacheVars, NEW k \in Key, ~Fresh(k), Stored(k)', envelope'[k].fresh
      PROVE  \E p \in Proc : /\ fill[<<p, k>>].pc # "none"
                              /\ fill'[<<p, k>>].pc = "none"
                              /\ envelope'[k].data >= fill[<<p, k>>].began
  <2>1. EnvelopeMoved(k)
    BY <1>1, StepMoves DEF CacheInv, AllEnvelopesMoved
  <2>2. PICK p \in Proc : /\ fill[<<p, k>>].pc = "storing" /\ fill'[<<p, k>>].pc = "none"
                          /\ envelope'[k].data = fill[<<p, k>>].data
    BY <1>1, <2>1 DEF EnvelopeMoved, Fresh, Stored
  <2>3. <<p, k>> \in Proc \X Key
    OBVIOUS
  <2>4. fill[<<p, k>>].data >= fill[<<p, k>>].began
    BY <1>1, <2>2, <2>3 DEF CacheInv, Began
  <2>5. QED
    BY <2>2, <2>4
<1>2. CacheInv /\ [CacheNext]_cacheVars =>
        \A k \in Key : ~Fresh(k) /\ Fresh(k)' =>
          \E p \in Proc : /\ fill[<<p, k>>].pc # "none"
                          /\ fill'[<<p, k>>].pc = "none"
                          /\ envelope'[k].data >= fill[<<p, k>>].began
  BY <1>1 DEF Fresh, Stored
<1>3. QED
  BY <1>2, CacheStarts, CacheStep, PTL DEF CacheSpec, StoredWasCurrent

-----------------------------------------------------------------------------
(* The cart.                                                                   *)

(* Why an item keeps one line and added units stay. While the lock lasts, its  *)
(* owner alone is between its calls, so what it found in the cart is still so; *)
(* and a cart that was read is the same as long as its version is.             *)
LockHeld == ~early => \A o \in Op : phase[o] \in Critical => lock = o

ReadFrom(c) ==
    /\ c.id \in 1 .. made
    /\ c.id = cart.id =>
          /\ c.version <= cart.version
          /\ c.version = cart.version /\ ~overtaken => c.lines = cart.lines
Copies ==
    /\ cart.id <= made /\ (~Exists => cart.lines = {})
    /\ \A c \in pending : ReadFrom(c)
    /\ checkout # NoCart => ReadFrom(checkout)

AsFound ==
    ~early /\ ~overtaken => \A o \in Op :
        /\ phase[o] = "pushing" => ~Has(job[o].item)
        /\ phase[o] = "emptied" => cart.lines = {}

CartInv == TypeOK /\ LockHeld /\ Copies /\ AsFound /\ OneLinePerItem /\ AddedUnitsStay

(* A write to the lines gives the cart a new version.                          *)
LEMMA Written ==
  ASSUME TypeOK, NEW lines \in SUBSET Line, Write(lines)
  PROVE  /\ cart' \in CartDoc
         /\ cart'.id = cart.id /\ cart'.version = cart.version + 1 /\ cart'.lines = lines
<1>1. cart \in CartDoc /\ cart.version + 1 \in Nat
  BY DEF TypeOK, CartDoc
<1>2. cart' = [cart EXCEPT !.lines = lines, !.version = cart.version + 1]
  BY DEF Write
<1>3. QED
  BY <1>1, <1>2 DEF CartDoc

LEMMA WrittenFrom ==
  ASSUME TypeOK, NEW line \in cart.lines, NEW from \in (SUBSET Op) \ {{}}, WriteFrom(line, from)
  PROVE  /\ cart' \in CartDoc
         /\ cart'.id = cart.id /\ cart'.version = cart.version + 1
         /\ cart'.lines = (cart.lines \ {line}) \cup {[item |-> line.item, from |-> from]}
<1>1. line \in Line /\ cart.lines \in SUBSET Line
  BY DEF TypeOK, CartDoc
<1>2. [line EXCEPT !.from = from] = [item |-> line.item, from |-> from]
      /\ [item |-> line.item, from |-> from] \in Line
  BY <1>1 DEF Line
<1> DEFINE L == (cart.lines \ {line}) \cup {[item |-> line.item, from |-> from]}
<1>3. L \in SUBSET Line
  BY <1>1, <1>2
<1>4. Write(L)
  BY <1>2 DEF WriteFrom
<1> HIDE DEF L
<1>5. /\ cart' \in CartDoc
      /\ cart'.id = cart.id /\ cart'.version = cart.version + 1 /\ cart'.lines = L
  BY <1>3, <1>4, Written
<1>6. QED
  BY <1>5 DEF L

LEMMA Jobs1 == ASSUME TypeOK, NEW o \in Op PROVE job[o].item \in Item
BY OpAssumption DEF TypeOK

(* What a request's step does to the cart: nothing, a new version of it, a new *)
(* cart or none.                                                               *)
SameCart == UNCHANGED <<cart, made>>
NewVersion ==
    /\ Exists /\ cart'.id = cart.id /\ cart'.version = cart.version + 1 /\ made' = made
NewCart == ~Exists /\ cart'.id = made + 1 /\ made' = made + 1
CartGone == cart' = NoCart /\ made' = made

LEMMA RequestMoves ==
  ASSUME TypeOK, Copies, NEW o \in Op, Proceed(o) \/ GiveUp(o) \/ Throw(o) \/ Crash(o)
  PROVE  cart' \in CartDoc /\ (SameCart \/ NewVersion \/ NewCart \/ CartGone)
<1> USE DEF SameCart, NewVersion, NewCart, CartGone
<1>0. /\ cart \in CartDoc /\ cart.lines \in SUBSET Line /\ made \in Nat
      /\ cart.version \in Nat /\ (cart.lines # {} => Exists)
      /\ NoCart \in CartDoc
  BY DEF TypeOK, CartDoc, Copies, NoCart
<1>1. CASE IncLine(o)
  <2>1. CASE Has(job[o].item)
    <3>1. PICK line \in LinesOf(job[o].item) : WriteFrom(line, line.from \cup {o})
      BY <1>1, <2>1 DEF IncLine
    <3>2. line \in cart.lines /\ line.from \cup {o} \in (SUBSET Op) \ {{}}
      BY <1>0 DEF LinesOf, Line
    <3>3. QED
      BY <1>0, <1>1, <3>1, <3>2, WrittenFrom DEF IncLine
  <2>2. CASE ~Has(job[o].item)
    BY <1>0, <1>1, <2>2 DEF IncLine
  <2>3. QED
    BY <2>1, <2>2
<1>2. CASE PushLine(o)
  <2> DEFINE line == [item |-> job[o].item, from |-> {o}]
  <2>1. line \in Line
    BY Jobs1 DEF Line
  <2>2. CASE Exists
    <3>1. Write(cart.lines \cup {line}) /\ made' = made
      BY <1>2, <2>2 DEF PushLine
    <3>2. cart.lines \cup {line} \in SUBSET Line
      BY <1>0, <2>1
    <3>3. QED
      BY <2>2, <3>1, <3>2, Written
  <2>3. CASE ~Exists
    <3>1. cart' = [id |-> made + 1, version |-> 1, lines |-> {line}] /\ made' = made + 1
      BY <1>2, <2>3 DEF PushLine
    <3>2. QED
      BY <1>0, <2>1, <2>3, <3>1 DEF CartDoc
  <2>4. QED
    BY <2>2, <2>3
<1>3. CASE SetQty(o)
  <2>1. CASE Has(job[o].item)
    <3>1. PICK line \in LinesOf(job[o].item) : WriteFrom(line, {o})
      BY <1>3, <2>1 DEF SetQty
    <3>2. line \in cart.lines /\ {o} \in (SUBSET Op) \ {{}}
      BY <1>0 DEF LinesOf
    <3>3. QED
      BY <1>0, <1>3, <3>1, <3>2, WrittenFrom DEF SetQty
  <2>2. CASE ~Has(job[o].item)
    BY <1>0, <1>3, <2>2 DEF SetQty
  <2>3. QED
    BY <2>1, <2>2
<1>4. CASE Swap(o)
  <2>1. Remaining(o) \in SUBSET Line
    BY <1>0 DEF Remaining
  <2>2. Exists /\ made' = made /\ (Write(cart.lines) \/ Write(Remaining(o)))
    BY <1>4 DEF Swap
  <2>3. QED
    BY <1>0, <2>1, <2>2, Written
<1>5. CASE Clear(o) \/ DeleteEmpty(o)
  BY <1>0, <1>5 DEF Clear, DeleteEmpty
<1>6. CASE \/ Acquire(o) \/ Release(o) \/ Unlock(o) \/ StartBump(o) \/ NothingToRemove(o)
           \/ ReadVersion(o) \/ Conflict(o) \/ HydrateAnswer(o)
           \/ GiveUp(o) \/ Throw(o) \/ Crash(o)
  BY <1>0, <1>6 DEF Acquire, Release, Unlock, StartBump, NothingToRemove, ReadVersion, Conflict,
                    HydrateAnswer, GiveUp, Throw, Crash
<1>7. QED
  BY <1>1, <1>2, <1>3, <1>4, <1>5, <1>6 DEF Proceed

LEMMA TypeStep == TypeOK /\ Copies /\ [Next]_vars => TypeOK'
<1> SUFFICES ASSUME TypeOK, Copies, [Next]_vars PROVE TypeOK'
  OBVIOUS
<1>0. /\ job \in Jobs /\ cart \in CartDoc /\ pending \subseteq CartDoc /\ checkout \in CartDoc
      /\ made \in Nat /\ lock \in Op \cup {NoOp} /\ phase \in [Op -> Phase] /\ seen \in [Op -> Nat]
      /\ reprices \in Nat /\ checkouts \in Nat /\ crashes \in Nat
      /\ added \subseteq Op /\ taken \subseteq Op /\ early \in BOOLEAN /\ overtaken \in BOOLEAN
      /\ cart.lines \in SUBSET Line /\ checkout.lines \in SUBSET Line /\ cart.version \in Nat
      /\ NoCart \in CartDoc
  BY DEF TypeOK, CartDoc, NoCart
<1>a. \A lines \in SUBSET Line : Units(lines) \subseteq Op
  BY DEF Units, Line
<1>1. ASSUME NEW o \in Op, Proceed(o) \/ GiveUp(o) \/ Throw(o) \/ Crash(o) PROVE TypeOK'
  <2>1. cart' \in CartDoc /\ made' \in Nat
    BY <1>0, <1>1, RequestMoves DEF SameCart, NewVersion, NewCart, CartGone
  <2>2. phase' \in [Op -> Phase]
    BY <1>0, <1>1
       DEF Proceed, Acquire, Release, Unlock, IncLine, PushLine, SetQty, Clear, StartBump,
           NothingToRemove, ReadVersion, Conflict, Swap, DeleteEmpty, HydrateAnswer, GiveUp, Throw,
           Crash, Step, Phase
  <2>3. /\ lock' \in Op \cup {NoOp} /\ seen' \in [Op -> Nat] /\ crashes' \in Nat
        /\ UNCHANGED <<job, early, overtaken, checkout, checkouts>>
    BY <1>0, <1>1
       DEF Proceed, Acquire, Release, Unlock, IncLine, PushLine, SetQty, Clear, StartBump,
           NothingToRemove, ReadVersion, Conflict, Swap, DeleteEmpty, HydrateAnswer, GiveUp, Throw,
           Crash, readers, history
  <2>4. pending' \subseteq CartDoc /\ reprices' \in Nat
    BY <1>0, <1>1
       DEF Proceed, Acquire, Release, Unlock, IncLine, PushLine, SetQty, Clear, StartBump,
           NothingToRemove, ReadVersion, Conflict, Swap, DeleteEmpty, HydrateAnswer, GiveUp, Throw,
           Crash, readers, Hydrate
  <2>5. added' \subseteq Op /\ taken' \subseteq Op
    <3>1. CASE SetQty(o)
      BY <1>0, <3>1 DEF SetQty, LinesOf, Line
    <3>2. CASE Clear(o) \/ Swap(o)
      BY <1>0, <1>a, <3>2 DEF Clear, Swap
    <3>3. CASE ~(SetQty(o) \/ Clear(o) \/ Swap(o))
      BY <1>0, <1>1, <3>3
         DEF Proceed, Acquire, Release, Unlock, IncLine, PushLine, StartBump, NothingToRemove,
             ReadVersion, Conflict, DeleteEmpty, HydrateAnswer, GiveUp, Throw, Crash, history
    <3>4. QED
      BY <3>1, <3>2, <3>3
  <2>6. QED
    BY <1>0, <2>1, <2>2, <2>3, <2>4, <2>5 DEF TypeOK
<1>2. CASE LockExpires
  BY <1>0, <1>2 DEF LockExpires, TypeOK, readers
<1>3. CASE GetCart
  BY <1>0, <1>3 DEF GetCart, Hydrate, TypeOK, history
<1>4. ASSUME NEW read \in pending, WriteBack(read) PROVE TypeOK'
  <2>1. read.lines \in SUBSET Line
    BY <1>0 DEF CartDoc
  <2>2. cart' \in CartDoc
    BY <1>0, <1>4, <2>1 DEF WriteBack, CartDoc
  <2>3. pending' \subseteq CartDoc /\ overtaken' \in BOOLEAN
    BY <1>0, <1>4 DEF WriteBack
  <2>4. QED
    BY <1>0, <1>4, <2>2, <2>3 DEF WriteBack, TypeOK
<1>5. CASE ReadCart
  BY <1>0, <1>5 DEF ReadCart, TypeOK, history
<1>6. CASE OrderCart
  <2>1. cart' \in CartDoc /\ overtaken' \in BOOLEAN
    BY <1>0, <1>6 DEF OrderCart
  <2>2. taken' \subseteq Op
    BY <1>0, <1>a, <1>6 DEF OrderCart
  <2>3. QED
    BY <1>0, <1>6, <2>1, <2>2 DEF OrderCart, TypeOK
<1>7. CASE UNCHANGED vars
  BY <1>7 DEF vars, TypeOK
<1>8. QED
  BY <1>1, <1>2, <1>3, <1>4, <1>5, <1>6, <1>7 DEF Next

(* Only the owner of the lock is inside, as long as no lock ends under one.    *)
LEMMA LockHeldStep == TypeOK /\ LockHeld /\ [Next]_vars => LockHeld'
<1> SUFFICES ASSUME TypeOK, LockHeld, [Next]_vars, ~early',
                    NEW p \in Op, phase'[p] \in Critical
             PROVE  lock' = p
  BY DEF LockHeld
<1>0. /\ phase \in [Op -> Phase] /\ lock \in Op \cup {NoOp} /\ early \in BOOLEAN
      /\ NoOp \notin Op
  BY OpAssumption DEF TypeOK
<1>1. ~early
  <2>1. CASE LockExpires
    BY <1>0, <2>1 DEF LockExpires
  <2>2. CASE ~LockExpires
    BY <2>2 DEF Next, Proceed, Acquire, Release, Unlock, IncLine, PushLine, SetQty, Clear, StartBump,
           NothingToRemove, ReadVersion, Conflict, Swap, DeleteEmpty, HydrateAnswer, GiveUp, Throw,
           Crash, GetCart, WriteBack, ReadCart, OrderCart, history, vars
  <2>3. QED
    BY <2>1, <2>2
<1>2. \A o \in Op : phase[o] \in Critical => lock = o
  BY <1>1 DEF LockHeld
<1>3. ASSUME NEW o \in Op, Proceed(o) \/ GiveUp(o) \/ Throw(o) \/ Crash(o) PROVE lock' = p
  <2>1. \A q \in Op : q # o => phase'[q] = phase[q]
    BY <1>0, <1>3
       DEF Proceed, Acquire, Release, Unlock, IncLine, PushLine, SetQty, Clear, StartBump,
           NothingToRemove, ReadVersion, Conflict, Swap, DeleteEmpty, HydrateAnswer, GiveUp, Throw,
           Crash, Step
  <2>2. CASE Acquire(o)
    BY <1>0, <1>2, <2>1, <2>2 DEF Acquire
  <2>3. CASE Unlock(o)
    <3>1. phase[o] \in Critical /\ phase'[o] \notin Critical
      BY <1>0, <2>3 DEF Unlock, Step, Critical, Working
    <3>2. QED
      BY <1>0, <1>2, <2>1, <3>1
  <2>4. CASE ~(Acquire(o) \/ Unlock(o))
    <3>1. lock' = lock
      BY <1>3, <2>4
         DEF Proceed, Release, IncLine, PushLine, SetQty, Clear, StartBump, NothingToRemove,
             ReadVersion, Conflict, Swap, DeleteEmpty, HydrateAnswer, GiveUp, Throw, Crash
    <3>2. phase'[o] \in Critical => phase[o] \in Critical
      BY <1>0, <1>3, <2>4
         DEF Proceed, Release, IncLine, PushLine, SetQty, Clear, StartBump, NothingToRemove,
             ReadVersion, Conflict, Swap, DeleteEmpty, HydrateAnswer, GiveUp, Throw, Crash, Step,
             Critical, Working
    <3>3. QED
      BY <1>2, <2>1, <3>1, <3>2
  <2>5. QED
    BY <2>2, <2>3, <2>4
<1>4. CASE LockExpires
  <2>1. phase' = phase /\ phase[lock] \notin Critical
    BY <1>0, <1>4 DEF LockExpires
  <2>2. QED
    BY <1>2, <2>1
<1>5. CASE GetCart \/ (\E read \in pending : WriteBack(read)) \/ ReadCart \/ OrderCart
           \/ UNCHANGED vars
  <2>1. UNCHANGED <<lock, phase>>
    BY <1>5 DEF GetCart, WriteBack, ReadCart, OrderCart, vars
  <2>2. QED
    BY <1>2, <2>1
<1>6. QED
  BY <1>3, <1>4, <1>5 DEF Next

(* A cart that was read has an id no later cart is given, and each write to    *)
(* the lines but the write-back gives the cart a new version.                  *)
LEMMA CopiesKept ==
  ASSUME TypeOK, Copies, overtaken' = overtaken, cart' \in CartDoc,
         SameCart \/ NewVersion \/ NewCart \/ CartGone
  PROVE  /\ cart'.id <= made' /\ (cart'.id = 0 => cart'.lines = {})
         /\ \A c \in CartDoc : ReadFrom(c) =>
               /\ c.id \in 1 .. made'
               /\ c.id = cart'.id =>
                     /\ c.version <= cart'.version
                     /\ c.version = cart'.version /\ ~overtaken' => c.lines = cart'.lines
<1>0. /\ cart.id \in Nat /\ cart.version \in Nat /\ made \in Nat /\ cart.id <= made
      /\ cart'.id \in Nat /\ cart'.version \in Nat
      /\ (cart.id = 0 => cart.lines = {})
  BY DEF TypeOK, CartDoc, Copies, Exists
<1>1. \A c \in CartDoc : c.version \in Nat /\ c.id \in Nat
  BY DEF CartDoc
<1>2. CASE SameCart
  BY <1>0, <1>2 DEF SameCart, ReadFrom
<1>3. CASE NewVersion
  BY <1>0, <1>1, <1>3 DEF NewVersion, ReadFrom, Exists
<1>4. CASE NewCart
  BY <1>0, <1>1, <1>4 DEF NewCart, ReadFrom
<1>5. CASE CartGone
  BY <1>0, <1>1, <1>5 DEF CartGone, NoCart, ReadFrom
<1>6. QED
  BY <1>2, <1>3, <1>4, <1>5

LEMMA CopiesStep == TypeOK /\ Copies /\ [Next]_vars => Copies'
<1> SUFFICES ASSUME TypeOK, Copies, [Next]_vars
             PROVE  /\ cart'.id <= made' /\ (cart'.id = 0 => cart'.lines = {})
                    /\ \A c \in CartDoc : (c \in pending' \/ (c # NoCart /\ c = checkout')) =>
                         /\ c.id \in 1 .. made'
                         /\ c.id = cart'.id =>
                               /\ c.version <= cart'.version
                               /\ c.version = cart'.version /\ ~overtaken' => c.lines = cart'.lines
  BY TypeStep DEF Copies, ReadFrom, Exists, TypeOK
<1>0. /\ cart \in CartDoc /\ pending \subseteq CartDoc /\ checkout \in CartDoc /\ made \in Nat
      /\ cart.id \in Nat /\ cart.version \in Nat /\ cart.id <= made
      /\ (cart.id = 0 => cart.lines = {}) /\ overtaken \in BOOLEAN
  BY DEF TypeOK, CartDoc, Copies, Exists
<1>1. \A c \in pending : ReadFrom(c)
  BY DEF Copies
<1>2. checkout # NoCart => ReadFrom(checkout)
  BY DEF Copies
<1>3. Exists => ReadFrom(cart)
  BY <1>0 DEF Exists, ReadFrom
<1>4. CASE /\ overtaken' = overtaken /\ cart' \in CartDoc
           /\ SameCart \/ NewVersion \/ NewCart \/ CartGone
           /\ pending' \subseteq pending \cup {c \in {cart} : Exists}
           /\ checkout' \in {checkout, NoCart} \cup {c \in {cart} : Exists}
  <2>1. \A c \in CartDoc : c \in pending' \/ (c # NoCart /\ c = checkout') => ReadFrom(c)
    BY <1>1, <1>2, <1>3, <1>4
  <2>2. QED
    BY <1>4, <2>1, CopiesKept
<1>5. ASSUME NEW o \in Op, Proceed(o) \/ GiveUp(o) \/ Throw(o) \/ Crash(o)
      PROVE  /\ overtaken' = overtaken /\ checkout' = checkout
             /\ pending' \subseteq pending \cup {c \in {cart} : Exists}
  BY <1>5
     DEF Proceed, Acquire, Release, Unlock, IncLine, PushLine, SetQty, Clear, StartBump,
         NothingToRemove, ReadVersion, Conflict, Swap, DeleteEmpty, HydrateAnswer, Hydrate, GiveUp,
         Throw, Crash, readers, history
<1>6. CASE \E o \in Op : Proceed(o) \/ GiveUp(o) \/ Throw(o) \/ Crash(o)
  BY <1>4, <1>5, <1>6, RequestMoves
<1>7. CASE LockExpires \/ GetCart \/ ReadCart \/ UNCHANGED vars
  <2>1. /\ overtaken' = overtaken /\ SameCart
        /\ pending' \subseteq pending \cup {c \in {cart} : Exists}
        /\ checkout' \in {checkout, NoCart} \cup {c \in {cart} : Exists}
    BY <1>7 DEF LockExpires, GetCart, Hydrate, ReadCart, readers, history, vars, SameCart
  <2>2. QED
    BY <1>0, <1>4, <2>1 DEF SameCart
<1>8. ASSUME NEW read \in pending, WriteBack(read)
      PROVE  /\ cart'.id <= made' /\ (cart'.id = 0 => cart'.lines = {})
             /\ \A c \in CartDoc : (c \in pending' \/ (c # NoCart /\ c = checkout')) =>
                  /\ c.id \in 1 .. made'
                  /\ c.id = cart'.id =>
                        /\ c.version <= cart'.version
                        /\ c.version = cart'.version /\ ~overtaken' => c.lines = cart'.lines
  <2>1. ReadFrom(read) /\ made' = made /\ checkout' = checkout /\ pending' \subseteq pending
    BY <1>1, <1>8 DEF WriteBack
  <2>2. CASE cart.id = read.id
    <3>1. /\ cart'.id = cart.id /\ cart'.version = cart.version /\ cart'.lines = read.lines
          /\ overtaken' = (overtaken \/ cart.version # read.version)
      BY <1>0, <1>8, <2>2 DEF WriteBack, CartDoc
    <3>2. cart.id # 0
      BY <1>0, <2>1, <2>2 DEF ReadFrom
    <3>3. ~overtaken' => cart'.lines = cart.lines
      BY <2>1, <2>2, <3>1 DEF ReadFrom
    <3>4. QED
      BY <1>0, <1>1, <1>2, <2>1, <3>1, <3>2, <3>3 DEF ReadFrom
  <2>3. CASE cart.id # read.id
    BY <1>0, <1>1, <1>2, <1>8, <2>1, <2>3 DEF WriteBack, ReadFrom
  <2>4. QED
    BY <2>2, <2>3
<1>9. CASE OrderCart
  <2>1. made' = made /\ checkout' = NoCart /\ pending' = pending
    BY <1>9 DEF OrderCart
  <2>2. CASE cart.id = checkout.id
    <3>1. cart' = NoCart
      BY <1>9, <2>2 DEF OrderCart
    <3>2. QED
      BY <1>0, <1>1, <2>1, <3>1 DEF ReadFrom, NoCart
  <2>3. CASE cart.id # checkout.id
    BY <1>0, <1>1, <1>9, <2>1, <2>3 DEF OrderCart, ReadFrom
  <2>4. QED
    BY <2>2, <2>3
<1>10. QED
  BY <1>6, <1>7, <1>8, <1>9 DEF Next

(* Both properties and what a request has found, as long as no lock ended      *)
(* under a live request and no stale cart was written back.                    *)
Found ==
    \A o \in Op : /\ phase[o] = "pushing" => \A line \in cart.lines : line.item # job[o].item
                  /\ phase[o] = "emptied" => cart.lines = {}
OneEach == \A k, l \in cart.lines : k.item = l.item => k = l
Kept == \A o \in added : o \in taken \/ \E line \in cart.lines : o \in line.from
Settled == Found /\ OneEach /\ Kept

LEMMA SettledMeans ==
  AsFound /\ OneLinePerItem /\ AddedUnitsStay <=> (~early /\ ~overtaken => Settled)
BY DEF AsFound, OneLinePerItem, AddedUnitsStay, Settled, Found, OneEach, Kept, Has, LinesOf, Units

(* A line whose units change is the only one of its item still.                *)
LEMMA OneReplaced ==
  ASSUME OneEach, NEW line \in cart.lines, NEW from,
         cart'.lines = (cart.lines \ {line}) \cup {[item |-> line.item, from |-> from]}
  PROVE  OneEach'
<1> DEFINE new == [item |-> line.item, from |-> from]
<1>1. new.item = line.item
  OBVIOUS
<1> HIDE DEF new
<1>2. \A k \in cart'.lines : k = new \/ (k \in cart.lines /\ k # line)
  BY DEF new
<1>3. \A k, l \in cart'.lines : k.item = l.item => k = l
  BY <1>1, <1>2 DEF OneEach
<1>4. QED
  BY <1>3 DEF OneEach

LEMMA KeptReplaced ==
  ASSUME Kept, NEW line \in cart.lines, NEW from, NEW o \in from,
         cart'.lines = (cart.lines \ {line}) \cup {[item |-> line.item, from |-> from]},
         added' = added \cup {o}, taken \subseteq taken', line.from \subseteq from \cup taken'
  PROVE  Kept'
<1> DEFINE new == [item |-> line.item, from |-> from]
<1>1. new.from = from
  OBVIOUS
<1>2. new \in cart'.lines /\ \A l \in cart.lines : l # line => l \in cart'.lines
  OBVIOUS
<1> HIDE DEF new
<1>3. ASSUME NEW a \in added' PROVE a \in taken' \/ \E l \in cart'.lines : a \in l.from
  <2>1. CASE a = o
    BY <1>1, <1>2, <2>1
  <2>2. CASE a \in added /\ a \in taken
    BY <2>2
  <2>3. CASE a \in added /\ \E l \in cart.lines : a \in l.from
    <3>1. PICK l \in cart.lines : a \in l.from
      BY <2>3
    <3>2. CASE l = line
      BY <1>1, <1>2, <3>1, <3>2
    <3>3. CASE l # line
      BY <1>2, <3>1, <3>3
    <3>4. QED
      BY <3>2, <3>3
  <2>4. QED
    BY <1>3, <2>1, <2>2, <2>3 DEF Kept
<1>4. QED
  BY <1>3 DEF Kept

(* The request that writes has the lock, so no other is between two calls.     *)
LEMMA SettledByRequest ==
  ASSUME TypeOK, LockHeld, Copies, Settled, ~early, NEW o \in Op,
         Proceed(o) \/ GiveUp(o) \/ Throw(o) \/ Crash(o)
  PROVE  Settled'
<1>0. /\ phase \in [Op -> Phase] /\ job' = job /\ cart \in CartDoc
      /\ (cart.id = 0 => cart.lines = {})
  BY DEF TypeOK, Proceed, Acquire, Release, Unlock, IncLine, PushLine, SetQty, Clear, StartBump,
         NothingToRemove, ReadVersion, Conflict, Swap, DeleteEmpty, HydrateAnswer, GiveUp, Throw,
         Crash, Copies, Exists
<1>1. \A q \in Op : q # o => phase'[q] = phase[q]
  BY <1>0
     DEF Proceed, Acquire, Release, Unlock, IncLine, PushLine, SetQty, Clear, StartBump,
         NothingToRemove, ReadVersion, Conflict, Swap, DeleteEmpty, HydrateAnswer, GiveUp, Throw,
         Crash, Step
<1>2. Found /\ OneEach /\ Kept
  BY DEF Settled
<1>3. ASSUME phase[o] \in Critical,
             phase'[o] # "pushing", phase'[o] = "emptied" => cart'.lines = {}
      PROVE  Found'
  <2>1. \A q \in Op : q # o => phase[q] \notin Critical
    BY <1>3 DEF LockHeld
  <2>2. \A q \in Op : q # o => phase'[q] # "pushing" /\ phase'[q] # "emptied"
    BY <1>1, <2>1 DEF Critical, Working
  <2>3. QED
    BY <1>3, <2>2 DEF Found
<1>4. ASSUME cart'.lines = cart.lines, added' = added, taken' = taken,
             phase'[o] # "pushing", phase'[o] # "emptied"
      PROVE  Settled'
  <2>1. Found'
    BY <1>0, <1>1, <1>2, <1>4 DEF Found
  <2>2. OneEach' /\ Kept'
    BY <1>2, <1>4 DEF OneEach, Kept
  <2>3. QED
    BY <2>1, <2>2 DEF Settled
<1>5. CASE IncLine(o) /\ Has(job[o].item)
  <2>1. PICK line \in LinesOf(job[o].item) : WriteFrom(line, line.from \cup {o})
    BY <1>5 DEF IncLine
  <2>2. line \in cart.lines /\ line.from \cup {o} \in (SUBSET Op) \ {{}}
    BY <1>0 DEF LinesOf, Line, CartDoc
  <2>3. cart'.lines = (cart.lines \ {line}) \cup {[item |-> line.item, from |-> line.from \cup {o}]}
    BY <2>1, <2>2, WrittenFrom
  <2>4. /\ phase[o] = "locked" /\ phase'[o] = "hydrating"
        /\ added' = added \cup {o} /\ taken' = taken
    BY <1>0, <1>5 DEF IncLine, Step
  <2>5. Found'
    BY <1>3, <2>4 DEF Critical, Working
  <2>6. OneEach'
    BY <1>2, <2>2, <2>3, OneReplaced
  <2>7. Kept'
    BY <1>2, <2>2, <2>3, <2>4, KeptReplaced
  <2>8. QED
    BY <2>5, <2>6, <2>7 DEF Settled
<1>6. CASE IncLine(o) /\ ~Has(job[o].item)
  <2>1. /\ cart' = cart /\ added' = added /\ taken' = taken /\ phase'[o] = "pushing"
        /\ \A line \in cart.lines : line.item # job[o].item
    BY <1>0, <1>6 DEF IncLine, Step, Has, LinesOf
  <2>2. Found'
    BY <1>0, <1>1, <1>2, <2>1 DEF Found
  <2>3. OneEach' /\ Kept'
    BY <1>2, <2>1 DEF OneEach, Kept
  <2>4. QED
    BY <2>2, <2>3 DEF Settled
<1>7. CASE PushLine(o)
  <2> DEFINE new == [item |-> job[o].item, from |-> {o}]
  <2>1. new \in Line
    BY Jobs1 DEF Line
  <2>2. cart'.lines = cart.lines \cup {new}
    <3>1. CASE Exists
      <4>1. Write(cart.lines \cup {new}) /\ cart.lines \cup {new} \in SUBSET Line
        BY <1>0, <1>7, <2>1, <3>1 DEF PushLine, CartDoc
      <4>2. QED
        BY <4>1, Written
    <3>2. CASE ~Exists
      <4>1. cart' = [id |-> made + 1, version |-> 1, lines |-> {new}]
        BY <1>7, <3>2 DEF PushLine
      <4>2. QED
        BY <1>0, <3>2, <4>1 DEF Exists
    <3>3. QED
      BY <3>1, <3>2
  <2>3. /\ phase[o] = "pushing" /\ phase'[o] = "hydrating"
        /\ added' = added \cup {o} /\ taken' = taken
    BY <1>0, <1>7 DEF PushLine, Step
  <2>4. Found'
    BY <1>3, <2>3 DEF Critical, Working
  <2>5. \A line \in cart.lines : line.item # job[o].item
    BY <1>2, <2>3 DEF Found
  <2>6. new.item = job[o].item /\ new.from = {o}
    OBVIOUS
  <2> HIDE DEF new
  <2>7. OneEach'
    BY <1>2, <2>2, <2>5, <2>6 DEF OneEach
  <2>8. Kept'
    BY <1>2, <2>2, <2>3, <2>6 DEF Kept
  <2>9. QED
    BY <2>4, <2>7, <2>8 DEF Settled
<1>8. CASE SetQty(o) /\ Has(job[o].item)
  <2>1. PICK line \in LinesOf(job[o].item) : WriteFrom(line, {o}) /\ taken' = taken \cup line.from
    BY <1>8 DEF SetQty
  <2>2. line \in cart.lines /\ {o} \in (SUBSET Op) \ {{}}
    BY DEF LinesOf
  <2>3. cart'.lines = (cart.lines \ {line}) \cup {[item |-> line.item, from |-> {o}]}
    BY <2>1, <2>2, WrittenFrom
  <2>4. phase[o] = "locked" /\ phase'[o] = "hydrating" /\ added' = added \cup {o}
    BY <1>0, <1>8 DEF SetQty, Step
  <2>5. Found'
    BY <1>3, <2>4 DEF Critical, Working
  <2>6. OneEach'
    BY <1>2, <2>2, <2>3, OneReplaced
  <2>7. Kept'
    BY <1>2, <2>1, <2>2, <2>3, <2>4, KeptReplaced
  <2>8. QED
    BY <2>5, <2>6, <2>7 DEF Settled
<1>9. CASE SetQty(o) /\ ~Has(job[o].item)
  BY <1>0, <1>4, <1>9 DEF SetQty, Step
<1>10. CASE Clear(o)
  <2>1. /\ phase[o] = "locked" /\ phase'[o] = "releasing" /\ cart'.lines = {}
        /\ added' = added /\ taken' = taken \cup Units(cart.lines)
    BY <1>0, <1>10 DEF Clear, Step, NoCart
  <2>2. Found'
    BY <1>3, <2>1 DEF Critical, Working
  <2>3. OneEach' /\ Kept'
    BY <1>2, <2>1 DEF OneEach, Kept, Units
  <2>4. QED
    BY <2>2, <2>3 DEF Settled
<1>11. CASE Swap(o) /\ job[o].kind = "coupon"
  <2>1. Write(cart.lines) /\ cart.lines \in SUBSET Line
    BY <1>0, <1>11 DEF Swap, CartDoc
  <2>2. cart'.lines = cart.lines
    BY <2>1, Written
  <2>3. QED
    BY <1>0, <1>4, <1>11, <2>2 DEF Swap, Step
<1>12. CASE Swap(o) /\ job[o].kind # "coupon"
  <2>1. Write(Remaining(o)) /\ Remaining(o) \in SUBSET Line
    BY <1>0, <1>12 DEF Swap, CartDoc, Remaining
  <2>2. cart'.lines = Remaining(o) /\ Remaining(o) \subseteq cart.lines
    BY <2>1, Written DEF Remaining
  <2>3. /\ phase[o] = "swapping" /\ phase'[o] = (IF Emptied(o) THEN "emptied" ELSE "hydrating")
        /\ added' = added
        /\ taken' = taken \cup (Units(cart.lines) \ Units(Remaining(o)))
    BY <1>0, <1>12 DEF Swap, Step
  <2>4. Found'
    BY <1>3, <2>2, <2>3 DEF Critical, Working, Emptied
  <2>5. OneEach'
    BY <1>2, <2>2 DEF OneEach
  <2>6. Kept'
    BY <1>2, <2>2, <2>3 DEF Kept, Units
  <2>7. QED
    BY <2>4, <2>5, <2>6 DEF Settled
<1>13. CASE DeleteEmpty(o)
  <2>1. cart.lines = {}
    BY <1>2, <1>13 DEF DeleteEmpty, Step, Found
  <2>2. /\ cart'.lines = {} /\ phase'[o] = "hydrating" /\ added' = added /\ taken' = taken
    BY <1>0, <1>13 DEF DeleteEmpty, Step, NoCart, history
  <2>3. QED
    BY <1>4, <2>1, <2>2
<1>14. CASE \/ Acquire(o) \/ Release(o) \/ Unlock(o) \/ StartBump(o) \/ NothingToRemove(o)
            \/ ReadVersion(o) \/ Conflict(o) \/ HydrateAnswer(o)
            \/ GiveUp(o) \/ Throw(o) \/ Crash(o)
  <2>1. UNCHANGED <<cart, added, taken>>
    BY <1>14 DEF Acquire, Release, Unlock, StartBump, NothingToRemove, ReadVersion, Conflict,
                 HydrateAnswer, GiveUp, Throw, Crash, history
  <2>2. phase'[o] # "pushing" /\ phase'[o] # "emptied"
    BY <1>0, <1>14 DEF Acquire, Release, Unlock, StartBump, NothingToRemove, ReadVersion, Conflict,
                 HydrateAnswer, GiveUp, Throw, Crash, Step
  <2>3. QED
    BY <1>4, <2>1, <2>2
<1>15. QED
  BY <1>5, <1>6, <1>7, <1>8, <1>9, <1>10, <1>11, <1>12, <1>13, <1>14 DEF Proceed

LEMMA SettledStep ==
  ASSUME TypeOK, LockHeld, Copies, ~early /\ ~overtaken => Settled, [Next]_vars,
         ~early', ~overtaken'
  PROVE  Settled'
<1>0. early \in BOOLEAN /\ overtaken \in BOOLEAN /\ cart \in CartDoc
  BY DEF TypeOK
<1>1. ASSUME NEW o \in Op, Proceed(o) \/ GiveUp(o) \/ Throw(o) \/ Crash(o) PROVE Settled'
  <2>1. early' = early /\ overtaken' = overtaken
    BY <1>1
       DEF Proceed, Acquire, Release, Unlock, IncLine, PushLine, SetQty, Clear, StartBump,
           NothingToRemove, ReadVersion, Conflict, Swap, DeleteEmpty, HydrateAnswer, GiveUp, Throw,
           Crash, history
  <2>2. QED
    BY <1>1, <2>1, SettledByRequest
<1>2. ASSUME ~early, ~overtaken, UNCHANGED <<job, phase, added>>, cart'.lines = cart.lines,
             taken \subseteq taken'
      PROVE  Settled'
  BY <1>2 DEF Settled, Found, OneEach, Kept
<1>3. CASE LockExpires \/ GetCart \/ ReadCart \/ UNCHANGED vars
  <2>1. UNCHANGED <<job, phase, added, cart, taken, overtaken>> /\ ~early
    BY <1>0, <1>3 DEF LockExpires, GetCart, ReadCart, readers, history, vars
  <2>2. QED
    BY <1>2, <2>1
<1>4. ASSUME NEW read \in pending, WriteBack(read) PROVE Settled'
  <2>1. UNCHANGED <<job, phase, added, taken>> /\ ~early /\ ~overtaken
    BY <1>0, <1>4 DEF WriteBack
  <2>2. CASE cart.id = read.id
    <3>1. cart' = [cart EXCEPT !.lines = read.lines] /\ cart.version = read.version
      BY <1>0, <1>4, <2>2 DEF WriteBack
    <3>2. read.lines = cart.lines
      BY <2>1, <2>2, <3>1 DEF Copies, ReadFrom
    <3>3. cart'.lines = cart.lines
      BY <1>0, <3>1, <3>2 DEF CartDoc
    <3>4. QED
      BY <1>2, <2>1, <3>3
  <2>3. CASE cart.id # read.id
    BY <1>2, <1>4, <2>1, <2>3 DEF WriteBack
  <2>4. QED
    BY <2>2, <2>3
<1>5. CASE OrderCart
  <2>1. /\ UNCHANGED <<job, phase, added>> /\ ~early /\ ~overtaken
        /\ taken' = taken \cup Units(checkout.lines)
    BY <1>0, <1>5 DEF OrderCart
  <2>2. CASE cart.id = checkout.id
    <3>0. cart' = NoCart /\ overtaken' = (overtaken \/ cart.version # checkout.version)
      BY <1>5, <2>2 DEF OrderCart
    <3>a. cart'.lines = {}
      BY <3>0 DEF NoCart
    <3>b. cart.version = checkout.version
      BY <3>0
    <3>1. cart'.lines = {} /\ cart.version = checkout.version
      BY <3>a, <3>b
    <3>2. checkout.lines = cart.lines
      BY <1>5, <2>1, <2>2, <3>1 DEF Copies, ReadFrom, OrderCart
    <3>3. Settled
      BY <2>1
    <3>4. Found'
      BY <2>1, <3>1, <3>3 DEF Settled, Found
    <3>5. OneEach' /\ Kept'
      BY <2>1, <3>1, <3>2, <3>3 DEF Settled, OneEach, Kept, Units
    <3>6. QED
      BY <3>4, <3>5 DEF Settled
  <2>3. CASE cart.id # checkout.id
    BY <1>2, <1>5, <2>1, <2>3 DEF OrderCart
  <2>4. QED
    BY <2>2, <2>3
<1>6. QED
  BY <1>1, <1>3, <1>4, <1>5 DEF Next

-----------------------------------------------------------------------------

LEMMA CartStarts == Init => CartInv
<1> SUFFICES ASSUME Init PROVE CartInv
  OBVIOUS
<1>1. NoCart \in CartDoc
  BY DEF NoCart, CartDoc
<1>2. TypeOK
  BY <1>1 DEF Init, TypeOK, Phase
<1>3. LockHeld
  BY DEF Init, LockHeld, Critical, Working
<1>4. Copies
  BY DEF Init, Copies, NoCart
<1>5. AsFound /\ OneLinePerItem /\ AddedUnitsStay
  BY DEF Init, AsFound, OneLinePerItem, AddedUnitsStay, NoCart
<1>6. QED
  BY <1>2, <1>3, <1>4, <1>5 DEF CartInv

LEMMA CartStep == CartInv /\ [Next]_vars => CartInv'
<1> SUFFICES ASSUME CartInv, [Next]_vars PROVE CartInv'
  OBVIOUS
<1>1. TypeOK /\ LockHeld /\ Copies /\ (~early /\ ~overtaken => Settled)
  BY SettledMeans DEF CartInv
<1>2. TypeOK' /\ LockHeld' /\ Copies'
  BY <1>1, TypeStep, LockHeldStep, CopiesStep
<1>3. ~early' /\ ~overtaken' => Settled'
  BY <1>1, SettledStep
<1>4. AsFound' /\ OneLinePerItem' /\ AddedUnitsStay'
  BY <1>3 DEF AsFound, OneLinePerItem, AddedUnitsStay, Settled, Found, OneEach, Kept, Has, LinesOf,
              Units
<1>5. QED
  BY <1>2, <1>4 DEF CartInv

LEMMA CartHolds == Spec => []CartInv
<1>1. Init => CartInv
  BY CartStarts
<1>2. CartInv /\ [Next]_vars => CartInv'
  BY CartStep
<1>3. QED
  BY <1>1, <1>2, PTL DEF Spec

(* Type correctness.                                                           *)
THEOREM CartTyped == Spec => []TypeOK
<1>1. CartInv => TypeOK
  BY DEF CartInv
<1>2. QED
  BY <1>1, CartHolds, PTL

(* While the lock lasts and no stale cart is written back, no item ever has    *)
(* two lines, however many requests find the cart without it at once.          *)
THEOREM OneLine == Spec => []OneLinePerItem
<1>1. CartInv => OneLinePerItem
  BY DEF CartInv
<1>2. QED
  BY <1>1, CartHolds, PTL

(* Under the same conditions no unit written to a cart is lost: the delete of  *)
(* an emptied cart never takes a line that another request has written.        *)
THEOREM UnitsStay == Spec => []AddedUnitsStay
<1>1. CartInv => AddedUnitsStay
  BY DEF CartInv
<1>2. QED
  BY <1>1, CartHolds, PTL
=============================================================================
