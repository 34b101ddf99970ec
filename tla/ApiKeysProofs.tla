--------------------------- MODULE ApiKeysProofs ---------------------------
(***************************************************************************)
(* Proofs about tenant API keys: a revoked key is not accepted where it was *)
(* revoked, nor TTL after it was revoked anywhere; a valid key is accepted; *)
(* the cache stays within its size; a joined read answers everybody.        *)
(***************************************************************************)
EXTENDS ApiKeys, FiniteSetTheorems, TLAPS

\* A key that was revoked stays revoked.
StoreOK ==
    \A k \in Keys : deadAt[k] # Nil => k \notin active /\ deadAt[k] <= now

\* What replica R knows of k: "no such key" only of a dead key, a tenant no
\* longer than TTL after the death, and none once R invalidated the dead key.
EntryOK(R, k) ==
    /\ entry[<<R, k>>] = "no such key" => deadAt[k] # Nil
    /\ entry[<<R, k>>] = "tenant" =>
          /\ expires[<<R, k>>] <= now + TTL
          /\ deadAt[k] # Nil => expires[<<R, k>>] <= deadAt[k] + TTL
          /\ answered[<<R, k>>] = Nil
    /\ answered[<<R, k>>] # Nil => deadAt[k] # Nil /\ answered[<<R, k>>] <= gen[R]

\* What r read: that its key is dead, or a tenant, in which case the key died
\* after the read began and R's generation moved on when R invalidated it.
ReadOK(r) ==
    \/ value[r] = "no such key" /\ deadAt[key[r]] # Nil
    \/ /\ value[r] = "tenant"
       /\ deadAt[key[r]] # Nil => started[r] <= deadAt[key[r]]
       /\ answered[<<At[r], key[r]>>] # Nil => sawGen[r] < answered[<<At[r], key[r]>>]

\* A check that began after its replica invalidated the key knows that generation.
LateOK(r) ==
    late[r] =>
        /\ pc[r] \notin {"idle", "accepted"}
        /\ answered[<<At[r], key[r]>>] # Nil
        /\ pc[r] \in Busy => answered[<<At[r], key[r]>>] <= sawGen[r]

\* A request that waits has a leader in progress, of its own flight.
WaitOK(r) ==
    pc[r] = "wait" =>
        leader[r] \in Requests /\ Leads(leader[r]) /\ SameFlight(r, leader[r])

RequestOK(r) ==
    /\ pc[r] # "idle" => key[r] \in Keys /\ Made(key[r])
    /\ LateOK(r)
    /\ WaitOK(r)
    /\ pc[r] = "refused" => deadAt[key[r]] # Nil
    /\ pc[r] \in Busy => sawGen[r] <= gen[At[r]]
    /\ Leads(r) => started[r] <= now /\ now <= started[r] + MaxRead
    /\ pc[r] = "loaded" => ReadOK(r)

CacheOK == \A R \in Replicas, k \in Keys : EntryOK(R, k)
ChecksOK == \A r \in Requests : RequestOK(r)

KeyInv == TypeOK /\ StoreOK /\ CacheOK /\ ChecksOK

\* The entries a replica holds.
SizeOK == \A R \in Replicas : IsFiniteSet(Held(R)) /\ Cardinality(Held(R)) <= MaxEntries

-----------------------------------------------------------------------------
(* Types.                                                                  *)

StoreTypes ==
    /\ now \in 0..MaxTime
    /\ tenants \subseteq Tenants /\ active \subseteq Keys
    /\ deadAt \in [Keys -> Nat \cup {Nil}]

CacheTypes ==
    /\ entry \in [Places -> {"none", "tenant", "no such key"}]
    /\ expires \in [Places -> 0..(MaxTime + TTL)]
    /\ gen \in [Replicas -> Nat]
    /\ answered \in [Places -> Nat \cup {Nil}]

CheckTypes ==
    /\ pc \in [Requests -> Busy \cup {"idle", "accepted", "refused", "error"}]
    /\ key \in [Requests -> Keys \cup {Nil}]
    /\ sawGen \in [Requests -> Nat]
    /\ leader \in [Requests -> Requests \cup {Nil}]
    /\ started \in [Requests -> 0..MaxTime]
    /\ value \in [Requests -> {"none", "tenant", "no such key"}]
    /\ late \in [Requests -> BOOLEAN]

AdminTypes ==
    /\ call \in [Admins -> {"idle", "found", "written", "done"}]
    /\ callAt \in [Admins -> Replicas \cup {Nil}]
    /\ target \in [Admins -> Keys \cup Tenants \cup {Nil}]

LEMMA TypeParts == TypeOK <=> StoreTypes /\ CacheTypes /\ CheckTypes /\ AdminTypes
BY Zenon DEF TypeOK, StoreTypes, CacheTypes, CheckTypes, AdminTypes

\* The store's steps do not touch what the replicas know.
Outside == UNCHANGED <<cache, check, answered>>

LEMMA ClockNat == StoreTypes => now \in Nat
BY SMT, ApiKeysAssumption DEF StoreTypes

LEMMA KillTypes ==
    ASSUME StoreTypes, NEW ks, Kill(ks)
    PROVE  active' \subseteq Keys /\ deadAt' \in [Keys -> Nat \cup {Nil}]
<1>1. now \in Nat
    BY Zenon, ClockNat
<1>2. QED
    BY Zenon, <1>1 DEF StoreTypes, Kill

LEMMA CreateTenantTypes ==
    ASSUME TypeOK, NEW t \in Tenants, NEW ks \in SUBSET Keys, CreateTenant(t, ks)
    PROVE  TypeOK'
BY Zenon DEF TypeOK, CreateTenant, clock, cache, check, admin

LEMMA CreateAPIKeyTypes ==
    ASSUME TypeOK, NEW k \in Keys, CreateAPIKey(k)
    PROVE  TypeOK'
BY Zenon DEF TypeOK, CreateAPIKey, clock, cache, check, admin

LEMMA FindTypes ==
    ASSUME TypeOK, NEW c \in Admins, NEW R \in Replicas, NEW x \in Keys \cup Tenants, Find(c, R, x)
    PROVE  TypeOK'
<1>1. AdminTypes'
    BY Zenon DEF TypeOK, AdminTypes, Find
<1>2. (StoreTypes /\ CacheTypes /\ CheckTypes)'
    BY Zenon DEF TypeOK, StoreTypes, CacheTypes, CheckTypes, Find, clock, store, cache, check
<1>3. QED
    BY Zenon, <1>1, <1>2 DEF TypeOK, StoreTypes, CacheTypes, CheckTypes, AdminTypes

LEMMA WriteTypes ==
    ASSUME TypeOK, NEW c \in Admins, Write(c)
    PROVE  TypeOK'
<1> DEFINE ks == IF target[c] \in Keys THEN {target[c]} ELSE {k \in Keys : TenantOf[k] = target[c]}
<1>0. StoreTypes
    BY Zenon DEF TypeOK, StoreTypes
<1>1. CASE Kill(ks) /\ tenants' = tenants \ {target[c]}
    <2>1. active' \subseteq Keys /\ deadAt' \in [Keys -> Nat \cup {Nil}]
        BY Zenon, <1>0, <1>1, KillTypes
    <2>2. call' = [call EXCEPT ![c] = "written"] /\ now' = now /\ callAt' = callAt /\ target' = target
        BY Zenon DEF Write, clock
    <2>3. (CacheTypes /\ CheckTypes)'
        BY Zenon DEF TypeOK, CacheTypes, CheckTypes, Write, cache, check
    <2>4. (StoreTypes /\ AdminTypes)'
        BY Zenon, <1>1, <2>1, <2>2 DEF TypeOK, StoreTypes, AdminTypes
    <2>5. QED
        BY Zenon, <2>3, <2>4 DEF TypeOK, StoreTypes, CacheTypes, CheckTypes, AdminTypes
<1>2. CASE UNCHANGED store
    BY Zenon, <1>2 DEF TypeOK, Write, clock, store, cache, check
<1>3. QED
    BY Zenon, <1>1, <1>2 DEF Write

LEMMA InvalidateTypes ==
    ASSUME TypeOK, NEW c \in Admins, Invalidate(c)
    PROVE  TypeOK'
<1>1. gen \in [Replicas -> Nat] /\ gen' = [gen EXCEPT ![callAt[c]] = gen[callAt[c]] + 1]
    BY Zenon DEF TypeOK, Invalidate, NextGen
<1>2. gen' \in [Replicas -> Nat]
    <2>1. \A R \in Replicas : gen[R] + 1 \in Nat
        BY SMT, <1>1
    <2>2. QED
        BY Zenon, <1>1, <2>1
<1>3. entry' \in [Places -> {"none", "tenant", "no such key"}]
    BY Zenon DEF TypeOK, Invalidate
<1>4. expires' \in [Places -> 0..(MaxTime + TTL)]
    <2>1. 0 \in 0..(MaxTime + TTL)
        BY SMT, ApiKeysAssumption
    <2>2. QED
        BY Zenon, <2>1 DEF TypeOK, Invalidate
<1>5. answered' \in [Places -> Nat \cup {Nil}]
    <2>1. \A y \in Places : y[1] \in Replicas
        BY SMT DEF Places
    <2>2. \A R \in Replicas : gen[R] + 1 \in Nat
        BY SMT, <1>1
    <2>3. QED
        BY Zenon, <2>1, <2>2 DEF TypeOK, Invalidate, NextGen
<1>6. call' \in [Admins -> {"idle", "found", "written", "done"}]
    BY Zenon DEF TypeOK, Invalidate
<1>7. UNCHANGED <<clock, store, check, callAt, target>>
    BY Zenon DEF Invalidate
<1>8. QED
    BY Zenon, <1>2, <1>3, <1>4, <1>5, <1>6, <1>7 DEF TypeOK, clock, store, check

LEMMA TickTypes ==
    ASSUME TypeOK, Tick
    PROVE  TypeOK'
<1>1. now \in 0..MaxTime /\ now < MaxTime /\ now' = now + 1
    BY Zenon DEF TypeOK, Tick
<1>2. MaxTime \in Nat
    BY Zenon, ApiKeysAssumption
<1>3. now' \in 0..MaxTime
    BY SMT, <1>1, <1>2
<1>4. QED
    BY Zenon, <1>3 DEF TypeOK, Tick, store, cache, check, admin

LEMMA AnswerType == \A v : Answer(v) \in {"accepted", "refused"}
BY Zenon DEF Answer

LEMMA LookupTypes ==
    ASSUME TypeOK, NEW r \in Requests, NEW k \in Keys, Lookup(r, k)
    PROVE  TypeOK'
<1>0. gen[At[r]] \in Nat /\ "do" \in Busy
    BY Zenon, ApiKeysAssumption DEF TypeOK, Busy
<1>1. gen[At[r]] \in Nat /\ "do" \in Busy /\ 0 \in Nat
    BY SMT, <1>0
<1>2. (pc' \in [Requests -> Busy \cup {"idle", "accepted", "refused", "error"}])
    BY Zenon, <1>1, AnswerType DEF TypeOK, Lookup
<1>3. sawGen' \in [Requests -> Nat]
    BY Zenon, <1>1 DEF TypeOK, Lookup
<1>4. key' \in [Requests -> Keys \cup {Nil}] /\ late' \in [Requests -> BOOLEAN]
    BY Zenon DEF TypeOK, Lookup
<1>5. UNCHANGED <<clock, store, cache, leader, started, value, admin, answered>>
    BY Zenon DEF Lookup
<1>6. QED
    BY Zenon, <1>2, <1>3, <1>4, <1>5 DEF TypeOK, clock, store, cache, admin

LEMMA JoinTypes ==
    ASSUME TypeOK, NEW r \in Requests, NEW l \in Requests, Join(r, l)
    PROVE  TypeOK'
<1>1. pc' \in [Requests -> Busy \cup {"idle", "accepted", "refused", "error"}]
    BY Zenon DEF TypeOK, Join, Busy
<1>2. leader' \in [Requests -> Requests \cup {Nil}]
    BY Zenon DEF TypeOK, Join
<1>3. UNCHANGED <<clock, store, cache, key, sawGen, started, value, late, admin, answered>>
    BY Zenon DEF Join
<1>4. QED
    BY Zenon, <1>1, <1>2, <1>3 DEF TypeOK, clock, store, cache, admin

LEMMA LeadTypes ==
    ASSUME TypeOK, NEW r \in Requests, Lead(r)
    PROVE  TypeOK'
<1>1. pc' \in [Requests -> Busy \cup {"idle", "accepted", "refused", "error"}]
    BY Zenon DEF TypeOK, Lead, Busy
<1>2. started' \in [Requests -> 0..MaxTime]
    BY Zenon DEF TypeOK, Lead
<1>3. UNCHANGED <<clock, store, cache, key, sawGen, leader, value, late, admin, answered>>
    BY Zenon DEF Lead
<1>4. QED
    BY Zenon, <1>1, <1>2, <1>3 DEF TypeOK, clock, store, cache, admin

LEMMA LoadTypes ==
    ASSUME TypeOK, NEW r \in Requests, Load(r)
    PROVE  TypeOK'
<1>1. pc' \in [Requests -> Busy \cup {"idle", "accepted", "refused", "error"}]
    BY Zenon DEF TypeOK, Load, Busy
<1>2. value' \in [Requests -> {"none", "tenant", "no such key"}]
    BY Zenon DEF TypeOK, Load, StoreRead
<1>3. UNCHANGED <<clock, store, cache, key, sawGen, leader, started, late, admin, answered>>
    BY Zenon DEF Load
<1>4. QED
    BY Zenon, <1>1, <1>2, <1>3 DEF TypeOK, clock, store, cache, admin

LEMMA ReturnTypes ==
    ASSUME CheckTypes, NEW r \in Requests, NEW answer \in {"accepted", "refused", "error"},
           Return(r, answer)
    PROVE  CheckTypes'
<1>1. 0 \in 0..MaxTime /\ 0 \in Nat
    BY SMT, ApiKeysAssumption
<1>2. pc' \in [Requests -> Busy \cup {"idle", "accepted", "refused", "error"}]
    BY Zenon DEF CheckTypes, Return
<1>3. sawGen' \in [Requests -> Nat] /\ started' \in [Requests -> 0..MaxTime]
    BY Zenon, <1>1 DEF CheckTypes, Return
<1>4. leader' \in [Requests -> Requests \cup {Nil}]
    BY Zenon DEF CheckTypes, Return
<1>5. value' \in [Requests -> {"none", "tenant", "no such key"}]
    BY Zenon DEF CheckTypes, Return
<1>6. UNCHANGED <<key, late>>
    BY Zenon DEF Return
<1>7. QED
    BY Zenon, <1>2, <1>3, <1>4, <1>5, <1>6 DEF CheckTypes

LEMMA LoadFailsTypes ==
    ASSUME TypeOK, NEW r \in Requests, LoadFails(r)
    PROVE  TypeOK'
<1>1. CheckTypes'
    BY Zenon, TypeParts, ReturnTypes DEF LoadFails
<1>2. (StoreTypes /\ CacheTypes /\ AdminTypes)'
    BY Zenon DEF TypeOK, StoreTypes, CacheTypes, AdminTypes, LoadFails, clock, store, cache, admin
<1>3. QED
    BY Zenon, <1>1, <1>2 DEF TypeOK, StoreTypes, CacheTypes, CheckTypes, AdminTypes

\* The entries the replica of r keeps when r's value is cached.
Kept(r) ==
    IF entry[<<At[r], key[r]>>] = "none" /\ Cardinality(Held(At[r])) >= MaxEntries
    THEN MakeRoom(At[r]) ELSE Held(At[r])

\* The value of r is cached, and its replica forgets what is not kept.
Caches(r) ==
    /\ GenUnchanged(r)
    /\ entry' = [y \in Places |->
          IF y = <<At[r], key[r]>> THEN value[r]
          ELSE IF y[1] = At[r] /\ y[2] \notin Kept(r) THEN "none" ELSE entry[y]]
    /\ expires' = [y \in Places |->
          IF y = <<At[r], key[r]>> THEN started[r] + TTL
          ELSE IF y[1] = At[r] /\ y[2] \notin Kept(r) THEN 0 ELSE expires[y]]

LEMMA FinishEffect ==
    ASSUME NEW r \in Requests, Finish(r)
    PROVE  /\ pc[r] = "loaded"
           /\ Return(r, Answer(value[r]))
           /\ Caches(r) \/ UNCHANGED <<entry, expires>>
           /\ UNCHANGED <<clock, store, gen, admin, answered>>
BY Zenon DEF Finish, Caches, Kept, Expiry

LEMMA CachesTypes ==
    ASSUME TypeOK, NEW r \in Requests, Caches(r)
    PROVE  /\ entry' \in [Places -> {"none", "tenant", "no such key"}]
           /\ expires' \in [Places -> 0..(MaxTime + TTL)]
<1>1. started[r] \in 0..MaxTime /\ MaxTime \in Nat /\ TTL \in Nat
    BY Zenon, ApiKeysAssumption DEF TypeOK
<1>2. started[r] + TTL \in 0..(MaxTime + TTL) /\ 0 \in 0..(MaxTime + TTL)
    BY SMT, <1>1
<1>3. entry' \in [Places -> {"none", "tenant", "no such key"}]
    BY Zenon DEF TypeOK, Caches
<1>4. expires' \in [Places -> 0..(MaxTime + TTL)]
    BY Zenon, <1>2 DEF TypeOK, Caches
<1>5. QED
    BY Zenon, <1>3, <1>4

LEMMA FinishTypes ==
    ASSUME TypeOK, NEW r \in Requests, Finish(r)
    PROVE  TypeOK'
<1>1. CheckTypes'
    BY Zenon, TypeParts, ReturnTypes, AnswerType, FinishEffect
<1>2. /\ entry' \in [Places -> {"none", "tenant", "no such key"}]
      /\ expires' \in [Places -> 0..(MaxTime + TTL)]
    BY Zenon, CachesTypes, FinishEffect DEF TypeOK
<1>3. UNCHANGED <<clock, store, gen, admin, answered>>
    BY Zenon, FinishEffect
<1>4. (StoreTypes /\ CacheTypes /\ AdminTypes)'
    BY Zenon, <1>2, <1>3 DEF TypeOK, StoreTypes, CacheTypes, AdminTypes, clock, store, admin
<1>5. QED
    BY Zenon, <1>1, <1>4 DEF TypeOK, StoreTypes, CacheTypes, CheckTypes, AdminTypes

LEMMA NextTypes ==
    ASSUME TypeOK, [Next]_vars
    PROVE  TypeOK'
<1>1. CASE UNCHANGED vars
    BY Zenon, <1>1 DEF TypeOK, vars, clock, store, cache, check, admin
<1>2. CASE Next
    BY Zenon, <1>2, CreateTenantTypes, CreateAPIKeyTypes, FindTypes, WriteTypes, InvalidateTypes,
       TickTypes, LookupTypes, JoinTypes, LeadTypes, LoadTypes, LoadFailsTypes, FinishTypes
       DEF Next, Step, Handle
<1>3. QED
    BY Zenon, <1>1, <1>2

-----------------------------------------------------------------------------
(* Steps of the store, of the administration and of time.                  *)

\* How the world may change under a check: keys die now, and a replica that
\* learns of a dead key moves to a new generation.
Evolves ==
    /\ \A k \in Keys : deadAt'[k] = deadAt[k] \/ (deadAt[k] = Nil /\ deadAt'[k] = now)
    /\ \A k \in Keys : Made(k) => Made(k)'
    /\ \A R \in Replicas : gen[R] <= gen'[R]
    /\ \A R \in Replicas, k \in Keys :
          \/ answered'[<<R, k>>] = answered[<<R, k>>]
          \/ answered[<<R, k>>] = Nil /\ gen[R] < answered'[<<R, k>>]

Passes ==
    \/ now' = now
    \/ now' = now + 1 /\ \A r \in Requests : Leads(r) => now < started[r] + MaxRead

\* The values a check is about have their types.
LEMMA CheckValues ==
    ASSUME TypeOK, NEW r \in Requests
    PROVE  /\ At[r] \in Replicas /\ sawGen[r] \in Nat /\ started[r] \in Nat /\ now \in Nat
           /\ gen[At[r]] \in Nat
           /\ key[r] \in Keys =>
                 /\ deadAt[key[r]] # Nil => deadAt[key[r]] \in Nat
                 /\ answered[<<At[r], key[r]>>] # Nil => answered[<<At[r], key[r]>>] \in Nat
                 /\ <<At[r], key[r]>> \in Places
<1>1. /\ At[r] \in Replicas /\ sawGen[r] \in Nat /\ started[r] \in 0..MaxTime /\ now \in 0..MaxTime
      /\ MaxTime \in Nat
    BY Zenon, ApiKeysAssumption DEF TypeOK
<1>2. started[r] \in Nat /\ now \in Nat
    BY SMT, <1>1
<1>3. gen[At[r]] \in Nat
    BY Zenon, <1>1 DEF TypeOK
<1>4. ASSUME key[r] \in Keys
      PROVE  /\ deadAt[key[r]] # Nil => deadAt[key[r]] \in Nat
             /\ answered[<<At[r], key[r]>>] # Nil => answered[<<At[r], key[r]>>] \in Nat
             /\ <<At[r], key[r]>> \in Places
    <2>1. <<At[r], key[r]>> \in Places
        BY Zenon, <1>1, <1>4 DEF Places
    <2>2. QED
        BY Zenon, <1>4, <2>1 DEF TypeOK
<1>5. QED
    BY Zenon, <1>1, <1>2, <1>3, <1>4

LEMMA EvolvesKeepsChecks ==
    ASSUME KeyInv, TypeOK', Evolves, Passes, UNCHANGED check
    PROVE  ChecksOK'
<1> SUFFICES ASSUME NEW r \in Requests PROVE RequestOK(r)'
    BY Zenon DEF ChecksOK
<1>0. TypeOK /\ RequestOK(r) /\ (pc[r] = "idle" => ~late[r])
    BY Zenon DEF KeyInv, ChecksOK, RequestOK, LateOK
<1>1. /\ pc'[r] = pc[r] /\ key'[r] = key[r] /\ sawGen'[r] = sawGen[r] /\ leader'[r] = leader[r]
      /\ started'[r] = started[r] /\ value'[r] = value[r] /\ late'[r] = late[r]
      /\ pc' = pc /\ key' = key /\ sawGen' = sawGen
    BY Zenon DEF check
<1>2. CASE pc[r] = "idle"
    BY Zenon, <1>0, <1>1, <1>2 DEF RequestOK, LateOK, WaitOK, Leads, Busy
<1>3. CASE pc[r] # "idle"
    <2>1. key[r] \in Keys /\ At[r] \in Replicas /\ Made(key[r])
        BY Zenon, <1>0, <1>3, CheckValues DEF RequestOK
    <2>2. Made(key[r])'
        BY Zenon, <1>1, <2>1 DEF Evolves, Made
    <2>3. LateOK(r)'
        BY Zenon, <1>0, <1>1, <2>1 DEF RequestOK, LateOK, Evolves
    <2>4. WaitOK(r)'
        BY Zenon, <1>0, <1>1 DEF RequestOK, WaitOK, Leads, SameFlight
    <2>5. pc[r] = "refused" => deadAt'[key[r]] # Nil
        BY Zenon, <1>0, <2>1 DEF RequestOK, Evolves
    <2>6. pc[r] \in Busy => sawGen[r] <= gen'[At[r]]
        <3>1. pc[r] \in Busy => sawGen[r] <= gen[At[r]] /\ gen[At[r]] <= gen'[At[r]]
            BY Zenon, <1>0, <2>1 DEF RequestOK, Evolves
        <3>2. sawGen[r] \in Nat /\ gen[At[r]] \in Nat /\ gen'[At[r]] \in Nat
            BY Zenon, <1>0, <2>1, CheckValues DEF TypeOK
        <3>3. QED
            BY SMT, <3>1, <3>2
    <2>7. Leads(r) => started[r] <= now' /\ now' <= started[r] + MaxRead
        <3>1. /\ Leads(r) => started[r] <= now /\ now <= started[r] + MaxRead
              /\ now' = now \/ (now' = now + 1 /\ (Leads(r) => now < started[r] + MaxRead))
            BY Zenon, <1>0 DEF RequestOK, Passes
        <3>2. started[r] \in Nat /\ now \in Nat /\ MaxRead \in Nat
            BY Zenon, <1>0, CheckValues, ApiKeysAssumption
        <3>3. QED
            BY SMT, <3>1, <3>2
    <2>8. pc[r] = "loaded" => ReadOK(r)'
        <3> SUFFICES ASSUME pc[r] = "loaded" PROVE ReadOK(r)'
            OBVIOUS
        <3> DEFINE x == <<At[r], key[r]>>
        <3>1. ReadOK(r) /\ started[r] <= now /\ sawGen[r] <= gen[At[r]]
            BY Zenon, <1>0 DEF RequestOK, Leads, Busy
        <3>2. deadAt'[key[r]] = deadAt[key[r]] \/ (deadAt[key[r]] = Nil /\ deadAt'[key[r]] = now)
            BY Zenon, <2>1 DEF Evolves
        <3>3. answered'[x] = answered[x] \/ (answered[x] = Nil /\ gen[At[r]] < answered'[x])
            BY Zenon, <2>1 DEF Evolves
        <3>4. /\ sawGen[r] \in Nat /\ gen[At[r]] \in Nat
              /\ answered[x] # Nil => answered[x] \in Nat
              /\ answered'[x] # Nil => answered'[x] \in Nat
            BY Zenon, <1>0, <2>1, CheckValues DEF TypeOK
        <3>5. value[r] = "no such key" /\ deadAt[key[r]] # Nil => ReadOK(r)'
            BY Zenon, <1>1, <3>2 DEF ReadOK
        <3>6. ASSUME value[r] = "tenant" PROVE ReadOK(r)'
            <4>1. deadAt'[key[r]] # Nil => started[r] <= deadAt'[key[r]]
                BY Zenon, <3>1, <3>2, <3>6 DEF ReadOK
            <4>2. answered[x] # Nil => sawGen[r] < answered[x]
                BY Zenon, <3>1, <3>6 DEF ReadOK
            <4>3. answered'[x] # Nil => sawGen[r] < answered'[x]
                <5>1. CASE answered'[x] = answered[x]
                    BY Zenon, <4>2, <5>1
                <5>2. CASE answered[x] = Nil /\ gen[At[r]] < answered'[x]
                    BY SMT, <3>1, <3>4, <5>2
                <5>3. QED
                    BY Zenon, <3>3, <5>1, <5>2
            <4>4. QED
                BY Zenon, <1>1, <3>6, <4>1, <4>3 DEF ReadOK
        <3>7. QED
            BY Zenon, <3>1, <3>5, <3>6 DEF ReadOK
    <2>9. QED
        BY Zenon, <1>1, <2>1, <2>2, <2>3, <2>4, <2>5, <2>6, <2>7, <2>8 DEF RequestOK, Leads, Made
<1>4. QED
    BY Zenon, <1>2, <1>3

\* The values an entry is about have their types.
LEMMA EntryValues ==
    ASSUME TypeOK, NEW R \in Replicas, NEW k \in Keys
    PROVE  /\ <<R, k>> \in Places
           /\ entry[<<R, k>>] \in {"none", "tenant", "no such key"}
           /\ expires[<<R, k>>] \in Nat /\ gen[R] \in Nat /\ now \in Nat /\ TTL \in Nat
           /\ deadAt[k] # Nil => deadAt[k] \in Nat
           /\ answered[<<R, k>>] # Nil => answered[<<R, k>>] \in Nat
<1>1. <<R, k>> \in Places
    BY Zenon DEF Places
<1>2. expires[<<R, k>>] \in 0..(MaxTime + TTL) /\ now \in 0..MaxTime /\ MaxTime \in Nat /\ TTL \in Nat
    BY Zenon, <1>1, ApiKeysAssumption DEF TypeOK
<1>3. expires[<<R, k>>] \in Nat /\ now \in Nat
    BY SMT, <1>2
<1>4. gen[R] \in Nat /\ deadAt[k] \in Nat \cup {Nil}
    BY Zenon DEF TypeOK
<1>5. entry[<<R, k>>] \in {"none", "tenant", "no such key"} /\ answered[<<R, k>>] \in Nat \cup {Nil}
    BY Zenon, <1>1 DEF TypeOK
<1>6. QED
    BY Zenon, <1>1, <1>2, <1>3, <1>4, <1>5

\* The store changes and nobody is told: keys may die now.
LEMMA StoreKeepsCache ==
    ASSUME KeyInv, Outside, now' = now,
           \A k \in Keys : deadAt'[k] = deadAt[k] \/ (deadAt[k] = Nil /\ deadAt'[k] = now)
    PROVE  CacheOK'
<1> SUFFICES ASSUME NEW R \in Replicas, NEW k \in Keys PROVE EntryOK(R, k)'
    BY Zenon DEF CacheOK
<1>1. EntryOK(R, k) /\ TypeOK
    BY Zenon DEF KeyInv, CacheOK
<1>2. entry' = entry /\ expires' = expires /\ gen' = gen /\ answered' = answered
    BY Zenon DEF Outside, cache
<1>3. deadAt[k] # Nil => deadAt'[k] = deadAt[k]
    BY Zenon
<1>4. entry[<<R, k>>] = "tenant" /\ deadAt'[k] # Nil => expires[<<R, k>>] <= deadAt'[k] + TTL
    BY Zenon, <1>1, <1>3 DEF EntryOK
<1>5. QED
    BY Zenon, <1>1, <1>2, <1>3, <1>4 DEF EntryOK

\* The parts of the invariant after a step of the store.
LEMMA StoreStepOK ==
    ASSUME KeyInv, TypeOK', Outside, now' = now, StoreOK',
           \A k \in Keys : deadAt'[k] = deadAt[k] \/ (deadAt[k] = Nil /\ deadAt'[k] = now),
           \A k \in Keys : Made(k) => Made(k)'
    PROVE  KeyInv'
<1>1. CacheOK'
    BY Zenon, StoreKeepsCache
<1>2. gen' = gen /\ answered' = answered /\ UNCHANGED check
    BY Zenon DEF Outside, cache
<1>3. \A R \in Replicas : gen[R] <= gen'[R]
    <2>1. \A R \in Replicas : gen[R] \in Nat
        BY Zenon DEF KeyInv, TypeOK
    <2>2. QED
        BY SMT, <1>2, <2>1
<1>4. Evolves /\ Passes
    BY Zenon, <1>2, <1>3 DEF Evolves, Passes
<1>5. ChecksOK'
    BY Zenon, <1>2, <1>4, EvolvesKeepsChecks
<1>6. QED
    BY Zenon, <1>1, <1>5 DEF KeyInv

LEMMA CreateTenantOK ==
    ASSUME KeyInv, TypeOK', NEW t \in Tenants, NEW ks \in SUBSET Keys, CreateTenant(t, ks)
    PROVE  KeyInv'
<1>1. /\ Outside /\ now' = now /\ deadAt' = deadAt /\ active' = active \cup ks
      /\ \A k \in ks : TenantOf[k] = t
      /\ \A k \in Keys : TenantOf[k] = t => deadAt[k] = Nil
    BY Zenon DEF CreateTenant, Outside, clock
<1>2. StoreOK'
    BY Zenon, <1>1 DEF KeyInv, StoreOK
<1>3. \A k \in Keys : Made(k) => Made(k)'
    BY Zenon, <1>1 DEF Made
<1>4. QED
    BY Zenon, <1>1, <1>2, <1>3, StoreStepOK

LEMMA CreateAPIKeyOK ==
    ASSUME KeyInv, TypeOK', NEW k \in Keys, CreateAPIKey(k)
    PROVE  KeyInv'
<1>1. /\ Outside /\ now' = now /\ deadAt' = deadAt /\ active' = active \cup {k} /\ deadAt[k] = Nil
    BY Zenon DEF CreateAPIKey, Outside, clock
<1>2. StoreOK'
    BY Zenon, <1>1 DEF KeyInv, StoreOK
<1>3. \A j \in Keys : Made(j) => Made(j)'
    BY Zenon, <1>1 DEF Made
<1>4. QED
    BY Zenon, <1>1, <1>2, <1>3, StoreStepOK

LEMMA FindOK ==
    ASSUME KeyInv, TypeOK', NEW c \in Admins, NEW R, NEW x, Find(c, R, x)
    PROVE  KeyInv'
<1>1. Outside /\ now' = now /\ deadAt' = deadAt /\ active' = active
    BY Zenon DEF Find, Outside, clock, store
<1>2. StoreOK'
    BY Zenon, <1>1 DEF KeyInv, StoreOK
<1>3. \A j \in Keys : Made(j) => Made(j)'
    BY Zenon, <1>1 DEF Made
<1>4. QED
    BY Zenon, <1>1, <1>2, <1>3, StoreStepOK

\* A key dies once.
LEMMA KillOK ==
    ASSUME KeyInv, NEW ks, Kill(ks), now' = now
    PROVE  /\ StoreOK'
           /\ \A k \in Keys : deadAt'[k] = deadAt[k] \/ (deadAt[k] = Nil /\ deadAt'[k] = now)
           /\ \A k \in Keys : Made(k) => Made(k)'
<1>1. /\ active' = active \ ks /\ StoreOK
      /\ \A k \in Keys : deadAt'[k] = IF k \in ks \cap active THEN now ELSE deadAt[k]
    BY Zenon DEF Kill, KeyInv
<1>2. now <= now /\ now # Nil
    <2>1. now \in Nat /\ Nil \notin Int
        BY Zenon, ClockNat, TypeParts, ApiKeysAssumption DEF KeyInv
    <2>2. QED
        BY SMT, <2>1
<1>3. \A k \in Keys : k \in active => deadAt[k] = Nil
    BY Zenon, <1>1 DEF StoreOK
<1>4. \A k \in Keys : deadAt'[k] = deadAt[k] \/ (deadAt[k] = Nil /\ deadAt'[k] = now)
    BY Zenon, <1>1, <1>3
<1>5. StoreOK'
    BY Zenon, <1>1, <1>2 DEF StoreOK
<1>6. \A k \in Keys : Made(k) => Made(k)'
    BY Zenon, <1>1, <1>2 DEF Made
<1>7. QED
    BY Zenon, <1>4, <1>5, <1>6

LEMMA WriteOK ==
    ASSUME KeyInv, TypeOK', NEW c \in Admins, Write(c)
    PROVE  KeyInv'
<1> DEFINE ks == IF target[c] \in Keys THEN {target[c]} ELSE {k \in Keys : TenantOf[k] = target[c]}
<1>1. Outside /\ now' = now /\ (Kill(ks) \/ UNCHANGED store)
    BY Zenon DEF Write, Outside, clock
<1>2. CASE Kill(ks)
    BY Zenon, <1>1, <1>2, KillOK, StoreStepOK
<1>3. CASE UNCHANGED store
    <2>1. deadAt' = deadAt /\ active' = active
        BY Zenon, <1>3 DEF store
    <2>2. StoreOK'
        BY Zenon, <1>1, <2>1 DEF KeyInv, StoreOK
    <2>3. \A j \in Keys : Made(j) => Made(j)'
        BY Zenon, <2>1 DEF Made
    <2>4. QED
        BY Zenon, <1>1, <2>1, <2>2, <2>3, StoreStepOK
<1>4. QED
    BY Zenon, <1>1, <1>2, <1>3

\* An invalidation moves the generation and forgets the entries it hits.
LEMMA InvalidateEffect ==
    ASSUME TypeOK, NEW c \in Admins, Invalidate(c), NEW R \in Replicas, NEW k \in Keys
    PROVE  /\ gen'[R] = gen[R] \/ gen'[R] = gen[R] + 1
           /\ entry'[<<R, k>>] \in {"none", entry[<<R, k>>]}
           /\ entry'[<<R, k>>] # "none" => expires'[<<R, k>>] = expires[<<R, k>>]
           /\ \/ answered'[<<R, k>>] = answered[<<R, k>>]
              \/ /\ answered[<<R, k>>] = Nil /\ deadAt[k] # Nil /\ entry'[<<R, k>>] # "tenant"
                 /\ answered'[<<R, k>>] = gen[R] + 1 /\ gen'[R] = gen[R] + 1
<1> DEFINE x == target[c]
           hit == IF x \in Keys THEN k = x ELSE TenantOf[k] = x /\ entry[<<R, k>>] = "tenant"
           dead == deadAt[k] # Nil /\ IF x \in Keys THEN k = x ELSE TenantOf[k] = x
<1>1. <<R, k>> \in Places /\ <<R, k>>[1] = R /\ <<R, k>>[2] = k
    BY SMT DEF Places
<1>2. gen'[R] = IF R = callAt[c] THEN gen[R] + 1 ELSE gen[R]
    BY Zenon DEF TypeOK, Invalidate, NextGen
<1>3. R # callAt[c] => /\ entry'[<<R, k>>] = entry[<<R, k>>]
                      /\ expires'[<<R, k>>] = expires[<<R, k>>]
                      /\ answered'[<<R, k>>] = answered[<<R, k>>]
    BY Zenon, <1>1 DEF Invalidate
<1>4. R = callAt[c] => /\ entry'[<<R, k>>] = IF hit THEN "none" ELSE entry[<<R, k>>]
                      /\ expires'[<<R, k>>] = IF hit THEN 0 ELSE expires[<<R, k>>]
    BY Zenon, <1>1 DEF Invalidate
<1>5. R = callAt[c] => answered'[<<R, k>>] = IF dead /\ answered[<<R, k>>] = Nil THEN gen[R] + 1
                                            ELSE answered[<<R, k>>]
    BY Zenon, <1>1 DEF Invalidate, NextGen
<1>6. dead => hit \/ entry[<<R, k>>] # "tenant"
    BY Zenon
<1>7. QED
    BY Zenon, <1>2, <1>3, <1>4, <1>5, <1>6

LEMMA InvalidateOK ==
    ASSUME KeyInv, TypeOK', NEW c \in Admins, Invalidate(c)
    PROVE  KeyInv'
<1>1. TypeOK /\ CacheOK /\ StoreOK
    BY Zenon DEF KeyInv
<1>2. now' = now /\ deadAt' = deadAt /\ active' = active /\ UNCHANGED check
    BY Zenon DEF Invalidate, clock, store
<1>3. StoreOK'
    BY Zenon, <1>1, <1>2 DEF StoreOK
<1>4. ASSUME NEW R \in Replicas, NEW k \in Keys
      PROVE  /\ EntryOK(R, k)' /\ gen[R] <= gen'[R]
             /\ \/ answered'[<<R, k>>] = answered[<<R, k>>]
                \/ answered[<<R, k>>] = Nil /\ gen[R] < answered'[<<R, k>>]
    <2> DEFINE y == <<R, k>>
    <2>1. /\ gen'[R] = gen[R] \/ gen'[R] = gen[R] + 1
          /\ entry'[y] \in {"none", entry[y]}
          /\ entry'[y] # "none" => expires'[y] = expires[y]
          /\ \/ answered'[y] = answered[y]
             \/ /\ answered[y] = Nil /\ deadAt[k] # Nil /\ entry'[y] # "tenant"
                /\ answered'[y] = gen[R] + 1 /\ gen'[R] = gen[R] + 1
        BY Zenon, <1>1, InvalidateEffect
    <2>2. gen[R] \in Nat /\ (answered[y] # Nil => answered[y] \in Nat)
        BY Zenon, <1>1, EntryValues
    <2>3. EntryOK(R, k)
        BY Zenon, <1>1 DEF CacheOK
    <2>4. gen[R] <= gen'[R] /\ gen[R] < gen[R] + 1 /\ gen[R] + 1 <= gen[R] + 1
        BY SMT, <2>1, <2>2
    <2>5. answered'[y] # Nil => answered'[y] <= gen'[R] /\ deadAt[k] # Nil
        <3>1. CASE answered'[y] = answered[y]
            <4>1. answered[y] # Nil => answered[y] <= gen[R] /\ deadAt[k] # Nil
                BY Zenon, <2>3 DEF EntryOK
            <4>2. QED
                BY SMT, <2>2, <2>1, <3>1, <4>1
        <3>2. CASE answered'[y] # answered[y]
            BY Zenon, <2>1, <2>4, <3>2
        <3>3. QED
            BY Zenon, <3>1, <3>2
    <2>6. entry'[y] = "tenant" => entry[y] = "tenant" /\ expires'[y] = expires[y] /\ answered'[y] = Nil
        BY Zenon, <2>1, <2>3 DEF EntryOK
    <2>7. EntryOK(R, k)'
        BY Zenon, <1>2, <2>1, <2>3, <2>5, <2>6 DEF EntryOK
    <2>8. QED
        BY Zenon, <2>1, <2>4, <2>7
<1>5. Evolves /\ Passes
    <2>1. \A R \in Replicas : gen[R] \in Nat /\ gen'[R] \in {gen[R], gen[R] + 1}
        <3>1. gen \in [Replicas -> Nat] /\ gen' = [gen EXCEPT ![callAt[c]] = gen[callAt[c]] + 1]
            BY Zenon, <1>1, TypeParts DEF CacheTypes, Invalidate, NextGen
        <3>2. QED
            BY Zenon, <3>1
    <2>2. \A R \in Replicas : gen[R] <= gen'[R]
        BY SMT, <2>1
    <2>3. QED
        BY Zenon, <1>2, <1>4, <2>2 DEF Evolves, Passes, Made
<1>6. ChecksOK'
    BY Zenon, <1>2, <1>5, EvolvesKeepsChecks
<1>7. QED
    BY Zenon, <1>3, <1>4, <1>6 DEF KeyInv, CacheOK

LEMMA TickOK ==
    ASSUME KeyInv, TypeOK', Tick
    PROVE  KeyInv'
<1>1. TypeOK /\ CacheOK /\ StoreOK /\ now \in Nat /\ TTL \in Nat
    BY Zenon, TypeParts, ClockNat, ApiKeysAssumption DEF KeyInv
<1>2. /\ now' = now + 1 /\ deadAt' = deadAt /\ active' = active /\ UNCHANGED check
      /\ entry' = entry /\ expires' = expires /\ gen' = gen /\ answered' = answered
    BY Zenon DEF Tick, store, cache
<1>3. StoreOK'
    <2>1. \A k \in Keys : deadAt[k] # Nil => deadAt[k] \in Nat /\ deadAt[k] <= now
        <3>1. \A k \in Keys : deadAt[k] \in Nat \cup {Nil}
            BY Zenon, <1>1, TypeParts DEF StoreTypes
        <3>2. QED
            BY Zenon, <1>1, <3>1 DEF StoreOK
    <2>2. \A k \in Keys : deadAt[k] # Nil => deadAt[k] <= now + 1
        BY SMT, <1>1, <2>1
    <2>3. QED
        BY Zenon, <1>1, <1>2, <2>2 DEF StoreOK
<1>4. CacheOK'
    <2> SUFFICES ASSUME NEW R \in Replicas, NEW k \in Keys PROVE EntryOK(R, k)'
        BY Zenon DEF CacheOK
    <2>1. EntryOK(R, k) /\ expires[<<R, k>>] \in Nat
        BY Zenon, <1>1, EntryValues DEF CacheOK
    <2>2. expires[<<R, k>>] <= now + TTL => expires[<<R, k>>] <= (now + 1) + TTL
        BY SMT, <1>1, <2>1
    <2>3. QED
        BY Zenon, <1>2, <2>1, <2>2 DEF EntryOK
<1>5. \A R \in Replicas : gen[R] <= gen'[R]
    <2>1. \A R \in Replicas : gen[R] \in Nat
        BY Zenon, <1>1, TypeParts DEF CacheTypes
    <2>2. QED
        BY SMT, <1>2, <2>1
<1>6. Evolves
    BY Zenon, <1>2, <1>5 DEF Evolves, Made
<1>7. Passes
    BY Zenon DEF Passes, Tick
<1>8. ChecksOK'
    BY Zenon, <1>2, <1>6, <1>7, EvolvesKeepsChecks
<1>9. QED
    BY Zenon, <1>3, <1>4, <1>8 DEF KeyInv

-----------------------------------------------------------------------------
(* Steps of the checks.                                                    *)

\* What the other checks know stays as it is.
World == UNCHANGED <<now, tenants, active, deadAt, gen, answered>>

SameCheck(q) ==
    /\ pc'[q] = pc[q] /\ key'[q] = key[q] /\ sawGen'[q] = sawGen[q] /\ leader'[q] = leader[q]
    /\ started'[q] = started[q] /\ value'[q] = value[q] /\ late'[q] = late[q]

\* A check that does not move, while the leader it waits for stays in progress.
LEMMA SameCheckOK ==
    ASSUME NEW q \in Requests, RequestOK(q), World, SameCheck(q),
           pc[q] = "wait" => /\ Leads(leader[q])' /\ key'[leader[q]] = key[leader[q]]
                             /\ sawGen'[leader[q]] = sawGen[leader[q]]
    PROVE  RequestOK(q)'
<1>1. /\ now' = now /\ active' = active /\ deadAt' = deadAt /\ gen' = gen /\ answered' = answered
    BY Zenon DEF World
<1>2. LateOK(q)'
    BY Zenon, <1>1 DEF RequestOK, LateOK, SameCheck
<1>3. WaitOK(q)'
    BY Zenon DEF RequestOK, WaitOK, SameCheck, Leads, SameFlight
<1>4. pc[q] = "loaded" => ReadOK(q)'
    BY Zenon, <1>1 DEF RequestOK, ReadOK, SameCheck
<1>5. Made(key[q]) => Made(key[q])'
    BY Zenon, <1>1 DEF Made, SameCheck
<1>6. QED
    BY Zenon, <1>1, <1>2, <1>3, <1>4, <1>5 DEF RequestOK, SameCheck, Leads, Made

\* One check moves; if it leads a flight, it goes on leading it.
LEMMA SoloOK ==
    ASSUME KeyInv, TypeOK', World, UNCHANGED <<entry, expires>>, NEW r \in Requests,
           \A q \in Requests \ {r} : SameCheck(q),
           Leads(r) => Leads(r)' /\ key'[r] = key[r] /\ sawGen'[r] = sawGen[r],
           RequestOK(r)'
    PROVE  KeyInv'
<1>1. ASSUME NEW q \in Requests, q # r PROVE RequestOK(q)'
    <2>1. RequestOK(q) /\ SameCheck(q)
        BY Zenon, <1>1 DEF KeyInv, ChecksOK
    <2>2. ASSUME pc[q] = "wait"
          PROVE  /\ Leads(leader[q])' /\ key'[leader[q]] = key[leader[q]]
                 /\ sawGen'[leader[q]] = sawGen[leader[q]]
        <3>1. PICK l \in Requests : l = leader[q]
            BY Zenon, <2>1, <2>2 DEF RequestOK, WaitOK
        <3>2. Leads(l) /\ leader'[q] = leader[q]
            BY Zenon, <2>1, <2>2, <3>1 DEF RequestOK, WaitOK, SameCheck
        <3>3. Leads(l)' /\ key'[l] = key[l] /\ sawGen'[l] = sawGen[l]
            BY Zenon, <3>2 DEF SameCheck, Leads
        <3>4. QED
            BY Zenon, <3>1, <3>2, <3>3 DEF Leads
    <2>3. QED
        BY Zenon, <2>1, <2>2, SameCheckOK
<1>2. ChecksOK'
    BY Zenon, <1>1 DEF ChecksOK
<1>3. StoreOK' /\ CacheOK'
    BY Zenon DEF KeyInv, StoreOK, CacheOK, EntryOK, World
<1>4. QED
    BY Zenon, <1>2, <1>3 DEF KeyInv

LEMMA LookupOK ==
    ASSUME KeyInv, TypeOK', NEW r \in Requests, NEW k \in Keys, Lookup(r, k)
    PROVE  KeyInv'
<1> DEFINE x == <<At[r], k>>
           hit == entry[x] # "none" /\ now < expires[x]
<1>1. TypeOK /\ CheckTypes /\ RequestOK(r) /\ At[r] \in Replicas
    BY Zenon, TypeParts, CheckValues DEF KeyInv, ChecksOK
<1>2. World /\ UNCHANGED <<entry, expires>> /\ Made(k) /\ pc[r] \notin Busy
    BY Zenon DEF Lookup, World, clock, store, cache
<1>3. \A q \in Requests \ {r} : SameCheck(q)
    BY Zenon, <1>1 DEF Lookup, SameCheck, CheckTypes
<1>4. /\ pc'[r] = IF hit THEN Answer(entry[x]) ELSE "do"
      /\ sawGen'[r] = IF hit THEN 0 ELSE gen[At[r]]
    BY Zenon, <1>1 DEF Lookup, CheckTypes
<1>5. key'[r] = k /\ late'[r] = (answered[x] # Nil)
    BY Zenon, <1>1 DEF Lookup, CheckTypes
<1>6. EntryOK(At[r], k) /\ gen[At[r]] \in Nat /\ entry[x] \in {"none", "tenant", "no such key"}
    BY Zenon, <1>1, EntryValues DEF KeyInv, CacheOK
<1>7. hit => pc'[r] \in {"accepted", "refused"} /\ (pc'[r] = "accepted" <=> entry[x] = "tenant")
    BY Zenon, <1>4 DEF Answer
<1>8. LateOK(r)'
    <2>1. late'[r] => answered[x] # Nil /\ answered'[x] = answered[x]
        BY Zenon, <1>2, <1>5 DEF World
    <2>2. late'[r] => pc'[r] \notin {"idle", "accepted"}
        BY Zenon, <1>4, <1>6, <1>7, <2>1 DEF EntryOK
    <2>3. late'[r] /\ pc'[r] \in Busy => answered[x] <= sawGen'[r]
        <3>1. pc'[r] \in Busy => ~hit
            BY Zenon, <1>7 DEF Busy
        <3>2. QED
            BY Zenon, <1>4, <1>6, <2>1, <3>1 DEF EntryOK
    <2>4. QED
        BY Zenon, <1>5, <2>1, <2>2, <2>3 DEF LateOK
<1>9. pc'[r] \in Busy => sawGen'[r] <= gen'[At[r]]
    <2>1. pc'[r] \in Busy => sawGen'[r] = gen[At[r]]
        BY Zenon, <1>4, <1>7 DEF Busy
    <2>2. gen' = gen
        BY Zenon, <1>2 DEF World
    <2>3. gen[At[r]] <= gen[At[r]]
        <3>1. gen[At[r]] \in Nat
            BY Zenon, <1>6
        <3>2. QED
            BY SMT, <3>1
    <2>4. QED
        BY Zenon, <2>1, <2>2, <2>3
<1>10. pc'[r] = "refused" => deadAt'[k] # Nil
    <2>1. pc'[r] = "refused" => entry[x] = "no such key"
        BY Zenon, <1>4, <1>6, <1>7
    <2>2. QED
        BY Zenon, <1>2, <1>6, <2>1 DEF EntryOK, World
<1>11. pc'[r] \in {"do", "accepted", "refused"}
    BY Zenon, <1>4, <1>7
<1>12. RequestOK(r)'
    <2>1. Made(k)' /\ key'[r] \in Keys
        BY Zenon, <1>2, <1>5 DEF World, Made
    <2>2. QED
        BY Zenon, <1>5, <1>8, <1>9, <1>10, <1>11, <2>1 DEF RequestOK, WaitOK, Leads, Made
<1>13. ~Leads(r)
    BY Zenon, <1>2 DEF Leads, Busy
<1>14. QED
    BY Zenon, <1>2, <1>3, <1>12, <1>13, SoloOK

LEMMA JoinOK ==
    ASSUME KeyInv, TypeOK', NEW r \in Requests, NEW l \in Requests, Join(r, l)
    PROVE  KeyInv'
<1>1. CheckTypes /\ RequestOK(r)
    BY Zenon, TypeParts DEF KeyInv, ChecksOK
<1>2. /\ World /\ UNCHANGED <<entry, expires, key, sawGen, started, value, late>>
      /\ pc[r] = "do" /\ Leads(l) /\ SameFlight(r, l) /\ l # r
    BY Zenon DEF Join, World, clock, store, cache, Leads
<1>3. \A q \in Requests \ {r} : SameCheck(q)
    BY Zenon, <1>1 DEF Join, SameCheck, CheckTypes
<1>4. pc'[r] = "wait" /\ leader'[r] = l /\ pc'[l] = pc[l]
    BY Zenon, <1>1, <1>2 DEF Join, CheckTypes
<1>5. RequestOK(r)'
    <2>1. WaitOK(r)'
        BY Zenon, <1>2, <1>4 DEF WaitOK, Leads, SameFlight
    <2>2. LateOK(r)'
        BY Zenon, <1>1, <1>2, <1>4 DEF RequestOK, LateOK, World, Busy
    <2>3. Made(key[r])' /\ key[r] \in Keys
        BY Zenon, <1>1, <1>2 DEF RequestOK, World, Made
    <2>4. QED
        BY Zenon, <1>1, <1>2, <1>4, <2>1, <2>2, <2>3 DEF RequestOK, World, Leads, Busy, Made
<1>6. QED
    BY Zenon, <1>2, <1>3, <1>5, SoloOK DEF Leads

LEMMA LeadOK ==
    ASSUME KeyInv, TypeOK', NEW r \in Requests, Lead(r)
    PROVE  KeyInv'
<1>1. CheckTypes /\ RequestOK(r) /\ now \in Nat /\ MaxRead \in Nat
    BY Zenon, TypeParts, ClockNat, ApiKeysAssumption DEF KeyInv, ChecksOK
<1>2. /\ World /\ UNCHANGED <<entry, expires, key, sawGen, leader, value, late>>
      /\ pc[r] = "do"
    BY Zenon DEF Lead, World, clock, store, cache
<1>3. \A q \in Requests \ {r} : SameCheck(q)
    BY Zenon, <1>1 DEF Lead, SameCheck, CheckTypes
<1>4. pc'[r] = "load" /\ started'[r] = now /\ now' = now
    BY Zenon, <1>1, <1>2 DEF Lead, CheckTypes, World
<1>5. started'[r] <= now' /\ now' <= started'[r] + MaxRead
    BY SMT, <1>1, <1>4
<1>6. RequestOK(r)'
    <2>1. LateOK(r)'
        BY Zenon, <1>1, <1>2, <1>4 DEF RequestOK, LateOK, World, Busy
    <2>2. Made(key[r])' /\ key[r] \in Keys
        BY Zenon, <1>1, <1>2 DEF RequestOK, World, Made
    <2>3. QED
        BY Zenon, <1>1, <1>2, <1>4, <1>5, <2>1, <2>2 DEF RequestOK, World, WaitOK, Busy, Made
<1>7. QED
    BY Zenon, <1>2, <1>3, <1>6, SoloOK DEF Leads

\* The store is read: a dead key is not found, and a key that is found is not dead.
LEMMA LoadOK ==
    ASSUME KeyInv, TypeOK', NEW r \in Requests, Load(r)
    PROVE  KeyInv'
<1>1. CheckTypes /\ RequestOK(r) /\ StoreOK /\ CacheOK /\ At[r] \in Replicas
    BY Zenon, TypeParts, CheckValues DEF KeyInv, ChecksOK
<1>2. /\ World /\ UNCHANGED <<entry, expires, key, sawGen, leader, started, late>>
      /\ pc[r] = "load"
    BY Zenon DEF Load, World, clock, store, cache
<1>3. \A q \in Requests \ {r} : SameCheck(q)
    BY Zenon, <1>1 DEF Load, SameCheck, CheckTypes
<1>4. pc'[r] = "loaded" /\ value'[r] = StoreRead(key[r])
    BY Zenon, <1>1, <1>2 DEF Load, CheckTypes
<1>5. key[r] \in Keys /\ Made(key[r])
    BY Zenon, <1>1, <1>2 DEF RequestOK
<1>6. ReadOK(r)'
    <2>1. CASE key[r] \in active
        <3>1. value'[r] = "tenant" /\ deadAt[key[r]] = Nil
            BY Zenon, <1>1, <1>4, <1>5, <2>1 DEF StoreOK, StoreRead
        <3>2. answered[<<At[r], key[r]>>] = Nil
            BY Zenon, <1>1, <1>5, <3>1 DEF CacheOK, EntryOK
        <3>3. QED
            BY Zenon, <1>2, <3>1, <3>2 DEF ReadOK, World
    <2>2. CASE key[r] \notin active
        BY Zenon, <1>2, <1>4, <1>5, <2>2 DEF ReadOK, World, StoreRead, Made
    <2>3. QED
        BY Zenon, <2>1, <2>2
<1>7. RequestOK(r)'
    <2>1. LateOK(r)'
        BY Zenon, <1>1, <1>2, <1>4 DEF RequestOK, LateOK, World, Busy
    <2>2. Made(key[r])'
        BY Zenon, <1>2, <1>5 DEF World, Made
    <2>3. QED
        BY Zenon, <1>1, <1>2, <1>4, <1>5, <1>6, <2>1, <2>2 DEF RequestOK, World, WaitOK, Busy, Leads, Made
<1>8. Leads(r)'
    BY Zenon, <1>4 DEF Leads
<1>9. QED
    BY Zenon, <1>2, <1>3, <1>7, <1>8, SoloOK

\* A flight is about one key at one replica, and was begun in one generation.
LEMMA FlightOK ==
    ASSUME KeyInv, NEW r \in Requests, pc[r] \in {"load", "loaded"}, NEW q \in Requests, q \in Flight(r)
    PROVE  At[q] = At[r] /\ key[q] = key[r] /\ sawGen[q] = sawGen[r] /\ pc[q] \in Busy /\ RequestOK(q)
<1>1. RequestOK(q)
    BY Zenon DEF KeyInv, ChecksOK
<1>2. CASE q = r
    BY Zenon, <1>1, <1>2 DEF Busy
<1>3. CASE q # r
    <2>1. pc[q] = "wait" /\ leader[q] = r
        BY Zenon, <1>3 DEF Flight
    <2>2. SameFlight(q, r)
        BY Zenon, <1>1, <2>1 DEF RequestOK, WaitOK
    <2>3. QED
        BY Zenon, <1>1, <2>1, <2>2 DEF SameFlight, Busy
<1>4. QED
    BY Zenon, <1>2, <1>3

\* The flight ends, the other checks stay: a request outside the flight waits for
\* a leader outside it.
LEMMA ReturnOthers ==
    ASSUME KeyInv, World, NEW r \in Requests, Leads(r), NEW answer, Return(r, answer),
           NEW q \in Requests, q \notin Flight(r)
    PROVE  RequestOK(q)'
<1>1. \A p \in Requests : p \notin Flight(r) => SameCheck(p)
    BY Zenon DEF Return, SameCheck
<1>2. RequestOK(q) /\ SameCheck(q)
    BY Zenon, <1>1 DEF KeyInv, ChecksOK
<1>3. ASSUME pc[q] = "wait"
      PROVE  /\ Leads(leader[q])' /\ key'[leader[q]] = key[leader[q]]
             /\ sawGen'[leader[q]] = sawGen[leader[q]]
    <2>1. PICK l \in Requests : l = leader[q]
        BY Zenon, <1>2, <1>3 DEF RequestOK, WaitOK
    <2>2. Leads(l) /\ leader'[q] = leader[q]
        BY Zenon, <1>2, <1>3, <2>1 DEF RequestOK, WaitOK, SameCheck
    <2>3. l # r
        BY Zenon, <1>3, <2>1 DEF Flight
    <2>4. l \notin Flight(r)
        BY Zenon, <2>2, <2>3 DEF Flight, Leads
    <2>5. SameCheck(l)
        BY Zenon, <1>1, <2>4
    <2>6. QED
        BY Zenon, <2>1, <2>2, <2>5 DEF SameCheck, Leads
<1>4. QED
    BY Zenon, <1>2, <1>3, SameCheckOK

\* Everybody in the flight gets the answer, which may be a refusal of a dead key
\* only and an acceptance only of a key its replica has not invalidated.
LEMMA ReturnFlight ==
    ASSUME KeyInv, World, NEW r \in Requests, Leads(r),
           NEW answer \in {"accepted", "refused", "error"}, Return(r, answer),
           answer = "refused" => deadAt[key[r]] # Nil,
           answer = "accepted" => ~(answered[<<At[r], key[r]>>] # Nil
                                       /\ answered[<<At[r], key[r]>>] <= sawGen[r]),
           NEW q \in Requests, q \in Flight(r)
    PROVE  RequestOK(q)'
<1>1. At[q] = At[r] /\ key[q] = key[r] /\ sawGen[q] = sawGen[r] /\ pc[q] \in Busy /\ RequestOK(q)
    BY Zenon, FlightOK DEF Leads
<1>2. pc'[q] = answer /\ key'[q] = key[q] /\ late'[q] = late[q]
    BY Zenon DEF Return
<1>3. key[q] \in Keys /\ Made(key[q])
    BY Zenon, <1>1 DEF RequestOK, Busy
<1>4. Made(key[q])'
    BY Zenon, <1>2, <1>3 DEF World, Made
<1>5. LateOK(q)'
    <2>1. late[q] => answered[<<At[r], key[r]>>] # Nil /\ answered[<<At[r], key[r]>>] <= sawGen[r]
        BY Zenon, <1>1 DEF RequestOK, LateOK
    <2>2. late[q] => answer \in {"refused", "error"}
        BY Zenon, <2>1
    <2>3. QED
        BY Zenon, <1>1, <1>2, <2>1, <2>2 DEF LateOK, World, Busy
<1>6. QED
    BY Zenon, <1>1, <1>2, <1>3, <1>4, <1>5 DEF RequestOK, WaitOK, Leads, Busy, World, Made

LEMMA LoadFailsOK ==
    ASSUME KeyInv, TypeOK', NEW r \in Requests, LoadFails(r)
    PROVE  KeyInv'
<1>1. Leads(r) /\ Return(r, "error") /\ World /\ UNCHANGED <<entry, expires>>
    BY Zenon DEF LoadFails, Leads, World, clock, store, cache
<1>2. ChecksOK'
    BY Zenon, <1>1, ReturnFlight, ReturnOthers DEF ChecksOK
<1>3. StoreOK' /\ CacheOK'
    BY Zenon, <1>1 DEF KeyInv, StoreOK, CacheOK, EntryOK, World
<1>4. QED
    BY Zenon, <1>2, <1>3 DEF KeyInv

\* A tenant that may be cached was not invalidated since the lookup began.
LEMMA CachesOK ==
    ASSUME KeyInv, World, NEW r \in Requests, pc[r] = "loaded", Caches(r)
    PROVE  CacheOK'
<1>0. TypeOK /\ RequestOK(r) /\ CacheOK
    BY Zenon DEF KeyInv, ChecksOK
<1>1. /\ ReadOK(r) /\ started[r] <= now /\ key[r] \in Keys
      /\ gen[At[r]] = sawGen[r]
    BY Zenon, <1>0 DEF RequestOK, Leads, Caches, GenUnchanged
<1>2. /\ At[r] \in Replicas /\ sawGen[r] \in Nat /\ started[r] \in Nat /\ now \in Nat /\ TTL \in Nat
      /\ deadAt[key[r]] # Nil => deadAt[key[r]] \in Nat
      /\ answered[<<At[r], key[r]>>] # Nil => answered[<<At[r], key[r]>>] \in Nat
    BY Zenon, <1>0, <1>1, CheckValues, ApiKeysAssumption
<1> SUFFICES ASSUME NEW R \in Replicas, NEW k \in Keys PROVE EntryOK(R, k)'
    BY Zenon DEF CacheOK
<1>3. EntryOK(R, k) /\ <<R, k>> \in Places
    BY Zenon, <1>0 DEF CacheOK, Places
<1>4. CASE R = At[r] /\ k = key[r]
    <2>1. entry'[<<R, k>>] = value[r] /\ expires'[<<R, k>>] = started[r] + TTL
        BY Zenon, <1>3, <1>4 DEF Caches
    <2>2. started[r] + TTL <= now + TTL
        BY SMT, <1>1, <1>2
    <2>3. ASSUME value[r] = "tenant", deadAt[k] # Nil PROVE started[r] + TTL <= deadAt[k] + TTL
        <3>1. started[r] <= deadAt[k] /\ deadAt[k] \in Nat
            BY Zenon, <1>1, <1>2, <1>4, <2>3 DEF ReadOK
        <3>2. QED
            BY SMT, <1>2, <3>1
    <2>4. ASSUME value[r] = "tenant", answered[<<R, k>>] # Nil PROVE FALSE
        <3>1. /\ sawGen[r] < answered[<<R, k>>] /\ answered[<<R, k>>] <= sawGen[r]
              /\ answered[<<R, k>>] \in Nat
            BY Zenon, <1>1, <1>2, <1>3, <1>4, <2>4 DEF ReadOK, EntryOK
        <3>2. QED
            BY SMT, <1>2, <3>1
    <2>5. value[r] = "no such key" => deadAt[k] # Nil
        BY Zenon, <1>1, <1>4 DEF ReadOK
    <2>6. QED
        BY Zenon, <1>3, <2>1, <2>2, <2>3, <2>4, <2>5 DEF EntryOK, World
<1>5. CASE ~(R = At[r] /\ k = key[r])
    <2>1. <<R, k>> # <<At[r], key[r]>>
        BY SMT, <1>5
    <2>2. \/ entry'[<<R, k>>] = "none"
          \/ entry'[<<R, k>>] = entry[<<R, k>>] /\ expires'[<<R, k>>] = expires[<<R, k>>]
        BY Zenon, <1>3, <2>1 DEF Caches
    <2>3. QED
        BY Zenon, <1>3, <2>2 DEF EntryOK, World
<1>6. QED
    BY Zenon, <1>4, <1>5

LEMMA FinishOK ==
    ASSUME KeyInv, TypeOK', NEW r \in Requests, Finish(r)
    PROVE  KeyInv'
<1>1. /\ pc[r] = "loaded" /\ Leads(r) /\ Return(r, Answer(value[r])) /\ World
      /\ Caches(r) \/ UNCHANGED <<entry, expires>>
    BY Zenon, FinishEffect DEF Leads, World, clock, store
<1>2. RequestOK(r) /\ ReadOK(r) /\ key[r] \in Keys /\ TypeOK
    BY Zenon, <1>1 DEF KeyInv, ChecksOK, RequestOK
<1>3. Answer(value[r]) = "refused" => deadAt[key[r]] # Nil
    BY Zenon, <1>2 DEF ReadOK, Answer
<1>4. Answer(value[r]) = "accepted" => ~(answered[<<At[r], key[r]>>] # Nil
                                            /\ answered[<<At[r], key[r]>>] <= sawGen[r])
    <2>1. SUFFICES ASSUME Answer(value[r]) = "accepted", answered[<<At[r], key[r]>>] # Nil,
                          answered[<<At[r], key[r]>>] <= sawGen[r]
                   PROVE  FALSE
        BY Zenon
    <2>2. sawGen[r] < answered[<<At[r], key[r]>>]
        BY Zenon, <1>2, <2>1 DEF ReadOK, Answer
    <2>3. sawGen[r] \in Nat /\ answered[<<At[r], key[r]>>] \in Nat
        BY Zenon, <1>2, <2>1, CheckValues
    <2>4. QED
        BY SMT, <2>1, <2>2, <2>3
<1>5. ASSUME NEW q \in Requests PROVE RequestOK(q)'
    <2>1. CASE q \in Flight(r)
        BY Zenon, <1>1, <1>3, <1>4, <2>1, ReturnFlight, AnswerType
    <2>2. CASE q \notin Flight(r)
        BY Zenon, <1>1, <2>2, ReturnOthers
    <2>3. QED
        BY Zenon, <2>1, <2>2
<1>6. CacheOK'
    <2>1. CASE Caches(r)
        BY Zenon, <1>1, <2>1, CachesOK
    <2>2. CASE UNCHANGED <<entry, expires>>
        BY Zenon, <1>1, <2>2 DEF KeyInv, CacheOK, EntryOK, World
    <2>3. QED
        BY Zenon, <1>1, <2>1, <2>2
<1>7. StoreOK'
    BY Zenon, <1>1 DEF KeyInv, StoreOK, World
<1>8. QED
    BY Zenon, <1>5, <1>6, <1>7 DEF KeyInv, ChecksOK

-----------------------------------------------------------------------------
(* The theorems.                                                           *)

LEMMA InitOK == Init => KeyInv
<1> SUFFICES ASSUME Init PROVE KeyInv
    OBVIOUS
<1>1. 0 \in 0..MaxTime /\ 0 \in 0..(MaxTime + TTL) /\ 0 \in Nat
    BY SMT, ApiKeysAssumption
<1>2. StoreTypes /\ CacheTypes
    BY Zenon, <1>1 DEF Init, StoreTypes, CacheTypes
<1>3. CheckTypes
    BY Zenon, <1>1 DEF Init, CheckTypes
<1>4. AdminTypes
    BY Zenon DEF Init, AdminTypes
<1>5. StoreOK
    BY Zenon DEF Init, StoreOK
<1>6. CacheOK
    <2>1. \A R \in Replicas, k \in Keys : <<R, k>> \in Places
        BY Zenon DEF Places
    <2>2. QED
        BY Zenon, <2>1 DEF Init, CacheOK, EntryOK
<1>7. ChecksOK
    <2>1. \A r \in Requests : pc[r] = "idle" /\ ~late[r]
        BY Zenon DEF Init
    <2>2. QED
        BY Zenon, <2>1 DEF ChecksOK, RequestOK, LateOK, WaitOK, Leads, Busy
<1>8. QED
    BY Zenon, <1>2, <1>3, <1>4, <1>5, <1>6, <1>7, TypeParts DEF KeyInv

LEMMA NextOK ==
    ASSUME KeyInv, [Next]_vars
    PROVE  KeyInv'
<1>0. TypeOK'
    BY Zenon, NextTypes DEF KeyInv
<1>1. CASE UNCHANGED vars
    <2>1. UNCHANGED <<now, active, deadAt, entry, expires, gen, pc, key, sawGen, leader, started,
                      value, late, answered>>
        BY Zenon, <1>1 DEF vars, clock, store, cache, check
    <2>2. StoreOK' /\ CacheOK'
        BY Zenon, <2>1 DEF KeyInv, StoreOK, CacheOK, EntryOK
    <2>3. ChecksOK'
        <3>1. World /\ \A q \in Requests : SameCheck(q) /\ (Leads(q) => Leads(q)')
            BY Zenon, <1>1 DEF vars, clock, store, cache, check, World, SameCheck, Leads
        <3>2. ASSUME NEW q \in Requests PROVE RequestOK(q)'
            <4>1. RequestOK(q)
                BY Zenon DEF KeyInv, ChecksOK
            <4>2. pc[q] = "wait" => /\ Leads(leader[q])' /\ key'[leader[q]] = key[leader[q]]
                                   /\ sawGen'[leader[q]] = sawGen[leader[q]]
                BY Zenon, <2>1, <4>1 DEF RequestOK, WaitOK, Leads
            <4>3. QED
                BY Zenon, <3>1, <4>1, <4>2, SameCheckOK
        <3>3. QED
            BY Zenon, <3>2 DEF ChecksOK
    <2>4. QED
        BY Zenon, <1>0, <2>2, <2>3 DEF KeyInv
<1>2. CASE Next
    BY Zenon, <1>0, <1>2, CreateTenantOK, CreateAPIKeyOK, FindOK, WriteOK, InvalidateOK, TickOK,
       LookupOK, JoinOK, LeadOK, LoadOK, LoadFailsOK, FinishOK DEF Next, Step, Handle
<1>3. QED
    BY Zenon, <1>1, <1>2

LEMMA KeyInvHolds == Spec => []KeyInv
BY InitOK, NextOK, PTL DEF Spec

\* Every variable has its type, for any number of replicas, tenants, keys and requests.
THEOREM TypeOKHolds == Spec => []TypeOK
<1>1. KeyInv => TypeOK
    BY Zenon DEF KeyInv
<1>2. QED
    BY KeyInvHolds, <1>1, PTL

\* The replica that revoked a key, or deleted its tenant, accepts it in no check
\* that begins after its handler answered (invalidate, invalidateTenant and gen).
THEOREM RevokedHereHolds == Spec => []RevokedHere
<1>1. KeyInv => RevokedHere
    BY Zenon DEF KeyInv, ChecksOK, RequestOK, LateOK, RevokedHere
<1>2. QED
    BY KeyInvHolds, <1>1, PTL

\* A key that is active is never refused: "no such key" is only cached, and only
\* returned, for a key that was revoked (lookupTenantKey, lookup).
THEOREM ActiveKeysWorkHolds == Spec => []ActiveKeysWork
<1>1. KeyInv => ActiveKeysWork
    <2> SUFFICES ASSUME KeyInv, NEW r \in Requests, pc[r] = "refused" PROVE key[r] \notin active
        BY Zenon DEF ActiveKeysWork
    <2>1. key[r] \in Keys /\ deadAt[key[r]] # Nil
        BY Zenon DEF KeyInv, ChecksOK, RequestOK
    <2>2. QED
        BY Zenon, <2>1 DEF KeyInv, StoreOK
<1>2. QED
    BY KeyInvHolds, <1>1, PTL

\* A lookup that finds a tenant answers before the entry expires.
LEMMA LookupSoon ==
    ASSUME KeyInv, NEW r \in Requests, NEW k \in Keys, Lookup(r, k), NEW q \in Requests,
           pc'[q] = "accepted", pc[q] # "accepted", deadAt'[key'[q]] # Nil
    PROVE  now' < deadAt'[key'[q]] + TTL
<1> DEFINE x == <<At[r], k>>
<1>1. TypeOK /\ CheckTypes /\ At[r] \in Replicas
    BY Zenon, TypeParts, CheckValues DEF KeyInv
<1>2. q = r
    BY Zenon, <1>1 DEF Lookup, CheckTypes
<1>3. key'[q] = k /\ deadAt' = deadAt /\ now' = now
    BY Zenon, <1>1, <1>2 DEF Lookup, CheckTypes, clock, store
<1>4. entry[x] = "tenant" /\ now < expires[x]
    BY Zenon, <1>1, <1>2 DEF Lookup, CheckTypes, Answer
<1>5. expires[x] <= deadAt[k] + TTL
    BY Zenon, <1>1, <1>3, <1>4 DEF KeyInv, CacheOK, EntryOK
<1>6. now \in Nat /\ expires[x] \in Nat /\ TTL \in Nat /\ deadAt[k] \in Nat
    BY Zenon, <1>1, <1>3, EntryValues
<1>7. now < deadAt[k] + TTL
    BY SMT, <1>4, <1>5, <1>6
<1>8. QED
    BY Zenon, <1>3, <1>7

\* A flight that read a tenant answers MaxRead at the latest after the read began.
LEMMA FinishSoon ==
    ASSUME KeyInv, NEW r \in Requests, Finish(r), NEW q \in Requests,
           pc'[q] = "accepted", pc[q] # "accepted", deadAt'[key'[q]] # Nil
    PROVE  now' < deadAt'[key'[q]] + TTL
<1>1. /\ pc[r] = "loaded" /\ Leads(r) /\ Return(r, Answer(value[r]))
      /\ deadAt' = deadAt /\ now' = now
    BY Zenon, FinishEffect DEF Leads, clock, store
<1>2. TypeOK /\ RequestOK(r)
    BY Zenon DEF KeyInv, ChecksOK
<1>3. q \in Flight(r) /\ key'[q] = key[q] /\ Answer(value[r]) = "accepted"
    BY Zenon, <1>1 DEF Return
<1>4. key[q] = key[r]
    BY Zenon, <1>1, <1>3, FlightOK
<1>5. value[r] = "tenant" /\ key[r] \in Keys /\ ReadOK(r) /\ now <= started[r] + MaxRead
    BY Zenon, <1>1, <1>2, <1>3 DEF Answer, RequestOK
<1>6. deadAt[key[r]] # Nil
    BY Zenon, <1>1, <1>3, <1>4
<1>7. started[r] <= deadAt[key[r]]
    BY Zenon, <1>5, <1>6 DEF ReadOK
<1>8. /\ now \in Nat /\ started[r] \in Nat /\ deadAt[key[r]] \in Nat
      /\ TTL \in Nat /\ MaxRead \in Nat /\ MaxRead < TTL
    BY Zenon, <1>2, <1>5, <1>6, CheckValues, ApiKeysAssumption
<1>9. now < deadAt[key[r]] + TTL
    BY SMT, <1>5, <1>7, <1>8
<1>10. QED
    BY Zenon, <1>1, <1>3, <1>4, <1>9

\* Only a lookup and the end of a flight accept.
LEMMA OthersAcceptNothing ==
    ASSUME TypeOK, [Next]_vars, NEW q \in Requests, pc'[q] = "accepted", pc[q] # "accepted"
    PROVE  (\E r \in Requests, k \in Keys : Lookup(r, k)) \/ (\E r \in Requests : Finish(r))
<1>0. CheckTypes
    BY Zenon, TypeParts
<1>1. pc' # pc
    BY Zenon
<1>2. ~UNCHANGED vars
    BY Zenon, <1>1 DEF vars, check
<1>3. \A t \in Tenants, ks \in SUBSET Keys : ~CreateTenant(t, ks)
    BY Zenon, <1>1 DEF CreateTenant, check
<1>4. \A k \in Keys : ~CreateAPIKey(k)
    BY Zenon, <1>1 DEF CreateAPIKey, check
<1>5. \A c \in Admins, R \in Replicas, x \in Keys \cup Tenants : ~Find(c, R, x)
    BY Zenon, <1>1 DEF Find, check
<1>6. \A c \in Admins : ~Handle(c)
    BY Zenon, <1>1 DEF Handle, Write, Invalidate, check
<1>7. ~Tick
    BY Zenon, <1>1 DEF Tick, check
<1>8. \A r \in Requests : ~Lead(r)
    BY Zenon, <1>0 DEF Lead, CheckTypes
<1>9. \A r, l \in Requests : ~Join(r, l)
    BY Zenon, <1>0 DEF Join, CheckTypes
<1>10. \A r \in Requests : ~Load(r)
    BY Zenon, <1>0 DEF Load, CheckTypes
<1>11. \A r \in Requests : ~LoadFails(r)
    <2>1. SUFFICES ASSUME NEW r \in Requests, LoadFails(r) PROVE FALSE
        BY Zenon
    <2>2. pc'[q] = IF q \in Flight(r) THEN "error" ELSE pc[q]
        BY Zenon, <2>1 DEF LoadFails, Return
    <2>3. QED
        BY Zenon, <2>2
<1>12. QED
    BY Zenon, <1>2, <1>3, <1>4, <1>5, <1>6, <1>7, <1>8, <1>9, <1>10, <1>11 DEF Next, Step

\* No replica accepts a key TTL or more after it was revoked in the store, even
\* when the read that cached it was slow (Finish takes the expiry from before the read).
THEOREM RevokedWithinTTLHolds == Spec => RevokedWithinTTL
<1>1. ASSUME KeyInv, [Next]_vars
      PROVE  [\A r \in Requests :
                (pc'[r] = "accepted" /\ pc[r] # "accepted" /\ deadAt'[key'[r]] # Nil)
                   => now' < deadAt'[key'[r]] + TTL]_vars
    <2>1. ASSUME NEW q \in Requests, pc'[q] = "accepted", pc[q] # "accepted", deadAt'[key'[q]] # Nil
          PROVE  now' < deadAt'[key'[q]] + TTL
        <3>1. (\E r \in Requests, k \in Keys : Lookup(r, k)) \/ (\E r \in Requests : Finish(r))
            BY Zenon, <1>1, <2>1, OthersAcceptNothing DEF KeyInv
        <3>2. QED
            BY Zenon, <1>1, <2>1, <3>1, LookupSoon, FinishSoon
    <2>2. QED
        BY Zenon, <2>1
<1>2. QED
    BY KeyInvHolds, <1>1, PTL DEF Spec, RevokedWithinTTL

-----------------------------------------------------------------------------
(* The size of the cache.                                                  *)

\* A replica that only forgets stays within its size.
LEMMA SubsetSize ==
    ASSUME NEW S, NEW T, IsFiniteSet(T), S \subseteq T, NEW n \in Nat, Cardinality(T) <= n
    PROVE  IsFiniteSet(S) /\ Cardinality(S) <= n
<1>1. IsFiniteSet(S) /\ Cardinality(S) <= Cardinality(T)
    BY Zenon, FS_Subset
<1>2. Cardinality(S) \in Nat /\ Cardinality(T) \in Nat
    BY Zenon, <1>1, FS_CardinalityType
<1>3. QED
    BY SMT, <1>1, <1>2

\* One entry more than a set that is not full.
LEMMA OneMore ==
    ASSUME NEW S, NEW T, NEW k, IsFiniteSet(T), S \subseteq T \cup {k}, NEW n \in Nat,
           Cardinality(T) < n
    PROVE  IsFiniteSet(S) /\ Cardinality(S) <= n
<1>1. IsFiniteSet(T \cup {k}) /\ Cardinality(T \cup {k}) \in {Cardinality(T), Cardinality(T) + 1}
    BY Zenon, FS_AddElement
<1>2. Cardinality(T) \in Nat
    BY Zenon, FS_CardinalityType
<1>3. Cardinality(T \cup {k}) <= n
    BY SMT, <1>1, <1>2
<1>4. QED
    BY Zenon, <1>1, <1>3, SubsetSize

\* makeRoom leaves room for one entry, however small the cache is.
LEMMA RoomMade ==
    ASSUME NEW R \in Replicas, IsFiniteSet(Held(R))
    PROVE  /\ IsFiniteSet(MakeRoom(R)) /\ MakeRoom(R) \subseteq Held(R)
           /\ Cardinality(MakeRoom(R)) < MaxEntries
<1> DEFINE live == {k \in Held(R) : now < expires[<<R, k>>]}
           room == (MaxEntries * 3) \div 4
<1>1. MaxEntries \in Nat /\ MaxEntries # 0
    BY Zenon, ApiKeysAssumption
<1>2. room \in Nat /\ room < MaxEntries /\ 0 < MaxEntries
    BY SMT, <1>1
<1>3. live \subseteq Held(R) /\ IsFiniteSet(live)
    BY Zenon, FS_Subset
<1>4. Cardinality(live) \in Nat
    BY Zenon, <1>3, FS_CardinalityType
<1>5. IsFiniteSet({}) /\ Cardinality({}) = 0
    BY Zenon, FS_EmptySet
<1>6. CASE Cardinality(live) > room
    <2>1. MakeRoom(R) = {}
        BY Zenon, <1>6 DEF MakeRoom
    <2>2. QED
        BY Zenon, <1>2, <1>5, <2>1
<1>7. CASE ~(Cardinality(live) > room)
    <2>1. MakeRoom(R) = live
        BY Zenon, <1>7 DEF MakeRoom
    <2>2. Cardinality(live) < MaxEntries
        BY SMT, <1>1, <1>2, <1>4, <1>7
    <2>3. QED
        BY Zenon, <1>3, <2>1, <2>2
<1>8. QED
    BY Zenon, <1>6, <1>7

LEMMA CachesSize ==
    ASSUME TypeOK, SizeOK, NEW r \in Requests, Caches(r)
    PROVE  SizeOK'
<1> SUFFICES ASSUME NEW R \in Replicas
             PROVE  IsFiniteSet(Held(R)') /\ Cardinality(Held(R)') <= MaxEntries
    BY Zenon DEF SizeOK
<1> DEFINE H == Held(R)
<1>1. MaxEntries \in Nat /\ IsFiniteSet(H) /\ Cardinality(H) <= MaxEntries /\ Cardinality(H) \in Nat
    BY Zenon, ApiKeysAssumption, FS_CardinalityType DEF SizeOK
<1>2. ASSUME NEW k \in Keys
      PROVE  entry'[<<R, k>>] = IF R = At[r] /\ k = key[r] THEN value[r]
                                ELSE IF R = At[r] /\ k \notin Kept(r) THEN "none" ELSE entry[<<R, k>>]
    <2>1. /\ <<R, k>> \in Places /\ <<R, k>>[1] = R /\ <<R, k>>[2] = k
          /\ <<R, k>> = <<At[r], key[r]>> <=> R = At[r] /\ k = key[r]
        BY SMT, <1>2 DEF Places
    <2>2. QED
        BY Zenon, <2>1 DEF Caches
<1>3. CASE R # At[r]
    <2>1. Held(R)' \subseteq H
        BY Zenon, <1>2, <1>3 DEF Held
    <2>2. QED
        BY Zenon, <1>1, <2>1, SubsetSize
<1>4. CASE R = At[r]
    <2>1. Held(R)' \subseteq Kept(r) \cup {key[r]}
        BY Zenon, <1>2, <1>4 DEF Held
    <2>2. CASE entry[<<R, key[r]>>] = "none" /\ Cardinality(H) >= MaxEntries
        <3>1. Kept(r) = MakeRoom(R)
            BY Zenon, <1>4, <2>2 DEF Kept
        <3>2. IsFiniteSet(Kept(r)) /\ Cardinality(Kept(r)) < MaxEntries
            BY Zenon, <1>1, <3>1, RoomMade
        <3>3. QED
            BY Zenon, <1>1, <2>1, <3>2, OneMore
    <2>3. CASE ~(Cardinality(H) >= MaxEntries)
        <3>1. Kept(r) = H
            BY Zenon, <1>4, <2>3 DEF Kept
        <3>2. Cardinality(H) < MaxEntries
            BY SMT, <1>1, <2>3
        <3>3. QED
            BY Zenon, <1>1, <2>1, <3>1, <3>2, OneMore
    <2>4. CASE entry[<<R, key[r]>>] # "none"
        <3>1. Kept(r) = H
            BY Zenon, <1>4, <2>4 DEF Kept
        <3>2. Held(R)' \subseteq H
            BY Zenon, <2>1, <2>4, <3>1 DEF Held
        <3>3. QED
            BY Zenon, <1>1, <3>2, SubsetSize
    <2>5. QED
        BY Zenon, <2>2, <2>3, <2>4
<1>5. QED
    BY Zenon, <1>3, <1>4

\* Entries are added by the end of a flight only.
LEMMA HeldStep ==
    ASSUME TypeOK, [Next]_vars
    PROVE  \/ \A R \in Replicas : Held(R)' \subseteq Held(R)
           \/ \E r \in Requests : Caches(r)
<1>1. entry' = entry => \A R \in Replicas : Held(R)' \subseteq Held(R)
    BY Zenon DEF Held
<1>2. UNCHANGED vars => entry' = entry
    BY Zenon DEF vars, cache
<1>3. \A t \in Tenants, ks \in SUBSET Keys : CreateTenant(t, ks) => entry' = entry
    BY Zenon DEF CreateTenant, cache
<1>4. \A k \in Keys : CreateAPIKey(k) => entry' = entry
    BY Zenon DEF CreateAPIKey, cache
<1>5. \A c \in Admins, R \in Replicas, x \in Keys \cup Tenants : Find(c, R, x) => entry' = entry
    BY Zenon DEF Find, cache
<1>6. \A c \in Admins : Write(c) => entry' = entry
    BY Zenon DEF Write, cache
<1>7. Tick => entry' = entry
    BY Zenon DEF Tick, cache
<1>8. \A r \in Requests, k \in Keys : Lookup(r, k) => entry' = entry
    BY Zenon DEF Lookup, cache
<1>9. \A r, l \in Requests : Join(r, l) => entry' = entry
    BY Zenon DEF Join, cache
<1>10. \A r \in Requests : Lead(r) \/ Load(r) \/ LoadFails(r) => entry' = entry
    BY Zenon DEF Lead, Load, LoadFails, cache
<1>11. \A c \in Admins : Invalidate(c) => \A R \in Replicas : Held(R)' \subseteq Held(R)
    BY Zenon, InvalidateEffect DEF Held
<1>12. \A r \in Requests : Finish(r) => Caches(r) \/ entry' = entry
    BY Zenon, FinishEffect
<1>13. QED
    BY Zenon, <1>1, <1>2, <1>3, <1>4, <1>5, <1>6, <1>7, <1>8, <1>9, <1>10, <1>11, <1>12
       DEF Next, Step, Handle

\* A replica holds at most maxAPIKeyCacheEntries entries, for every size from one
\* on (lookup's store of the value, makeRoom).
THEOREM CacheBoundedHolds == Spec => []CacheBounded
<1>1. Init => SizeOK
    <2> SUFFICES ASSUME Init, NEW R \in Replicas
                 PROVE  IsFiniteSet(Held(R)) /\ Cardinality(Held(R)) <= MaxEntries
        BY Zenon DEF SizeOK
    <2>1. Held(R) = {}
        BY Zenon DEF Init, Held, Places
    <2>2. IsFiniteSet({}) /\ Cardinality({}) = 0
        BY Zenon, FS_EmptySet
    <2>3. 0 <= MaxEntries
        BY SMT, ApiKeysAssumption
    <2>4. QED
        BY Zenon, <2>1, <2>2, <2>3
<1>2. ASSUME TypeOK, SizeOK, [Next]_vars PROVE SizeOK'
    <2>1. CASE \A R \in Replicas : Held(R)' \subseteq Held(R)
        <3>1. MaxEntries \in Nat
            BY Zenon, ApiKeysAssumption
        <3>2. QED
            BY Zenon, <1>2, <2>1, <3>1, SubsetSize DEF SizeOK
    <2>2. CASE \E r \in Requests : Caches(r)
        BY Zenon, <1>2, <2>2, CachesSize
    <2>3. QED
        BY Zenon, <1>2, <2>1, <2>2, HeldStep
<1>3. SizeOK => CacheBounded
    BY Zenon DEF SizeOK, CacheBounded
<1>4. QED
    BY TypeOKHolds, <1>1, <1>2, <1>3, PTL DEF Spec

=============================================================================
