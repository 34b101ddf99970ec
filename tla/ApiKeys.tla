------------------------------ MODULE ApiKeys ------------------------------
(***************************************************************************)
(* Tenant API keys: the store, the administration handlers that create and  *)
(* revoke keys and delete tenants, and the key cache of every API replica   *)
(* (internal/api/apikey_cache.go, middleware_auth.go, handlers_tenants.go,  *)
(* store/).                                                                *)
(*                                                                         *)
(* A key stands for its hash.  A request is one X-Api-Key check; a request  *)
(* that leads a singleflight group reads the store for all that joined.     *)
(***************************************************************************)
EXTENDS Integers, FiniteSets

CONSTANTS
    Replicas, Tenants, Keys,
    TenantOf,     \* the tenant a key is made for
    Requests,     \* checks that can be in progress together
    At,           \* the replica a request reaches
    Admins,       \* administration calls
    TTL,          \* SANDBOX_API_KEY_CACHE_TTL
    MaxEntries,   \* maxAPIKeyCacheEntries
    MaxRead,      \* assumption: a read of the store takes no longer
    MaxTime,      \* bound of the clock
    Nil

ASSUME ApiKeysAssumption ==
    /\ TenantOf \in [Keys -> Tenants] /\ At \in [Requests -> Replicas]
    /\ TTL \in Nat \ {0} /\ MaxEntries \in Nat \ {0} /\ MaxTime \in Nat
    /\ MaxRead \in Nat /\ MaxRead < TTL
    /\ Nil \notin Replicas \cup Keys \cup Requests \cup Tenants \cup Int

VARIABLES
    now,
    \* the store
    tenants,    \* rows of the tenants table
    active,     \* keys with a row and no revoked_at
    deadAt,     \* when a key stopped being active, Nil before
    \* apiKeyCache of each replica
    entry,      \* entry[<<R, k>>]: "none", "tenant" (a valid key), "no such key"
    expires,    \* expires[<<R, k>>]
    gen,
    \* a check: AuthMiddleware and lookup
    pc,         \* "idle", "do", "load", "loaded", "wait", "accepted", "refused", "error"
    key,
    sawGen,     \* gen when it began
    leader,     \* the request whose read it waits for
    started,    \* when the leader's read began
    value,      \* what the leader read
    \* an administration call
    call,       \* "idle", "found", "written", "done"
    callAt,
    target,     \* the key to revoke, or the tenant to delete
    \* history
    answered,   \* answered[<<R, k>>]: gen after R invalidated the dead key, Nil before
    late        \* the check began after its replica had done that

clock == <<now>>
store == <<tenants, active, deadAt>>
cache == <<entry, expires, gen>>
check == <<pc, key, sawGen, leader, started, value, late>>
admin == <<call, callAt, target>>
vars == <<clock, store, cache, check, admin, answered>>

Places == Replicas \X Keys
Busy == {"do", "load", "loaded", "wait"}

Init ==
    /\ now = 0
    /\ tenants = {} /\ active = {} /\ deadAt = [k \in Keys |-> Nil]
    /\ entry = [x \in Places |-> "none"] /\ expires = [x \in Places |-> 0]
    /\ gen = [R \in Replicas |-> 0]
    /\ pc = [r \in Requests |-> "idle"]
    /\ key = [r \in Requests |-> Nil]
    /\ sawGen = [r \in Requests |-> 0]
    /\ leader = [r \in Requests |-> Nil]
    /\ started = [r \in Requests |-> 0] /\ value = [r \in Requests |-> "none"]
    /\ late = [r \in Requests |-> FALSE]
    /\ call = [c \in Admins |-> "idle"]
    /\ callAt = [c \in Admins |-> Nil] /\ target = [c \in Admins |-> Nil]
    /\ answered = [x \in Places |-> Nil]

-----------------------------------------------------------------------------
(* The store.                                                              *)

\* CreateTenant, CreateTenantWithAPIKey: the tenant and its first key, together.
CreateTenant(t, ks) ==
    /\ t \notin tenants
    /\ \A k \in Keys : TenantOf[k] = t => deadAt[k] = Nil
    /\ \A k \in ks : TenantOf[k] = t
    /\ tenants' = tenants \cup {t}
    /\ active' = active \cup ks
    /\ UNCHANGED <<clock, deadAt, cache, check, admin, answered>>

\* mintAPIKey: the key's tenant must exist when the row is inserted.
CreateAPIKey(k) ==
    /\ TenantOf[k] \in tenants
    /\ k \notin active
    /\ deadAt[k] = Nil
    /\ active' = active \cup {k}
    /\ UNCHANGED <<clock, tenants, deadAt, cache, check, admin, answered>>

\* The keys of ks are not valid from now on.
Kill(ks) ==
    /\ active' = active \ ks
    /\ deadAt' = [k \in Keys |-> IF k \in ks \cap active THEN now ELSE deadAt[k]]

-----------------------------------------------------------------------------
(* handleRevokeTenantKey and handleDeleteTenant.                           *)

\* The key's row was inserted once.
Made(k) == k \in active \/ deadAt[k] # Nil

\* The row is read first.  A key without one is not found, and a tenant that
\* is gone is invalidated all the same: another replica may have deleted it.
Find(c, R, x) ==
    /\ call[c] = "idle"
    /\ x \in Keys => TenantOf[x] \in tenants /\ Made(x)
    /\ call' = [call EXCEPT ![c] =
          IF x \in Tenants \ tenants THEN "written" ELSE "found"]
    /\ callAt' = [callAt EXCEPT ![c] = R]
    /\ target' = [target EXCEPT ![c] = x]
    /\ UNCHANGED <<clock, store, cache, check, answered>>

\* RevokeAPIKey, or DeleteTenant with its keys.  The write may fail, before or
\* after it committed, and a tenant with sandboxes stays; the handler goes on to
\* the invalidation whatever it is told.
Write(c) ==
    LET x == target[c]
        ks == IF x \in Keys THEN {x} ELSE {k \in Keys : TenantOf[k] = x}
    IN /\ call[c] = "found"
       /\ \/ /\ Kill(ks)
             /\ tenants' = tenants \ {x}
          \/ UNCHANGED store
       /\ call' = [call EXCEPT ![c] = "written"]
       /\ UNCHANGED <<clock, cache, check, callAt, target, answered>>

\* Every invalidation changes gen.
NextGen(R) == gen[R] + 1

\* invalidate(hash) and invalidateTenant(id).
Invalidate(c) ==
    LET R == callAt[c]
        x == target[c]
        hit(k) == IF x \in Keys THEN k = x
                  ELSE TenantOf[k] = x /\ entry[<<R, k>>] = "tenant"
        dead(k) == deadAt[k] # Nil /\ IF x \in Keys THEN k = x ELSE TenantOf[k] = x
    IN /\ call[c] = "written"
       /\ call' = [call EXCEPT ![c] = "done"]
       /\ gen' = [gen EXCEPT ![R] = NextGen(R)]
       /\ entry' = [y \in Places |-> IF y[1] = R /\ hit(y[2]) THEN "none" ELSE entry[y]]
       /\ expires' = [y \in Places |-> IF y[1] = R /\ hit(y[2]) THEN 0 ELSE expires[y]]
       /\ answered' = [y \in Places |->
             IF y[1] = R /\ dead(y[2]) /\ answered[y] = Nil THEN NextGen(R) ELSE answered[y]]
       /\ UNCHANGED <<clock, store, check, callAt, target>>

-----------------------------------------------------------------------------
(* apiKeyCache.lookup.                                                     *)

Answer(v) == IF v = "tenant" THEN "accepted" ELSE "refused"

\* AuthMiddleware reaches lookup: the entry and gen are read under the mutex, and
\* an entry that has not expired answers.
Lookup(r, k) ==
  LET R == At[r] IN
    /\ pc[r] \notin Busy
    /\ Made(k)
    /\ LET hit == entry[<<R, k>>] # "none" /\ now < expires[<<R, k>>]
       IN /\ pc' = [pc EXCEPT ![r] = IF hit THEN Answer(entry[<<R, k>>]) ELSE "do"]
          /\ sawGen' = [sawGen EXCEPT ![r] = IF hit THEN 0 ELSE gen[R]]
    /\ key' = [key EXCEPT ![r] = k]
    /\ late' = [late EXCEPT ![r] = answered[<<R, k>>] # Nil]
    /\ UNCHANGED <<clock, store, cache, leader, started, value, admin, answered>>

\* The singleflight key: the generation and the hash.
SameFlight(r, l) == At[l] = At[r] /\ key[l] = key[r] /\ sawGen[l] = sawGen[r]

Leads(l) == pc[l] \in {"load", "loaded"}

\* loads.Do joins a read in progress.
Join(r, l) ==
    /\ pc[r] = "do"
    /\ Leads(l) /\ SameFlight(r, l)
    /\ pc' = [pc EXCEPT ![r] = "wait"]
    /\ leader' = [leader EXCEPT ![r] = l]
    /\ UNCHANGED <<clock, store, cache, key, sawGen, started, value, late, admin, answered>>

\* loads.Do starts one.
Lead(r) ==
    /\ pc[r] = "do"
    /\ \A l \in Requests : ~(Leads(l) /\ SameFlight(r, l))
    /\ pc' = [pc EXCEPT ![r] = "load"]
    /\ started' = [started EXCEPT ![r] = now]
    /\ UNCHANGED <<clock, store, cache, key, sawGen, leader, value, late, admin, answered>>

\* The leader and those that joined it.
Flight(r) == {r} \cup {w \in Requests : pc[w] = "wait" /\ leader[w] = r}

\* The flight of r ends with this answer.
Return(r, answer) ==
    LET ends(f, none) == [q \in Requests |-> IF q \in Flight(r) THEN none ELSE f[q]]
    IN /\ pc' = ends(pc, answer)
       /\ sawGen' = ends(sawGen, 0)
       /\ leader' = ends(leader, Nil)
       /\ started' = ends(started, 0)
       /\ value' = ends(value, "none")
       /\ UNCHANGED <<key, late>>

\* Mutant: the prefix query is trusted when it returns one row.
StoreReadLone(k) == IF active = {k} THEN "tenant" ELSE "no such key"

\* ListActiveAPIKeysByPrefix and the comparison of hashes.
StoreRead(k) == IF k \in active THEN "tenant" ELSE "no such key"

\* lookupTenantKey.
Load(r) ==
    /\ pc[r] = "load"
    /\ pc' = [pc EXCEPT ![r] = "loaded"]
    /\ value' = [value EXCEPT ![r] = StoreRead(key[r])]
    /\ UNCHANGED <<clock, store, cache, key, sawGen, leader, started, late, admin, answered>>

\* An error answers the whole flight and is not cached.
LoadFails(r) ==
    /\ pc[r] = "load"
    /\ Return(r, "error")
    /\ UNCHANGED <<clock, store, cache, admin, answered>>

Held(R) == {k \in Keys : entry[<<R, k>>] # "none"}

\* Mutant: makeRoom only drops what has expired.
RoomOfExpired(R) == {k \in Held(R) : now < expires[<<R, k>>]}

\* makeRoom: expired entries go, and all of them if that freed too little.
MakeRoom(R) ==
    LET live == {k \in Held(R) : now < expires[<<R, k>>]}
    IN IF Cardinality(live) > (MaxEntries * 3) \div 4 THEN {} ELSE live

\* Mutant: the entry is cached whatever happened since the lookup began.
AnyGen(r) == TRUE

\* Nothing was invalidated since the lookup began.
GenUnchanged(r) == gen[At[r]] = sawGen[r]

\* Mutant: expiry counts from the end of the read.
ExpiresFromEnd(r) == now + TTL

\* Expiry counts from before the read.
Expiry(r) == started[r] + TTL

\* The value is cached and returned to the flight.
Finish(r) ==
    LET R == At[r]
        k == key[r]
        full == entry[<<R, k>>] = "none" /\ Cardinality(Held(R)) >= MaxEntries
        kept == IF full THEN MakeRoom(R) ELSE Held(R)
    IN /\ pc[r] = "loaded"
       /\ Return(r, Answer(value[r]))
       /\ IF GenUnchanged(r)
          THEN /\ entry' = [y \in Places |->
                     IF y = <<R, k>> THEN value[r]
                     ELSE IF y[1] = R /\ y[2] \notin kept THEN "none" ELSE entry[y]]
               /\ expires' = [y \in Places |->
                     IF y = <<R, k>> THEN Expiry(r)
                     ELSE IF y[1] = R /\ y[2] \notin kept THEN 0 ELSE expires[y]]
          ELSE UNCHANGED <<entry, expires>>
       /\ UNCHANGED <<clock, store, gen, admin, answered>>

\* Time passes, and no read lasts longer than MaxRead.
Tick ==
    /\ now < MaxTime
    /\ \A r \in Requests : Leads(r) => now < started[r] + MaxRead
    /\ now' = now + 1
    /\ UNCHANGED <<store, cache, check, admin, answered>>

Step(r) == Lead(r) \/ (\E l \in Requests : Join(r, l)) \/ Load(r) \/ LoadFails(r) \/ Finish(r)
Handle(c) == Write(c) \/ Invalidate(c)

Next ==
    \/ \E t \in Tenants, ks \in SUBSET Keys : Cardinality(ks) <= 1 /\ CreateTenant(t, ks)
    \/ \E k \in Keys : CreateAPIKey(k)
    \/ \E c \in Admins, R \in Replicas, x \in Keys \cup Tenants : Find(c, R, x)
    \/ \E c \in Admins : Handle(c)
    \/ \E r \in Requests, k \in Keys : Lookup(r, k)
    \/ \E r \in Requests : Step(r)
    \/ Tick

Spec == Init /\ [][Next]_vars

-----------------------------------------------------------------------------
(* Properties.                                                             *)

\* Every variable holds a value of its type: a cached value is a tenant or "no
\* such key", an entry expires, a request waits for a leader of its own replica.
TypeOK ==
    /\ now \in 0..MaxTime
    /\ tenants \subseteq Tenants /\ active \subseteq Keys
    /\ deadAt \in [Keys -> Nat \cup {Nil}]
    /\ entry \in [Places -> {"none", "tenant", "no such key"}]
    /\ expires \in [Places -> 0..(MaxTime + TTL)]
    /\ gen \in [Replicas -> Nat]
    /\ pc \in [Requests -> Busy \cup {"idle", "accepted", "refused", "error"}]
    /\ key \in [Requests -> Keys \cup {Nil}]
    /\ sawGen \in [Requests -> Nat]
    /\ leader \in [Requests -> Requests \cup {Nil}]
    /\ started \in [Requests -> 0..MaxTime]
    /\ value \in [Requests -> {"none", "tenant", "no such key"}]
    /\ late \in [Requests -> BOOLEAN]
    /\ call \in [Admins -> {"idle", "found", "written", "done"}]
    /\ callAt \in [Admins -> Replicas \cup {Nil}]
    /\ target \in [Admins -> Keys \cup Tenants \cup {Nil}]
    /\ answered \in [Places -> Nat \cup {Nil}]

\* The replica that revoked a key, or deleted its tenant, accepts it in no check
\* that begins after its handler answered, whatever lookups were in progress
\* (apiKeyCache.invalidate, invalidateTenant and gen).
RevokedHere ==
    \A r \in Requests : late[r] => pc[r] # "accepted"

\* No replica accepts a key TTL or more after it was revoked in the store, even
\* when the read that cached it was slow (expiry counts from before the read).
RevokedWithinTTL ==
    [][\A r \in Requests :
          (pc'[r] = "accepted" /\ pc[r] # "accepted" /\ deadAt'[key'[r]] # Nil)
             => now' < deadAt'[key'[r]] + TTL]_vars

\* A key that is active is never refused: "no such key" is only cached, and only
\* returned, for a key that was revoked.
ActiveKeysWork ==
    \A r \in Requests : pc[r] = "refused" => key[r] \notin active

\* A replica holds at most maxAPIKeyCacheEntries entries (makeRoom).
CacheBounded ==
    \A R \in Replicas : Cardinality(Held(R)) <= MaxEntries

=============================================================================
