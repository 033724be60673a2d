------------------------------- MODULE Keyset -------------------------------
(***************************************************************************)
(* oidc/keys.ts: the signing keys, stored as one row of system_config, a    *)
(* cache of them in every isolate, and loadKeyset, which starts, rotates    *)
(* and prunes them.  A process of Proc is a request that runs loadKeyset;   *)
(* an action ends with one awaited D1 statement.  Key generation and        *)
(* decryption touch nothing shared and belong to the statement before them. *)
(*                                                                         *)
(* All isolates read one clock.  A request lives at most Latency.           *)
(***************************************************************************)
EXTENDS Integers

CONSTANTS
  Kid,        \* key ids that crypto.randomUUID may draw
  Kek,        \* values the OIDC_KEK secret may have
  Isolate,    \* Workers isolates
  Proc,       \* concurrent requests that load the keys
  Rotation,   \* ROTATION_INTERVAL_S (30 days)
  Retention,  \* RETENTION_S (37 days)
  CacheTTL,   \* CACHE_TTL_S (300 s)
  TokenTTL,   \* life of an ID token (3600 s)
  Latency,    \* longest life of a request
  OldRows,    \* formats an earlier version may have left: some of "unknown", "v2"
  ManualRotation, \* whether an operator may delete the row
  MaxTime,    \* bound on the clock
  None        \* no key, no isolate

ASSUME KeysetConstantsOK ==
  /\ Rotation \in Nat /\ Retention \in Nat /\ CacheTTL \in Nat
  /\ TokenTTL \in Nat /\ Latency \in Nat /\ MaxTime \in Nat
  /\ Latency <= CacheTTL
  /\ Rotation + CacheTTL + Latency + TokenTTL <= Retention
  /\ OldRows \subseteq {"unknown", "v2"}
  /\ ManualRotation \in BOOLEAN

Envelope == [kid : Kid, created : Nat, kek : Kek]

ASSUME KeysetNoneOK == None \notin Envelope /\ None \notin Isolate

VARIABLES
  now,      \* the clock
  stored,   \* the row oidc_keys: its format and its envelopes
  secret,   \* OIDC_KEK of each isolate
  cache,    \* the cached Keyset of each isolate
  load,     \* progress of each request
  expiry    \* history: when the last token signed by a key expires, 0 afterwards

vars == <<now, stored, secret, cache, load, expiry>>

\* "unknown" is a row that parseStored does not recognise.
Row == [format : {"absent", "unknown", "v2", "v3"}, keys : SUBSET Envelope]

\* A null cache is one that has expired at any time.
CacheEntry == [jwks : SUBSET Envelope, active : Envelope \cup {None}, expires : Nat]

Load == [stage : {"idle", "read", "seed", "reread", "write", "serve"},
         iso : Isolate \cup {None}, start : Nat,
         envs : SUBSET Envelope, act : Envelope \cup {None},
         seen : SUBSET Envelope]   \* history: what a request about to write has read

TypeOK ==
  /\ now \in Nat
  /\ stored \in Row
  /\ secret \in [Isolate -> Kek]
  /\ cache \in [Isolate -> CacheEntry]
  /\ load \in [Proc -> Load]
  /\ expiry \in [Kid -> Nat]

Absent   == [format |-> "absent", keys |-> {}]
StoredSet(envs) == [format |-> "v3", keys |-> envs]
Empty    == [jwks |-> {}, active |-> None, expires |-> 0]
Idle     == [stage |-> "idle", iso |-> None, start |-> 0, envs |-> {}, act |-> None,
             seen |-> {}]

\* The row may be missing or left by an earlier version of the program, whose
\* single key may have signed tokens that are still valid.
Init ==
  /\ now = 0
  /\ \/ stored = Absent
     \/ "unknown" \in OldRows /\ stored = [format |-> "unknown", keys |-> {}]
     \/ "v2" \in OldRows /\ \E k \in Kid, s \in Kek :
          stored = [format |-> "v2", keys |-> {[kid |-> k, created |-> 0, kek |-> s]}]
  /\ secret \in [Isolate -> Kek]
  /\ cache = [i \in Isolate |-> Empty]
  /\ load = [p \in Proc |-> Idle]
  /\ expiry = [k \in Kid |-> IF \E e \in stored.keys : e.kid = k THEN TokenTTL ELSE 0]

-----------------------------------------------------------------------------
(* Helpers of loadKeyset                                                   *)

\* parseStored at time t: a v2 key gets the time of the reading.
Parse(row, t) ==
  IF row.format = "v2" THEN {[e EXCEPT !.created = t] : e \in row.keys} ELSE row.keys

\* hadRow && !wasV3
Outdated(row) == row.format \in {"unknown", "v2"}

\* decryptPrivate: AES-GCM opens an envelope under the secret that sealed it.
Opened(envs, s) == {e \in envs : e.kek = s}

\* findActive: the first envelope in the order of createdAt that opens.
Actives(envs, s) ==
  {e \in Opened(envs, s) : \A f \in Opened(envs, s) : f.created <= e.created}

DueLate(env, t)         == env.created < t - Retention
KeptShort(envs, act, t) == {e \in envs : e.kid = act.kid \/ e.created >= t - Rotation}

\* Older than ROTATION_INTERVAL_S at time t.
Due(env, t) == env.created < t - Rotation

\* Pruning: never the active key, and none before RETENTION_S has passed.
Kept(envs, act, t) == {e \in envs : e.kid = act.kid \/ e.created >= t - Retention}

\* Ids of keys that are stored, held by a request, cached, or signed a valid token.
InUse(k) ==
  \/ \E e \in stored.keys : e.kid = k
  \/ \E p \in Proc : \/ \E e \in load[p].envs \cup load[p].seen : e.kid = k
                     \/ load[p].act # None /\ load[p].act.kid = k
  \/ \E i \in Isolate : \E e \in cache[i].jwks : e.kid = k
  \/ expiry[k] > now

FreshBackdated(t, s) == [kid : {k \in Kid : ~InUse(k)}, created : {t - 1}, kek : {s}]

\* buildEnvelope: randomUUID never repeats an id that is still in use.
Fresh(t, s) == [kid : {k \in Kid : ~InUse(k)}, created : {t}, kek : {s}]

Secret(p) == secret[load[p].iso]
Step(p, next) == load' = [load EXCEPT ![p] = next]
Usable(i) == cache[i].expires > now

\* The tail of loadKeyset once an active key is found: rotate, prune, and
\* write if anything changed.
Settle(p, envs, act, changed) ==
  LET t == load[p].start
      Finish(all, a, c) ==
        LET kept == Kept(all, a, t)
            written == c \/ kept # all
        IN Step(p, [load[p] EXCEPT !.stage = IF written THEN "write" ELSE "serve",
                                   !.envs = kept, !.act = a,
                                   !.seen = IF written THEN envs ELSE {}])
  IN \/ ~Due(act, t) /\ Finish(envs, act, changed)
     \/ Due(act, t) /\ \E f \in Fresh(t, Secret(p)) : Finish(envs \cup {f}, f, TRUE)

-----------------------------------------------------------------------------
(* getKeyset and loadKeyset                                                *)

\* A request for a signature or for the JWKS that misses the cache.  (Without the
\* secret OIDC_KEK it fails before it reads anything.)
BeginLoad(p, i) ==
  /\ load[p] = Idle
  /\ ~Usable(i)
  /\ Step(p, [Idle EXCEPT !.stage = "read", !.iso = i, !.start = now])
  /\ UNCHANGED <<now, stored, secret, cache, expiry>>

ReadRow(p) ==
  LET envs == Parse(stored, load[p].start) IN
  /\ load[p].stage = "read"
  /\ \/ \E a \in Actives(envs, Secret(p)) : Settle(p, envs, a, Outdated(stored))
     \/ /\ Opened(envs, Secret(p)) = {}
        /\ \E f \in Fresh(load[p].start, Secret(p)) :
             Step(p, [load[p] EXCEPT !.stage = "seed", !.act = f])
  /\ UNCHANGED <<now, stored, secret, cache, expiry>>

\* INSERT OR IGNORE.
Seed(p) ==
  /\ load[p].stage = "seed"
  /\ stored' = IF stored = Absent THEN StoredSet({load[p].act}) ELSE stored
  /\ Step(p, [load[p] EXCEPT !.stage = "reread"])
  /\ UNCHANGED <<now, secret, cache, expiry>>

\* Read again; a row that still cannot be opened is replaced by the fresh key.
Reread(p) ==
  LET envs == Parse(stored, load[p].start) IN
  /\ load[p].stage = "reread"
  /\ \/ \E a \in Actives(envs, Secret(p)) : Settle(p, envs, a, FALSE)
     \/ /\ Opened(envs, Secret(p)) = {}
        /\ Step(p, [load[p] EXCEPT !.stage = "write", !.envs = {load[p].act},
                                   !.seen = envs])
  /\ UNCHANGED <<now, stored, secret, cache, expiry>>

\* INSERT OR REPLACE.
WriteRow(p) ==
  /\ load[p].stage = "write"
  /\ stored' = StoredSet(load[p].envs)
  /\ Step(p, [load[p] EXCEPT !.stage = "serve", !.seen = {}])
  /\ UNCHANGED <<now, secret, cache, expiry>>

\* signRS256: a token issued now, under the key env.
Sign(env) == expiry' = [expiry EXCEPT ![env.kid] = now + TokenTTL]

\* The set is cached and goes to the request, which signs with it or publishes it.
Serve(p) ==
  LET l == load[p] IN
  /\ l.stage = "serve"
  /\ cache' = [cache EXCEPT ![l.iso] = [jwks |-> l.envs, active |-> l.act,
                                        expires |-> l.start + CacheTTL]]
  /\ Sign(l.act) \/ UNCHANGED expiry
  /\ Step(p, Idle)
  /\ UNCHANGED <<now, stored, secret>>

SignFromCache(i) ==
  /\ Usable(i)
  /\ Sign(cache[i].active)
  /\ UNCHANGED <<now, stored, secret, cache, load>>

-----------------------------------------------------------------------------
(* Failures, the operator and time                                         *)

\* A statement throws or the client is gone.
Abort(p) ==
  /\ load[p] # Idle
  /\ Step(p, Idle)
  /\ UNCHANGED <<now, stored, secret, cache, expiry>>

\* An isolate is evicted or deployed with another secret; its requests end.
Restart(i, s) ==
  /\ secret' = [secret EXCEPT ![i] = s]
  /\ cache' = [cache EXCEPT ![i] = Empty]
  /\ load' = [p \in Proc |-> IF load[p].iso = i THEN Idle ELSE load[p]]
  /\ UNCHANGED <<now, stored, expiry>>

DeleteRow ==
  /\ ManualRotation
  /\ stored' = Absent
  /\ UNCHANGED <<now, secret, cache, load, expiry>>

Tick ==
  /\ now < MaxTime
  /\ \A p \in Proc : load[p] # Idle => now < load[p].start + Latency
  /\ now' = now + 1
  /\ expiry' = [k \in Kid |-> IF expiry[k] > now' THEN expiry[k] ELSE 0]
  /\ UNCHANGED <<stored, secret, cache, load>>

LoadStep(p) == ReadRow(p) \/ Seed(p) \/ Reread(p) \/ WriteRow(p) \/ Serve(p) \/ Abort(p)

Next ==
  \/ \E p \in Proc : LoadStep(p) \/ \E i \in Isolate : BeginLoad(p, i)
  \/ \E i \in Isolate : SignFromCache(i) \/ \E s \in Kek : Restart(i, s)
  \/ DeleteRow
  \/ Tick

Spec == Init /\ [][Next]_vars
-----------------------------------------------------------------------------
(* Properties                                                              *)

\* An isolate signs only with a key that was young enough to sign when it was
\* loaded, which is at most CACHE_TTL_S ago, and with the newest of those it
\* publishes and can open ("Signing always uses the NEWEST key").
SignerCurrent ==
  \A i \in Isolate : Usable(i) =>
    LET a == cache[i].active IN
    /\ a \in Actives(cache[i].jwks, secret[i])
    /\ now <= a.created + Rotation + CacheTTL

\* Every request that is about to overwrite the row has read the key k.
Settled(k) ==
  \A p \in Proc : load[p].stage = "write" => \E e \in load[p].seen : e.kid = k

\* The row keeps a key as long as a token signed by it is valid, through cold
\* starts, rotation, pruning, format migration and failures at any statement.
\* Exceptions are what the operator does (deleting the row, changing the
\* secret) and an overlapping load that read the row before the key was in it.
LiveKeysKept ==
  [][\A e \in stored.keys :
       /\ expiry[e.kid] > now
       /\ Settled(e.kid)
       /\ \A i \in Isolate : secret[i] = e.kek
       => stored' = Absent \/ \E f \in stored'.keys : f.kid = e.kid]_vars

\* What the comment on rotation says: "the previous public key stays in JWKS until
\* RETENTION so that tokens already issued under it still verify".
IssuedTokensVerify ==
  \A k \in Kid : expiry[k] > now => \E e \in stored.keys : e.kid = k
=============================================================================
