--------------------------- MODULE Keyset_proofs ---------------------------
(***************************************************************************)
(* Theorems about Keyset, for any number of keys, secrets, isolates and     *)
(* concurrent loads and all lifetimes that satisfy KeysetConstantsOK.       *)
(*                                                                         *)
(* The envelopes of a key may carry two dates, because every load that      *)
(* reads a v2 row dates its key anew.  The invariant bounds how far they    *)
(* are apart, and so how long after its stored date a key can still sign.   *)
(***************************************************************************)
EXTENDS Keyset, TLAPS

\* An envelope the program holds anywhere, apart from an undated v2 row.
Known(e) ==
  \/ stored.format = "v3" /\ e \in stored.keys
  \/ \E p \in Proc : e \in load[p].envs \cup load[p].seen \/ e = load[p].act
  \/ \E i \in Isolate : e \in cache[i].jwks

\* What a request holds at each stage of loadKeyset.
LoadOK(p) ==
  LET l == load[p] IN
  /\ l.stage = "idle" => l = Idle
  /\ l.stage # "idle" => l.iso \in Isolate /\ l.start <= now /\ now <= l.start + Latency
  /\ l.stage = "read" => l.act = None
  /\ l.stage \in {"read", "seed", "reread"} => l.envs = {}
  /\ l.stage \in {"seed", "reread"} =>
       l.act \in Envelope /\ l.act.kek = Secret(p) /\ l.act.created = l.start
  /\ l.stage \in {"write", "serve"} =>
       l.act \in Actives(l.envs, Secret(p)) /\ l.start <= l.act.created + Rotation
  /\ l.stage # "write" => l.seen = {}

\* A cache is empty or holds what one load returned, no longer than it may.
CacheOK(i) ==
  LET c == cache[i] IN
  \/ c = Empty
  \/ /\ c.active \in Actives(c.jwks, secret[i])
     /\ c.expires <= c.active.created + Rotation + CacheTTL

OldHeld(p, e) ==
  /\ load[p].stage = "serve" => \A f \in load[p].envs : f.kid # e.kid
  /\ load[p].stage = "write" => \A f \in load[p].envs \cup load[p].seen :
       f.kid = e.kid => f.created = load[p].start /\ f.kek = e.kek
  /\ load[p].stage \in {"seed", "reread"} =>
       e.kek # Secret(p) /\ load[p].act.kid # e.kid

\* While the row still has the v2 format, nobody signs with its key: only requests
\* that are about to write it hold it, dated by their own start.
OldRow ==
  /\ stored.format \in {"absent", "unknown"} => stored.keys = {}
  /\ stored.format = "v2" =>
       /\ \A e, f \in stored.keys : e = f
       /\ \A e \in stored.keys :
            /\ e.created = 0 /\ expiry[e.kid] <= Retention
            /\ \A i \in Isolate : \A f \in cache[i].jwks : f.kid # e.kid
            /\ \A p \in Proc : OldHeld(p, e)

\* The dates of one key differ by no more than a request may last.
Near ==
  \A e, f \in Envelope : Known(e) /\ Known(f) /\ e.kid = f.kid =>
    e.created <= f.created + Latency /\ e.kek = f.kek

\* A key outlives the tokens it signed.
Cover ==
  \A e \in Envelope : Known(e) => expiry[e.kid] <= e.created + Retention

\* A request that is about to write keeps what it read, except what is past retention.
SeenKept(p) ==
  load[p].stage = "write" =>
    \A f \in load[p].seen : f.kek = Secret(p) =>
      f \in load[p].envs \/ f.created + Retention < load[p].start

KeysInv ==
  /\ TypeOK
  /\ \A p \in Proc : LoadOK(p)
  /\ \A i \in Isolate : CacheOK(i)
  /\ OldRow
  /\ Near
  /\ Cover
  /\ \A p \in Proc : SeenKept(p)
-----------------------------------------------------------------------------
\* Envelopes that a load may hold after reading and had not before: those of a v2
\* row, dated by its start, and the one it has just built.
FromOld(p, e) ==
  /\ stored.format = "v2"
  /\ \E g \in stored.keys : e = [g EXCEPT !.created = load[p].start]

New(p, e) == ~InUse(e.kid) /\ e.created = load[p].start

\* An id that some envelope has is in use.
LEMMA KnownInUse == ASSUME TypeOK, NEW e \in Envelope, Known(e) PROVE InUse(e.kid)
<1>1. CASE stored.format = "v3" /\ e \in stored.keys
  BY <1>1 DEF InUse
<1>2. CASE \E p \in Proc : e \in load[p].envs \cup load[p].seen
  BY <1>2 DEF InUse
<1>3. CASE \E p \in Proc : e = load[p].act
  BY <1>3, KeysetNoneOK DEF InUse
<1>4. CASE \E i \in Isolate : e \in cache[i].jwks
  BY <1>4 DEF InUse
<1> QED BY <1>1, <1>2, <1>3, <1>4 DEF Known

\* An envelope known under the id of a v2 row belongs to a request that is about to
\* write it and dated it by its start.
LEMMA OldIsInFlight ==
  ASSUME KeysInv, stored.format = "v2", NEW g \in stored.keys,
         NEW e \in Envelope, Known(e), e.kid = g.kid
  PROVE  /\ e.kek = g.kek
         /\ e.created <= now
         /\ now <= e.created + Latency
<1> USE DEF KeysInv
<1>1. \A i \in Isolate : e \notin cache[i].jwks
  BY DEF OldRow
<1>2. PICK p \in Proc : e \in load[p].envs \cup load[p].seen \/ e = load[p].act
  BY <1>1 DEF Known
<1>3. LoadOK(p) /\ load[p] \in Load
  BY DEF TypeOK
<1>4. load[p].stage \notin {"idle", "read"}
  BY <1>2, <1>3, KeysetNoneOK DEF LoadOK, Idle
<1>5. load[p].stage \notin {"seed", "reread"}
  BY <1>2, <1>3 DEF LoadOK, OldRow, OldHeld
<1>6. load[p].stage \in {"write", "serve"}
  BY <1>3, <1>4, <1>5 DEF Load
<1>7. e \in load[p].envs \cup load[p].seen
  BY <1>2, <1>3, <1>6 DEF LoadOK, Actives, Opened
<1>8. load[p].stage = "write"
  BY <1>3, <1>6, <1>7 DEF LoadOK, OldRow, OldHeld
<1>9. e.created = load[p].start /\ e.kek = g.kek
  BY <1>7, <1>8 DEF OldRow, OldHeld
<1> QED BY <1>3, <1>8, <1>9 DEF LoadOK

\* A step that only moves one load, and gives it envelopes that were known, come
\* from a v2 row or are new, keeps the dates of each key together.
LEMMA LoadsOneRow ==
  ASSUME KeysInv, NEW p \in Proc, load[p] # Idle, load'[p].act \in Envelope,
         UNCHANGED <<now, stored, cache, expiry>>,
         \A e \in Envelope : Known(e)' =>
           Known(e) \/ FromOld(p, e) \/ (e = load'[p].act /\ New(p, e) /\ e.kek = Secret(p))
  PROVE  Near' /\ Cover'
<1> USE DEF KeysInv
<1>0. /\ load[p].start <= now /\ now <= load[p].start + Latency
      /\ load[p].start \in Nat /\ now \in Nat /\ Latency \in Nat
      /\ Latency <= Retention /\ Retention \in Nat
  BY KeysetConstantsOK DEF LoadOK, TypeOK, Load
<1>1. ASSUME NEW e \in Envelope, FromOld(p, e)
      PROVE  /\ e.created = load[p].start
             /\ \E g \in stored.keys : e.kid = g.kid /\ e.kek = g.kek
  BY <1>1 DEF FromOld, TypeOK, Row, Envelope
<1>2. ASSUME NEW e \in Envelope, NEW f \in Envelope, Known(e)', Known(f)', e.kid = f.kid
      PROVE  e.created <= f.created + Latency /\ e.kek = f.kek
  <2>1. CASE Known(e) /\ Known(f)
    BY <1>2, <2>1 DEF Near
  <2>2. CASE FromOld(p, e) /\ Known(f)
    BY <1>0, <1>1, <1>2, <2>2, OldIsInFlight DEF FromOld, Envelope
  <2>3. CASE Known(e) /\ FromOld(p, f)
    BY <1>0, <1>1, <1>2, <2>3, OldIsInFlight DEF FromOld, Envelope
  <2>4. CASE FromOld(p, e) /\ FromOld(p, f)
    BY <1>0, <1>1, <2>4 DEF FromOld, OldRow
  <2>5. CASE e = f
    BY <1>0, <2>5 DEF Envelope
  <2>6. ASSUME NEW g \in Envelope, New(p, g), Known(e) \/ Known(f) \/ FromOld(p, e) \/ FromOld(p, f),
               g.kid = e.kid
        PROVE  FALSE
    <3>1. InUse(e.kid)
      BY <1>1, <1>2, <2>6, KnownInUse DEF InUse
    <3> QED BY <2>6, <3>1 DEF New
  <2> QED BY <1>2, <2>1, <2>2, <2>3, <2>4, <2>5, <2>6
<1>3. ASSUME NEW e \in Envelope, Known(e)'
      PROVE  expiry[e.kid] <= e.created + Retention
  <2>1. CASE Known(e)
    BY <2>1 DEF Cover
  <2>2. CASE FromOld(p, e)
    <3>1. expiry[e.kid] <= Retention
      BY <1>1, <2>2 DEF FromOld, OldRow
    <3> QED BY <1>0, <1>1, <2>2, <3>1 DEF TypeOK, Envelope
  <2>3. CASE New(p, e)
    <3>1. e.kid \in Kid /\ expiry[e.kid] \in Nat /\ expiry[e.kid] <= now
      BY <2>3 DEF New, InUse, TypeOK, Envelope
    <3> QED BY <1>0, <2>3, <3>1 DEF New
  <2> QED BY <1>3, <2>1, <2>2, <2>3
<1> QED BY <1>2, <1>3 DEF Near, Cover

\* What request p reads, at either of its two reads.
Read(p) == Parse(stored, load[p].start)

\* The envelopes parseStored returns are those of a v3 row, or of a v2 row dated anew.
LEMMA Parsed ==
  ASSUME KeysInv, NEW p \in Proc, NEW e \in Read(p)
  PROVE  /\ e \in Envelope
         /\ (stored.format = "v3" /\ e \in stored.keys) \/ FromOld(p, e)
<1>1. load[p].start \in Nat /\ stored \in Row
  BY DEF KeysInv, TypeOK, Load
<1>2. CASE stored.format = "v2"
  BY <1>1, <1>2 DEF Read, Parse, FromOld, Row, Envelope
<1>3. CASE stored.format # "v2"
  BY <1>1, <1>3 DEF KeysInv, OldRow, Read, Parse, Row
<1> QED BY <1>2, <1>3

\* What l may be once request p has settled on a set.
SettledOn(p, l, changed) ==
  /\ l.stage \in {"write", "serve"} /\ (changed = TRUE => l.stage = "write")
  /\ l.iso = load[p].iso /\ l.start = load[p].start
  /\ l.act \in Actives(l.envs, Secret(p)) /\ l.start <= l.act.created + Rotation
  /\ \A e \in l.envs : e \in Read(p) \/ (e = l.act /\ New(p, e))
  /\ l.stage = "serve" => l.envs \subseteq Read(p)
  /\ l.seen = IF l.stage = "write" THEN Read(p) ELSE {}
  /\ \A e \in Read(p) : e \in l.envs \/ e.created + Retention < l.start

\* The tail of loadKeyset: the request ends up with a set whose newest key that opens
\* is the one it will sign with, which is no older than ROTATION_INTERVAL_S, and drops
\* only what is past retention.
LEMMA SettleResult ==
  ASSUME KeysInv, NEW p \in Proc, load[p].stage \in {"read", "reread"},
         NEW a \in Actives(Read(p), Secret(p)), NEW changed \in BOOLEAN,
         Settle(p, Read(p), a, changed)
  PROVE  \E l \in Load : load' = [load EXCEPT ![p] = l] /\ SettledOn(p, l, changed)
<1> USE DEF SettledOn
<1> DEFINE t == load[p].start
           Result(all, b, c) ==
             LET kept == Kept(all, b, t)
                 written == c \/ kept # all
             IN [load[p] EXCEPT !.stage = IF written THEN "write" ELSE "serve",
                                !.envs = kept, !.act = b,
                                !.seen = IF written THEN Read(p) ELSE {}]
           Good(l, all, b, c) ==
             /\ l \in Load
             /\ l.stage \in {"write", "serve"} /\ (c = TRUE => l.stage = "write")
             /\ l.iso = load[p].iso /\ l.start = t
             /\ l.act = b /\ l.act \in Actives(l.envs, Secret(p))
             /\ l.envs \subseteq all
             /\ l.seen = IF l.stage = "write" THEN Read(p) ELSE {}
             /\ \A e \in all : e \in l.envs \/ e.created + Retention < t
<1>1. /\ load \in [Proc -> Load] /\ load[p] \in Load /\ t \in Nat
      /\ Rotation \in Nat /\ Retention \in Nat /\ Secret(p) \in Kek
      /\ Read(p) \subseteq Envelope
  <2>1. load \in [Proc -> Load] /\ load[p] \in Load /\ t \in Nat
    BY DEF KeysInv, TypeOK, Load
  <2>2. load[p].iso \in Isolate
    BY DEF KeysInv, LoadOK
  <2> QED BY <2>1, <2>2, Parsed, KeysetConstantsOK DEF KeysInv, TypeOK, Secret
<1>2. a \in Read(p) /\ a \in Envelope /\ a.kek = Secret(p)
  BY <1>1 DEF Actives, Opened
<1>3. ASSUME NEW all, all \subseteq Envelope, NEW b \in Actives(all, Secret(p)), NEW c \in BOOLEAN
      PROVE  Good(Result(all, b, c), all, b, c)
  <2> DEFINE l == Result(all, b, c)
  <2>1. b \in Envelope /\ b \in all
    BY <1>3 DEF Actives, Opened
  <2>2. /\ Kept(all, b, t) \subseteq all
        /\ b \in Actives(Kept(all, b, t), Secret(p))
        /\ \A e \in all : e \in Kept(all, b, t) \/ e.created + Retention < t
    BY <1>1, <1>3, <2>1 DEF Actives, Opened, Kept, Envelope
  <2>3. /\ l \in Load
        /\ l.stage \in {"write", "serve"} /\ (c = TRUE => l.stage = "write")
        /\ l.iso = load[p].iso /\ l.start = t /\ l.act = b /\ l.envs = Kept(all, b, t)
        /\ l.seen = IF l.stage = "write" THEN Read(p) ELSE {}
    BY <1>1, <1>3, <2>1, <2>2 DEF Load
  <2> QED BY <2>2, <2>3
<1>4. CASE ~Due(a, t)
  <2>1. load' = [load EXCEPT ![p] = Result(Read(p), a, changed)]
    BY <1>4 DEF Settle, Step
  <2>2. t <= a.created + Rotation
    BY <1>1, <1>2, <1>4 DEF Due, Envelope
  <2>3. Good(Result(Read(p), a, changed), Read(p), a, changed)
    <3> HIDE DEF Result, Good
    <3> QED BY <1>1, <1>3, Zenon
  <2> HIDE DEF Result
  <2> QED BY <2>1, <2>2, <2>3
<1>5. CASE Due(a, t)
  <2>1. PICK f \in Fresh(t, Secret(p)) :
          load' = [load EXCEPT ![p] = Result(Read(p) \cup {f}, f, TRUE)]
    BY <1>5 DEF Settle, Step
  <2>2. f \in Envelope /\ f.created = t /\ f.kek = Secret(p) /\ New(p, f)
    BY <1>1 DEF Fresh, Envelope, New
  <2>3. f \in Actives(Read(p) \cup {f}, Secret(p))
    <3>1. \A e \in Opened(Read(p), Secret(p)) : e.created <= f.created
      BY <1>1, <1>2, <1>5, <2>2 DEF Actives, Opened, Due, Envelope
    <3> QED BY <1>1, <2>2, <3>1 DEF Actives, Opened, Envelope
  <2>4. t <= f.created + Rotation
    BY <1>1, <2>2
  <2> DEFINE l == Result(Read(p) \cup {f}, f, TRUE)
  <2>5. Good(l, Read(p) \cup {f}, f, TRUE)
    <3>1. Read(p) \cup {f} \subseteq Envelope
      BY <1>1, <2>2
    <3> HIDE DEF Result, Good
    <3> QED BY <1>3, <2>3, <3>1, Zenon
  <2> HIDE DEF l
  <2>6. load' = [load EXCEPT ![p] = l]
    BY <2>1 DEF l
  <2> QED BY <2>2, <2>4, <2>5, <2>6
<1> QED BY <1>4, <1>5

-----------------------------------------------------------------------------
(* The invariant, one lemma per kind of step                               *)

\* A step that moves one load keeps the invariant if it does so for that load.
LEMMA OneLoadMoves ==
  ASSUME KeysInv, NEW p \in Proc, NEW l \in Load,
         load' = [load EXCEPT ![p] = l],
         UNCHANGED <<now, stored, secret, cache, expiry>>,
         LoadOK(p)', SeenKept(p)', Near', Cover',
         stored.format = "v2" => \A e \in stored.keys : OldHeld(p, e)'
  PROVE  KeysInv'
<1> USE DEF KeysInv
<1>1. TypeOK'
  BY DEF TypeOK
<1>2. \A q \in Proc \ {p} : load'[q] = load[q]
  BY DEF TypeOK
<1>3. \A q \in Proc : LoadOK(q)' /\ SeenKept(q)'
  BY <1>2 DEF LoadOK, SeenKept, Secret
<1>4. \A i \in Isolate : CacheOK(i)'
  BY DEF CacheOK
<1>5. \A e \in stored.keys : stored.format = "v2" => \A q \in Proc : OldHeld(q, e)'
  BY <1>2 DEF OldRow, OldHeld, Secret
<1>6. OldRow'
  BY <1>5 DEF OldRow
<1> QED BY <1>1, <1>3, <1>4, <1>6

\* A step after which fewer envelopes are known and no token is added.
LEMMA FewerKnown ==
  ASSUME KeysInv, TypeOK', \A e \in Envelope : Known(e)' => Known(e),
         \A k \in Kid : expiry'[k] <= expiry[k]
  PROVE  Near' /\ Cover'
<1>1. Near'
  BY DEF KeysInv, Near
<1>2. ASSUME NEW e \in Envelope, Known(e)' PROVE expiry'[e.kid] <= e.created + Retention
  <2>1. e.kid \in Kid /\ e.created \in Nat /\ Retention \in Nat
    BY KeysetConstantsOK DEF Envelope
  <2>2. expiry[e.kid] <= e.created + Retention
    BY <1>2 DEF KeysInv, Cover
  <2>3. expiry'[e.kid] <= expiry[e.kid] /\ expiry'[e.kid] \in Nat /\ expiry[e.kid] \in Nat
    BY <2>1 DEF KeysInv, TypeOK
  <2> QED BY <2>1, <2>2, <2>3
<1> QED BY <1>1, <1>2 DEF Cover

LEMMA BeginKeepsKeys ==
  ASSUME KeysInv, NEW p \in Proc, NEW i \in Isolate, BeginLoad(p, i)
  PROVE  KeysInv'
<1> DEFINE l == [Idle EXCEPT !.stage = "read", !.iso = i, !.start = now]
<1>1. /\ l \in Load /\ load' = [load EXCEPT ![p] = l]
      /\ UNCHANGED <<now, stored, secret, cache, expiry>>
      /\ load \in [Proc -> Load]
      /\ now \in Nat /\ Latency \in Nat
  BY KeysetConstantsOK DEF KeysInv, TypeOK, BeginLoad, Step, Idle, Load
<1>2. load'[p] = l /\ \A q \in Proc \ {p} : load'[q] = load[q]
  BY <1>1
<1>3. /\ l.stage = "read" /\ l.iso = i /\ l.start = now /\ l.envs = {} /\ l.act = None
      /\ l.seen = {}
  BY DEF Idle
<1> HIDE DEF l
<1>4. LoadOK(p)' /\ SeenKept(p)'
  BY <1>1, <1>2, <1>3 DEF LoadOK, SeenKept
<1>5. \A e \in Envelope : Known(e)' => Known(e)
  BY <1>1, <1>2, <1>3, KeysetNoneOK DEF Known
<1>6. TypeOK'
  BY <1>1 DEF KeysInv, TypeOK
<1>7. Near' /\ Cover'
  <2>1. \A k \in Kid : expiry'[k] <= expiry[k]
    BY <1>1 DEF KeysInv, TypeOK
  <2> QED BY <1>5, <1>6, <2>1, FewerKnown
<1>8. \A e \in stored.keys : OldHeld(p, e)'
  BY <1>2, <1>3 DEF OldHeld
<1> QED BY <1>1, <1>4, <1>7, <1>8, OneLoadMoves

\* A load that settles on its set, after either of its two reads.
LEMMA SettleKeepsKeys ==
  ASSUME KeysInv, NEW p \in Proc, load[p].stage \in {"read", "reread"},
         NEW a \in Actives(Read(p), Secret(p)), NEW changed \in BOOLEAN,
         Settle(p, Read(p), a, changed),
         stored.format = "v2" => changed = TRUE,
         UNCHANGED <<now, stored, secret, cache, expiry>>
  PROVE  KeysInv'
<1>0. PICK l \in Load : load' = [load EXCEPT ![p] = l] /\ SettledOn(p, l, changed)
  BY SettleResult
<1>1. /\ load' = [load EXCEPT ![p] = l]
      /\ l.stage \in {"write", "serve"} /\ (changed = TRUE => l.stage = "write")
      /\ l.iso = load[p].iso /\ l.start = load[p].start
      /\ l.act \in Actives(l.envs, Secret(p)) /\ l.start <= l.act.created + Rotation
      /\ \A e \in l.envs : e \in Read(p) \/ (e = l.act /\ New(p, e))
      /\ l.seen = IF l.stage = "write" THEN Read(p) ELSE {}
      /\ \A e \in Read(p) : e \in l.envs \/ e.created + Retention < l.start
  BY <1>0 DEF SettledOn
<1>2. /\ load'[p] = l /\ Secret(p)' = Secret(p) /\ load \in [Proc -> Load]
      /\ \A q \in Proc \ {p} : load'[q] = load[q]
  BY <1>1 DEF KeysInv, TypeOK, Secret
<1>3. LoadOK(p)'
  BY <1>1, <1>2 DEF KeysInv, LoadOK
<1>4. SeenKept(p)'
  BY <1>1, <1>2 DEF SeenKept
<1>5. l.act \in l.envs /\ l.act.kek = Secret(p) /\ l.act \in Envelope
  BY <1>1 DEF Actives, Opened, Load
<1>6. ASSUME NEW e \in Envelope, Known(e)'
      PROVE  Known(e) \/ FromOld(p, e) \/ (e = load'[p].act /\ New(p, e) /\ e.kek = Secret(p))
  <2>1. CASE e \in Read(p)
    BY <2>1, Parsed DEF Known
  <2>2. CASE e = l.act /\ New(p, e)
    BY <1>2, <1>5, <2>2
  <2>3. CASE e \in l.envs \cup l.seen \/ e = l.act
    BY <1>1, <1>5, <2>1, <2>2, <2>3
  <2>4. CASE ~(e \in l.envs \cup l.seen \/ e = l.act)
    BY <1>2, <1>6, <2>4 DEF Known
  <2> QED BY <2>3, <2>4
<1>7. Near' /\ Cover'
  <2>1. load[p] # Idle
    BY DEF Idle
  <2> QED BY <1>2, <1>5, <1>6, <2>1, LoadsOneRow
<1>8. ASSUME stored.format = "v2", NEW e \in stored.keys PROVE OldHeld(p, e)'
  <2>1. l.stage = "write"
    BY <1>1, <1>8
  <2>2. ASSUME NEW f \in l.envs \cup l.seen, f.kid = e.kid
        PROVE  f.created = load[p].start /\ f.kek = e.kek
    <3>1. CASE f \in Read(p)
      <4>1. f \in Envelope /\ FromOld(p, f)
        BY <1>8, <3>1, Parsed
      <4>2. PICK g \in stored.keys : f = [g EXCEPT !.created = load[p].start]
        BY <4>1 DEF FromOld
      <4>3. g = e /\ g \in Envelope
        BY <1>8, <4>2 DEF KeysInv, OldRow, TypeOK, Row
      <4> QED BY <4>2, <4>3 DEF Envelope
    <3>2. CASE f = l.act /\ New(p, f)
      BY <2>2, <3>2 DEF New, InUse
    <3> QED BY <1>1, <2>2, <3>1, <3>2
  <2> QED BY <1>1, <1>2, <2>1, <2>2 DEF OldHeld
<1> QED BY <1>1, <1>3, <1>4, <1>7, <1>8, OneLoadMoves

\* Types of what a request in flight holds.
LEMMA InFlightTypes ==
  ASSUME KeysInv, NEW p \in Proc, load[p].stage # "idle"
  PROVE  /\ load \in [Proc -> Load] /\ load[p] \in Load /\ load[p].iso \in Isolate
         /\ load[p].start \in Nat /\ now \in Nat /\ Latency \in Nat
         /\ load[p].start <= now /\ now <= load[p].start + Latency
         /\ Secret(p) \in Kek
  BY KeysetConstantsOK DEF KeysInv, TypeOK, LoadOK, Load, Secret

LEMMA ReadKeepsKeys ==
  ASSUME KeysInv, NEW p \in Proc, ReadRow(p)
  PROVE  KeysInv'
<1>0. load[p].stage = "read"
  BY DEF ReadRow
<1>1. /\ UNCHANGED <<now, stored, secret, cache, expiry>>
      /\ \/ \E a \in Actives(Read(p), Secret(p)) : Settle(p, Read(p), a, Outdated(stored))
         \/ /\ Opened(Read(p), Secret(p)) = {}
            /\ \E f \in Fresh(load[p].start, Secret(p)) :
                 Step(p, [load[p] EXCEPT !.stage = "seed", !.act = f])
  BY DEF ReadRow, Read
<1>2. CASE \E a \in Actives(Read(p), Secret(p)) : Settle(p, Read(p), a, Outdated(stored))
  <2>1. Outdated(stored) \in BOOLEAN /\ (stored.format = "v2" => Outdated(stored) = TRUE)
    BY DEF Outdated
  <2> HIDE DEF Outdated
  <2> QED BY <1>0, <1>1, <1>2, <2>1, SettleKeepsKeys
<1>3. ASSUME Opened(Read(p), Secret(p)) = {},
             NEW f \in Fresh(load[p].start, Secret(p)),
             Step(p, [load[p] EXCEPT !.stage = "seed", !.act = f])
      PROVE  KeysInv'
  <2> DEFINE l == [load[p] EXCEPT !.stage = "seed", !.act = f]
  <2>1. f \in Envelope /\ New(p, f) /\ f.kek = Secret(p)
    BY <1>0, InFlightTypes DEF Fresh, New, Envelope
  <2>2. /\ l \in Load /\ l.stage = "seed" /\ l.act = f /\ l.start = load[p].start
        /\ l.iso = load[p].iso /\ l.envs = {} /\ l.seen = {}
    BY <1>0, <2>1, InFlightTypes DEF KeysInv, LoadOK, Load
  <2>3. load' = [load EXCEPT ![p] = l]
    BY <1>3 DEF Step
  <2> HIDE DEF l
  <2>4. /\ load'[p] = l /\ Secret(p)' = Secret(p)
        /\ \A q \in Proc \ {p} : load'[q] = load[q]
    BY <1>0, <1>1, <2>2, <2>3, InFlightTypes DEF Secret
  <2>5. LoadOK(p)' /\ SeenKept(p)'
    BY <1>0, <1>1, <2>1, <2>2, <2>4, InFlightTypes DEF LoadOK, SeenKept, New
  <2>6. ASSUME NEW e \in Envelope, Known(e)'
        PROVE  Known(e) \/ FromOld(p, e) \/ (e = load'[p].act /\ New(p, e) /\ e.kek = Secret(p))
    BY <1>1, <2>1, <2>2, <2>4, <2>6 DEF Known
  <2>7. Near' /\ Cover'
    <3>1. load[p] # Idle
      BY <1>0 DEF Idle
    <3>2. load'[p].act \in Envelope
      BY <2>1, <2>2, <2>4
    <3>3. UNCHANGED <<now, stored, cache, expiry>>
      BY <1>1
    <3> QED BY <2>6, <3>1, <3>2, <3>3, LoadsOneRow
  <2>8. ASSUME stored.format = "v2", NEW e \in stored.keys PROVE OldHeld(p, e)'
    <3>1. e.kid # f.kid
      BY <2>1 DEF New, InUse
    <3>2. [e EXCEPT !.created = load[p].start] \in Read(p)
      BY <2>8 DEF Read, Parse
    <3>3. e \in Envelope
      BY DEF KeysInv, TypeOK, Row
    <3>4. e.kek # Secret(p)
      BY <1>3, <3>2, <3>3 DEF Opened, Envelope
    <3> QED BY <2>2, <2>4, <3>1, <3>4 DEF OldHeld
  <2> QED BY <1>1, <2>2, <2>3, <2>5, <2>7, <2>8, OneLoadMoves
<1> QED BY <1>1, <1>2, <1>3

\* At the second read a v2 row is one the request could not open at the first.
LEMMA RereadKeepsKeys ==
  ASSUME KeysInv, NEW p \in Proc, Reread(p)
  PROVE  KeysInv'
<1>1. /\ load[p].stage = "reread"
      /\ UNCHANGED <<now, stored, secret, cache, expiry>>
      /\ \/ \E a \in Actives(Read(p), Secret(p)) : Settle(p, Read(p), a, FALSE)
         \/ /\ Opened(Read(p), Secret(p)) = {}
            /\ Step(p, [load[p] EXCEPT !.stage = "write", !.envs = {load[p].act},
                                       !.seen = Read(p)])
  BY DEF Reread, Read
<1>2. ASSUME NEW a \in Actives(Read(p), Secret(p)), Settle(p, Read(p), a, FALSE)
      PROVE  KeysInv'
  <2>1. stored.format # "v2"
    <3>1. SUFFICES ASSUME stored.format = "v2" PROVE FALSE
      OBVIOUS
    <3>2. a \in Read(p) /\ a.kek = Secret(p)
      BY DEF Actives, Opened
    <3>3. PICK g \in stored.keys : a = [g EXCEPT !.created = load[p].start]
      BY <3>1, <3>2 DEF Read, Parse
    <3>4. g \in Envelope /\ g.kek # Secret(p)
      BY <1>1, <3>1 DEF KeysInv, OldRow, OldHeld, TypeOK, Row
    <3> QED BY <3>2, <3>3, <3>4 DEF Envelope
  <2> QED BY <1>1, <1>2, <2>1, SettleKeepsKeys
<1>3. ASSUME Opened(Read(p), Secret(p)) = {},
             Step(p, [load[p] EXCEPT !.stage = "write", !.envs = {load[p].act},
                                     !.seen = Read(p)])
      PROVE  KeysInv'
  <2> DEFINE l == [load[p] EXCEPT !.stage = "write", !.envs = {load[p].act}, !.seen = Read(p)]
  <2>1. /\ load[p].act \in Envelope /\ load[p].act.kek = Secret(p)
        /\ load[p].act.created = load[p].start
    BY <1>1 DEF KeysInv, LoadOK
  <2>2. Read(p) \subseteq Envelope
    BY Parsed
  <2>3. /\ l \in Load /\ l.stage = "write" /\ l.act = load[p].act /\ l.start = load[p].start
        /\ l.iso = load[p].iso /\ l.envs = {l.act} /\ l.seen = Read(p)
    BY <1>1, <2>1, <2>2, InFlightTypes DEF Load
  <2>4. load' = [load EXCEPT ![p] = l]
    BY <1>3 DEF Step
  <2> HIDE DEF l
  <2>5. /\ load'[p] = l /\ Secret(p)' = Secret(p)
        /\ \A q \in Proc \ {p} : load'[q] = load[q]
    BY <1>1, <2>3, <2>4, InFlightTypes DEF Secret
  <2>6. l.act \in Actives(l.envs, Secret(p)) /\ l.start <= l.act.created + Rotation
    <3>1. Rotation \in Nat /\ load[p].start \in Nat
      BY <1>1, InFlightTypes, KeysetConstantsOK
    <3> QED BY <2>1, <2>3, <3>1 DEF Actives, Opened, Envelope
  <2>7. LoadOK(p)'
    BY <1>1, <2>3, <2>5, <2>6, InFlightTypes DEF LoadOK
  <2>8. SeenKept(p)'
    BY <1>3, <2>3, <2>5 DEF SeenKept, Opened
  <2>9. ASSUME NEW e \in Envelope, Known(e)'
        PROVE  Known(e) \/ FromOld(p, e)
    <3>1. CASE e \in Read(p)
      BY <3>1, Parsed DEF Known
    <3>2. CASE e = load[p].act
      BY <3>2 DEF Known
    <3> QED BY <1>1, <2>3, <2>5, <2>9, <3>1, <3>2 DEF Known
  <2>10. Near' /\ Cover'
    <3>1. load[p] # Idle
      BY <1>1 DEF Idle
    <3> QED BY <1>1, <2>1, <2>3, <2>5, <2>9, <3>1, LoadsOneRow
  <2>11. ASSUME stored.format = "v2", NEW e \in stored.keys PROVE OldHeld(p, e)'
    <3>1. e.kid # load[p].act.kid
      BY <1>1, <2>11 DEF KeysInv, OldRow, OldHeld
    <3>2. ASSUME NEW f \in Read(p) PROVE f.created = load[p].start /\ f.kek = e.kek
      <4>1. PICK g \in stored.keys : f = [g EXCEPT !.created = load[p].start]
        BY <2>11 DEF Read, Parse
      <4>2. g = e /\ g \in Envelope
        BY <2>11 DEF KeysInv, OldRow, TypeOK, Row
      <4> QED BY <4>1, <4>2 DEF Envelope
    <3> QED BY <2>3, <2>5, <3>1, <3>2 DEF OldHeld
  <2> QED BY <1>1, <2>3, <2>4, <2>7, <2>8, <2>10, <2>11, OneLoadMoves
<1> QED BY <1>1, <1>2, <1>3

LEMMA SeedKeepsKeys ==
  ASSUME KeysInv, NEW p \in Proc, Seed(p)
  PROVE  KeysInv'
<1> DEFINE l == [load[p] EXCEPT !.stage = "reread"]
<1>1. /\ load[p].stage = "seed" /\ load' = [load EXCEPT ![p] = l]
      /\ stored' = IF stored = Absent THEN StoredSet({load[p].act}) ELSE stored
      /\ UNCHANGED <<now, secret, cache, expiry>>
  BY DEF Seed, Step
<1>2. load[p].act \in Envelope /\ load[p].envs = {} /\ load[p].seen = {}
  BY <1>1 DEF KeysInv, LoadOK
<1>3. /\ l \in Load /\ l.stage = "reread" /\ l.act = load[p].act /\ l.start = load[p].start
      /\ l.iso = load[p].iso /\ l.envs = {} /\ l.seen = {}
  BY <1>1, <1>2, InFlightTypes DEF Load
<1> HIDE DEF l
<1>4. /\ load'[p] = l /\ Secret(p)' = Secret(p)
      /\ \A q \in Proc \ {p} : load'[q] = load[q]
  BY <1>1, <1>3, InFlightTypes DEF Secret
<1>5. stored' \in Row /\ (stored'.format # "v3" => stored' = stored)
  BY <1>1, <1>2 DEF KeysInv, TypeOK, Row, StoredSet
<1>6. TypeOK'
  BY <1>1, <1>3, <1>5 DEF KeysInv, TypeOK
<1>7. \A q \in Proc : LoadOK(q)' /\ SeenKept(q)'
  BY <1>1, <1>3, <1>4 DEF KeysInv, LoadOK, SeenKept, Secret
<1>8. \A i \in Isolate : CacheOK(i)'
  BY <1>1 DEF KeysInv, CacheOK
<1>9. OldRow'
  <2>1. CASE stored'.format = "v3"
    BY <2>1 DEF OldRow
  <2>2. CASE stored' = stored
    <3>1. \A e \in stored.keys : stored.format = "v2" => \A q \in Proc : OldHeld(q, e)'
      BY <1>1, <1>3, <1>4 DEF KeysInv, OldRow, OldHeld, Secret
    <3> QED BY <1>1, <2>2, <3>1 DEF KeysInv, OldRow
  <2> QED BY <1>5, <2>1, <2>2
<1>10. ASSUME NEW e \in Envelope, Known(e)' PROVE Known(e)
  <2>1. CASE \E q \in Proc : e \in load'[q].envs \cup load'[q].seen \/ e = load'[q].act
    BY <1>3, <1>4, <2>1 DEF Known
  <2>2. CASE \E i \in Isolate : e \in cache'[i].jwks
    BY <1>1, <2>2 DEF Known
  <2>3. CASE stored'.format = "v3" /\ e \in stored'.keys
    BY <1>1, <2>3 DEF Known, StoredSet
  <2> QED BY <1>10, <2>1, <2>2, <2>3 DEF Known
<1>11. Near' /\ Cover'
  <2>1. \A k \in Kid : expiry'[k] <= expiry[k]
    BY <1>1 DEF KeysInv, TypeOK
  <2> QED BY <1>6, <1>10, <2>1, FewerKnown
<1> QED BY <1>6, <1>7, <1>8, <1>9, <1>11 DEF KeysInv

LEMMA WriteKeepsKeys ==
  ASSUME KeysInv, NEW p \in Proc, WriteRow(p)
  PROVE  KeysInv'
<1> DEFINE l == [load[p] EXCEPT !.stage = "serve", !.seen = {}]
<1>1. /\ load[p].stage = "write" /\ load' = [load EXCEPT ![p] = l]
      /\ stored' = StoredSet(load[p].envs)
      /\ UNCHANGED <<now, secret, cache, expiry>>
  BY DEF WriteRow, Step
<1>2. /\ l \in Load /\ l.stage = "serve" /\ l.act = load[p].act /\ l.start = load[p].start
      /\ l.iso = load[p].iso /\ l.envs = load[p].envs /\ l.seen = {}
  BY <1>1, InFlightTypes DEF Load
<1> HIDE DEF l
<1>3. /\ load'[p] = l /\ Secret(p)' = Secret(p)
      /\ \A q \in Proc \ {p} : load'[q] = load[q]
  BY <1>1, <1>2, InFlightTypes DEF Secret
<1>4. stored' \in Row /\ stored'.format = "v3" /\ stored'.keys = load[p].envs
  BY <1>1, InFlightTypes DEF Row, StoredSet, Load
<1>5. TypeOK'
  BY <1>1, <1>2, <1>4 DEF KeysInv, TypeOK
<1>6. \A q \in Proc : LoadOK(q)' /\ SeenKept(q)'
  BY <1>1, <1>2, <1>3 DEF KeysInv, LoadOK, SeenKept, Secret
<1>7. \A i \in Isolate : CacheOK(i)'
  BY <1>1 DEF KeysInv, CacheOK
<1>8. OldRow'
  BY <1>4 DEF OldRow
<1>9. \A e \in Envelope : Known(e)' => Known(e)
  BY <1>1, <1>2, <1>3, <1>4 DEF Known
<1>10. Near' /\ Cover'
  <2>1. \A k \in Kid : expiry'[k] <= expiry[k]
    BY <1>1 DEF KeysInv, TypeOK
  <2> QED BY <1>5, <1>9, <2>1, FewerKnown
<1> QED BY <1>5, <1>6, <1>7, <1>8, <1>10 DEF KeysInv

\* Signing with a key that is still good to sign keeps every key's tokens covered,
\* by whatever date its envelopes carry.
LEMMA SignCovered ==
  ASSUME KeysInv, NEW a \in Envelope, Known(a), Sign(a),
         now <= a.created + Rotation + CacheTTL,
         stored.format = "v2" => \A g \in stored.keys : g.kid # a.kid
  PROVE  /\ expiry' \in [Kid -> Nat]
         /\ \A e \in Envelope : Known(e) => expiry'[e.kid] <= e.created + Retention
         /\ stored.format = "v2" => \A g \in stored.keys : expiry'[g.kid] = expiry[g.kid]
<1>1. /\ now \in Nat /\ a.created \in Nat /\ a.kid \in Kid
      /\ Rotation \in Nat /\ Retention \in Nat /\ CacheTTL \in Nat
      /\ Latency \in Nat /\ TokenTTL \in Nat
      /\ Rotation + CacheTTL + Latency + TokenTTL <= Retention
      /\ expiry \in [Kid -> Nat]
  BY KeysetConstantsOK DEF KeysInv, TypeOK, Envelope
<1>2. expiry' = [expiry EXCEPT ![a.kid] = now + TokenTTL]
  BY DEF Sign
<1>3. ASSUME NEW e \in Envelope, Known(e) PROVE expiry'[e.kid] <= e.created + Retention
  <2>1. CASE e.kid = a.kid
    <3>1. a.created <= e.created + Latency /\ e.created \in Nat
      BY <1>3, <2>1 DEF KeysInv, Near, Envelope
    <3>2. expiry'[e.kid] = now + TokenTTL
      BY <1>1, <1>2, <2>1
    <3> QED BY <1>1, <3>1, <3>2
  <2>2. CASE e.kid # a.kid
    BY <1>1, <1>2, <1>3, <2>2 DEF KeysInv, Cover, Envelope
  <2> QED BY <2>1, <2>2
<1>4. \A g \in stored.keys : g.kid \in Kid
  BY DEF KeysInv, TypeOK, Row, Envelope
<1> QED BY <1>1, <1>2, <1>3, <1>4

\* Nothing but the history of tokens changes, or also the cache, which takes over
\* what a load holds.
LEMMA ServeKeepsKeys ==
  ASSUME KeysInv, NEW p \in Proc, Serve(p)
  PROVE  KeysInv'
<1>1. /\ load[p].stage = "serve" /\ load' = [load EXCEPT ![p] = Idle]
      /\ cache' = [cache EXCEPT ![load[p].iso] =
                     [jwks |-> load[p].envs, active |-> load[p].act,
                      expires |-> load[p].start + CacheTTL]]
      /\ UNCHANGED <<now, stored, secret>>
  BY DEF Serve, Step
<1>2. /\ load[p].act \in Actives(load[p].envs, Secret(p))
      /\ load[p].start <= load[p].act.created + Rotation
      /\ load[p].act \in Envelope /\ load[p].act \in load[p].envs
      /\ load[p].envs \subseteq Envelope
  BY <1>1, InFlightTypes DEF KeysInv, LoadOK, Load, Actives, Opened
<1>3. load'[p] = Idle /\ \A q \in Proc \ {p} : load'[q] = load[q]
  BY <1>1, InFlightTypes
<1>4. /\ cache'[load[p].iso] = [jwks |-> load[p].envs, active |-> load[p].act,
                                expires |-> load[p].start + CacheTTL]
      /\ cache' \in [Isolate -> CacheEntry]
      /\ \A i \in Isolate : i # load[p].iso => cache'[i] = cache[i]
  <2>1. load[p].start + CacheTTL \in Nat
    BY <1>1, InFlightTypes, KeysetConstantsOK
  <2> QED BY <1>1, <1>2, <2>1, InFlightTypes DEF KeysInv, TypeOK, CacheEntry
<1>5. \A e \in Envelope : Known(e)' => Known(e)
  <2>1. \A q \in Proc : \A e \in Envelope :
          e \in load'[q].envs \cup load'[q].seen \/ e = load'[q].act => Known(e)
    BY <1>3, KeysetNoneOK DEF Known, Idle
  <2>2. \A i \in Isolate : \A e \in cache'[i].jwks : Known(e)
    BY <1>4 DEF Known
  <2> QED BY <1>1, <2>1, <2>2 DEF Known
<1>6. /\ expiry' \in [Kid -> Nat]
      /\ \A e \in Envelope : Known(e) => expiry'[e.kid] <= e.created + Retention
      /\ stored.format = "v2" => \A g \in stored.keys : expiry'[g.kid] = expiry[g.kid]
  <2>1. CASE Sign(load[p].act)
    <3>1. Known(load[p].act)
      BY DEF Known
    <3>2. now <= load[p].act.created + Rotation + CacheTTL
      BY <1>1, <1>2, InFlightTypes, KeysetConstantsOK DEF Envelope
    <3>3. stored.format = "v2" => \A g \in stored.keys : g.kid # load[p].act.kid
      BY <1>1, <1>2 DEF KeysInv, OldRow, OldHeld
    <3> QED BY <1>2, <2>1, <3>1, <3>2, <3>3, SignCovered
  <2>2. CASE UNCHANGED expiry
    BY <2>2 DEF KeysInv, TypeOK, Cover
  <2> QED BY <2>1, <2>2 DEF Serve
<1>7. TypeOK'
  <2>1. Idle \in Load
    BY DEF Idle, Load
  <2> QED BY <1>1, <1>4, <1>6, <2>1 DEF KeysInv, TypeOK
<1>8. \A q \in Proc : LoadOK(q)' /\ SeenKept(q)'
  <2>1. LoadOK(p)' /\ SeenKept(p)'
    BY <1>3 DEF LoadOK, SeenKept, Idle
  <2>2. ASSUME NEW q \in Proc \ {p} PROVE LoadOK(q)' /\ SeenKept(q)'
    BY <1>1, <1>3 DEF KeysInv, LoadOK, SeenKept, Secret
  <2> QED BY <2>1, <2>2
<1>9. \A i \in Isolate : CacheOK(i)'
  <2>1. ASSUME NEW i \in Isolate, i = load[p].iso PROVE CacheOK(i)'
    <3>1. /\ load[p].start \in Nat /\ load[p].act.created \in Nat
          /\ Rotation \in Nat /\ CacheTTL \in Nat
      BY <1>1, <1>2, InFlightTypes, KeysetConstantsOK DEF Envelope
    <3>2. load[p].start + CacheTTL <= load[p].act.created + Rotation + CacheTTL
      BY <1>2, <3>1
    <3>3. load[p].act \in Actives(load[p].envs, secret'[i])
      BY <1>1, <1>2, <2>1 DEF Secret
    <3> QED BY <1>4, <2>1, <3>2, <3>3 DEF CacheOK
  <2>2. ASSUME NEW i \in Isolate, i # load[p].iso PROVE CacheOK(i)'
    BY <1>1, <1>4, <2>2 DEF KeysInv, CacheOK
  <2> QED BY <2>1, <2>2
<1>10. OldRow'
  <2>1. ASSUME stored.format = "v2", NEW e \in stored.keys
        PROVE  /\ \A i \in Isolate : \A f \in cache'[i].jwks : f.kid # e.kid
               /\ \A q \in Proc : OldHeld(q, e)'
    BY <1>1, <1>3, <1>4, <2>1 DEF KeysInv, OldRow, OldHeld, Secret, Idle
  <2> QED BY <1>1, <1>6, <2>1 DEF KeysInv, OldRow
<1>11. Near' /\ Cover'
  BY <1>5, <1>6 DEF KeysInv, Near, Cover
<1> QED BY <1>7, <1>8, <1>9, <1>10, <1>11 DEF KeysInv

\* A usable cache holds a key that may still sign.
LEMMA UsableSigner ==
  ASSUME KeysInv, NEW i \in Isolate, Usable(i)
  PROVE  /\ cache[i].active \in Actives(cache[i].jwks, secret[i])
         /\ cache[i].active \in Envelope /\ Known(cache[i].active)
         /\ cache[i].active \in cache[i].jwks
         /\ now <= cache[i].active.created + Rotation + CacheTTL
<1>1. cache[i] \in CacheEntry /\ now \in Nat
  BY DEF KeysInv, TypeOK
<1>2. cache[i].expires > now
  BY DEF Usable
<1>3. cache[i] # Empty
  BY <1>1, <1>2 DEF Empty
<1>4. /\ cache[i].active \in Actives(cache[i].jwks, secret[i])
      /\ cache[i].expires <= cache[i].active.created + Rotation + CacheTTL
  BY <1>3 DEF KeysInv, CacheOK
<1>5. cache[i].active \in cache[i].jwks /\ cache[i].active \in Envelope
  BY <1>1, <1>4 DEF Actives, Opened, CacheEntry
<1>6. Known(cache[i].active)
  BY <1>5 DEF Known
<1>7. cache[i].expires \in Nat /\ cache[i].active.created \in Nat
  BY <1>1, <1>5 DEF CacheEntry, Envelope
<1> QED BY <1>1, <1>2, <1>4, <1>5, <1>6, <1>7, KeysetConstantsOK

LEMMA SignKeepsKeys ==
  ASSUME KeysInv, NEW i \in Isolate, SignFromCache(i)
  PROVE  KeysInv'
<1>1. /\ Usable(i) /\ Sign(cache[i].active)
      /\ UNCHANGED <<now, stored, secret, cache, load>>
  BY DEF SignFromCache
<1>2. stored.format = "v2" => \A g \in stored.keys : g.kid # cache[i].active.kid
  BY <1>1, UsableSigner DEF KeysInv, OldRow
<1>3. /\ expiry' \in [Kid -> Nat]
      /\ \A e \in Envelope : Known(e) => expiry'[e.kid] <= e.created + Retention
      /\ stored.format = "v2" => \A g \in stored.keys : expiry'[g.kid] = expiry[g.kid]
  BY <1>1, <1>2, UsableSigner, SignCovered
<1>4. TypeOK'
  BY <1>1, <1>3 DEF KeysInv, TypeOK
<1>5. \A q \in Proc : LoadOK(q)' /\ SeenKept(q)'
  BY <1>1 DEF KeysInv, LoadOK, SeenKept, Secret
<1>6. \A j \in Isolate : CacheOK(j)'
  BY <1>1 DEF KeysInv, CacheOK
<1>7. OldRow'
  BY <1>1, <1>3 DEF KeysInv, OldRow, OldHeld, Secret
<1>8. Near' /\ Cover'
  BY <1>1, <1>3 DEF KeysInv, Near, Cover, Known
<1> QED BY <1>4, <1>5, <1>6, <1>7, <1>8 DEF KeysInv

\* Requests end, caches are dropped and a secret may change; the row stays.
LEMMA RestartKeepsKeys ==
  ASSUME KeysInv, NEW i \in Isolate, NEW s \in Kek, Restart(i, s)
  PROVE  KeysInv'
<1>1. /\ secret' = [secret EXCEPT ![i] = s] /\ cache' = [cache EXCEPT ![i] = Empty]
      /\ load' = [p \in Proc |-> IF load[p].iso = i THEN Idle ELSE load[p]]
      /\ UNCHANGED <<now, stored, expiry>>
  BY DEF Restart
<1>2. TypeOK'
  <2>1. Idle \in Load /\ Empty \in CacheEntry
    BY DEF Idle, Load, Empty, CacheEntry
  <2> QED BY <1>1, <2>1 DEF KeysInv, TypeOK
<1>3. \A p \in Proc : load'[p] = Idle \/ (load'[p] = load[p] /\ load[p].iso # i)
  BY <1>1
<1>4. \A j \in Isolate : cache'[j] = Empty \/ (cache'[j] = cache[j] /\ secret'[j] = secret[j])
  BY <1>1 DEF KeysInv, TypeOK
<1>5. \A p \in Proc : LoadOK(p)' /\ SeenKept(p)'
  <2>1. ASSUME NEW p \in Proc, load'[p] = Idle PROVE LoadOK(p)' /\ SeenKept(p)'
    BY <2>1 DEF LoadOK, SeenKept, Idle
  <2>2. ASSUME NEW p \in Proc, load'[p] = load[p], load[p].iso # i, load[p] # Idle
        PROVE  LoadOK(p)' /\ SeenKept(p)'
    <3>1. load[p].iso \in Isolate
      BY <2>2 DEF KeysInv, LoadOK
    <3>2. Secret(p)' = Secret(p)
      BY <1>1, <2>2, <3>1 DEF KeysInv, TypeOK, Secret
    <3> QED BY <1>1, <2>2, <3>2 DEF KeysInv, LoadOK, SeenKept
  <2> QED BY <1>3, <2>1, <2>2
<1>6. \A j \in Isolate : CacheOK(j)'
  BY <1>4 DEF KeysInv, CacheOK
<1>7. OldRow'
  <2>1. ASSUME stored.format = "v2", NEW e \in stored.keys, NEW p \in Proc
        PROVE  OldHeld(p, e)'
    <3>1. CASE load'[p] = Idle
      BY <3>1 DEF OldHeld, Idle
    <3>2. CASE load'[p] = load[p] /\ load[p].iso # i /\ load[p] # Idle
      <4>1. load[p].iso \in Isolate
        BY <3>2 DEF KeysInv, LoadOK
      <4>2. Secret(p)' = Secret(p)
        BY <1>1, <3>2, <4>1 DEF KeysInv, TypeOK, Secret
      <4> QED BY <2>1, <3>2, <4>2 DEF KeysInv, OldRow, OldHeld
    <3> QED BY <1>3, <3>1, <3>2
  <2>2. ASSUME stored.format = "v2", NEW e \in stored.keys, NEW j \in Isolate
        PROVE  \A f \in cache'[j].jwks : f.kid # e.kid
    BY <1>4, <2>2 DEF KeysInv, OldRow, Empty
  <2> QED BY <1>1, <2>1, <2>2 DEF KeysInv, OldRow
<1>8. Near' /\ Cover'
  <2>1. \A q \in Proc : \A e \in Envelope :
          e \in load'[q].envs \cup load'[q].seen \/ e = load'[q].act => Known(e)
    BY <1>3, KeysetNoneOK DEF Known, Idle
  <2>2. \A j \in Isolate : \A e \in cache'[j].jwks : Known(e)
    BY <1>4 DEF Known, Empty
  <2>3. \A e \in Envelope : Known(e)' => Known(e)
    BY <1>1, <2>1, <2>2 DEF Known
  <2>4. \A k \in Kid : expiry'[k] <= expiry[k]
    BY <1>1 DEF KeysInv, TypeOK
  <2> QED BY <1>2, <2>3, <2>4, FewerKnown
<1> QED BY <1>2, <1>5, <1>6, <1>7, <1>8 DEF KeysInv

LEMMA AbortKeepsKeys ==
  ASSUME KeysInv, NEW p \in Proc, Abort(p)
  PROVE  KeysInv'
<1>1. load' = [load EXCEPT ![p] = Idle] /\ UNCHANGED <<now, stored, secret, cache, expiry>>
  BY DEF Abort, Step
<1>2. load'[p] = Idle /\ \A q \in Proc \ {p} : load'[q] = load[q]
  BY <1>1 DEF KeysInv, TypeOK
<1>3. Idle \in Load
  BY DEF Idle, Load
<1>4. LoadOK(p)' /\ SeenKept(p)'
  BY <1>2 DEF LoadOK, SeenKept, Idle
<1>5. \A e \in stored.keys : OldHeld(p, e)'
  BY <1>2 DEF OldHeld, Idle
<1>6. Near' /\ Cover'
  <2>1. \A e \in Envelope : Known(e)' => Known(e)
    BY <1>1, <1>2, KeysetNoneOK DEF Known, Idle
  <2>2. TypeOK' /\ \A k \in Kid : expiry'[k] <= expiry[k]
    BY <1>1, <1>3 DEF KeysInv, TypeOK
  <2> QED BY <2>1, <2>2, FewerKnown
<1> QED BY <1>1, <1>3, <1>4, <1>5, <1>6, OneLoadMoves

LEMMA DeleteKeepsKeys ==
  ASSUME KeysInv, DeleteRow
  PROVE  KeysInv'
<1>1. stored' = Absent /\ UNCHANGED <<now, secret, cache, load, expiry>>
  BY DEF DeleteRow
<1>2. Absent \in Row /\ Absent.format = "absent" /\ Absent.keys = {}
  BY DEF Absent, Row
<1>3. TypeOK'
  BY <1>1, <1>2 DEF KeysInv, TypeOK
<1>4. \A p \in Proc : LoadOK(p)' /\ SeenKept(p)'
  BY <1>1 DEF KeysInv, LoadOK, SeenKept, Secret
<1>5. \A i \in Isolate : CacheOK(i)'
  BY <1>1 DEF KeysInv, CacheOK
<1>6. OldRow'
  BY <1>1, <1>2 DEF OldRow
<1>7. Near' /\ Cover'
  <2>1. \A e \in Envelope : Known(e)' => Known(e)
    BY <1>1, <1>2 DEF Known
  <2>2. \A k \in Kid : expiry'[k] <= expiry[k]
    BY <1>1 DEF KeysInv, TypeOK
  <2> QED BY <1>3, <2>1, <2>2, FewerKnown
<1> QED BY <1>3, <1>4, <1>5, <1>6, <1>7 DEF KeysInv

LEMMA TickKeepsKeys ==
  ASSUME KeysInv, Tick
  PROVE  KeysInv'
<1>1. /\ \A p \in Proc : load[p] # Idle => now < load[p].start + Latency
      /\ now' = now + 1
      /\ expiry' = [k \in Kid |-> IF expiry[k] > now' THEN expiry[k] ELSE 0]
      /\ UNCHANGED <<stored, secret, cache, load>>
  BY DEF Tick
<1>2. TypeOK' /\ \A k \in Kid : expiry'[k] <= expiry[k]
  BY <1>1 DEF KeysInv, TypeOK
<1>3. ASSUME NEW p \in Proc PROVE LoadOK(p)' /\ SeenKept(p)'
  <2>1. CASE load[p].stage = "idle"
    BY <1>1, <2>1 DEF KeysInv, LoadOK, SeenKept, Secret, Idle
  <2>2. CASE load[p].stage # "idle"
    <3>1. load[p] # Idle
      BY <2>2 DEF Idle
    <3>2. load[p].start <= now' /\ now' <= load[p].start + Latency
      BY <1>1, <2>2, <3>1, InFlightTypes
    <3> QED BY <1>1, <2>2, <3>2 DEF KeysInv, LoadOK, SeenKept, Secret
  <2> QED BY <2>1, <2>2
<1>4. \A i \in Isolate : CacheOK(i)'
  BY <1>1 DEF KeysInv, CacheOK
<1>5. OldRow'
  <2>1. ASSUME stored.format = "v2", NEW e \in stored.keys
        PROVE  expiry'[e.kid] <= Retention /\ \A p \in Proc : OldHeld(p, e)'
    <3>1. e.kid \in Kid /\ expiry[e.kid] <= Retention
      BY <2>1 DEF KeysInv, OldRow, TypeOK, Row, Envelope
    <3>2. expiry'[e.kid] <= Retention
      BY <1>1, <1>2, <3>1, KeysetConstantsOK DEF KeysInv, TypeOK
    <3>3. \A p \in Proc : OldHeld(p, e)'
      BY <1>1, <2>1 DEF KeysInv, OldRow, OldHeld, Secret
    <3> QED BY <3>2, <3>3
  <2> QED BY <1>1, <2>1 DEF KeysInv, OldRow
<1>6. Near' /\ Cover'
  <2>1. \A e \in Envelope : Known(e)' => Known(e)
    BY <1>1 DEF Known
  <2> QED BY <1>2, <2>1, FewerKnown
<1> QED BY <1>2, <1>3, <1>4, <1>5, <1>6 DEF KeysInv

\* The initial row holds at most the key of an earlier version.
LEMMA InitKeys == Init => KeysInv
<1> SUFFICES ASSUME Init PROVE KeysInv
  OBVIOUS
<1>1. /\ stored = Absent \/ stored = [format |-> "unknown", keys |-> {}]
         \/ \E k \in Kid, s \in Kek :
              stored = [format |-> "v2", keys |-> {[kid |-> k, created |-> 0, kek |-> s]}]
      /\ now = 0 /\ secret \in [Isolate -> Kek]
      /\ cache = [i \in Isolate |-> Empty]
      /\ load = [p \in Proc |-> Idle]
      /\ expiry = [k \in Kid |-> IF \E e \in stored.keys : e.kid = k THEN TokenTTL ELSE 0]
  BY DEF Init
<1>2. \/ stored.format \in {"absent", "unknown"} /\ stored.keys = {} /\ stored \in Row
      \/ \E k \in Kid, s \in Kek :
           /\ stored.format = "v2" /\ stored \in Row
           /\ stored.keys = {[kid |-> k, created |-> 0, kek |-> s]}
  BY <1>1 DEF Absent, Row, Envelope
<1>3. TypeOK
  <2>1. Idle \in Load /\ Empty \in CacheEntry
    BY DEF Idle, Load, Empty, CacheEntry
  <2>2. expiry \in [Kid -> Nat]
    BY <1>1, KeysetConstantsOK
  <2> QED BY <1>1, <1>2, <2>1, <2>2 DEF TypeOK
<1>4. \A p \in Proc : load[p] = Idle /\ LoadOK(p) /\ SeenKept(p)
  BY <1>1 DEF LoadOK, SeenKept, Idle
<1>5. \A i \in Isolate : cache[i] = Empty /\ CacheOK(i)
  BY <1>1 DEF CacheOK
<1>6. \A e \in Envelope : ~Known(e)
  BY <1>2, <1>4, <1>5, KeysetNoneOK DEF Known, Idle, Empty
<1>7. OldRow
  <2>1. ASSUME NEW k \in Kid, NEW s \in Kek,
               stored.keys = {[kid |-> k, created |-> 0, kek |-> s]}, NEW e \in stored.keys
        PROVE  /\ e.created = 0 /\ expiry[e.kid] <= Retention
               /\ \A f \in stored.keys : e = f
    <3>1. e = [kid |-> k, created |-> 0, kek |-> s]
      BY <2>1
    <3>2. expiry[k] <= Retention
      BY <1>1, KeysetConstantsOK
    <3> QED BY <2>1, <3>1, <3>2
  <2>2. \A p \in Proc : \A e \in stored.keys : OldHeld(p, e)
    BY <1>4 DEF OldHeld, Idle
  <2>3. \A i \in Isolate : cache[i].jwks = {}
    BY <1>5 DEF Empty
  <2> QED BY <1>2, <2>1, <2>2, <2>3 DEF OldRow
<1> QED BY <1>3, <1>4, <1>5, <1>6, <1>7 DEF KeysInv, Near, Cover

LEMMA NextKeepsKeys == KeysInv /\ [Next]_vars => KeysInv'
<1> SUFFICES ASSUME KeysInv, [Next]_vars PROVE KeysInv'
  OBVIOUS
<1>1. CASE UNCHANGED vars
  BY <1>1 DEF vars, KeysInv, TypeOK, LoadOK, CacheOK, OldRow, OldHeld, Near, Cover, Known,
              SeenKept, Secret
<1>2. ASSUME NEW p \in Proc, LoadStep(p) PROVE KeysInv'
  BY <1>2, ReadKeepsKeys, SeedKeepsKeys, RereadKeepsKeys, WriteKeepsKeys, ServeKeepsKeys,
     AbortKeepsKeys DEF LoadStep
<1>3. ASSUME NEW p \in Proc, NEW i \in Isolate, BeginLoad(p, i) PROVE KeysInv'
  BY <1>3, BeginKeepsKeys
<1>4. ASSUME NEW i \in Isolate, SignFromCache(i) PROVE KeysInv'
  BY <1>4, SignKeepsKeys
<1>5. ASSUME NEW i \in Isolate, NEW s \in Kek, Restart(i, s) PROVE KeysInv'
  BY <1>5, RestartKeepsKeys
<1>6. CASE DeleteRow
  BY <1>6, DeleteKeepsKeys
<1>7. CASE Tick
  BY <1>7, TickKeepsKeys
<1> QED BY <1>1, <1>2, <1>3, <1>4, <1>5, <1>6, <1>7 DEF Next

-----------------------------------------------------------------------------
(* Theorems                                                                *)

\* The inductive invariant of the key set, its caches and its loads.
THEOREM KeysInvariant == Spec => []KeysInv
BY InitKeys, NextKeepsKeys, PTL DEF Spec

\* The row, the caches and what requests hold keep their types.
THEOREM KeysTypeCorrect == Spec => []TypeOK
<1>1. KeysInv => TypeOK
  BY DEF KeysInv
<1> QED BY <1>1, KeysInvariant, PTL

\* No isolate signs with a key older than the rotation interval and one cache life,
\* nor with one that is not the newest it can open, however loads overlap.
THEOREM SignersAreCurrent == Spec => []SignerCurrent
<1>1. KeysInv => SignerCurrent
  BY UsableSigner DEF SignerCurrent
<1> QED BY <1>1, KeysInvariant, PTL

\* A step keeps a key that has valid tokens and that every pending write has read.
LEMMA StepKeepsLiveKeys ==
  ASSUME KeysInv, [Next]_vars, NEW e \in stored.keys, expiry[e.kid] > now, Settled(e.kid),
         \A i \in Isolate : secret[i] = e.kek
  PROVE  stored' = Absent \/ \E f \in stored'.keys : f.kid = e.kid
<1>1. CASE stored' = stored
  BY <1>1
<1>2. ASSUME NEW p \in Proc, Seed(p) PROVE stored' = stored
  <2>1. stored # Absent
    BY DEF Absent
  <2> QED BY <1>2, <2>1 DEF Seed
<1>3. ASSUME NEW p \in Proc, WriteRow(p) PROVE \E f \in stored'.keys : f.kid = e.kid
  <2>1. load[p].stage = "write" /\ stored'.keys = load[p].envs
    BY <1>3 DEF WriteRow, StoredSet
  <2>2. PICK f \in load[p].seen : f.kid = e.kid
    BY <2>1 DEF Settled
  <2>3. f \in Envelope /\ Known(f) /\ e \in Envelope
    BY <2>1, InFlightTypes DEF Known, Load, KeysInv, TypeOK, Row
  <2>4. f.kek = e.kek
    <3>1. CASE stored.format = "v3"
      <4>1. Known(e)
        BY <3>1 DEF Known
      <4> QED BY <2>2, <2>3, <4>1 DEF KeysInv, Near
    <3>2. CASE stored.format = "v2"
      BY <2>2, <2>3, <3>2, OldIsInFlight
    <3> QED BY <3>1, <3>2 DEF KeysInv, OldRow, TypeOK, Row
  <2>5. f.kek = Secret(p)
    BY <2>1, <2>4, InFlightTypes DEF Secret
  <2>6. f \in load[p].envs \/ f.created + Retention < load[p].start
    BY <2>1, <2>5 DEF KeysInv, SeenKept
  <2>7. ~(f.created + Retention < load[p].start)
    <3>1. expiry[e.kid] <= f.created + Retention
      BY <2>2, <2>3 DEF KeysInv, Cover
    <3>2. /\ expiry[e.kid] \in Nat /\ f.created \in Nat /\ Retention \in Nat
          /\ load[p].start \in Nat /\ now \in Nat /\ load[p].start <= now
      BY <2>1, <2>3, InFlightTypes, KeysetConstantsOK DEF KeysInv, TypeOK, Envelope
    <3> QED BY <3>1, <3>2
  <2> QED BY <2>1, <2>2, <2>6, <2>7
<1>4. CASE DeleteRow
  BY <1>4 DEF DeleteRow
<1>5. ASSUME ~(\E p \in Proc : Seed(p) \/ WriteRow(p)), ~DeleteRow PROVE stored' = stored
  BY <1>5 DEF Next, LoadStep, vars, BeginLoad, ReadRow, Reread, Serve, Abort,
              SignFromCache, Restart, Tick
<1> QED BY <1>1, <1>2, <1>3, <1>4, <1>5

\* As long as a token signed by a key is valid, no step takes the key out of the row,
\* apart from the operator and a load that had read the row before the key was there.
THEOREM LiveKeysAreKept == Spec => LiveKeysKept
<1>1. KeysInv /\ [Next]_vars =>
        [\A e \in stored.keys :
           /\ expiry[e.kid] > now
           /\ Settled(e.kid)
           /\ \A i \in Isolate : secret[i] = e.kek
           => stored' = Absent \/ \E f \in stored'.keys : f.kid = e.kid]_vars
  BY StepKeepsLiveKeys
<1> QED BY <1>1, KeysInvariant, PTL DEF Spec, LiveKeysKept

-----------------------------------------------------------------------------
(* When no loads overlap                                                   *)

\* No request is about to overwrite a row with a key it has not read, and the secret is
\* the one that sealed the row.
Calm == \A e \in stored.keys : Settled(e.kid) /\ \A i \in Isolate : secret[i] = e.kek

\* The ids of the keys in the row.
Ids == {e.kid : e \in stored.keys}

\* Every key that has valid tokens, and every key something may still sign with, is in
\* the row.
SignersStored ==
  /\ IssuedTokensVerify
  /\ \A i \in Isolate : Usable(i) => cache[i].active.kid \in Ids
  /\ \A p \in Proc : load[p].stage = "serve" => load[p].act.kid \in Ids

\* A write that has read everything in the row drops no key unless it is past retention.
LEMMA CalmWriteKeeps ==
  ASSUME KeysInv, Calm, NEW p \in Proc, WriteRow(p), NEW k, k \in Ids,
         \A f \in Envelope : Known(f) /\ f.kid = k => now <= f.created + Retention
  PROVE  k \in Ids'
<1>1. PICK e \in stored.keys : e.kid = k
  BY DEF Ids
<1>2. load[p].stage = "write" /\ stored'.keys = load[p].envs
  BY DEF WriteRow, StoredSet
<1>3. PICK f \in load[p].seen : f.kid = k
  BY <1>1, <1>2 DEF Calm, Settled
<1>4. f \in Envelope /\ Known(f) /\ e \in Envelope
  BY <1>2, InFlightTypes DEF Known, Load, KeysInv, TypeOK, Row
<1>5. f.kek = e.kek
  <2>1. CASE stored.format = "v3"
    <3>1. Known(e)
      BY <2>1 DEF Known
    <3> QED BY <1>1, <1>3, <1>4, <3>1 DEF KeysInv, Near
  <2>2. CASE stored.format = "v2"
    BY <1>1, <1>3, <1>4, <2>2, OldIsInFlight
  <2> QED BY <2>1, <2>2 DEF KeysInv, OldRow, TypeOK, Row
<1>6. f.kek = Secret(p)
  BY <1>2, <1>5, InFlightTypes DEF Secret, Calm
<1>7. f \in load[p].envs \/ f.created + Retention < load[p].start
  BY <1>2, <1>6 DEF KeysInv, SeenKept
<1>8. ~(f.created + Retention < load[p].start)
  <2>1. now <= f.created + Retention
    BY <1>3, <1>4
  <2>2. /\ f.created \in Nat /\ Retention \in Nat /\ now \in Nat
        /\ load[p].start \in Nat /\ load[p].start <= now
    BY <1>2, <1>4, InFlightTypes, KeysetConstantsOK DEF KeysInv, TypeOK, Envelope
  <2> QED BY <2>1, <2>2
<1> QED BY <1>2, <1>3, <1>7, <1>8 DEF Ids

\* A key that has valid tokens or may still sign is not past retention under any of
\* its dates.
LEMMA SignersAreYoung ==
  ASSUME KeysInv, NEW f \in Envelope, Known(f)
  PROVE  /\ expiry[f.kid] > now => now <= f.created + Retention
         /\ \A i \in Isolate : Usable(i) /\ cache[i].active.kid = f.kid =>
              now <= f.created + Retention
         /\ \A p \in Proc : load[p].stage = "serve" /\ load[p].act.kid = f.kid =>
              now <= f.created + Retention
<1>1. /\ now \in Nat /\ f.created \in Nat /\ f.kid \in Kid /\ expiry[f.kid] \in Nat
      /\ Rotation \in Nat /\ Retention \in Nat /\ CacheTTL \in Nat /\ Latency \in Nat
      /\ TokenTTL \in Nat /\ Rotation + CacheTTL + Latency + TokenTTL <= Retention
      /\ Latency <= CacheTTL
  BY KeysetConstantsOK DEF KeysInv, TypeOK, Envelope
<1>2. expiry[f.kid] <= f.created + Retention
  BY DEF KeysInv, Cover
<1>3. ASSUME NEW i \in Isolate, Usable(i), cache[i].active.kid = f.kid
      PROVE  now <= f.created + Retention
  <2> DEFINE a == cache[i].active
  <2>1. a \in cache[i].jwks /\ a \in Envelope /\ Known(a) /\ cache[i].expires \in Nat
        /\ cache[i].expires <= a.created + Rotation + CacheTTL /\ cache[i].expires > now
    <3>1. cache[i] \in CacheEntry /\ cache[i] # Empty
      BY <1>1, <1>3 DEF KeysInv, TypeOK, Usable, Empty
    <3>2. a \in cache[i].jwks /\ cache[i].expires <= a.created + Rotation + CacheTTL
      BY <3>1 DEF KeysInv, CacheOK, Actives, Opened
    <3>3. Known(a)
      BY <3>2 DEF Known
    <3> QED BY <1>3, <3>1, <3>2, <3>3 DEF CacheEntry, Usable
  <2>2. a.created <= f.created + Latency /\ a.created \in Nat
    BY <1>3, <2>1 DEF KeysInv, Near, Envelope
  <2> HIDE DEF a
  <2>3. cache[i].expires <= f.created + Latency + Rotation + CacheTTL
    BY <1>1, <2>1, <2>2
  <2> QED BY <1>1, <2>1, <2>3
<1>4. ASSUME NEW p \in Proc, load[p].stage = "serve", load[p].act.kid = f.kid
      PROVE  now <= f.created + Retention
  <2> DEFINE a == load[p].act
  <2>1. /\ a \in Envelope /\ Known(a) /\ load[p].start <= a.created + Rotation
        /\ load[p].start \in Nat /\ now <= load[p].start + Latency
    <3>1. load[p] \in Load /\ LoadOK(p)
      BY DEF KeysInv, TypeOK
    <3>2. a \in load[p].envs /\ load[p].start <= a.created + Rotation
      BY <1>4, <3>1 DEF LoadOK, Actives, Opened
    <3>3. Known(a)
      BY <3>2 DEF Known
    <3> QED BY <1>4, <3>1, <3>2, <3>3 DEF LoadOK, Load
  <2>2. a.created <= f.created + Latency /\ a.created \in Nat
    BY <1>4, <2>1 DEF KeysInv, Near, Envelope
  <2> HIDE DEF a
  <2> QED BY <1>1, <2>1, <2>2
<1> QED BY <1>1, <1>2, <1>3, <1>4

\* Under SignersStored, no calm step takes a key that has valid tokens, or that something
\* may still sign with, out of the row.
LEMMA CalmStepKeeps ==
  ASSUME KeysInv, ~ManualRotation, Calm, [Next]_vars, NEW k, k \in Ids,
         \/ k \in Kid /\ expiry[k] > now
         \/ \E i \in Isolate : Usable(i) /\ cache[i].active.kid = k
         \/ \E p \in Proc : load[p].stage = "serve" /\ load[p].act.kid = k
  PROVE  k \in Ids'
<1>1. CASE stored' = stored
  BY <1>1 DEF Ids
<1>2. ASSUME NEW p \in Proc, Seed(p) PROVE stored' = stored
  BY <1>2 DEF Seed, Ids, Absent
<1>3. ASSUME NEW p \in Proc, WriteRow(p) PROVE k \in Ids'
  <2>1. \A f \in Envelope : Known(f) /\ f.kid = k => now <= f.created + Retention
    BY SignersAreYoung
  <2> QED BY <1>3, <2>1, CalmWriteKeeps
<1>4. CASE DeleteRow
  BY <1>4 DEF DeleteRow
<1>5. ASSUME ~(\E p \in Proc : Seed(p) \/ WriteRow(p)), ~DeleteRow PROVE stored' = stored
  BY <1>5 DEF Next, LoadStep, vars, BeginLoad, ReadRow, Reread, Serve, Abort,
              SignFromCache, Restart, Tick
<1> QED BY <1>1, <1>2, <1>3, <1>4, <1>5

\* What a request may come to serve is in the row it has just read or written.
LEMMA ServedIsStored ==
  ASSUME KeysInv, NEW p \in Proc, ReadRow(p) \/ Reread(p) \/ WriteRow(p),
         load'[p].stage = "serve"
  PROVE  load'[p].act.kid \in Ids'
<1>1. load \in [Proc -> Load] /\ load[p] \in Load /\ LoadOK(p)
  BY DEF KeysInv, TypeOK
<1>2. CASE WriteRow(p)
  <2>1. load[p].stage = "write" /\ stored'.keys = load[p].envs /\ load'[p].act = load[p].act
    BY <1>1, <1>2 DEF WriteRow, StoredSet, Step, Load
  <2>2. load[p].act \in load[p].envs
    BY <1>1, <2>1 DEF LoadOK, Actives, Opened
  <2> QED BY <2>1, <2>2 DEF Ids
<1>3. ASSUME load[p].stage \in {"read", "reread"}, stored' = stored,
             NEW a \in Actives(Read(p), Secret(p)), NEW changed \in BOOLEAN,
             Settle(p, Read(p), a, changed)
      PROVE  load'[p].act.kid \in Ids'
  <2>1. PICK l \in Load : load' = [load EXCEPT ![p] = l] /\ SettledOn(p, l, changed)
    BY <1>3, SettleResult
  <2>2. load'[p] = l
    BY <1>1, <2>1
  <2>3. l.act \in Read(p)
    BY <2>1, <2>2 DEF SettledOn, Actives, Opened
  <2>4. \E e \in stored.keys : e.kid = l.act.kid
    <3>1. CASE l.act \in stored.keys
      BY <3>1
    <3>2. CASE FromOld(p, l.act)
      BY <3>2 DEF FromOld, KeysInv, TypeOK, Row, Envelope
    <3> QED BY <2>3, <3>1, <3>2, Parsed
  <2> QED BY <1>3, <2>2, <2>4 DEF Ids
<1>4. CASE ReadRow(p)
  <2>1. load[p].stage = "read" /\ stored' = stored
    BY <1>4 DEF ReadRow
  <2>2. \/ \E a \in Actives(Read(p), Secret(p)) : Settle(p, Read(p), a, Outdated(stored))
        \/ \E f : Step(p, [load[p] EXCEPT !.stage = "seed", !.act = f])
    BY <1>4 DEF ReadRow, Read
  <2>3. ASSUME NEW f, Step(p, [load[p] EXCEPT !.stage = "seed", !.act = f]) PROVE FALSE
    BY <1>1, <2>3 DEF Step, Load
  <2>4. Outdated(stored) \in BOOLEAN
    BY DEF Outdated
  <2> HIDE DEF Outdated
  <2> QED BY <1>3, <2>1, <2>2, <2>3, <2>4
<1>5. CASE Reread(p)
  <2>1. load[p].stage = "reread" /\ stored' = stored
    BY <1>5 DEF Reread
  <2> DEFINE l == [load[p] EXCEPT !.stage = "write", !.envs = {load[p].act},
                                  !.seen = Read(p)]
  <2>2. \/ \E a \in Actives(Read(p), Secret(p)) : Settle(p, Read(p), a, FALSE)
        \/ Step(p, l)
    BY <1>5 DEF Reread, Read
  <2>3. l.stage = "write"
    BY <1>1 DEF Load
  <2> HIDE DEF l
  <2>4. ~Step(p, l)
    BY <1>1, <2>3 DEF Step
  <2> QED BY <1>3, <2>1, <2>2, <2>4
<1> QED BY <1>2, <1>4, <1>5

\* A calm step keeps SignersStored.
LEMMA CalmStep ==
  ASSUME KeysInv, ~ManualRotation, Calm, SignersStored, [Next]_vars
  PROVE  SignersStored'
<1> USE DEF SignersStored
<1>1. /\ now \in Nat /\ cache \in [Isolate -> CacheEntry] /\ load \in [Proc -> Load]
      /\ expiry \in [Kid -> Nat] /\ (now' = now \/ now' = now + 1)
  <2>1. now' = now \/ now' = now + 1
    BY DEF Next, LoadStep, vars, BeginLoad, ReadRow, Seed, Reread, WriteRow, Serve, Abort,
           SignFromCache, Restart, DeleteRow, Tick
  <2> QED BY <2>1 DEF KeysInv, TypeOK
<1>2. ASSUME NEW k \in Kid, expiry[k] > now PROVE k \in Ids'
  <2>1. k \in Ids
    BY <1>2 DEF IssuedTokensVerify, Ids
  <2> QED BY <1>2, <2>1, CalmStepKeeps
<1>3. ASSUME NEW i \in Isolate, Usable(i) PROVE cache[i].active.kid \in Ids'
  <2> DEFINE k == cache[i].active.kid
  <2>1. k \in Ids
    BY <1>3
  <2> QED BY <1>3, <2>1, CalmStepKeeps
<1>4. ASSUME NEW p \in Proc, load[p].stage = "serve" PROVE load[p].act.kid \in Ids'
  <2> DEFINE k == load[p].act.kid
  <2>1. k \in Ids
    BY <1>4
  <2> QED BY <1>4, <2>1, CalmStepKeeps
<1>5. ASSUME NEW k \in Kid, expiry'[k] > now' PROVE k \in Ids'
  <2>1. CASE expiry[k] > now
    BY <1>2, <2>1
  <2>2. ASSUME ~(expiry[k] > now)
        PROVE  \/ \E p \in Proc : Serve(p) /\ k = load[p].act.kid
               \/ \E i \in Isolate : SignFromCache(i) /\ k = cache[i].active.kid
    <3>1. \/ \E p \in Proc : Serve(p) /\ Sign(load[p].act)
          \/ \E i \in Isolate : SignFromCache(i) /\ Sign(cache[i].active)
          \/ UNCHANGED expiry
          \/ expiry' = [j \in Kid |-> IF expiry[j] > now' THEN expiry[j] ELSE 0]
      BY DEF Next, LoadStep, vars, BeginLoad, ReadRow, Seed, Reread, WriteRow, Serve, Abort,
             SignFromCache, Restart, DeleteRow, Tick
    <3>2. \A e : Sign(e) => k = e.kid \/ expiry'[k] = expiry[k]
      BY <1>1 DEF Sign
    <3>3. expiry'[k] # expiry[k]
      BY <1>1, <1>5, <2>2
    <3>4. ~UNCHANGED expiry
      BY <3>3
    <3>5. expiry' # [j \in Kid |-> IF expiry[j] > now' THEN expiry[j] ELSE 0]
      BY <1>1, <1>5, <3>3
    <3> QED BY <3>1, <3>2, <3>3, <3>4, <3>5
  <2>3. ASSUME NEW p \in Proc, Serve(p), k = load[p].act.kid PROVE k \in Ids'
    BY <1>4, <2>3 DEF Serve
  <2>4. ASSUME NEW i \in Isolate, SignFromCache(i), k = cache[i].active.kid PROVE k \in Ids'
    BY <1>3, <2>4 DEF SignFromCache
  <2> QED BY <2>1, <2>2, <2>3, <2>4
<1>6. ASSUME NEW i \in Isolate, cache'[i].expires > now' PROVE cache'[i].active.kid \in Ids'
  <2>1. CASE cache'[i] = cache[i]
    <3>1. Usable(i)
      BY <1>1, <1>6, <2>1 DEF Usable, CacheEntry
    <3> QED BY <1>3, <2>1, <3>1
  <2>2. ASSUME cache'[i] # cache[i]
        PROVE  (\E p \in Proc : Serve(p) /\ cache'[i].active = load[p].act) \/ cache'[i] = Empty
    <3>1. \/ \E p \in Proc : Serve(p)
          \/ \E j \in Isolate : cache' = [cache EXCEPT ![j] = Empty]
          \/ UNCHANGED cache
      BY DEF Next, LoadStep, vars, BeginLoad, ReadRow, Seed, Reread, WriteRow, Abort,
             SignFromCache, Restart, DeleteRow, Tick
    <3>2. ASSUME NEW p \in Proc, Serve(p) PROVE cache'[i].active = load[p].act
      BY <1>1, <2>2, <3>2 DEF Serve
    <3>3. ASSUME NEW j \in Isolate, cache' = [cache EXCEPT ![j] = Empty] PROVE cache'[i] = Empty
      BY <1>1, <2>2, <3>3
    <3> QED BY <2>2, <3>1, <3>2, <3>3
  <2>3. cache'[i] # Empty
    BY <1>1, <1>6 DEF Empty
  <2>4. ASSUME NEW p \in Proc, Serve(p), cache'[i].active = load[p].act
        PROVE  cache'[i].active.kid \in Ids'
    BY <1>4, <2>4 DEF Serve
  <2> QED BY <2>1, <2>2, <2>3, <2>4
<1>7. ASSUME NEW p \in Proc, load'[p].stage = "serve" PROVE load'[p].act.kid \in Ids'
  <2>1. CASE load'[p] = load[p]
    BY <1>4, <1>7, <2>1
  <2>2. ASSUME load'[p] # load[p] PROVE ReadRow(p) \/ Reread(p) \/ WriteRow(p)
    <3>1. \/ \E q \in Proc : LoadStep(q) \/ \E i \in Isolate : BeginLoad(q, i)
          \/ \E i \in Isolate : load' = [q \in Proc |-> IF load[q].iso = i THEN Idle ELSE load[q]]
          \/ UNCHANGED load
      BY DEF Next, vars, SignFromCache, Restart, DeleteRow, Tick
    <3>2. ASSUME NEW q \in Proc, NEW l, l.stage # "serve" PROVE ~Step(q, l)
      BY <1>1, <1>7, <2>2, <3>2 DEF Step
    <3>3. ASSUME NEW q \in Proc, NEW l, Step(q, l) PROVE q = p
      BY <1>1, <2>2, <3>3 DEF Step
    <3>4. Idle.stage = "idle" /\ load'[p] # Idle
      BY <1>7 DEF Idle
    <3>5. ASSUME NEW q \in Proc PROVE ~Seed(q) /\ ~Serve(q) /\ ~Abort(q)
      <4>1. [load[q] EXCEPT !.stage = "reread"].stage # "serve"
        BY <1>1 DEF Load
      <4> QED BY <3>2, <3>4, <4>1 DEF Seed, Serve, Abort
    <3>6. ASSUME NEW q \in Proc, NEW i \in Isolate PROVE ~BeginLoad(q, i)
      <4>1. [Idle EXCEPT !.stage = "read", !.iso = i, !.start = now].stage # "serve"
        BY DEF Idle
      <4> QED BY <3>2, <4>1 DEF BeginLoad
    <3>7. ASSUME NEW q \in Proc, ReadRow(q) \/ Reread(q) \/ WriteRow(q) PROVE q = p
      BY <3>3, <3>7 DEF ReadRow, Reread, WriteRow, Settle
    <3> QED BY <1>1, <2>2, <3>1, <3>4, <3>5, <3>6, <3>7 DEF LoadStep
  <2> QED BY <1>7, <2>1, <2>2, ServedIsStored
<1> QED BY <1>5, <1>6, <1>7 DEF IssuedTokensVerify, Ids, Usable

\* The claim of the comment on rotation, under what it takes to hold: nobody deletes the
\* row, the secret stays, and no load that read an older row writes over a newer one.
\* Rotation, pruning, migration of old rows, failures and restarts then never lose a key
\* before its last token has expired.
THEOREM TokensVerifyWhenCalm ==
  ASSUME ~ManualRotation
  PROVE  Spec /\ []Calm => []IssuedTokensVerify
<1>1. Init => SignersStored
  <2> SUFFICES ASSUME Init PROVE SignersStored
    OBVIOUS
  <2>1. \A i \in Isolate : ~Usable(i)
    BY DEF Init, Usable, Empty
  <2>2. \A p \in Proc : load[p].stage # "serve"
    BY DEF Init, Idle
  <2>3. IssuedTokensVerify
    BY DEF Init, IssuedTokensVerify
  <2> QED BY <2>1, <2>2, <2>3 DEF SignersStored
<1>2. KeysInv /\ Calm /\ SignersStored /\ [Next]_vars => SignersStored'
  BY CalmStep
<1>3. SignersStored => IssuedTokensVerify
  BY DEF SignersStored
<1> QED BY <1>1, <1>2, <1>3, KeysInvariant, PTL DEF Spec
=============================================================================
