---------------------------- MODULE GatewayProofs ----------------------------
(***************************************************************************)
(* The gateway's server, for any requests, environments, limits and        *)
(* connections.  A handler is an operator, so most of the argument is      *)
(* about outcomes: Fine says what every path through a request leaves      *)
(* behind, and one lemma per layer (gates, cache, handlers, JSON-RPC)      *)
(* passes it on.  The invariant adds what the history variables say of the *)
(* server: every acknowledged key is in the cache, and runs that paired    *)
(* are the reason that the code is used.                                   *)
(***************************************************************************)
EXTENDS Gateway, SequenceTheorems, FiniteSetTheorems, WellFoundedInduction, TLAPS

LEMMA LeastOf ==
    ASSUME NEW T, T \subseteq Nat, T # {}
    PROVE  Min(T) \in T
<1>1. PICK m \in T : \A y \in T : ~ (<<y, m>> \in OpToRel(<, Nat))
    BY NatLessThanWellFounded, WFMin
<1>2. ASSUME NEW y \in T PROVE m <= y
  <2>1. y \in Nat /\ m \in Nat
      OBVIOUS
  <2>2. ~(y < m)
      BY <1>1, <2>1 DEF OpToRel
  <2> QED
      BY <2>1, <2>2
<1> QED
    BY <1>2 DEF Min

-----------------------------------------------------------------------------
(* A server between two steps of a request.                                *)
ServerFields ==
    {"running", "listening", "token", "used", "reqAt", "reqN", "pairAt", "pairN", "sessions",
     "events", "idem", "wsq", "cfg", "acp"}

SessionsSound(ss) ==
    /\ \E S : ss \in Seq(S)
    /\ \A i \in DOMAIN ss : DOMAIN ss[i] = {"id", "state", "abort", "out"} /\ ss[i].state \in SessionStates
    /\ \A i, j \in DOMAIN ss : i # j => ss[i].id # ss[j].id

(* Only successes are in the cache, and none without a key.                *)
CacheSound(c) ==
    /\ \E S : c \in Seq(S)
    /\ \A i \in DOMAIN c : c[i].code \in 200..299 /\ c[i].key # Empty

Cached(g) == {g.idem[i].key : i \in DOMAIN g.idem}

TokenSound(g) ==
    g.token = IF g.used /\ InitialToken = NoToken THEN "generated" ELSE InitialToken

GoodServer(g) ==
    /\ DOMAIN g = ServerFields
    /\ g.running \in BOOLEAN /\ g.listening \in BOOLEAN /\ g.used \in BOOLEAN
    /\ g.reqN \in 0..RateLimit /\ g.pairN \in 0..PairLimit /\ g.wsq \in Nat
    /\ SessionsSound(g.sessions) /\ CacheSound(g.idem) /\ TokenSound(g)

(* An outcome of a layer in which no handler was counted yet.              *)
OutFields == {"g", "code", "body", "ran", "acks"}

Bare(g, o) ==
    /\ DOMAIN o = OutFields /\ o.code \in Nat /\ o.ran = <<>> /\ o.acks = {}
    /\ GoodServer(o.g) /\ o.g.events = g.events /\ o.g.wsq = g.wsq /\ o.g.idem = g.idem
    /\ g.used => o.g.used

LEMMA BareOut ==
    ASSUME NEW g, NEW h, GoodServer(h), h.events = g.events, h.wsq = g.wsq, h.idem = g.idem, g.used => h.used,
           NEW code \in Nat, NEW body
    PROVE  /\ Bare(g, Out(h, code, body)) /\ Out(h, code, body).code = code
           /\ Bare(g, Say(h, code, body)) /\ Say(h, code, body).code = code
<1>1. ASSUME NEW b, NEW o, o = Out(h, code, b) PROVE Bare(g, o) /\ o.code = code
  <2>1. /\ DOMAIN o = OutFields /\ o.g = h /\ o.code = code /\ o.ran = <<>> /\ o.acks = {}
      BY <1>1 DEF Out, OutFields
  <2> QED
      BY <2>1 DEF Bare
<1>2. Say(h, code, body) = Out(h, code, <<body>>)
    BY DEF Say
<1> QED
    BY <1>1, <1>2

(* enforce_gates counts at most up to the limits and touches nothing else. *)
LEMMA GatesPass ==
    ASSUME NEW g, GoodServer(g), NEW r, NEW q
    PROVE  Bare(g, EnforceGates(g, r, q))
<1> DEFINE pg == IF WindowOver(g.pairAt) THEN [g EXCEPT !.pairAt = clock, !.pairN = 0] ELSE g
           rg == IF WindowOver(g.reqAt) THEN [g EXCEPT !.reqAt = clock, !.reqN = 0] ELSE g
           pn == [pg EXCEPT !.pairN = @ + 1]
           rn == [rg EXCEPT !.reqN = @ + 1]
           Kept(h) == /\ GoodServer(h) /\ h.events = g.events /\ h.wsq = g.wsq /\ h.idem = g.idem
                      /\ h.used = g.used
<1>0. RateLimit \in Nat \ {0} /\ PairLimit \in Nat \ {0}
    BY GatewayLimits
<1>1. Kept(g)
    OBVIOUS
<1>2. Kept(pg)
    BY <1>0 DEF GoodServer, ServerFields, TokenSound
<1>3. Kept(rg)
    BY <1>0 DEF GoodServer, ServerFields, TokenSound
<1>4. ~(pg.pairN >= PairLimit) => Kept(pn)
  <2>1. PICK h : h = pg
      OBVIOUS
  <2>2. ~(h.pairN >= PairLimit) => h.pairN + 1 \in 0..PairLimit
      BY <1>0, <1>2, <2>1 DEF GoodServer
  <2>3. ASSUME ~(h.pairN >= PairLimit) PROVE Kept([h EXCEPT !.pairN = h.pairN + 1])
      BY <1>2, <2>1, <2>2, <2>3 DEF GoodServer, ServerFields, TokenSound
  <2> QED
      BY <2>1, <2>3
<1>5. ~(rg.reqN >= RateLimit) => Kept(rn)
  <2>1. PICK h : h = rg
      OBVIOUS
  <2>2. ~(h.reqN >= RateLimit) => h.reqN + 1 \in 0..RateLimit
      BY <1>0, <1>3, <2>1 DEF GoodServer
  <2>3. ASSUME ~(h.reqN >= RateLimit) PROVE Kept([h EXCEPT !.reqN = h.reqN + 1])
      BY <1>3, <2>1, <2>2, <2>3 DEF GoodServer, ServerFields, TokenSound
  <2> QED
      BY <2>1, <2>3
<1> DEFINE o == EnforceGates(g, r, q)
<1>6. \/ \E code \in {503, 413, 401} : \E t : o = Say(g, code, t)
      \/ \E t : o = Say(pg, 429, t) \/ o = Say(rg, 429, t)
      \/ ~(pg.pairN >= PairLimit) /\ \E code \in {0, 409} : \E t : o = Say(pn, code, t)
      \/ ~(rg.reqN >= RateLimit) /\ \E code \in {0, 409} : \E t : o = Say(rn, code, t)
    BY DEF EnforceGates
<1> HIDE DEF pg, rg, pn, rn, o
<1>7. ASSUME NEW h, Kept(h), NEW code \in Nat, NEW t PROVE Bare(g, Say(h, code, t))
    BY <1>7, BareOut, Zenon
<1> HIDE DEF Kept
<1>8. Bare(g, o)
    BY <1>1, <1>2, <1>3, <1>4, <1>5, <1>6, <1>7
<1> QED
    BY <1>8 DEF o

-----------------------------------------------------------------------------
(* What the cache finds: the entry of the key, if there is one.            *)
LEMMA FindsKey ==
    ASSUME NEW g, CacheSound(g.idem), NEW key, NEW hit, hit = IdempotencyFind(g, key)
    PROVE  /\ hit = 0 => key \notin Cached(g)
           /\ hit # 0 => hit \in DOMAIN g.idem /\ g.idem[hit].key = key
<1>0. PICK c : c = g.idem
    OBVIOUS
<1>1. PICK n \in Nat : n = Len(c) /\ DOMAIN c = 1..n
    BY <1>0, LenProperties DEF CacheSound
<1>2. PICK I : I = {i \in 1..n : c[i].key = key}
    OBVIOUS
<1>3. hit = IF I # {} THEN Min(I) ELSE 0
    BY <1>0, <1>1, <1>2, Zenon DEF IdempotencyFind, SelectInSeq
<1>4. CASE I = {}
  <2>1. hit = 0
      BY <1>3, <1>4
  <2>2. \A i \in DOMAIN c : c[i].key # key
      BY <1>1, <1>2, <1>4
  <2> QED
      BY <1>0, <2>1, <2>2 DEF Cached
<1>5. CASE I # {}
  <2>1. I \subseteq Nat
      BY <1>2
  <2>2. hit \in I
      BY <1>3, <1>5, <2>1, LeastOf
  <2>3. hit \in 1..n /\ c[hit].key = key /\ hit # 0
      BY <1>2, <2>2
  <2> QED
      BY <1>0, <1>1, <2>3
<1> QED
    BY <1>4, <1>5

(* The empty key is nobody's.                                              *)
LEMMA EmptyNotCached ==
    ASSUME NEW g, CacheSound(g.idem)
    PROVE  Empty \notin Cached(g)
BY DEF CacheSound, Cached

(* Before the handler nothing has happened, and if it is to run then its   *)
(* key was never answered with a success.                                  *)
LEMMA BeforeRuns ==
    ASSUME NEW g, GoodServer(g), NEW q
    PROVE  /\ Bare(g, BeforeHandler(g, q))
           /\ BeforeHandler(g, q).code = 0 => RouteFor(q) # {} /\ KeyOf(q) \notin Cached(g)
<1>1. CASE RouteFor(q) = {}
  <2>1. PICK code \in {404, 405} : BeforeHandler(g, q) = Say(g, code, "no_route")
      BY <1>1 DEF BeforeHandler
  <2>2. Bare(g, Say(g, code, "no_route")) /\ Say(g, code, "no_route").code = code
      BY BareOut
  <2> QED
      BY <2>1, <2>2
<1>2. CASE RouteFor(q) # {}
  <2>1. PICK gate : gate = EnforceGates(g, CHOOSE r \in RouteFor(q) : TRUE, q)
      OBVIOUS
  <2>2. PICK hit : hit = IdempotencyFind(gate.g, q.key)
      OBVIOUS
  <2>3. Bare(g, gate)
      BY <2>1, GatesPass
  <2>4. GoodServer(gate.g) /\ CacheSound(gate.g.idem) /\ gate.g.idem = g.idem /\ CacheSound(g.idem)
      BY <2>3 DEF Bare, GoodServer
  <2>5. /\ hit = 0 => q.key \notin Cached(g)
        /\ hit # 0 => hit \in DOMAIN g.idem
    <3>1. Cached(gate.g) = Cached(g)
        BY <2>4 DEF Cached
    <3> QED
        BY <2>2, <2>4, <3>1, FindsKey
  <2>6. BeforeHandler(g, q) =
            IF gate.code = 0 /\ Keyed(q) /\ hit # 0
            THEN Out(gate.g, gate.g.idem[hit].code, gate.g.idem[hit].body) ELSE gate
      BY <1>2, <2>1, <2>2 DEF BeforeHandler
  <2>7. CASE gate.code = 0 /\ Keyed(q) /\ hit # 0
    <3>0. PICK body : body = gate.g.idem[hit].body
        OBVIOUS
    <3>1. PICK code \in 200..299 : code = gate.g.idem[hit].code
        BY <2>4, <2>5, <2>7 DEF CacheSound
    <3>2. Bare(g, Out(gate.g, code, body)) /\ Out(gate.g, code, body).code = code
      <4>1. code \in Nat
          OBVIOUS
      <4> QED
          BY <2>3, <4>1, BareOut DEF Bare
    <3> QED
        BY <2>6, <2>7, <3>0, <3>1, <3>2
  <2>8. CASE ~(gate.code = 0 /\ Keyed(q) /\ hit # 0)
    <3>1. BeforeHandler(g, q) = gate
        BY <2>6, <2>8
    <3>2. gate.code = 0 => KeyOf(q) \notin Cached(g)
      <4>1. CASE Keyed(q)
          BY <2>5, <2>8, <4>1 DEF Keyed, KeyOf
      <4>2. CASE ~Keyed(q)
          BY <2>4, <4>2, EmptyNotCached DEF Keyed
      <4> QED
          BY <4>1, <4>2
    <3> QED
        BY <1>2, <2>3, <3>1, <3>2
  <2> QED
      BY <2>7, <2>8
<1> QED
    BY <1>1, <1>2

-----------------------------------------------------------------------------
(* Sessions.                                                               *)
SessionFields == {"id", "state", "abort", "out"}

(* h is g but for its sessions.                                            *)
OtherSessions(g, h) ==
    /\ DOMAIN h = ServerFields
    /\ \A f \in ServerFields \ {"sessions"} : h[f] = g[f]

LEMMA OtherGood ==
    ASSUME NEW g, GoodServer(g), NEW h, OtherSessions(g, h), SessionsSound(h.sessions)
    PROVE  GoodServer(h) /\ h.events = g.events /\ h.wsq = g.wsq /\ h.idem = g.idem /\ h.used = g.used
<1>1. /\ h.running = g.running /\ h.listening = g.listening /\ h.token = g.token /\ h.used = g.used
      /\ h.reqN = g.reqN /\ h.pairN = g.pairN /\ h.events = g.events /\ h.idem = g.idem /\ h.wsq = g.wsq
      /\ DOMAIN h = ServerFields
    BY DEF OtherSessions, ServerFields
<1> QED
    BY <1>1 DEF GoodServer, TokenSound

(* One session changes, but not its id.                                    *)
LEMMA OneChanged ==
    ASSUME NEW ss, SessionsSound(ss), NEW n \in DOMAIN ss, NEW e,
           DOMAIN e = SessionFields, e.id = ss[n].id, e.state \in SessionStates,
           NEW tt, tt = [ss EXCEPT ![n] = e]
    PROVE  SessionsSound(tt)
<1>1. PICK S : ss \in Seq(S)
    BY DEF SessionsSound
<1>2. ss \in Seq(S \cup {e}) /\ n \in 1..Len(ss) /\ DOMAIN ss = 1..Len(ss)
    BY <1>1, SeqMonotonic, LenProperties
<1>3. tt \in Seq(S \cup {e})
    BY <1>2, ExceptSeq
<1>4. DOMAIN tt = DOMAIN ss /\ tt[n] = e /\ \A i \in DOMAIN ss : i # n => tt[i] = ss[i]
    OBVIOUS
<1>5. \A i \in DOMAIN ss : tt[i].id = ss[i].id
    BY <1>4
<1> QED
    BY <1>3, <1>4, <1>5 DEF SessionsSound, SessionFields

LEMMA FoundSession ==
    ASSUME NEW g, SessionsSound(g.sessions), NEW id, id \in SessionIds(g)
    PROVE  SessionOf(g, id) \in DOMAIN g.sessions /\ g.sessions[SessionOf(g, id)].id = id
<1>0. PICK c : c = g.sessions
    OBVIOUS
<1>1. PICK n \in Nat : n = Len(c) /\ DOMAIN c = 1..n
    BY <1>0, LenProperties DEF SessionsSound
<1>2. PICK I : I = {i \in 1..n : c[i].id = id}
    OBVIOUS
<1>3. SessionOf(g, id) = IF I # {} THEN Min(I) ELSE 0
    BY <1>0, <1>1, <1>2, Zenon DEF SessionOf, SelectInSeq
<1>4. I # {} /\ I \subseteq Nat
    BY <1>0, <1>1, <1>2 DEF SessionIds
<1>5. SessionOf(g, id) \in I
    BY <1>3, <1>4, LeastOf
<1> QED
    BY <1>0, <1>1, <1>2, <1>5

LEMMA GetOrCreate ==
    ASSUME NEW g, GoodServer(g), NEW id, NEW h, h = WithSession(g, id)
    PROVE  /\ OtherSessions(g, h) /\ SessionsSound(h.sessions)
           /\ id \in SessionIds(h)
<1>1. CASE id \in SessionIds(g)
  <2>1. h = g
      BY <1>1 DEF WithSession
  <2> QED
      BY <1>1, <2>1 DEF GoodServer, OtherSessions
<1>2. CASE id \notin SessionIds(g)
  <2>1. PICK e : e = [id |-> id, state |-> "idle", abort |-> FALSE, out |-> Empty]
      OBVIOUS
  <2>2. DOMAIN e = SessionFields /\ e.id = id /\ e.state \in SessionStates
      BY <2>1 DEF SessionFields, SessionStates
  <2>3. h = [g EXCEPT !.sessions = Append(g.sessions, e)]
      BY <1>2, <2>1 DEF WithSession
  <2>4. OtherSessions(g, h) /\ h.sessions = Append(g.sessions, e)
      BY <2>3 DEF GoodServer, OtherSessions, ServerFields
  <2>5. PICK S : g.sessions \in Seq(S)
      BY DEF GoodServer, SessionsSound
  <2>6. PICK n \in Nat : n = Len(g.sessions) /\ DOMAIN g.sessions = 1..n
      BY <2>5, LenProperties
  <2>7. PICK ss, tt : ss = g.sessions /\ tt = h.sessions
      OBVIOUS
  <2>8. /\ tt \in Seq(S \cup {e}) /\ Len(tt) = n + 1 /\ tt[n + 1] = e /\ \A i \in 1..n : tt[i] = ss[i]
    <3>1. ss \in Seq(S \cup {e}) /\ e \in S \cup {e} /\ tt = Append(ss, e) /\ n = Len(ss)
        BY <2>4, <2>5, <2>6, <2>7, SeqMonotonic
    <3> QED
        BY <3>1, AppendProperties
  <2>9. DOMAIN tt = 1..(n + 1)
      BY <2>8, LenProperties
  <2>10. SessionsSound(ss) /\ DOMAIN ss = 1..n /\ \A i \in 1..n : ss[i].id # id
      BY <1>2, <2>6, <2>7 DEF GoodServer, SessionIds
  <2>11. ASSUME NEW i \in 1..(n + 1)
         PROVE  /\ DOMAIN tt[i] = SessionFields /\ tt[i].state \in SessionStates
                /\ i \in 1..n => tt[i].id = ss[i].id
                /\ i \notin 1..n => i = n + 1 /\ tt[i].id = id
    <3>1. CASE i = n + 1
        BY <2>2, <2>8, <3>1
    <3>2. CASE i # n + 1
      <4>1. i \in 1..n
          BY <3>2
      <4> QED
          BY <2>8, <2>10, <4>1 DEF SessionsSound, SessionFields
    <3> QED
        BY <3>1, <3>2
  <2>12. ASSUME NEW i \in 1..(n + 1), NEW j \in 1..(n + 1), i # j PROVE tt[i].id # tt[j].id
    <3>1. CASE i \in 1..n /\ j \in 1..n
        BY <2>10, <2>11, <2>12, <3>1 DEF SessionsSound
    <3>2. CASE i \notin 1..n \/ j \notin 1..n
        BY <2>10, <2>11, <2>12, <3>2
    <3> QED
        BY <3>1, <3>2
  <2>13. SessionsSound(tt)
      BY <2>8, <2>9, <2>11, <2>12 DEF SessionsSound, SessionFields
  <2>14. id \in SessionIds(h)
    <3>1. n + 1 \in DOMAIN tt /\ tt[n + 1].id = id
        BY <2>2, <2>8, <2>9
    <3> QED
        BY <2>7, <3>1 DEF SessionIds
  <2> QED
      BY <2>4, <2>7, <2>13, <2>14
<1> QED
    BY <1>1, <1>2

(* One session goes, the ones behind it move up.                           *)
LEMMA OneRemoved ==
    ASSUME NEW ss, SessionsSound(ss), NEW n \in DOMAIN ss, NEW tt, tt = RemoveAt(ss, n)
    PROVE  SessionsSound(tt)
<1>1. PICK S : ss \in Seq(S)
    BY DEF SessionsSound
<1>2. PICK k \in Nat : k = Len(ss) /\ DOMAIN ss = 1..k /\ \A i \in 1..k : ss[i] \in S
    BY <1>1, LenProperties, ElementOfSeq
<1>3. n \in 1..k
    BY <1>2
<1>4. PICK a, b : a = SubSeq(ss, 1, n - 1) /\ b = SubSeq(ss, n + 1, k)
    OBVIOUS
<1>5. a \in Seq(S) /\ Len(a) = n - 1 /\ \A i \in 1..(n - 1) : a[i] = ss[i]
  <2>1. 1 \in Int /\ n - 1 \in Int /\ \A i \in 1..(n - 1) : ss[i] \in S
      BY <1>2, <1>3
  <2>2. /\ a \in Seq(S) /\ Len(a) = IF 1 <= n - 1 THEN n - 1 - 1 + 1 ELSE 0
        /\ \A i \in 1 .. n - 1 - 1 + 1 : a[i] = ss[1 + i - 1]
      BY <1>4, <2>1, SubSeqProperties
  <2> QED
      BY <1>3, <2>2
<1>6. b \in Seq(S) /\ Len(b) = k - n /\ \A i \in 1..(k - n) : b[i] = ss[n + i]
  <2>1. n + 1 \in Int /\ k \in Int /\ \A i \in (n + 1)..k : ss[i] \in S
      BY <1>2, <1>3
  <2>2. /\ b \in Seq(S) /\ Len(b) = IF n + 1 <= k THEN k - (n + 1) + 1 ELSE 0
        /\ \A i \in 1 .. k - (n + 1) + 1 : b[i] = ss[n + 1 + i - 1]
      BY <1>4, <2>1, SubSeqProperties
  <2>3. k - (n + 1) + 1 = k - n /\ (n + 1 <= k \/ k - n = 0) /\ \A i \in 1..(k - n) : n + 1 + i - 1 = n + i
      BY <1>3
  <2>4. Len(b) = k - n
      BY <2>2, <2>3
  <2>5. ASSUME NEW i \in 1..(k - n) PROVE b[i] = ss[n + i]
      BY <2>2, <2>3
  <2> QED
      BY <2>2, <2>4, <2>5
<1>7. tt = a \o b
    BY <1>2, <1>4 DEF RemoveAt
<1>8. /\ tt \in Seq(S) /\ Len(tt) = n - 1 + (k - n)
      /\ \A i \in 1..(n - 1 + (k - n)) : tt[i] = IF i <= n - 1 THEN a[i] ELSE b[i - (n - 1)]
  <2>1. /\ a \o b \in Seq(S) /\ Len(a \o b) = Len(a) + Len(b)
        /\ \A i \in 1..(Len(a) + Len(b)) : (a \o b)[i] = IF i <= Len(a) THEN a[i] ELSE b[i - Len(a)]
      BY <1>5, <1>6, ConcatProperties
  <2>2. Len(a) = n - 1 /\ Len(b) = k - n
      BY <1>5, <1>6
  <2> QED
      BY <1>7, <2>1, <2>2
<1>9. DOMAIN tt = 1..(k - 1)
    BY <1>3, <1>8, LenProperties
<1> DEFINE at(i) == IF i < n THEN i ELSE i + 1
<1>10. ASSUME NEW i \in 1..(k - 1) PROVE at(i) \in 1..k /\ tt[i] = ss[at(i)]
  <2>1. tt[i] = IF i <= n - 1 THEN a[i] ELSE b[i - (n - 1)]
      BY <1>3, <1>8
  <2>2. CASE i < n
    <3>1. i <= n - 1 /\ i \in 1..(n - 1) /\ at(i) = i /\ i \in 1..k
        BY <1>3, <2>2
    <3> QED
        BY <1>5, <2>1, <3>1
  <2>3. CASE ~(i < n)
    <3>1. ~(i <= n - 1) /\ i - (n - 1) \in 1..(k - n) /\ at(i) = i + 1 /\ i + 1 \in 1..k /\ n + (i - (n - 1)) = i + 1
        BY <1>3, <2>3
    <3> QED
        BY <1>6, <2>1, <3>1
  <2> QED
      BY <2>2, <2>3
<1>11. \A i, j \in 1..(k - 1) : i # j => at(i) # at(j)
    BY <1>3
<1> HIDE DEF at
<1>12. ASSUME NEW i \in DOMAIN tt
       PROVE  DOMAIN tt[i] = SessionFields /\ tt[i].state \in SessionStates
    BY <1>2, <1>9, <1>10 DEF SessionsSound, SessionFields
<1>13. ASSUME NEW i \in DOMAIN tt, NEW j \in DOMAIN tt, i # j PROVE tt[i].id # tt[j].id
    BY <1>2, <1>9, <1>10, <1>11, <1>13 DEF SessionsSound
<1> QED
    BY <1>8, <1>12, <1>13 DEF SessionsSound, SessionFields

LEMMA Removes ==
    ASSUME NEW g, GoodServer(g), NEW id, NEW h, h = SessionRemove(g, id)
    PROVE  OtherSessions(g, h) /\ SessionsSound(h.sessions)
<1>1. PICK ss : ss = g.sessions
    OBVIOUS
<1>2. PICK tt : tt = RemoveFirstMatch(ss, LAMBDA s : s.id = id)
    OBVIOUS
<1>3. h = [g EXCEPT !.sessions = tt]
    BY <1>1, <1>2 DEF SessionRemove
<1>4. OtherSessions(g, h) /\ h.sessions = tt
    BY <1>3 DEF GoodServer, OtherSessions, ServerFields
<1>5. SessionsSound(ss)
    BY <1>1 DEF GoodServer
<1>6. PICK n \in Nat : n = Len(ss) /\ DOMAIN ss = 1..n
    BY <1>5, LenProperties DEF SessionsSound
<1>7. tt = IF \E i \in 1..n : ss[i].id = id THEN RemoveAt(ss, SessionOf(g, id)) ELSE ss
    BY <1>1, <1>2, <1>6, Zenon DEF RemoveFirstMatch, SessionOf
<1>8. (\E i \in 1..n : ss[i].id = id) => SessionOf(g, id) \in DOMAIN ss
    BY <1>1, <1>5, <1>6, FoundSession DEF SessionIds
<1>9. SessionsSound(tt)
    BY <1>5, <1>7, <1>8, OneRemoved
<1> QED
    BY <1>4, <1>9

-----------------------------------------------------------------------------
(* The handlers: none touches the cache, the events or the queue.          *)

LEMMA PairRuns ==
    ASSUME NEW g, GoodServer(g), NEW q
    PROVE  Bare(g, HandlePair(g, q))
<1>1. PICK t : t = IF g.token = NoToken THEN "generated" ELSE g.token
    OBVIOUS
<1>2. PICK h : h = [g EXCEPT !.token = t, !.used = TRUE]
    OBVIOUS
<1>3. \/ \E code \in {401, 409} : \E text : HandlePair(g, q) = Say(g, code, text)
      \/ ~g.used /\ HandlePair(g, q) = Say(h, 200, t)
  <2>1. CASE q.body # "code" \/ PairingExpired(g) \/ g.used
      BY <2>1 DEF HandlePair
  <2>2. CASE q.body = "code" /\ ~PairingExpired(g) /\ ~g.used
      BY <1>1, <1>2, <2>2 DEF HandlePair
  <2> QED
      BY <2>1, <2>2
<1>4. ~g.used => GoodServer(h) /\ h.events = g.events /\ h.wsq = g.wsq /\ h.idem = g.idem /\ h.used
  <2>1. /\ DOMAIN h = ServerFields /\ h.token = t /\ h.used = TRUE /\ h.running = g.running
        /\ h.listening = g.listening /\ h.reqN = g.reqN /\ h.pairN = g.pairN /\ h.wsq = g.wsq
        /\ h.sessions = g.sessions /\ h.idem = g.idem /\ h.events = g.events
      BY <1>2 DEF GoodServer, ServerFields
  <2>2. ~g.used => TokenSound(h)
      BY <1>1, <2>1 DEF GoodServer, TokenSound
  <2> QED
      BY <2>1, <2>2 DEF GoodServer
<1>5. ASSUME NEW code \in {401, 409}, NEW text PROVE Bare(g, Say(g, code, text))
    BY BareOut
<1>6. ~g.used => Bare(g, Say(h, 200, t))
    BY <1>4, BareOut
<1> QED
    BY <1>3, <1>5, <1>6

(* g with changed sessions makes a fine server for an answer.              *)
LEMMA BareOther ==
    ASSUME NEW g, GoodServer(g), NEW h, OtherSessions(g, h), SessionsSound(h.sessions), NEW code \in Nat, NEW text
    PROVE  Bare(g, Say(h, code, text))
BY OtherGood, BareOut

LEMMA ChatRuns ==
    ASSUME NEW g, GoodServer(g), NEW q, NEW env \in Envs
    PROVE  Bare(g, HandleChat(g, q, env))
<1>1. PICK id : id = ChatSession(q)
    OBVIOUS
<1>2. PICK h : h = WithSession(g, id)
    OBVIOUS
<1>3. OtherSessions(g, h) /\ SessionsSound(h.sessions) /\ id \in SessionIds(h)
    BY <1>2, GetOrCreate
<1>4. PICK n : n = SessionOf(h, id)
    OBVIOUS
<1>5. n \in DOMAIN h.sessions
    BY <1>3, <1>4, FoundSession
<1>6. PICK e : e = h.sessions[n]
    OBVIOUS
<1>7. DOMAIN e = SessionFields /\ DOMAIN h = ServerFields
    BY <1>3, <1>5, <1>6 DEF SessionsSound, SessionFields, OtherSessions
<1> DEFINE ends(state, out) == SessionEnds(h, n, state, out)
<1>8. HandleChat(g, q, env) = ChatTurn(h, n, q, env)
    BY <1>1, <1>2, <1>4, Zenon DEF HandleChat
<1>9. \/ ChatTurn(h, n, q, env) = Say(h, 409, "session_aborted")
      \/ ChatTurn(h, n, q, env) = Say(ends("idle", q.body), 200, q.body)
      \/ ChatTurn(h, n, q, env) = Say(ends("aborted", h.sessions[n].out), 499, "chat_failed")
      \/ ChatTurn(h, n, q, env) = Say(ends("idle", h.sessions[n].out), 500, "chat_failed")
  <2>1. env.turn \in {"ok", "cancelled", "failed"}
      BY EnvsAssumption
  <2> QED
      BY <2>1 DEF ChatTurn
<1>10. ASSUME NEW state \in SessionStates, NEW out
       PROVE  OtherSessions(g, ends(state, out)) /\ SessionsSound(ends(state, out).sessions)
  <2>1. PICK d : d = [e EXCEPT !.state = state, !.out = out]
      OBVIOUS
  <2>2. DOMAIN d = SessionFields /\ d.id = e.id /\ d.state \in SessionStates
      BY <1>7, <2>1 DEF SessionFields
  <2>3. PICK tt : tt = [h.sessions EXCEPT ![n] = d]
      OBVIOUS
  <2>4. SessionsSound(tt)
      BY <1>3, <1>5, <1>6, <2>2, <2>3, OneChanged
  <2>5. PICK x : x = ends(state, out)
      OBVIOUS
  <2>6. x = [h EXCEPT !.sessions = tt]
      BY <1>6, <2>1, <2>3, <2>5 DEF SessionEnds
  <2>7. x.sessions = tt /\ OtherSessions(h, x)
      BY <1>7, <2>6 DEF OtherSessions, ServerFields
  <2> HIDE DEF ends
  <2> QED
      BY <1>3, <2>4, <2>5, <2>7 DEF OtherSessions
<1> HIDE DEF ends
<1>11. ASSUME NEW state \in SessionStates, NEW out, NEW code \in {200, 499, 500}, NEW text
       PROVE  Bare(g, Say(ends(state, out), code, text))
  <2>1. OtherSessions(g, ends(state, out)) /\ SessionsSound(ends(state, out).sessions) /\ code \in Nat
      BY <1>10
  <2> QED
      BY <2>1, BareOther
<1>12. Bare(g, Say(h, 409, "session_aborted"))
    BY <1>3, BareOther
<1>13. "idle" \in SessionStates /\ "aborted" \in SessionStates
    BY DEF SessionStates
<1> QED
    BY <1>8, <1>9, <1>11, <1>12, <1>13

LEMMA AbortRuns ==
    ASSUME NEW g, GoodServer(g), NEW q
    PROVE  Bare(g, HandleAbort(g, q)) /\ Bare(g, HandleDisconnect(g, q))
<1>1. PICK id : id = IF q.sid = Empty THEN q.body ELSE q.sid
    OBVIOUS
<1>2. Bare(g, Say(g, 404, "session_not_found"))
    BY BareOut
<1>3. ASSUME id \in SessionIds(g) PROVE Bare(g, Say(SessionAbort(g, id), 200, "aborted"))
  <2>1. PICK n : n = SessionOf(g, id)
      OBVIOUS
  <2>2. n \in DOMAIN g.sessions /\ SessionsSound(g.sessions)
      BY <1>3, <2>1, FoundSession DEF GoodServer
  <2>3. PICK e, d : e = g.sessions[n] /\ d = [e EXCEPT !.abort = TRUE, !.state = "aborted"]
      OBVIOUS
  <2>4. DOMAIN e = SessionFields /\ DOMAIN g = ServerFields
      BY <2>2, <2>3 DEF SessionsSound, SessionFields, GoodServer
  <2>5. DOMAIN d = SessionFields /\ d.id = e.id /\ d.state \in SessionStates
      BY <2>3, <2>4 DEF SessionFields, SessionStates
  <2>6. PICK tt, h : tt = [g.sessions EXCEPT ![n] = d] /\ h = SessionAbort(g, id)
      OBVIOUS
  <2>7. SessionsSound(tt)
      BY <2>2, <2>3, <2>5, <2>6, OneChanged
  <2>8. h = [g EXCEPT !.sessions = tt]
      BY <2>1, <2>2, <2>3, <2>4, <2>6 DEF SessionAbort, ServerFields
  <2>9. h.sessions = tt /\ OtherSessions(g, h)
      BY <2>4, <2>8 DEF OtherSessions, ServerFields
  <2> QED
      BY <2>6, <2>7, <2>9, BareOther
<1>4. Bare(g, Say(SessionRemove(g, id), 200, "disconnected"))
    BY Removes, BareOther
<1> QED
    BY <1>1, <1>2, <1>3, <1>4 DEF HandleAbort, HandleDisconnect

LEMMA PlainRuns ==
    ASSUME NEW g, GoodServer(g), NEW q, NEW env \in Envs, RouteFor(q) # {}, q.path # "/jsonrpc"
    PROVE  Bare(g, PlainHandler(g, q, env))
<1>1. q.path \in {"/status", "/health", "/static/*", "/pair", "/ws/chat", "/acp", "/sse/events", "/sessions",
                  "/sessions/abort", "/sessions/disconnect", "/config/get", "/config/set"}
  <2>1. PICK r \in gateway_routes : r.path = q.path
      BY DEF RouteFor, RoutesOf
  <2>2. r.path \in {"/status", "/health", "/static/*", "/pair", "/ws/chat", "/acp", "/sse/events", "/sessions",
                    "/sessions/abort", "/sessions/disconnect", "/config/get", "/config/set", "/jsonrpc"}
      BY DEF gateway_routes, Route
  <2> QED
      BY <2>1, <2>2
<1>2. ASSUME NEW code \in Nat, NEW body PROVE Bare(g, Out(g, code, body)) /\ Bare(g, Say(g, code, body))
    BY BareOut
<1>3. CASE q.path = "/status"
  <2>1. PICK text : PlainHandler(g, q, env) = Say(g, 200, text)
      BY <1>3 DEF PlainHandler
  <2> QED
      BY <1>2, <2>1
<1>4. CASE q.path = "/health"
  <2>1. PlainHandler(g, q, env) = Say(g, 200, "ok")
      BY <1>4 DEF PlainHandler
  <2> QED
      BY <1>2, <2>1
<1>5. CASE q.path = "/pair"
    BY <1>5, PairRuns DEF PlainHandler
<1>6. CASE q.path = "/ws/chat"
    BY <1>6, ChatRuns DEF PlainHandler
<1>7. CASE q.path = "/acp"
  <2>1. PlainHandler(g, q, env) = HandleAcp(g, q, env)
      BY <1>7 DEF PlainHandler
  <2>2. PICK h, a, body : h = [g EXCEPT !.acp = a] /\ HandleAcp(g, q, env) = Out(h, 200, body)
      BY DEF HandleAcp
  <2>3. GoodServer(h) /\ h.events = g.events /\ h.wsq = g.wsq /\ h.idem = g.idem /\ h.used = g.used
      BY <2>2 DEF GoodServer, ServerFields, TokenSound
  <2>4. Bare(g, Out(h, 200, body))
      BY <2>3, BareOut
  <2> QED
      BY <2>1, <2>2, <2>4
<1>8. CASE q.path = "/sse/events"
  <2>1. PlainHandler(g, q, env) = HandleSse(g, q)
      BY <1>8 DEF PlainHandler
  <2>2. PICK body : HandleSse(g, q) = Out(g, 200, body)
      BY DEF HandleSse
  <2> QED
      BY <1>2, <2>1, <2>2
<1>9. CASE q.path = "/sessions"
  <2>1. PlainHandler(g, q, env) = HandleSessions(g)
      BY <1>9 DEF PlainHandler
  <2>2. PICK body : HandleSessions(g) = Out(g, 200, body)
      BY DEF HandleSessions
  <2> QED
      BY <1>2, <2>1, <2>2
<1>10. CASE q.path = "/sessions/abort" \/ q.path = "/sessions/disconnect"
    BY <1>10, AbortRuns DEF PlainHandler
<1>11. CASE q.path = "/config/get"
  <2>1. PICK code \in {200, 404}, text \in {g.cfg, "config_path_not_found"} : PlainHandler(g, q, env) = Say(g, code, text)
      BY <1>11 DEF PlainHandler, HandleConfigGet
  <2> QED
      BY <1>2, <2>1
<1>12. CASE q.path = "/config/set"
  <2>1. PICK h : h = [g EXCEPT !.cfg = q.body]
      OBVIOUS
  <2>2. GoodServer(h) /\ h.events = g.events /\ h.wsq = g.wsq /\ h.idem = g.idem /\ h.used = g.used
      BY <2>1 DEF GoodServer, ServerFields, TokenSound
  <2>3. PlainHandler(g, q, env) \in {Say(g, 400, "rejected"), Say(h, 200, "updated")}
      BY <1>12, <2>1 DEF PlainHandler, HandleConfigSet
  <2> QED
      BY <1>2, <2>2, <2>3, BareOut
<1>13. CASE q.path = "/static/*"
  <2>1. PlainHandler(g, q, env) = HandleStatic(g, q, env)
      BY <1>13 DEF PlainHandler
  <2>2. PICK code \in {403, 404, 0, 200}, text \in {"forbidden", "not_found", "response_too_large", "contents"} :
            HandleStatic(g, q, env) = Say(g, code, text)
      BY DEF HandleStatic
  <2> QED
      BY <1>2, <2>1, <2>2
<1> QED
    BY <1>1, <1>3, <1>4, <1>5, <1>6, <1>7, <1>8, <1>9, <1>10, <1>11, <1>12, <1>13

-----------------------------------------------------------------------------
(* What a whole request leaves behind: a good server, with no key lost     *)
(* from its cache and all acknowledged ones in it; no handler ran under a  *)
(* key that was in the cache before; the pairing handler ran at most once. *)
Fine(g, o) ==
    /\ DOMAIN o = OutFields /\ o.code \in Nat
    /\ GoodServer(o.g) /\ o.g.events = g.events /\ o.g.wsq = g.wsq /\ (g.used => o.g.used)
    /\ Cached(g) \subseteq Cached(o.g) /\ o.acks \subseteq Cached(o.g)
    /\ \E S : o.ran \in Seq(S)
    /\ \A i \in DOMAIN o.ran : KeyOf(o.ran[i]) \notin Cached(g)
    /\ \A i, j \in DOMAIN o.ran : o.ran[i].path = "/pair" /\ o.ran[j].path = "/pair" => i = j

LEMMA BareIsFine ==
    ASSUME NEW g, NEW o, Bare(g, o)
    PROVE  Fine(g, o) /\ o.ran = <<>>
<1>1. o.ran \in Seq({}) /\ DOMAIN o.ran = {}
    BY EmptySeq DEF Bare
<1>2. Cached(o.g) = Cached(g)
    BY DEF Bare, Cached
<1> QED
    BY <1>1, <1>2 DEF Bare, Fine

(* A success is remembered under its key.                                  *)
Stores(g, key, h) ==
    /\ key # Empty
    /\ \E code \in 200..299 : \E body :
        h = [g EXCEPT !.idem = Append(g.idem, [key |-> key, code |-> code, body |-> body])]

LEMMA StoreGood ==
    ASSUME NEW g, GoodServer(g), NEW key, NEW h, Stores(g, key, h)
    PROVE  /\ GoodServer(h) /\ h.events = g.events /\ h.wsq = g.wsq /\ h.used = g.used
           /\ Cached(h) = Cached(g) \cup {key}
<1>0. PICK code \in 200..299 : \E body :
            h = [g EXCEPT !.idem = Append(g.idem, [key |-> key, code |-> code, body |-> body])]
    BY DEF Stores
<1>1. PICK e : \E body : /\ e = [key |-> key, code |-> code, body |-> body]
                         /\ h = [g EXCEPT !.idem = Append(g.idem, e)]
    BY <1>0
<1>2. e.key = key /\ e.code \in 200..299 /\ key # Empty
    BY <1>1 DEF Stores
<1>3. PICK c, d : c = g.idem /\ d = Append(c, e)
    OBVIOUS
<1>4. h = [g EXCEPT !.idem = d]
    BY <1>1, <1>3
<1>5. /\ DOMAIN h = ServerFields /\ h.idem = d
      /\ h.running = g.running /\ h.listening = g.listening /\ h.token = g.token /\ h.used = g.used
      /\ h.reqN = g.reqN /\ h.pairN = g.pairN /\ h.events = g.events /\ h.sessions = g.sessions /\ h.wsq = g.wsq
    BY <1>4 DEF GoodServer, ServerFields
<1>6. PICK S : c \in Seq(S)
    BY <1>3 DEF GoodServer, CacheSound
<1>7. PICK n \in Nat : n = Len(c) /\ DOMAIN c = 1..n
    BY <1>6, LenProperties
<1>8. /\ d \in Seq(S \cup {e}) /\ Len(d) = n + 1 /\ d[n + 1] = e /\ \A i \in 1..n : d[i] = c[i]
  <2>1. c \in Seq(S \cup {e}) /\ e \in S \cup {e}
      BY <1>6, SeqMonotonic
  <2> QED
      BY <1>3, <1>7, <2>1, AppendProperties
<1>9. DOMAIN d = 1..(n + 1) /\ 1..(n + 1) = 1..n \cup {n + 1}
    BY <1>8, LenProperties
<1>10. CacheSound(d)
  <2>1. ASSUME NEW i \in 1..(n + 1) PROVE d[i].code \in 200..299 /\ d[i].key # Empty
    <3>1. CASE i = n + 1
        BY <1>2, <1>8, <3>1
    <3>2. CASE i \in 1..n
        BY <1>3, <1>7, <1>8, <3>2 DEF GoodServer, CacheSound
    <3> QED
        BY <1>9, <3>1, <3>2
  <2> QED
      BY <1>8, <1>9, <2>1 DEF CacheSound
<1>11. {d[i].key : i \in 1..(n + 1)} = {c[i].key : i \in 1..n} \cup {key}
    BY <1>2, <1>8, <1>9
<1>12. Cached(h) = Cached(g) \cup {key}
  <2>1. Cached(h) = {d[i].key : i \in 1..(n + 1)}
      BY <1>5, <1>9 DEF Cached
  <2>2. Cached(g) = {c[i].key : i \in 1..n}
      BY <1>3, <1>7 DEF Cached
  <2> QED
      BY <1>11, <2>1, <2>2
<1> QED
    BY <1>5, <1>10, <1>12 DEF GoodServer, TokenSound

(* What happens after the handler keeps an outcome fine.                   *)
LEMMA AfterFine ==
    ASSUME NEW g, NEW q, NEW o, NEW env, Fine(g, o), CacheSound(g.idem), KeyOf(q) \notin Cached(g),
           \A i \in DOMAIN o.ran : o.ran[i].path # "/pair"
    PROVE  /\ Fine(g, AfterHandler(q, o, env))
           /\ AfterHandler(q, o, env).ran = <<q>> \o o.ran
<1>1. PICK w : w = [o EXCEPT !.ran = <<q>> \o o.ran]
    OBVIOUS
<1>2. PICK x : x = Remembered(q, w, env)
    OBVIOUS
<1>3. PICK y : y = Acknowledged(q, x)
    OBVIOUS
<1>4. AfterHandler(q, o, env) = y
    BY <1>1, <1>2, <1>3 DEF AfterHandler
<1>5. DOMAIN w = OutFields /\ w.g = o.g /\ w.code = o.code /\ w.acks = o.acks /\ w.ran = <<q>> \o o.ran
    BY <1>1 DEF Fine, OutFields
<1>6. Fine(g, w)
  <2>1. PICK S : o.ran \in Seq(S)
      BY DEF Fine
  <2>2. PICK r, n : r = o.ran /\ n = Len(r)
      OBVIOUS
  <2>3. n \in Nat /\ DOMAIN r = 1..n /\ r \in Seq(S \cup {q}) /\ <<q>> \in Seq(S \cup {q})
      BY <2>1, <2>2, LenProperties, SeqMonotonic
  <2>4. /\ <<q>> \o r \in Seq(S \cup {q}) /\ Len(<<q>> \o r) = Len(<<q>>) + n
        /\ \A i \in 1 .. Len(<<q>>) + n : (<<q>> \o r)[i] = IF i <= Len(<<q>>) THEN <<q>>[i] ELSE r[i - Len(<<q>>)]
      BY <2>2, <2>3, ConcatProperties
  <2>5. Len(<<q>>) = 1 /\ <<q>>[1] = q
      OBVIOUS
  <2>6. PICK t : t = <<q>> \o r
      OBVIOUS
  <2>7. t \in Seq(S \cup {q}) /\ Len(t) = 1 + n /\ \A i \in 1..(1 + n) : t[i] = IF i = 1 THEN q ELSE r[i - 1]
      BY <2>3, <2>4, <2>5, <2>6
  <2>8. DOMAIN t = 1..(1 + n)
      BY <2>7, LenProperties
  <2>9. ASSUME NEW i \in DOMAIN t
        PROVE  KeyOf(t[i]) \notin Cached(g) /\ (t[i].path = "/pair" => i = 1)
    <3>1. CASE i = 1
        BY <2>7, <2>8, <3>1
    <3>2. CASE i # 1
      <4>1. i - 1 \in 1..n /\ t[i] = r[i - 1]
          BY <2>3, <2>7, <2>8, <3>2
      <4> QED
          BY <2>2, <2>3, <4>1 DEF Fine
    <3> QED
        BY <3>1, <3>2
  <2>10. \A i, j \in DOMAIN t : t[i].path = "/pair" /\ t[j].path = "/pair" => i = j
      BY <2>9
  <2>11. w.ran = t
      BY <1>5, <2>2, <2>6
  <2> QED
      BY <1>5, <2>7, <2>9, <2>10, <2>11 DEF Fine
<1>7. \/ x = w /\ ~(Keyed(q) /\ Succeeded(w))
      \/ x = [w EXCEPT !.code = 0, !.body = "no_memory"]
      \/ x = [w EXCEPT !.g = IdempotencyStore(w.g, q.key, w)] /\ Keyed(q) /\ Succeeded(w)
    BY <1>2 DEF Remembered
<1>8. CASE x = w /\ ~(Keyed(q) /\ Succeeded(w))
  <2>1. y = w
      BY <1>3, <1>8 DEF Acknowledged
  <2> QED
      BY <1>4, <1>5, <1>6, <2>1
<1>9. CASE x = [w EXCEPT !.code = 0, !.body = "no_memory"]
  <2>1. DOMAIN x = OutFields /\ x.g = w.g /\ x.code = 0 /\ x.acks = w.acks /\ x.ran = w.ran
      BY <1>5, <1>9 DEF OutFields
  <2>2. ~Succeeded(x)
      BY <2>1 DEF Succeeded
  <2>3. y = x
      BY <1>3, <2>2 DEF Acknowledged
  <2>4. Fine(g, x)
      BY <1>6, <2>1 DEF Fine
  <2> QED
      BY <1>4, <1>5, <2>1, <2>3, <2>4
<1>10. CASE x = [w EXCEPT !.g = IdempotencyStore(w.g, q.key, w)] /\ Keyed(q) /\ Succeeded(w)
  <2>1. PICK h : h = IdempotencyStore(w.g, q.key, w)
      OBVIOUS
  <2>2. DOMAIN x = OutFields /\ x.g = h /\ x.code = w.code /\ x.acks = w.acks /\ x.ran = w.ran
      BY <1>5, <1>10, <2>1 DEF OutFields
  <2>3. q.key # Empty
      BY <1>10 DEF Keyed, KeyOf
  <2>4. w.code \in 200..299 /\ Succeeded(x)
    <3>1. PICK code \in Nat : code = w.code
        BY <1>6 DEF Fine
    <3>2. code >= 200 /\ code < 300
        BY <1>10, <3>1 DEF Succeeded
    <3>3. code \in 200..299
        BY <3>2
    <3> QED
        BY <2>2, <3>1, <3>2, <3>3 DEF Succeeded
  <2>5. /\ GoodServer(h) /\ h.events = w.g.events /\ h.wsq = w.g.wsq /\ h.used = w.g.used
        /\ Cached(h) = Cached(w.g) \cup {q.key}
    <3>1. GoodServer(w.g)
        BY <1>6 DEF Fine
    <3>2. PICK v, key, body : v = w.g /\ key = q.key /\ body = w.body
        OBVIOUS
    <3>3. PICK code \in 200..299 : code = w.code
        BY <2>4
    <3>4. /\ GoodServer(v) /\ key # Empty
          /\ h = [v EXCEPT !.idem = Append(v.idem, [key |-> key, code |-> code, body |-> body])]
        BY <2>1, <2>3, <3>1, <3>2, <3>3 DEF IdempotencyStore
    <3>5. Stores(v, key, h)
        BY <3>4 DEF Stores
    <3>6. /\ GoodServer(h) /\ h.events = v.events /\ h.wsq = v.wsq /\ h.used = v.used
          /\ Cached(h) = Cached(v) \cup {key}
        BY <3>4, <3>5, StoreGood
    <3> QED
        BY <3>2, <3>6
  <2>6. y = [x EXCEPT !.acks = x.acks \cup {q.key}]
      BY <1>3, <1>10, <2>4 DEF Acknowledged
  <2>7. DOMAIN y = OutFields /\ y.g = h /\ y.code = w.code /\ y.ran = w.ran /\ y.acks = w.acks \cup {q.key}
      BY <2>2, <2>6 DEF OutFields
  <2>8. y.acks \subseteq Cached(y.g) /\ Cached(g) \subseteq Cached(y.g)
      BY <1>6, <2>5, <2>7 DEF Fine
  <2>9. Fine(g, y)
      BY <1>6, <2>5, <2>7, <2>8 DEF Fine
  <2> QED
      BY <1>4, <1>5, <2>7, <2>9
<1> QED
    BY <1>7, <1>8, <1>9, <1>10

-----------------------------------------------------------------------------
(* Whole requests.                                                         *)
LEMMA BareTransitive ==
    ASSUME NEW g, NEW b, Bare(g, b), NEW h, h = b.g, NEW o, Bare(h, o)
    PROVE  Bare(g, o)
BY DEF Bare

LEMMA PlainFine ==
    ASSUME NEW g, GoodServer(g), NEW q, NEW env \in Envs, q.path # "/jsonrpc"
    PROVE  /\ Fine(g, HandlePlain(g, q, env))
           /\ HandlePlain(g, q, env).ran = <<>> \/ HandlePlain(g, q, env).ran = <<q>>
<1>1. PICK b, h : b = BeforeHandler(g, q) /\ h = b.g
    OBVIOUS
<1>2. Bare(g, b) /\ (b.code = 0 => RouteFor(q) # {} /\ KeyOf(q) \notin Cached(g))
    BY <1>1, BeforeRuns
<1>3. HandlePlain(g, q, env) = IF b.code # 0 THEN b ELSE AfterHandler(q, PlainHandler(h, q, env), env)
    BY <1>1 DEF HandlePlain
<1>4. CASE b.code # 0
    BY <1>2, <1>3, <1>4, BareIsFine
<1>5. CASE b.code = 0
  <2>1. PICK o : o = PlainHandler(h, q, env)
      OBVIOUS
  <2>2. GoodServer(h)
      BY <1>1, <1>2 DEF Bare
  <2>3. Bare(h, o)
      BY <1>2, <1>5, <2>1, <2>2, PlainRuns
  <2>4. Bare(g, o)
      BY <1>1, <1>2, <2>3, BareTransitive
  <2>5. Fine(g, o) /\ o.ran = <<>>
      BY <2>4, BareIsFine
  <2>6. \A i \in DOMAIN o.ran : o.ran[i].path # "/pair"
      BY <2>5
  <2>7. CacheSound(g.idem)
      BY DEF GoodServer
  <2>8. Fine(g, AfterHandler(q, o, env)) /\ AfterHandler(q, o, env).ran = <<q>> \o o.ran
      BY <1>2, <1>5, <2>5, <2>6, <2>7, AfterFine
  <2>9. <<q>> \o o.ran = <<q>>
    <3>1. <<q>> \in Seq({q})
        OBVIOUS
    <3> QED
        BY <2>5, <3>1, ConcatEmptySeq
  <2> QED
      BY <1>3, <1>5, <2>1, <2>8, <2>9
<1> QED
    BY <1>4, <1>5

(* A call's parameters never make a pairing request.                       *)
LEMMA JsonrpcFine ==
    ASSUME NEW g, GoodServer(g), NEW q \in Requests, NEW env \in Envs
    PROVE  /\ Fine(g, HandleJsonrpc(g, q, env))
           /\ \A i \in DOMAIN HandleJsonrpc(g, q, env).ran : HandleJsonrpc(g, q, env).ran[i].path # "/pair"
<1> DEFINE Good(o) == Fine(g, o) /\ \A i \in DOMAIN o.ran : o.ran[i].path # "/pair"
<1>1. ASSUME NEW text PROVE Good(Say(g, 200, text))
  <2>1. PICK o : o = Say(g, 200, text)
      OBVIOUS
  <2>2. Bare(g, o)
      BY <2>1, BareOut
  <2>3. Fine(g, o) /\ o.ran = <<>>
      BY <2>2, BareIsFine
  <2> QED
      BY <2>1, <2>3
<1>2. ASSUME q.rpc = "call" PROVE Good(JsonrpcMethod(g, q, env))
  <2>1. PICK p : p = q.inner[1]
      OBVIOUS
  <2>2. p.path \in JsonrpcPaths
      BY <1>2, <2>1, RequestsAssumption
  <2>3. p.path # "/jsonrpc" /\ p.path # "/pair"
      BY <2>2 DEF JsonrpcPaths
  <2>4. PICK o : o = HandlePlain(g, p, env)
      OBVIOUS
  <2>5. Fine(g, o) /\ (o.ran = <<>> \/ o.ran = <<p>>)
      BY <2>3, <2>4, PlainFine
  <2>6. \A i \in DOMAIN o.ran : o.ran[i].path # "/pair"
      BY <2>3, <2>5
  <2>7. JsonrpcMethod(g, q, env) = IF o.code = 0 THEN o
                                   ELSE [o EXCEPT !.code = 200, !.body = <<ToString(o.code)>> \o o.body]
      BY <1>2, <2>1, <2>4 DEF JsonrpcMethod
  <2>8. PICK body : body = <<ToString(o.code)>> \o o.body
      OBVIOUS
  <2>9. PICK u : u = [o EXCEPT !.code = 200, !.body = body]
      OBVIOUS
  <2>10. DOMAIN u = OutFields /\ u.g = o.g /\ u.code = 200 /\ u.acks = o.acks /\ u.ran = o.ran
      BY <2>5, <2>9 DEF Fine, OutFields
  <2>11. Fine(g, u)
      BY <2>5, <2>10 DEF Fine
  <2> QED
      BY <2>5, <2>6, <2>7, <2>8, <2>9, <2>10, <2>11
<1>3. q.rpc \in {"ping", "unknown", "call"}
    BY RequestsAssumption
<1>4. \/ HandleJsonrpc(g, q, env) = Say(g, 200, "-32700")
      \/ HandleJsonrpc(g, q, env) = Say(g, 200, "-32600")
      \/ HandleJsonrpc(g, q, env) = JsonrpcMethod(g, q, env)
    BY DEF HandleJsonrpc
<1>5. CASE q.rpc # "call"
  <2>1. \/ JsonrpcMethod(g, q, env) = Say(g, 200, "pong")
        \/ JsonrpcMethod(g, q, env) = Say(g, 200, "-32601")
      BY <1>3, <1>5 DEF JsonrpcMethod
  <2> HIDE DEF Good
  <2>2. Good(HandleJsonrpc(g, q, env))
      BY <1>1, <1>4, <2>1
  <2> QED
      BY <2>2 DEF Good
<1>6. CASE q.rpc = "call"
  <2> HIDE DEF Good
  <2>1. Good(HandleJsonrpc(g, q, env))
      BY <1>1, <1>2, <1>4, <1>6
  <2> QED
      BY <2>1 DEF Good
<1> QED
    BY <1>5, <1>6

LEMMA FineTransitive ==
    ASSUME NEW g, NEW b, Bare(g, b), NEW h, h = b.g, NEW o, Fine(h, o)
    PROVE  Fine(g, o)
<1>1. Cached(h) = Cached(g)
    BY DEF Bare, Cached
<1> QED
    BY <1>1 DEF Bare, Fine

LEMMA RequestFine ==
    ASSUME NEW g, GoodServer(g), NEW q \in Requests, NEW env \in Envs
    PROVE  Fine(g, HandleRequest(g, q, env))
<1>1. CASE q.path # "/jsonrpc"
    BY <1>1, PlainFine DEF HandleRequest
<1>2. CASE q.path = "/jsonrpc"
  <2>1. PICK b, h : b = BeforeHandler(g, q) /\ h = b.g
      OBVIOUS
  <2>2. Bare(g, b) /\ (b.code = 0 => KeyOf(q) \notin Cached(g))
      BY <2>1, BeforeRuns
  <2>3. HandleRequest(g, q, env) = IF b.code # 0 THEN b ELSE AfterHandler(q, HandleJsonrpc(h, q, env), env)
      BY <1>2, <2>1 DEF HandleRequest
  <2>4. CASE b.code # 0
      BY <2>2, <2>3, <2>4, BareIsFine
  <2>5. CASE b.code = 0
    <3>1. PICK o : o = HandleJsonrpc(h, q, env)
        OBVIOUS
    <3>2. GoodServer(h) /\ CacheSound(g.idem)
        BY <2>1, <2>2 DEF Bare, GoodServer
    <3>3. Fine(h, o) /\ \A i \in DOMAIN o.ran : o.ran[i].path # "/pair"
        BY <3>1, <3>2, JsonrpcFine
    <3>4. Fine(g, o)
        BY <2>1, <2>2, <3>3, FineTransitive
    <3>5. Fine(g, AfterHandler(q, o, env))
        BY <2>2, <2>5, <3>2, <3>3, <3>4, AfterFine
    <3> QED
        BY <2>3, <2>5, <3>1, <3>5
  <2> QED
      BY <2>4, <2>5
<1> QED
    BY <1>1, <1>2

-----------------------------------------------------------------------------
(* The inductive invariant.                                                *)
Pairing(r) == r.path = "/pair" /\ r.paired

PairInv ==
    /\ \E S : runs \in Seq(S)
    /\ ~gw.used => \A i \in DOMAIN runs : ~Pairing(runs[i])
    /\ \A i, j \in DOMAIN runs : Pairing(runs[i]) /\ Pairing(runs[j]) => i = j

EventInv == (\E S : emitted \in Seq(S)) /\ EventsAreNewest

ServerInv ==
    /\ GoodServer(gw) /\ gw.wsq = 0 /\ clock \in Times
    /\ acked \subseteq Cached(gw)
    /\ PairInv /\ EventInv

(* The runs that a step adds are under no acknowledged key.                *)
NewRunsFresh == \A i \in Len(runs) + 1..Len(runs') : runs'[i].key \notin acked

LEMMA SameRuns ==
    ASSUME ServerInv, UNCHANGED runs
    PROVE  NewRunsFresh
<1>1. PICK n \in Nat : n = Len(runs)
    BY LenProperties DEF ServerInv, PairInv
<1>2. Len(runs') = n /\ n + 1 .. n = {}
    BY <1>1
<1> QED
    BY <1>1, <1>2 DEF NewRunsFresh

(* What is answered from the server's record is carried into the state.    *)
LEMMA Applied ==
    ASSUME ServerInv, NEW o, Fine(gw, o), Apply(o), clock' = clock, emitted' = emitted
    PROVE  ServerInv' /\ NewRunsFresh
<1> DEFINE made == [i \in DOMAIN o.ran |-> [path |-> o.ran[i].path, key |-> KeyOf(o.ran[i]),
                                            paired |-> gw.used # o.g.used]]
<1>1. gw' = o.g /\ runs' = runs \o made /\ acked' = acked \cup o.acks
    BY DEF Apply
<1>2. PICK old, new, add, ran : old = runs /\ new = runs' /\ add = made /\ ran = o.ran
    OBVIOUS
<1>3. PICK S : old \in Seq(S)
    BY <1>2 DEF ServerInv, PairInv
<1>4. PICK m \in Nat : m = Len(old) /\ DOMAIN old = 1..m
    BY <1>3, LenProperties
<1>5. PICK n \in Nat : n = Len(ran) /\ DOMAIN ran = 1..n
    BY <1>2, LenProperties DEF Fine
<1>6. PICK T : T = {add[i] : i \in 1..n}
    OBVIOUS
<1>7. DOMAIN add = 1..n /\ add \in Seq(T) /\ Len(add) = n
  <2>1. DOMAIN add = 1..n /\ add = [i \in 1..n |-> add[i]]
      BY <1>2, <1>5
  <2>2. add \in [1..n -> T]
      BY <1>6, <2>1
  <2> QED
      BY <2>1, <2>2, SeqDef, LenProperties
<1>8. /\ new \in Seq(S \cup T) /\ Len(new) = m + n
      /\ \A i \in 1..(m + n) : new[i] = IF i <= m THEN old[i] ELSE add[i - m]
  <2>1. old \in Seq(S \cup T) /\ add \in Seq(S \cup T)
      BY <1>3, <1>7, SeqMonotonic
  <2>2. new = old \o add
      BY <1>1, <1>2
  <2> QED
      BY <1>4, <1>7, <2>1, <2>2, ConcatProperties
<1>9. DOMAIN new = 1..(m + n)
    BY <1>8, LenProperties
<1>10. \A i \in 1..n : /\ add[i].path = ran[i].path /\ add[i].key = KeyOf(ran[i])
                       /\ add[i].paired = (gw.used # o.g.used)
    BY <1>2, <1>5
<1>11. /\ gw.used \in BOOLEAN /\ o.g.used \in BOOLEAN /\ (gw.used => o.g.used)
    BY DEF Fine, GoodServer, ServerInv
<1>12. NewRunsFresh
  <2>1. ASSUME NEW i \in m + 1..m + n PROVE new[i].key \notin acked
    <3>1. i - m \in 1..n /\ new[i] = add[i - m]
        BY <1>8
    <3>2. new[i].key = KeyOf(ran[i - m])
        BY <1>10, <3>1
    <3>3. KeyOf(ran[i - m]) \notin Cached(gw)
        BY <1>2, <1>5, <3>1 DEF Fine
    <3> QED
        BY <3>2, <3>3 DEF ServerInv
  <2> QED
      BY <1>2, <1>4, <1>8, <2>1 DEF NewRunsFresh
<1>13. ASSUME NEW i \in 1..(m + n), Pairing(new[i])
       PROVE  \/ i \in 1..m /\ Pairing(old[i])
              \/ i - m \in 1..n /\ ran[i - m].path = "/pair" /\ ~gw.used /\ o.g.used
  <2>1. CASE i <= m
      BY <1>8, <1>13, <2>1
  <2>2. CASE ~(i <= m)
    <3>1. i - m \in 1..n /\ new[i] = add[i - m]
        BY <1>8, <2>2
    <3>2. ran[i - m].path = "/pair" /\ gw.used # o.g.used
        BY <1>10, <1>13, <3>1 DEF Pairing
    <3> QED
        BY <1>11, <3>1, <3>2
  <2> QED
      BY <2>1, <2>2
<1>14. \A i \in 1..m : Pairing(old[i]) => gw.used
    BY <1>2, <1>4 DEF ServerInv, PairInv
<1>15. ASSUME NEW i \in 1..(m + n), Pairing(new[i]) PROVE o.g.used
    BY <1>11, <1>13, <1>14, <1>15
<1>16. ASSUME NEW i \in 1..(m + n), NEW j \in 1..(m + n), Pairing(new[i]), Pairing(new[j])
       PROVE  i = j
  <2>1. CASE i \in 1..m /\ Pairing(old[i]) /\ j \in 1..m /\ Pairing(old[j])
      BY <1>2, <1>4, <2>1 DEF ServerInv, PairInv
  <2>2. CASE /\ i - m \in 1..n /\ ran[i - m].path = "/pair"
             /\ j - m \in 1..n /\ ran[j - m].path = "/pair"
    <3>1. i - m = j - m
        BY <1>2, <1>5, <2>2 DEF Fine
    <3> QED
        BY <3>1
  <2> QED
      BY <1>13, <1>14, <1>16, <2>1, <2>2
<1>17. PairInv'
    BY <1>1, <1>2, <1>8, <1>9, <1>15, <1>16 DEF PairInv
<1>18. EventInv'
  <2>1. gw'.events = gw.events
      BY <1>1 DEF Fine
  <2> QED
      BY <2>1 DEF ServerInv, EventInv, EventsAreNewest
<1>19. GoodServer(gw') /\ gw'.wsq = 0 /\ acked' \subseteq Cached(gw')
  <2>1. /\ GoodServer(o.g) /\ o.g.wsq = gw.wsq /\ Cached(gw) \subseteq Cached(o.g)
        /\ o.acks \subseteq Cached(o.g)
      BY DEF Fine
  <2> QED
      BY <1>1, <2>1 DEF ServerInv
<1> QED
    BY <1>12, <1>17, <1>18, <1>19 DEF ServerInv

(* A server that changes only what requests do not depend on.              *)
LEMMA Idle ==
    ASSUME ServerInv, GoodServer(gw'), gw'.wsq = 0, gw'.idem = gw.idem, gw'.used = gw.used,
           gw'.events = gw.events, clock' \in Times, UNCHANGED <<acked, runs, emitted>>
    PROVE  ServerInv' /\ NewRunsFresh
<1>1. Cached(gw') = Cached(gw)
    BY DEF Cached
<1>2. PairInv'
    BY DEF ServerInv, PairInv
<1>3. EventInv'
    BY DEF ServerInv, EventInv, EventsAreNewest
<1> QED
    BY <1>1, <1>2, <1>3, SameRuns DEF ServerInv

LEMMA Suffix ==
    ASSUME NEW S, NEW s \in Seq(S), NEW l \in Nat, l = Len(s), NEW m \in 1..(l + 1),
           NEW t, t = SubSeq(s, m, l)
    PROVE  /\ t \in Seq(S) /\ Len(t) = l - m + 1
           /\ \A i \in 1..(l - m + 1) : t[i] = s[m + i - 1]
<1>1. m \in Int /\ l \in Int /\ \A i \in m..l : s[i] \in S
    BY ElementOfSeq
<1>2. /\ t \in Seq(S) /\ Len(t) = IF m <= l THEN l - m + 1 ELSE 0
      /\ \A i \in 1 .. l - m + 1 : t[i] = s[m + i - 1]
    BY <1>1, SubSeqProperties
<1> QED
    BY <1>2

(* gateway_events_push keeps the newest events.                            *)
LEMMA EmitKeeps ==
    ASSUME ServerInv, Emit
    PROVE  ServerInv' /\ NewRunsFresh
<1>1. PICK e \in Events :
        /\ emitted' = Append(emitted, e)
        /\ gw' = [gw EXCEPT !.events =
                    IF Len(gw.events) >= MaxSse
                    THEN Append(SubSeq(gw.events, Len(gw.events) - MaxSse + 2, Len(gw.events)), e)
                    ELSE Append(gw.events, e)]
    BY DEF Emit
<1>2. UNCHANGED <<clock, acked, runs>>
    BY DEF Emit
<1>3. PICK s, t, v, w : s = emitted /\ t = emitted' /\ v = gw.events /\ w = gw'.events
    OBVIOUS
<1>4. PICK R : s \in Seq(R)
    BY <1>3 DEF ServerInv, EventInv
<1>5. PICK S : S = R \cup {e}
    OBVIOUS
<1>6. s \in Seq(S) /\ e \in S
    BY <1>4, <1>5, SeqMonotonic
<1>7. PICK l \in Nat : l = Len(s)
    BY <1>6, LenProperties
<1>8. PICK M \in Nat : M = MaxSse /\ M > 0
    BY GatewayLimits
<1>9. PICK a \in 1..(l + 1) : a = IF l > M THEN l - M + 1 ELSE 1
  <2>1. (IF l > M THEN l - M + 1 ELSE 1) \in 1..(l + 1)
      BY <1>8
  <2> QED
      BY <2>1
<1>10. v = SubSeq(s, a, l)
    BY <1>3, <1>7, <1>8, <1>9 DEF ServerInv, EventInv, EventsAreNewest
<1>11. v \in Seq(S) /\ Len(v) = l - a + 1 /\ \A i \in 1..(l - a + 1) : v[i] = s[a + i - 1]
    BY <1>6, <1>7, <1>10, Suffix
<1>12. t \in Seq(S) /\ Len(t) = l + 1 /\ t[l + 1] = e /\ \A i \in 1..l : t[i] = s[i]
    BY <1>1, <1>3, <1>6, <1>7, AppendProperties
<1>13. PICK b \in 1..(l + 2) : b = IF l + 1 > M THEN l + 1 - M + 1 ELSE 1
  <2>1. (IF l + 1 > M THEN l + 1 - M + 1 ELSE 1) \in 1..(l + 2)
      BY <1>8
  <2> QED
      BY <2>1
<1>14. PICK u : u = SubSeq(t, b, l + 1)
    OBVIOUS
<1>15. u \in Seq(S) /\ Len(u) = l - b + 2 /\ \A i \in 1..(l - b + 2) : u[i] = t[b + i - 1]
  <2>1. PICK k \in Nat : k = l + 1
      OBVIOUS
  <2>2. k = Len(t) /\ b \in 1..(k + 1) /\ u = SubSeq(t, b, k)
      BY <1>12, <1>14, <2>1
  <2>3. u \in Seq(S) /\ Len(u) = k - b + 1 /\ \A i \in 1..(k - b + 1) : u[i] = t[b + i - 1]
      BY <1>12, <2>2, Suffix
  <2>4. k - b + 1 = l - b + 2
      BY <2>1
  <2> QED
      BY <2>3, <2>4
<1>16. w = IF Len(v) >= M THEN Append(SubSeq(v, Len(v) - M + 2, Len(v)), e) ELSE Append(v, e)
    BY <1>1, <1>3, <1>8 DEF ServerInv, GoodServer, ServerFields
<1>17. PICK n \in Nat : n = Len(v) /\ n = l - a + 1
    BY <1>11
<1>18. PICK k \in Nat : k = l - b + 1
  <2>1. l - b + 1 \in Nat
      BY <1>8, <1>13
  <2> QED
      BY <2>1
<1>19. w \in Seq(S) /\ Len(w) = k + 1 /\ w[k + 1] = e /\ \A i \in 1..k : w[i] = s[b + i - 1]
  <2>1. CASE n >= M
    <3>1. n = M /\ a = l - M + 1 /\ b = a + 1 /\ k = M - 1
        BY <1>8, <1>9, <1>13, <1>17, <1>18, <2>1
    <3>2. PICK x : x = SubSeq(v, 2, n)
        OBVIOUS
    <3>3. n - M + 2 = 2
        BY <1>8, <3>1
    <3>4. w = Append(x, e)
        BY <1>16, <1>17, <2>1, <3>2, <3>3
    <3>5. x \in Seq(S) /\ Len(x) = n - 2 + 1 /\ \A i \in 1..(n - 2 + 1) : x[i] = v[2 + i - 1]
      <4>1. 2 \in 1..(n + 1)
          BY <1>8, <3>1
      <4> QED
          BY <1>11, <1>17, <3>2, <4>1, Suffix
    <3>6. x \in Seq(S) /\ Len(x) = k /\ \A i \in 1..k : x[i] = v[i + 1]
        BY <1>8, <3>1, <3>5
    <3>7. w \in Seq(S) /\ Len(w) = k + 1 /\ w[k + 1] = e /\ \A i \in 1..k : w[i] = x[i]
        BY <1>6, <3>4, <3>6, AppendProperties
    <3>8. ASSUME NEW i \in 1..k PROVE v[i + 1] = s[b + i - 1]
      <4>1. i + 1 \in 1..(l - a + 1) /\ a + (i + 1) - 1 = b + i - 1
          BY <1>17, <3>1
      <4> QED
          BY <1>11, <4>1
    <3> QED
        BY <3>6, <3>7, <3>8
  <2>2. CASE ~(n >= M)
    <3>1. a = 1 /\ b = 1 /\ k = l /\ n = l
        BY <1>8, <1>9, <1>13, <1>17, <1>18, <2>2
    <3>2. w = Append(v, e)
        BY <1>16, <1>17, <2>2
    <3>3. w \in Seq(S) /\ Len(w) = n + 1 /\ w[n + 1] = e /\ \A i \in 1..n : w[i] = v[i]
      <4>1. v \in Seq(S) /\ e \in S /\ Len(v) = n
          BY <1>6, <1>11, <1>17
      <4> QED
          BY <3>2, <4>1, AppendProperties
    <3> QED
        BY <1>11, <3>1, <3>3
  <2> QED
      BY <2>1, <2>2
<1>20. w = u
  <2>1. ASSUME NEW i \in 1..Len(w) PROVE w[i] = u[i]
    <3>1. u[i] = t[b + i - 1]
        BY <1>15, <1>18, <1>19
    <3>2. CASE i = k + 1
        BY <1>12, <1>18, <1>19, <3>1, <3>2
    <3>3. CASE i # k + 1
      <4>1. i \in 1..k /\ b + i - 1 \in 1..l
          BY <1>18, <1>19, <3>3
      <4> QED
          BY <1>12, <1>19, <3>1, <4>1
    <3> QED
        BY <3>2, <3>3
  <2>2. Len(w) = Len(u)
      BY <1>15, <1>18, <1>19
  <2> QED
      BY <1>15, <1>19, <2>1, <2>2, SeqEqual
<1>21. EventInv'
  <2>1. /\ gw'.events = SubSeq(emitted', b, l + 1) /\ Len(emitted') = l + 1 /\ emitted' \in Seq(S)
        /\ b = IF Len(emitted') > MaxSse THEN Len(emitted') - MaxSse + 1 ELSE 1
      BY <1>3, <1>8, <1>12, <1>13, <1>14, <1>20
  <2> QED
      BY <2>1 DEF EventInv, EventsAreNewest
<1>22. PICK h : h = gw'
    OBVIOUS
<1>23. GoodServer(h) /\ h.wsq = gw.wsq /\ h.idem = gw.idem /\ h.used = gw.used
  <2>1. PICK x : h = [gw EXCEPT !.events = x]
      BY <1>1, <1>22
  <2> QED
      BY <2>1 DEF ServerInv, GoodServer, ServerFields, TokenSound
<1>24. Cached(gw') = Cached(gw) /\ PairInv'
    BY <1>2, <1>22, <1>23 DEF Cached, ServerInv, PairInv
<1> QED
    BY <1>2, <1>21, <1>22, <1>23, <1>24, SameRuns DEF ServerInv

(* A text runs its request with one place of the queue taken, which is     *)
(* given back whatever comes out.                                          *)
LEMMA TextFine ==
    ASSUME NEW g, GoodServer(g), NEW q \in Requests, NEW env \in Envs,
           q.path = "/acp" \/ q.path = "/ws/chat", NEW o,
           o = HandleRequest([g EXCEPT !.wsq = @ + 1], [q EXCEPT !.key = Empty], env)
    PROVE  Fine(g, [o EXCEPT !.g.wsq = @ - 1])
<1>1. PICK h, p : h = [g EXCEPT !.wsq = g.wsq + 1] /\ p = [q EXCEPT !.key = Empty]
    OBVIOUS
<1>2. PICK k \in Nat : k = g.wsq
    BY DEF GoodServer
<1>3. GoodServer(h) /\ h.wsq = k + 1 /\ h.events = g.events /\ h.idem = g.idem /\ h.used = g.used
    BY <1>1, <1>2 DEF GoodServer, ServerFields, TokenSound
<1>4. p.path = q.path
  <2>1. DOMAIN q = RequestFields
      BY RequestsAssumption
  <2> QED
      BY <1>1, <2>1 DEF RequestFields
<1>5. o = HandlePlain(h, p, env) /\ p.path # "/jsonrpc"
  <2>1. p.path # "/jsonrpc"
      BY <1>4
  <2> QED
      BY <1>1, <2>1 DEF HandleRequest
<1>6. Fine(h, o)
    BY <1>3, <1>5, PlainFine
<1>7. PICK v, x : v = o.g /\ x = [v EXCEPT !.wsq = v.wsq - 1]
    OBVIOUS
<1>8. GoodServer(v) /\ v.wsq = k + 1 /\ v.events = g.events /\ (g.used => v.used)
    BY <1>3, <1>6, <1>7 DEF Fine
<1>9. /\ GoodServer(x) /\ x.wsq = k /\ x.events = v.events /\ x.idem = v.idem /\ x.used = v.used
  <2>1. x.wsq = k /\ x.wsq \in Nat
      BY <1>7, <1>8 DEF GoodServer, ServerFields
  <2> QED
      BY <1>7, <1>8, <2>1 DEF GoodServer, ServerFields, TokenSound
<1>10. PICK y : y = [o EXCEPT !.g.wsq = @ - 1]
    OBVIOUS
<1>11. y = [o EXCEPT !.g = x]
    BY <1>6, <1>7, <1>10 DEF Fine, OutFields
<1>12. /\ DOMAIN y = OutFields /\ y.g = x /\ y.code = o.code /\ y.ran = o.ran /\ y.acks = o.acks
    BY <1>6, <1>11 DEF Fine, OutFields
<1>13. Cached(h) = Cached(g) /\ Cached(x) = Cached(v)
    BY <1>3, <1>9 DEF Cached
<1>14. Fine(g, y)
  <2>1. PICK ran, cached : ran = o.ran /\ cached = Cached(g)
      OBVIOUS
  <2>2. /\ \E S : ran \in Seq(S)
        /\ \A i \in DOMAIN ran : KeyOf(ran[i]) \notin cached
        /\ \A i, j \in DOMAIN ran : ran[i].path = "/pair" /\ ran[j].path = "/pair" => i = j
      BY <1>6, <1>13, <2>1 DEF Fine
  <2>3. cached \subseteq Cached(x) /\ y.acks \subseteq Cached(x) /\ y.code \in Nat
      BY <1>6, <1>7, <1>12, <1>13, <2>1 DEF Fine
  <2>4. x.events = g.events /\ x.wsq = g.wsq /\ (g.used => x.used)
      BY <1>2, <1>8, <1>9
  <2>5. y.g = x /\ y.ran = ran /\ DOMAIN y = OutFields
      BY <1>12, <2>1
  <2> QED
      BY <1>9, <2>1, <2>2, <2>3, <2>4, <2>5 DEF Fine
<1> QED
    BY <1>10, <1>14

LEMMA ServerInit ==
    ASSUME GatewayInit
    PROVE  ServerInv
<1>1. gw = NewServer /\ clock = PairCreated /\ acked = {} /\ runs = <<>> /\ emitted = <<>>
    BY DEF GatewayInit
<1>2. /\ RateLimit \in Nat /\ PairLimit \in Nat /\ PairCreated \in Times /\ MaxSse \in Nat \ {0}
    BY GatewayLimits
<1>3. <<>> \in Seq({}) /\ Len(<<>>) = 0 /\ DOMAIN <<>> = {}
    BY EmptySeq
<1>4. SessionsSound(<<>>) /\ CacheSound(<<>>)
    BY <1>3 DEF SessionsSound, CacheSound
<1>5. /\ DOMAIN gw = ServerFields /\ gw.running = FALSE /\ gw.listening = FALSE /\ gw.used = FALSE
      /\ gw.token = InitialToken /\ gw.reqN = 0 /\ gw.pairN = 0 /\ gw.wsq = 0
      /\ gw.sessions = <<>> /\ gw.idem = <<>> /\ gw.events = <<>>
    BY <1>1 DEF NewServer, ServerFields
<1>6. GoodServer(gw)
  <2>1. gw.reqN \in 0..RateLimit /\ gw.pairN \in 0..PairLimit /\ gw.wsq \in Nat
      BY <1>2, <1>5
  <2>2. gw.running \in BOOLEAN /\ gw.listening \in BOOLEAN /\ gw.used \in BOOLEAN
      BY <1>5
  <2>3. SessionsSound(gw.sessions) /\ CacheSound(gw.idem)
      BY <1>4, <1>5
  <2>4. TokenSound(gw)
      BY <1>5 DEF TokenSound
  <2> QED
      BY <1>5, <2>1, <2>2, <2>3, <2>4 DEF GoodServer
<1>7. PairInv
    BY <1>1, <1>3 DEF PairInv
<1>8. EventInv
  <2>1. SubSeq(<<>>, 1, 0) = <<>>
      OBVIOUS
  <2>2. ~(0 > MaxSse)
      BY <1>2
  <2> QED
      BY <1>1, <1>3, <1>5, <2>1, <2>2 DEF EventInv, EventsAreNewest
<1>9. clock \in Times
    BY <1>1, <1>2
<1> QED
    BY <1>1, <1>5, <1>6, <1>7, <1>8, <1>9 DEF ServerInv

(* One step keeps the invariant and adds no run under an acknowledged key. *)
LEMMA ServerStep ==
    ASSUME ServerInv, [GatewayNext]_gatewayVars
    PROVE  ServerInv' /\ NewRunsFresh
<1>0. GoodServer(gw) /\ gw.wsq = 0 /\ clock \in Times
    BY DEF ServerInv
<1>1. ASSUME UNCHANGED <<gw, clock, acked, runs, emitted>> PROVE ServerInv' /\ NewRunsFresh
    BY <1>0, <1>1, Idle
<1>2. ASSUME NEW a \in BOOLEAN, NEW b \in BOOLEAN, gw' = [gw EXCEPT !.running = a, !.listening = b],
             UNCHANGED <<clock, acked, runs, emitted>>
      PROVE  ServerInv' /\ NewRunsFresh
  <2>1. PICK h : h = gw'
      OBVIOUS
  <2>2. /\ GoodServer(h) /\ h.wsq = gw.wsq /\ h.idem = gw.idem /\ h.used = gw.used
        /\ h.events = gw.events
      BY <1>0, <1>2, <2>1 DEF GoodServer, ServerFields, TokenSound
  <2> QED
      BY <1>0, <1>2, <2>1, <2>2, Idle
<1>3. CASE Start
  <2>1. \/ gw' = gw
        \/ gw' = [gw EXCEPT !.listening = TRUE, !.running = TRUE]
        \/ gw' = [gw EXCEPT !.running = TRUE]
      BY <1>3 DEF Start
  <2>2. UNCHANGED <<clock, acked, runs, emitted>>
      BY <1>3 DEF Start
  <2>3. CASE gw' = gw
      BY <1>1, <2>2, <2>3
  <2>4. CASE gw' = [gw EXCEPT !.listening = TRUE, !.running = TRUE]
    <3>1. gw' = [gw EXCEPT !.running = TRUE, !.listening = TRUE]
        BY <1>0, <2>4 DEF GoodServer, ServerFields
    <3> QED
        BY <1>2, <2>2, <3>1
  <2>5. CASE gw' = [gw EXCEPT !.running = TRUE]
    <3>1. gw' = [gw EXCEPT !.running = TRUE, !.listening = gw.listening] /\ gw.listening \in BOOLEAN
        BY <1>0, <2>5 DEF GoodServer, ServerFields
    <3> QED
        BY <1>2, <2>2, <3>1
  <2> QED
      BY <2>1, <2>3, <2>4, <2>5
<1>4. ASSUME NEW q \in Requests, NEW env \in Envs, Apply(HandleRequest(gw, q, env)), UNCHANGED <<clock, emitted>>
      PROVE  ServerInv' /\ NewRunsFresh
  <2>1. PICK o : o = HandleRequest(gw, q, env)
      OBVIOUS
  <2>2. Fine(gw, o)
      BY <1>0, <2>1, RequestFine
  <2> QED
      BY <1>4, <2>1, <2>2, Applied
<1>5. CASE Request
    BY <1>4, <1>5 DEF Request
<1>6. CASE WebsocketText
  <2>1. PICK q \in Requests, env \in Envs :
            /\ q.path = IF q.sid = "acp" THEN "/acp" ELSE "/ws/chat"
            /\ IF q.body = "[disconnect]"
               THEN gw' = SessionRemove(gw, q.sid) /\ UNCHANGED <<acked, runs>>
               ELSE /\ q.size < 2
                    /\ gw.wsq < MaxWsQueued
                    /\ LET o == HandleRequest([gw EXCEPT !.wsq = @ + 1], [q EXCEPT !.key = Empty], env)
                       IN  Apply([o EXCEPT !.g.wsq = @ - 1])
      BY <1>6 DEF WebsocketText
  <2>2. UNCHANGED <<clock, emitted>>
      BY <1>6 DEF WebsocketText
  <2>3. CASE q.body = "[disconnect]"
    <3>1. PICK g, id, h : g = gw /\ id = q.sid /\ h = SessionRemove(g, id)
        OBVIOUS
    <3>2. OtherSessions(g, h) /\ SessionsSound(h.sessions)
        BY <1>0, <3>1, Removes
    <3>3. GoodServer(h) /\ h.events = g.events /\ h.wsq = g.wsq /\ h.idem = g.idem /\ h.used = g.used
        BY <1>0, <3>1, <3>2, OtherGood
    <3>4. gw' = h /\ UNCHANGED <<acked, runs>>
        BY <2>1, <2>3, <3>1
    <3> QED
        BY <1>0, <2>2, <3>1, <3>3, <3>4, Idle
  <2>4. CASE q.body # "[disconnect]"
    <3>1. PICK o : o = HandleRequest([gw EXCEPT !.wsq = @ + 1], [q EXCEPT !.key = Empty], env)
        OBVIOUS
    <3>2. q.path = "/acp" \/ q.path = "/ws/chat"
        BY <2>1
    <3>3. PICK y : y = [o EXCEPT !.g.wsq = @ - 1]
        OBVIOUS
    <3>4. Fine(gw, y)
        BY <1>0, <3>1, <3>2, <3>3, TextFine
    <3>5. Apply(y)
        BY <2>1, <2>4, <3>1, <3>3
    <3> QED
        BY <2>2, <3>4, <3>5, Applied
  <2> QED
      BY <2>3, <2>4
<1>7. CASE Emit
    BY <1>7, EmitKeeps
<1>8. CASE Stop
  <2>1. gw' = [gw EXCEPT !.running = FALSE, !.listening = FALSE] /\ UNCHANGED <<clock, acked, runs, emitted>>
      BY <1>8 DEF Stop
  <2> QED
      BY <1>2, <2>1
<1>9. CASE Tick
  <2>1. clock' \in Times /\ UNCHANGED <<gw, acked, runs, emitted>>
      BY <1>9 DEF Tick
  <2> QED
      BY <1>0, <2>1, Idle
<1>10. ASSUME NEW c \in Clients, Connect(c) \/ WriteDone(c) \/ CloseDone(c)
       PROVE  ServerInv' /\ NewRunsFresh
    BY <1>1, <1>10 DEF Connect, WriteDone, CloseDone
<1>11. ASSUME NEW c \in Clients, ReadCb(c) PROVE ServerInv' /\ NewRunsFresh
  <2>1. \/ UNCHANGED <<gw, acked, runs>>
        \/ \E q \in Requests, env \in Envs : Apply(HandleRequest(gw, q, env))
      BY <1>11 DEF ReadCb
  <2>2. UNCHANGED <<clock, emitted>>
      BY <1>11 DEF ReadCb
  <2> QED
      BY <1>1, <1>4, <2>1, <2>2
<1>12. CASE UNCHANGED gatewayVars
    BY <1>1, <1>12 DEF gatewayVars
<1> QED
    BY <1>3, <1>5, <1>6, <1>7, <1>8, <1>9, <1>10, <1>11, <1>12 DEF GatewayNext

LEMMA ServerInvHolds ==
    GatewaySpec => []ServerInv
<1>1. GatewayInit => ServerInv
    BY ServerInit
<1>2. ServerInv /\ [GatewayNext]_gatewayVars => ServerInv'
    BY ServerStep
<1> QED
    BY <1>1, <1>2, PTL DEF GatewaySpec

-----------------------------------------------------------------------------
LEMMA PairsOnce ==
    ASSUME ServerInv
    PROVE  PairedOnce
<1>1. PICK I : I = {i \in DOMAIN runs : runs[i].path = "/pair" /\ runs[i].paired}
    OBVIOUS
<1>2. \A i, j \in I : i = j
    BY <1>1 DEF ServerInv, PairInv, Pairing
<1>3. Cardinality(I) <= 1
  <2>1. CASE I = {}
    <3>1. Cardinality(I) = 0
        BY <2>1, FS_EmptySet
    <3> QED
        BY <3>1
  <2>2. CASE I # {}
    <3>1. PICK x : I = {x}
        BY <1>2, <2>2
    <3>2. Cardinality(I) = 1
        BY <3>1, FS_Singleton
    <3> QED
        BY <3>2
  <2> QED
      BY <2>1, <2>2
<1>4. gw.used => gw.token = (IF InitialToken = NoToken THEN "generated" ELSE InitialToken)
    BY DEF ServerInv, GoodServer, TokenSound
<1> QED
    BY <1>1, <1>3, <1>4 DEF PairedOnce

(* What the server keeps between requests is sound, whatever requests,     *)
(* texts, connections and clock it meets: no session is left running, the  *)
(* counters stay within their limits, the pairing code succeeds at most    *)
(* once and its token stands, and the ring holds the newest events         *)
(* (sc_gateway_handle_request, handle_pair, gateway_events_push).          *)
THEOREM ServerSoundHolds ==
    GatewaySpec => []ServerSound
<1>1. ServerInv => ServerSound
  <2>1. SUFFICES ASSUME ServerInv PROVE ServerSound
      OBVIOUS
  <2>2. TypeOK
      BY <2>1 DEF ServerInv, GoodServer, SessionsSound, TypeOK
  <2>3. EventsAreNewest
      BY <2>1 DEF ServerInv, EventInv
  <2> QED
      BY <2>1, <2>2, <2>3, PairsOnce DEF ServerSound
<1> QED
    BY <1>1, ServerInvHolds, PTL

(* Once a mutation was answered with a success under a key, none runs      *)
(* under that key again, whichever way it comes in                         *)
(* (sc_gateway_handle_request and its idempotency cache).                  *)
THEOREM AckedRunsOnceHolds ==
    GatewaySpec => AckedRunsOnce
<1>1. ServerInv /\ [GatewayNext]_gatewayVars => [\A i \in Len(runs) + 1..Len(runs') : runs'[i].key \notin acked]_gatewayVars
    BY ServerStep DEF NewRunsFresh
<1> QED
    BY <1>1, ServerInvHolds, PTL DEF GatewaySpec, AckedRunsOnce
=============================================================================
