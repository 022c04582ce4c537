---------------------------- MODULE PluginsProofs ----------------------------
(***************************************************************************)
(* Two components that share a module and nothing else: the plugin host    *)
(* here, the Telegram channel, its polling and then its sending, after it. *)
(*                                                                         *)
(* The counts and lists of the plugin host are exact, for any artifacts,   *)
(* options and bounds.  HostSound is not inductive as it stands: a count   *)
(* of references only goes up by one with a new object if the object is    *)
(* really new, and only the newest plugin may be loading when its init     *)
(* fails.  HostInv adds that, and the types the arithmetic needs.          *)
(***************************************************************************)
EXTENDS Plugins, Telegram, SequenceTheorems, FiniteSetTheorems, WellFoundedInduction,
        NaturalsInduction, TLAPS

Files == {a.file : a \in Artifacts}
Manifests == {ManifestParse(a.json) : a \in Artifacts}
GuestTools == {spec.name : spec \in UNION {f.specs : f \in Files}}
Guests == {"wasm", "python"}

PluginRecords ==
    [m : Manifests, kind : {"native"} \cup Guests, file : Files,
     state : {"loading", "loaded", "failed", "unloaded"}, refs : Nat, tools : SUBSET GuestTools, calls : Nat]

Users(p) == {o \in objects : o.plugin = p}
Watchers(p) == {o \in observers : o.plugin = p}
Running(l) == {p \in DOMAIN plugins : Alive(p) /\ plugins[p].kind = l}

HostTypes ==
    /\ plugins \in Seq(PluginRecords)
    /\ runtime \in [Guests -> Nat]
    /\ IsFiniteSet(objects) /\ IsFiniteSet(observers)

(* Loads are not nested: only the newest plugin may be loading.            *)
OnlyNewestLoads == \A p \in DOMAIN plugins : plugins[p].state = "loading" => p = Len(plugins)

ObjectsLoaded == \A o \in objects : o.plugin \in DOMAIN plugins /\ plugins[o.plugin].state = "loaded"

(* An observer carries the number of the registration that made it.        *)
ObserversNumbered ==
    \A o \in observers : o.plugin \in DOMAIN plugins /\ o.n \in Nat /\ o.n < plugins[o.plugin].calls

(* Its plugin may have failed to load, but was not unloaded.               *)
ObserversHeld == \A o \in observers : plugins[o.plugin].state # "unloaded"

RefsExact ==
    \A p \in DOMAIN plugins :
        /\ Alive(p) => plugins[p].refs = Cardinality(Users(p)) + Cardinality(Watchers(p))
        /\ ~Alive(p) => plugins[p].refs = 0

RuntimesExact == \A l \in Guests : runtime[l] = Cardinality(Running(l))

EntriesOwned ==
    \A e \in entries :
        /\ e.plugin \in DOMAIN plugins
        /\ \/ Alive(e.plugin)
           \/ plugins[e.plugin].kind = "wasm" /\ plugins[e.plugin].state = "failed"

HostInv ==
    /\ HostTypes /\ OnlyNewestLoads /\ ObjectsLoaded /\ ObserversNumbered /\ ObserversHeld
    /\ RefsExact /\ RuntimesExact /\ EntriesOwned

----------------------------------------------------------------------------
(* The sets that are counted are finite.                                   *)
LEMMA CountsFinite ==
    ASSUME HostTypes, NEW x
    PROVE  /\ IsFiniteSet(Users(x)) /\ Cardinality(Users(x)) \in Nat
           /\ IsFiniteSet(Watchers(x)) /\ Cardinality(Watchers(x)) \in Nat
           /\ IsFiniteSet(Running(x)) /\ Cardinality(Running(x)) \in Nat
<1>1. IsFiniteSet(Users(x))
    BY FS_Subset DEF HostTypes, Users
<1>2. IsFiniteSet(Watchers(x))
    BY FS_Subset DEF HostTypes, Watchers
<1>3. IsFiniteSet(Running(x))
  <2>1. Running(x) \subseteq 1..Len(plugins) /\ Len(plugins) \in Nat
      BY LenProperties DEF HostTypes, Running
  <2>2. IsFiniteSet(1..Len(plugins))
      BY <2>1, FS_Interval
  <2> QED
      BY <2>1, <2>2, FS_Subset
<1> QED
    BY <1>1, <1>2, <1>3, FS_CardinalityType

(* A plugin in the list has the fields of one.                             *)
LEMMA PluginFields ==
    ASSUME HostTypes, NEW p \in DOMAIN plugins
    PROVE  /\ plugins[p] \in PluginRecords /\ p \in 1..Len(plugins) /\ Len(plugins) \in Nat
           /\ plugins[p].kind \in {"native"} \cup Guests /\ plugins[p].file \in Files
           /\ plugins[p].state \in {"loading", "loaded", "failed", "unloaded"}
           /\ plugins[p].refs \in Nat /\ plugins[p].calls \in Nat
           /\ plugins[p].tools \in SUBSET GuestTools
<1>1. p \in 1..Len(plugins) /\ Len(plugins) \in Nat
    BY LenProperties DEF HostTypes
<1>2. plugins[p] \in PluginRecords
    BY <1>1, ElementOfSeq DEF HostTypes
<1> QED
    BY <1>1, <1>2 DEF PluginRecords

(* One record of the list is replaced.                                     *)
LEMMA PluginReplaced ==
    ASSUME HostTypes, NEW p \in DOMAIN plugins, NEW r \in PluginRecords,
           plugins' = [plugins EXCEPT ![p] = r]
    PROVE  /\ plugins' \in Seq(PluginRecords) /\ Len(plugins') = Len(plugins)
           /\ DOMAIN plugins' = DOMAIN plugins
           /\ plugins'[p] = r
           /\ \A q \in DOMAIN plugins : q # p => plugins'[q] = plugins[q]
<1>1. p \in 1..Len(plugins) /\ DOMAIN plugins = 1..Len(plugins)
    BY LenProperties DEF HostTypes
<1>2. plugins' \in Seq(PluginRecords) /\ Len(plugins') = Len(plugins)
    BY <1>1, ExceptSeq DEF HostTypes
<1> QED
    BY <1>1, <1>2

----------------------------------------------------------------------------
(* A registration, and the end of an init that succeeds, change no count:  *)
(* nobody dies, the references stay, and only the plugin that is loading   *)
(* may get an entry.                                                       *)
LEMMA RegistrationKeeps ==
    ASSUME HostInv, NEW p \in DOMAIN plugins, plugins[p].state = "loading", NEW r \in PluginRecords,
           plugins' = [plugins EXCEPT ![p] = r],
           r.kind = plugins[p].kind, r.refs = plugins[p].refs, r.calls >= plugins[p].calls,
           r.state \in {"loading", "loaded"},
           \A e \in entries' : e \in entries \/ e.plugin = p,
           UNCHANGED <<observers, objects, runtime>>
    PROVE  HostInv'
<1>1. HostTypes' /\ Len(plugins') = Len(plugins) /\ DOMAIN plugins' = DOMAIN plugins
      /\ plugins'[p] = r /\ \A q \in DOMAIN plugins : q # p => plugins'[q] = plugins[q]
    BY PluginReplaced DEF HostInv, HostTypes
<1>2. \A q \in DOMAIN plugins : /\ Alive(q)' <=> Alive(q)
                                /\ plugins'[q].kind = plugins[q].kind
                                /\ plugins'[q].refs = plugins[q].refs
    BY <1>1 DEF Alive
<1>3. OnlyNewestLoads'
    BY <1>1 DEF HostInv, OnlyNewestLoads
<1>4. ObjectsLoaded'
    BY <1>1 DEF HostInv, ObjectsLoaded
<1>5. ObserversNumbered'
  <2> SUFFICES ASSUME NEW o \in observers'
               PROVE  o.plugin \in DOMAIN plugins' /\ o.n \in Nat /\ o.n < plugins'[o.plugin].calls
      BY DEF ObserversNumbered
  <2>1. o.plugin \in DOMAIN plugins /\ o.n \in Nat /\ o.n < plugins[o.plugin].calls
      BY DEF HostInv, ObserversNumbered
  <2>2. r.calls \in Nat /\ plugins[p].calls \in Nat
      BY PluginFields DEF HostInv, PluginRecords
  <2> QED
      BY <1>1, <2>1, <2>2
<1>5a. ObserversHeld'
    BY <1>1 DEF HostInv, ObserversNumbered, ObserversHeld
<1>6. RefsExact'
  <2>1. \A q \in DOMAIN plugins : Users(q)' = Users(q) /\ Watchers(q)' = Watchers(q)
      BY DEF Users, Watchers
  <2> QED
      BY <1>1, <1>2, <2>1 DEF HostInv, RefsExact
<1>7. RuntimesExact'
  <2>1. \A l \in Guests : Running(l)' = Running(l)
      BY <1>1, <1>2 DEF Running
  <2> QED
      BY <2>1 DEF HostInv, RuntimesExact
<1>8. EntriesOwned'
    BY <1>1, <1>2 DEF HostInv, EntriesOwned, Alive
<1> QED
    BY <1>1, <1>3, <1>4, <1>5, <1>5a, <1>6, <1>7, <1>8 DEF HostInv

(* One record is added to a set that is counted, or taken out of it.       *)
LEMMA RemoveOne ==
    ASSUME NEW S, IsFiniteSet(S), NEW x \in S
    PROVE  /\ IsFiniteSet(S \ {x}) /\ Cardinality(S \ {x}) = Cardinality(S) - 1
           /\ Cardinality(S) \in Nat /\ Cardinality(S) > 0
<1>1. Cardinality(S) \in Nat /\ Cardinality(S) # 0
    BY FS_CardinalityType, FS_EmptySet
<1> QED
    BY <1>1, FS_RemoveElement

LEMMA AddOne ==
    ASSUME NEW S, IsFiniteSet(S), NEW x, x \notin S
    PROVE  IsFiniteSet(S \cup {x}) /\ Cardinality(S \cup {x}) = Cardinality(S) + 1
BY FS_AddElement

(* A reference is taken or dropped together with what it counts.           *)
LEMMA ReferenceMoves ==
    ASSUME HostInv, NEW p \in DOMAIN plugins, NEW r \in PluginRecords, Alive(p),
           plugins' = [plugins EXCEPT ![p] = r],
           r.kind = plugins[p].kind, r.state = plugins[p].state, r.calls >= plugins[p].calls,
           IsFiniteSet(objects'), IsFiniteSet(observers'),
           ObjectsLoaded', ObserversNumbered', ObserversHeld',
           r.refs = Cardinality(Users(p)') + Cardinality(Watchers(p)'),
           \A q \in DOMAIN plugins : q # p => Users(q)' = Users(q) /\ Watchers(q)' = Watchers(q),
           UNCHANGED <<entries, runtime>>
    PROVE  HostInv'
<1>1. HostTypes' /\ Len(plugins') = Len(plugins) /\ DOMAIN plugins' = DOMAIN plugins
      /\ plugins'[p] = r /\ \A q \in DOMAIN plugins : q # p => plugins'[q] = plugins[q]
    BY PluginReplaced DEF HostInv, HostTypes
<1>2. \A q \in DOMAIN plugins : /\ plugins'[q].state = plugins[q].state
                                /\ Alive(q)' <=> Alive(q)
                                /\ plugins'[q].kind = plugins[q].kind
    BY <1>1 DEF Alive
<1>3. OnlyNewestLoads'
    BY <1>1 DEF HostInv, OnlyNewestLoads
<1>4. RefsExact'
    BY <1>1, <1>2 DEF HostInv, RefsExact
<1>5. RuntimesExact'
  <2>1. \A l \in Guests : Running(l)' = Running(l)
      BY <1>1, <1>2 DEF Running
  <2> QED
      BY <2>1 DEF HostInv, RuntimesExact
<1>6. EntriesOwned'
    BY <1>1, <1>2 DEF HostInv, EntriesOwned
<1> QED
    BY <1>1, <1>3, <1>4, <1>5, <1>6 DEF HostInv

(* A plugin nobody uses any more, or that failed to load, goes: its        *)
(* registrations go with it (a WebAssembly guest's may stay behind) and so *)
(* does its hold on the interpreter.                                       *)
LEMMA PluginGone ==
    ASSUME HostInv, NEW p \in DOMAIN plugins, Alive(p), Users(p) = {},
           NEW why \in {"failed", "unloaded"}, why = "unloaded" => Watchers(p) = {},
           plugins' = FreedState(p, why),
           \A e \in entries' : e \in entries /\ (e.plugin = p => plugins[p].kind = "wasm" /\ why = "failed"),
           runtime' = IF plugins[p].kind = "native" THEN runtime ELSE RuntimeRelease(plugins[p].kind),
           UNCHANGED <<observers, objects>>
    PROVE  HostInv'
<1> DEFINE r == [plugins[p] EXCEPT !.state = why, !.refs = 0]
<1>1. plugins[p] \in PluginRecords /\ plugins[p].kind \in {"native"} \cup Guests
    BY PluginFields DEF HostInv
<1>2. r \in PluginRecords /\ r.kind = plugins[p].kind /\ r.calls = plugins[p].calls /\ r.state = why /\ r.refs = 0
    BY <1>1 DEF PluginRecords
<1>3. plugins' = [plugins EXCEPT ![p] = r]
    BY DEF FreedState
<1> HIDE DEF r
<1>4. plugins' \in Seq(PluginRecords) /\ Len(plugins') = Len(plugins) /\ DOMAIN plugins' = DOMAIN plugins
      /\ plugins'[p] = r /\ \A q \in DOMAIN plugins : q # p => plugins'[q] = plugins[q]
    BY <1>2, <1>3, PluginReplaced DEF HostInv
<1>5. /\ ~Alive(p)'
      /\ \A q \in DOMAIN plugins : q # p => /\ Alive(q)' <=> Alive(q)
                                            /\ plugins'[q].refs = plugins[q].refs
      /\ plugins'[p].refs = 0
      /\ \A q \in DOMAIN plugins : plugins'[q].kind = plugins[q].kind /\ plugins'[q].calls = plugins[q].calls
    BY <1>2, <1>4 DEF Alive
<1>6. OnlyNewestLoads'
    BY <1>2, <1>4 DEF HostInv, OnlyNewestLoads
<1>7. ObjectsLoaded'
    BY <1>4 DEF HostInv, ObjectsLoaded, Users
<1>8. ObserversNumbered' /\ ObserversHeld'
    BY <1>2, <1>4, <1>5 DEF HostInv, ObserversNumbered, ObserversHeld, Watchers
<1>9. RefsExact'
  <2>1. \A q \in DOMAIN plugins : Users(q)' = Users(q) /\ Watchers(q)' = Watchers(q)
      BY DEF Users, Watchers
  <2> QED
      BY <1>4, <1>5, <2>1 DEF HostInv, RefsExact
<1>10. runtime' \in [Guests -> Nat] /\ RuntimesExact'
  <2>1. \A l \in Guests : l # plugins[p].kind => Running(l)' = Running(l)
      BY <1>4, <1>5 DEF Running
  <2>3. "native" \notin Guests /\ runtime \in [Guests -> Nat]
      BY DEF Guests, HostInv, HostTypes
  <2>4. \A l \in Guests : IsFiniteSet(Running(l)) /\ Cardinality(Running(l)) \in Nat
                          /\ runtime[l] = Cardinality(Running(l))
      BY CountsFinite DEF HostInv, RuntimesExact
  <2>5. CASE plugins[p].kind = "native"
      BY <2>1, <2>3, <2>4, <2>5 DEF RuntimesExact
  <2>6. CASE plugins[p].kind \in Guests
    <3>0. PICK k \in Guests : k = plugins[p].kind
        BY <2>6
    <3>1. p \in Running(k) /\ Running(k)' = Running(k) \ {p}
        BY <3>0, <1>4, <1>5 DEF Running
    <3>2. Cardinality(Running(k)') = runtime[k] - 1 /\ runtime[k] > 0
        BY <2>4, <3>1, RemoveOne
    <3>a. runtime' = [runtime EXCEPT ![k] = runtime[k] - 1] /\ runtime[k] - 1 \in Nat
      <4>0. plugins[p].kind # "native"
          BY <2>3, <3>0
      <4>1. runtime' = [runtime EXCEPT ![k] = IF runtime[k] = 0 THEN 0 ELSE runtime[k] - 1]
        <5>1. runtime' = RuntimeRelease(k)
            BY <3>0, <4>0
        <5> QED
            BY ONLY <5>1 DEF RuntimeRelease
      <4>2. runtime[k] \in Nat /\ runtime[k] > 0
          BY <2>4, <3>2
      <4>3. runtime[k] # 0 /\ runtime[k] - 1 \in Nat
          BY ONLY <4>2
      <4> QED
          BY ONLY <4>1, <4>3
    <3>b. \A l \in Guests : l # k => Running(l)' = Running(l)
        BY <2>1, <3>0
    <3>3. \A l \in Guests : runtime'[l] = Cardinality(Running(l)')
        BY <2>3, <2>4, <3>2, <3>a, <3>b
    <3>4. runtime' \in [Guests -> Nat]
        BY <2>3, <3>2, <3>a
    <3> QED
        BY <3>3, <3>4 DEF RuntimesExact
  <2> QED
      BY <1>1, <2>5, <2>6
<1>11. EntriesOwned'
    BY <1>2, <1>4, <1>5 DEF HostInv, EntriesOwned
<1> QED
    BY <1>4, <1>6, <1>7, <1>8, <1>9, <1>10, <1>11 DEF HostInv, HostTypes

----------------------------------------------------------------------------
(* A load starts: the new plugin has no user yet, and an interpreter that  *)
(* it needs is held for it.                                                *)
LEMMA LoadBeginKeeps ==
    ASSUME HostInv, NEW a \in Artifacts, LoadBegin(a)
    PROVE  HostInv'
<1> DEFINE m == ManifestParse(a.json)
           k == LoaderOf(m, a.file)
           r == Fresh(m, k, a.file)
<1>0. PICK n : n = Len(plugins) + 1
    OBVIOUS
<1>1. k \in {"native"} \cup Guests
    BY DEF LoaderOf, Guests
<1>2. r \in PluginRecords /\ r.state = "loading" /\ r.refs = 0 /\ r.kind = k /\ r.calls = 0
    BY <1>1 DEF Fresh, ManifestCopy, PluginRecords, Manifests, Files
<1>3. /\ plugins' = Append(plugins, r) /\ ~Loading
      /\ runtime' = IF k = "native" THEN runtime ELSE RuntimeAcquire(k)
      /\ UNCHANGED <<entries, observers, objects>>
    BY DEF LoadBegin
<1> HIDE DEF r, k, m
<1>4. /\ plugins' \in Seq(PluginRecords) /\ Len(plugins) \in Nat /\ Len(plugins') = n
      /\ DOMAIN plugins = 1..Len(plugins) /\ DOMAIN plugins' = 1..n /\ plugins'[n] = r
      /\ \A q \in DOMAIN plugins : q # n /\ plugins'[q] = plugins[q]
    BY <1>0, <1>2, <1>3, LenProperties, AppendProperties DEF HostInv, HostTypes
<1>5. DOMAIN plugins' = DOMAIN plugins \cup {n} /\ n \notin DOMAIN plugins
    BY <1>0, <1>4
<1>6. /\ Alive(n)' /\ \A q \in DOMAIN plugins : Alive(q)' <=> Alive(q)
    BY <1>2, <1>4 DEF Alive
<1>7. OnlyNewestLoads'
  <2>1. \A q \in DOMAIN plugins : plugins[q].state # "loading"
    <3> SUFFICES ASSUME NEW q \in DOMAIN plugins, plugins[q].state = "loading" PROVE FALSE
        OBVIOUS
    <3>1. q = Len(plugins) /\ Len(plugins) > 0
        BY <1>4 DEF HostInv, OnlyNewestLoads
    <3> QED
        BY <1>3, <3>1 DEF Loading, NewestPlugin
  <2> QED
      BY <1>4, <1>5, <2>1 DEF OnlyNewestLoads
<1>8. ObjectsLoaded'
    BY <1>3, <1>4, <1>5 DEF HostInv, ObjectsLoaded
<1>9. ObserversNumbered' /\ ObserversHeld'
    BY <1>3, <1>4, <1>5 DEF HostInv, ObserversNumbered, ObserversHeld
<1>10. RefsExact'
  <2>1. Users(n)' = {} /\ Watchers(n)' = {}
      BY <1>3, <1>5 DEF Users, Watchers, HostInv, ObjectsLoaded, ObserversNumbered
  <2>2. \A q \in DOMAIN plugins : Users(q)' = Users(q) /\ Watchers(q)' = Watchers(q)
      BY <1>3 DEF Users, Watchers
  <2>3. plugins'[n].refs = Cardinality(Users(n)') + Cardinality(Watchers(n)')
      BY <1>2, <1>4, <2>1, FS_EmptySet
  <2>4. \A q \in DOMAIN plugins :
            /\ Alive(q)' => plugins'[q].refs = Cardinality(Users(q)') + Cardinality(Watchers(q)')
            /\ ~Alive(q)' => plugins'[q].refs = 0
      BY <1>4, <1>6, <2>2 DEF HostInv, RefsExact
  <2> QED
      BY <1>5, <1>6, <2>3, <2>4 DEF RefsExact
<1>11. runtime' \in [Guests -> Nat] /\ RuntimesExact'
  <2>1. \A l \in Guests : l # k => Running(l)' = Running(l)
      BY <1>2, <1>4, <1>5, <1>6 DEF Running
  <2>2. Running(k)' = Running(k) \cup {n} /\ n \notin Running(k)
      BY <1>2, <1>4, <1>5, <1>6 DEF Running
  <2>3. "native" \notin Guests /\ runtime \in [Guests -> Nat]
      BY DEF Guests, HostInv, HostTypes
  <2>4. \A l \in Guests : IsFiniteSet(Running(l)) /\ runtime[l] = Cardinality(Running(l)) /\ runtime[l] \in Nat
      BY CountsFinite DEF HostInv, RuntimesExact
  <2>5. CASE k = "native"
      BY <1>3, <2>1, <2>3, <2>4, <2>5 DEF RuntimesExact
  <2>6. CASE k \in Guests
    <3>1. Cardinality(Running(k)') = runtime[k] + 1
        BY <2>2, <2>4, <2>6, FS_AddElement
    <3>2. runtime' = [runtime EXCEPT ![k] = runtime[k] + 1]
      <4>1. k # "native"
          BY <2>3, <2>6
      <4> QED
          BY <1>3, <4>1 DEF RuntimeAcquire
    <3>3. \A l \in Guests : runtime'[l] = Cardinality(Running(l)')
        BY <2>1, <2>3, <2>4, <2>6, <3>1, <3>2
    <3>4. runtime' \in [Guests -> Nat]
        BY <2>3, <2>4, <2>6, <3>2
    <3> QED
        BY <3>3, <3>4 DEF RuntimesExact
  <2> QED
      BY <1>1, <2>5, <2>6 DEF k
<1>12. EntriesOwned'
    BY <1>3, <1>4, <1>5, <1>6 DEF HostInv, EntriesOwned
<1> QED
    BY <1>3, <1>4, <1>7, <1>8, <1>9, <1>10, <1>11, <1>12 DEF HostInv, HostTypes

(* An observer is registered: its number makes it a new one.               *)
LEMMA ObserverKeeps ==
    ASSUME HostInv, NEW p \in DOMAIN plugins, RegisterObserverApi(p)
    PROVE  HostInv'
<1> DEFINE x == [kind |-> "observer", name |-> "", plugin |-> p, n |-> plugins[p].calls]
<1>0. PICK r : r = [plugins[p] EXCEPT !.calls = plugins[p].calls + 1, !.refs = plugins[p].refs + 1]
    OBVIOUS
<1>1. /\ plugins[p] \in PluginRecords /\ plugins[p].refs \in Nat /\ plugins[p].calls \in Nat
      /\ Loading /\ p = Len(plugins)
    BY PluginFields DEF HostInv, RegisterObserverApi, Calling, NewestPlugin
<1>2. /\ r \in PluginRecords /\ r.kind = plugins[p].kind /\ r.state = plugins[p].state
      /\ r.calls = plugins[p].calls + 1 /\ r.refs = plugins[p].refs + 1
  <2>1. PICK calls \in Nat, refs \in Nat : calls = plugins[p].calls + 1 /\ refs = plugins[p].refs + 1
      BY <1>1
  <2>2. r = [plugins[p] EXCEPT !.calls = calls, !.refs = refs]
      BY <1>0, <2>1
  <2> QED
      BY <1>1, <2>1, <2>2 DEF PluginRecords
<1>3. plugins' = [plugins EXCEPT ![p] = r]
    BY <1>0 DEF RegisterObserverApi, Called
<1>4. observers' = observers \cup {x} /\ UNCHANGED <<entries, objects, runtime>>
    BY DEF RegisterObserverApi
<1>5. x.plugin = p /\ x.n = plugins[p].calls
    OBVIOUS
<1> HIDE DEF x
<1>6. x \notin observers
    BY <1>1, <1>5 DEF HostInv, ObserversNumbered
<1>7. Alive(p)
    BY <1>1 DEF Alive, Loading, NewestPlugin
<1>8. IsFiniteSet(observers') /\ Cardinality(Watchers(p)') = Cardinality(Watchers(p)) + 1
  <2>1. IsFiniteSet(observers) /\ IsFiniteSet(Watchers(p))
      BY CountsFinite DEF HostInv, HostTypes
  <2>2. Watchers(p)' = Watchers(p) \cup {x} /\ x \notin Watchers(p)
      BY <1>4, <1>5, <1>6 DEF Watchers
  <2> QED
      BY <1>4, <1>6, <2>1, <2>2, AddOne
<1>9. \A q \in DOMAIN plugins : q # p => Users(q)' = Users(q) /\ Watchers(q)' = Watchers(q)
    BY <1>4, <1>5 DEF Users, Watchers
<1>10. r.refs = Cardinality(Users(p)') + Cardinality(Watchers(p)')
  <2>1. Users(p)' = Users(p)
      BY <1>4 DEF Users
  <2>2. Cardinality(Users(p)) \in Nat /\ Cardinality(Watchers(p)) \in Nat
      BY CountsFinite DEF HostInv
  <2>3. plugins[p].refs = Cardinality(Users(p)) + Cardinality(Watchers(p))
      BY <1>7 DEF HostInv, RefsExact
  <2> QED
      BY <1>2, <1>8, <2>1, <2>2, <2>3
<1>11. /\ DOMAIN plugins' = DOMAIN plugins /\ plugins'[p] = r
       /\ \A q \in DOMAIN plugins : q # p => plugins'[q] = plugins[q]
    BY <1>2, <1>3, PluginReplaced DEF HostInv
<1>12. ObjectsLoaded'
    BY <1>2, <1>4, <1>11 DEF HostInv, ObjectsLoaded
<1>13. ObserversNumbered'
  <2> SUFFICES ASSUME NEW o \in observers'
               PROVE  o.plugin \in DOMAIN plugins' /\ o.n \in Nat /\ o.n < plugins'[o.plugin].calls
      BY DEF ObserversNumbered
  <2>1. CASE o = x
      BY <1>1, <1>2, <1>5, <1>11, <2>1
  <2>2. CASE o \in observers
    <3>1. o.plugin \in DOMAIN plugins /\ o.n \in Nat /\ o.n < plugins[o.plugin].calls
        BY <2>2 DEF HostInv, ObserversNumbered
    <3> QED
        BY <1>1, <1>2, <1>11, <3>1
  <2> QED
      BY <1>4, <2>1, <2>2
<1>14. r.calls >= plugins[p].calls /\ IsFiniteSet(objects')
    BY <1>1, <1>2, <1>4 DEF HostInv, HostTypes
<1>15. ObserversHeld'
    BY <1>2, <1>4, <1>5, <1>7, <1>11 DEF HostInv, ObserversNumbered, ObserversHeld, Alive
<1> QED
    BY <1>2, <1>3, <1>4, <1>7, <1>8, <1>9, <1>10, <1>12, <1>13, <1>14, <1>15, ReferenceMoves

LEMMA NothingKeeps ==
    ASSUME HostInv, UNCHANGED <<plugins, entries, observers, objects, runtime>>
    PROVE  HostInv'
BY DEF HostInv, HostTypes, OnlyNewestLoads, ObjectsLoaded, ObserversNumbered, ObserversHeld, RefsExact,
       RuntimesExact, EntriesOwned, Users, Watchers, Running, Alive

(* While fewer objects are alive than the bound, a number is free.         *)
LEMMA FreeNumber ==
    ASSUME IsFiniteSet(objects), Cardinality(objects) < MaxObjects
    PROVE  \E n \in 1..MaxObjects : \A o \in objects : o.n # n
<1> SUFFICES ASSUME \A n \in 1..MaxObjects : \E o \in objects : o.n = n PROVE FALSE
    OBVIOUS
<1> DEFINE f == [n \in 1..MaxObjects |-> CHOOSE o \in objects : o.n = n]
<1>1. f \in [1..MaxObjects -> objects] /\ \A n \in 1..MaxObjects : f[n].n = n
    OBVIOUS
<1>2. IsFiniteSet(1..MaxObjects) /\ Cardinality(1..MaxObjects) = MaxObjects
  <2>1. MaxObjects \in Nat
      BY PluginAssumption
  <2> QED
      BY <2>1, FS_Interval
<1> HIDE DEF f
<1>3. \E m, n \in 1..MaxObjects : m # n /\ f[m] = f[n]
    BY <1>1, <1>2, FS_PigeonHole
<1> QED
    BY <1>1, <1>3

(* An object is made: it is a new one, and its plugin is held for it.      *)
LEMMA ObjectKeeps ==
    ASSUME HostInv, NEW kind, NEW name, MakeObject(kind, name)
    PROVE  HostInv'
<1> DEFINE Made(e) ==
               /\ Alive(e.plugin)
               /\ plugins' = PluginAcquire(e.plugin)
               /\ objects' = objects \union
                    {[kind |-> kind, name |-> name, plugin |-> e.plugin,
                      n |-> CHOOSE n \in 1..MaxObjects : \A o \in objects : o.n # n]}
<1>0. CASE UNCHANGED <<plugins, objects>>
    BY <1>0, NothingKeeps DEF MakeObject
<1>a. SUFFICES ASSUME \E e \in FindEntry(kind, name) : Made(e) PROVE HostInv'
    BY <1>0 DEF MakeObject
<1>1. PICK e \in FindEntry(kind, name) : Made(e)
    BY <1>a
<1>2. PICK p, n, x : p = e.plugin /\ n = (CHOOSE k \in 1..MaxObjects : \A o \in objects : o.n # k)
                     /\ x = [kind |-> kind, name |-> name, plugin |-> p, n |-> n]
    OBVIOUS
<1>3. objects' = objects \cup {x} /\ UNCHANGED <<entries, observers, runtime>> /\ ~Loading
      /\ Cardinality(objects) < MaxObjects
    BY <1>1, <1>2 DEF MakeObject
<1>4. x.plugin = p /\ x.n = n
    BY <1>2
<1>5. IsFiniteSet(objects) /\ p \in DOMAIN plugins /\ Alive(p)
    BY <1>1, <1>2 DEF HostInv, HostTypes, EntriesOwned, FindEntry
<1>6. x \notin objects
  <2>1. \A o \in objects : o.n # n
      BY <1>2, <1>3, <1>5, FreeNumber
  <2> QED
      BY <1>4, <2>1
<1>7. PICK r : r = [plugins[p] EXCEPT !.refs = plugins[p].refs + 1]
    OBVIOUS
<1>8. plugins[p] \in PluginRecords /\ plugins[p].refs \in Nat /\ plugins[p].calls \in Nat
    BY <1>5, PluginFields DEF HostInv
<1>9. /\ r \in PluginRecords /\ r.kind = plugins[p].kind /\ r.state = plugins[p].state
      /\ r.calls = plugins[p].calls /\ r.refs = plugins[p].refs + 1
  <2>1. PICK refs \in Nat : refs = plugins[p].refs + 1
      BY <1>8
  <2> QED
      BY <1>7, <1>8, <2>1 DEF PluginRecords
<1>10. plugins' = [plugins EXCEPT ![p] = r]
    BY <1>1, <1>2, <1>7 DEF PluginAcquire
<1>11. plugins[p].state = "loaded"
  <2>1. plugins[p].state = "loading" => p = Len(plugins) /\ Len(plugins) > 0
      BY <1>5, PluginFields DEF HostInv, OnlyNewestLoads
  <2> QED
      BY <1>3, <1>5, <2>1 DEF Alive, Loading, NewestPlugin
<1>12. IsFiniteSet(objects') /\ Cardinality(Users(p)') = Cardinality(Users(p)) + 1
  <2>1. IsFiniteSet(Users(p))
      BY CountsFinite DEF HostInv
  <2>2. Users(p)' = Users(p) \cup {x} /\ x \notin Users(p)
      BY <1>3, <1>4, <1>6 DEF Users
  <2> QED
      BY <1>3, <1>5, <1>6, <2>1, <2>2, AddOne
<1>13. \A q \in DOMAIN plugins : q # p => Users(q)' = Users(q) /\ Watchers(q)' = Watchers(q)
    BY <1>3, <1>4 DEF Users, Watchers
<1>14. r.refs = Cardinality(Users(p)') + Cardinality(Watchers(p)')
  <2>1. Watchers(p)' = Watchers(p)
      BY <1>3 DEF Watchers
  <2>2. Cardinality(Users(p)) \in Nat /\ Cardinality(Watchers(p)) \in Nat
      BY CountsFinite DEF HostInv
  <2>3. plugins[p].refs = Cardinality(Users(p)) + Cardinality(Watchers(p))
      BY <1>5 DEF HostInv, RefsExact
  <2> QED
      BY <1>9, <1>12, <2>1, <2>2, <2>3
<1>15. /\ DOMAIN plugins' = DOMAIN plugins /\ plugins'[p] = r
       /\ \A q \in DOMAIN plugins : q # p => plugins'[q] = plugins[q]
    BY <1>5, <1>9, <1>10, PluginReplaced DEF HostInv
<1>16. ObjectsLoaded'
    BY <1>3, <1>4, <1>5, <1>9, <1>11, <1>15 DEF HostInv, ObjectsLoaded
<1>17. ObserversNumbered' /\ ObserversHeld'
    BY <1>3, <1>9, <1>15 DEF HostInv, ObserversNumbered, ObserversHeld
<1>18. r.calls >= plugins[p].calls /\ IsFiniteSet(observers')
    BY <1>3, <1>8, <1>9 DEF HostInv, HostTypes
<1> QED
    BY <1>3, <1>5, <1>9, <1>10, <1>12, <1>13, <1>14, <1>16, <1>17, <1>18, ReferenceMoves

(* An object or an observer is destroyed and lets its plugin go.           *)
LEMMA ReleaseKeeps ==
    ASSUME HostInv, NEW p \in DOMAIN plugins, Alive(p), plugins' = PluginRelease(p), NEW x, x.plugin = p,
           \/ x \in objects /\ objects' = objects \ {x} /\ observers' = observers
           \/ x \in observers /\ observers' = observers \ {x} /\ objects' = objects,
           UNCHANGED <<entries, runtime>>
    PROVE  HostInv'
<1>1. /\ plugins[p] \in PluginRecords /\ plugins[p].refs \in Nat /\ plugins[p].calls \in Nat
      /\ IsFiniteSet(objects) /\ IsFiniteSet(observers)
      /\ IsFiniteSet(Users(p)) /\ Cardinality(Users(p)) \in Nat
      /\ IsFiniteSet(Watchers(p)) /\ Cardinality(Watchers(p)) \in Nat
      /\ plugins[p].refs = Cardinality(Users(p)) + Cardinality(Watchers(p))
    BY PluginFields, CountsFinite DEF HostInv, HostTypes, RefsExact
<1>2. /\ IsFiniteSet(objects') /\ IsFiniteSet(observers') /\ plugins[p].refs > 0
      /\ plugins[p].refs - 1 = Cardinality(Users(p)') + Cardinality(Watchers(p)')
  <2>1. CASE x \in objects /\ objects' = objects \ {x} /\ observers' = observers
    <3>1. x \in Users(p) /\ Users(p)' = Users(p) \ {x} /\ Watchers(p)' = Watchers(p)
        BY <2>1 DEF Users, Watchers
    <3>2. IsFiniteSet(objects \ {x}) /\ Cardinality(Users(p)') = Cardinality(Users(p)) - 1 /\ Cardinality(Users(p)) > 0
        BY <1>1, <2>1, <3>1, RemoveOne
    <3> QED
        BY <1>1, <2>1, <3>1, <3>2
  <2>2. CASE x \in observers /\ observers' = observers \ {x} /\ objects' = objects
    <3>1. x \in Watchers(p) /\ Watchers(p)' = Watchers(p) \ {x} /\ Users(p)' = Users(p)
        BY <2>2 DEF Users, Watchers
    <3>2. IsFiniteSet(observers \ {x}) /\ Cardinality(Watchers(p)') = Cardinality(Watchers(p)) - 1
          /\ Cardinality(Watchers(p)) > 0
        BY <1>1, <2>2, <3>1, RemoveOne
    <3> QED
        BY <1>1, <2>2, <3>1, <3>2
  <2> QED
      BY <2>1, <2>2
<1>3. \A q \in DOMAIN plugins : q # p => Users(q)' = Users(q) /\ Watchers(q)' = Watchers(q)
    BY DEF Users, Watchers
<1>4. PICK r : r = [plugins[p] EXCEPT !.refs = plugins[p].refs - 1]
    OBVIOUS
<1>5. /\ r \in PluginRecords /\ r.kind = plugins[p].kind /\ r.state = plugins[p].state
      /\ r.calls = plugins[p].calls /\ r.refs = plugins[p].refs - 1
  <2>1. PICK refs \in Nat : refs = plugins[p].refs - 1
      BY <1>1, <1>2
  <2> QED
      BY <1>1, <1>4, <2>1 DEF PluginRecords
<1>6. plugins' = [plugins EXCEPT ![p] = r]
  <2>1. plugins[p].refs # 0
      BY <1>1, <1>2
  <2> QED
      BY <1>4, <2>1 DEF PluginRelease
<1>7. /\ DOMAIN plugins' = DOMAIN plugins /\ plugins'[p] = r
      /\ \A q \in DOMAIN plugins : q # p => plugins'[q] = plugins[q]
    BY <1>5, <1>6, PluginReplaced DEF HostInv
<1>8. ObjectsLoaded'
    BY <1>5, <1>7 DEF HostInv, ObjectsLoaded
<1>9. ObserversNumbered' /\ ObserversHeld'
    BY <1>5, <1>7 DEF HostInv, ObserversNumbered, ObserversHeld
<1>10. r.calls >= plugins[p].calls /\ r.refs = Cardinality(Users(p)') + Cardinality(Watchers(p)')
    BY <1>1, <1>2, <1>5
<1> QED
    BY <1>2, <1>3, <1>5, <1>6, <1>8, <1>9, <1>10, ReferenceMoves

(* An observer of a plugin that was freed lets nobody go.                  *)
LEMMA DeadReleaseKeeps ==
    ASSUME HostInv, NEW o \in observers, ~Alive(o.plugin), plugins' = PluginRelease(o.plugin),
           observers' = observers \ {o}, UNCHANGED <<entries, objects, runtime>>
    PROVE  HostInv'
<1>1. PICK p \in DOMAIN plugins : p = o.plugin
    BY DEF HostInv, ObserversNumbered
<1>2. plugins[p] \in PluginRecords /\ plugins[p].refs = 0
    BY <1>1, PluginFields DEF HostInv, RefsExact
<1>3. plugins' = plugins
  <2>1. plugins' = [plugins EXCEPT ![p] = [plugins[p] EXCEPT !.refs = plugins[p].refs]]
      BY <1>1, <1>2 DEF PluginRelease
  <2>2. [plugins[p] EXCEPT !.refs = plugins[p].refs] = plugins[p]
      BY <1>2 DEF PluginRecords
  <2>3. [plugins EXCEPT ![p] = plugins[p]] = plugins
      BY <1>1 DEF HostInv, HostTypes
  <2> QED
      BY <2>1, <2>2, <2>3
<1>4. HostTypes'
    BY <1>3, FS_RemoveElement DEF HostInv, HostTypes
<1>5. RefsExact'
  <2>1. \A q \in DOMAIN plugins : Alive(q) => Users(q)' = Users(q) /\ Watchers(q)' = Watchers(q)
      BY DEF Users, Watchers
  <2> QED
      BY <1>3, <2>1 DEF HostInv, RefsExact, Alive
<1> QED
    BY <1>3, <1>4, <1>5
    DEF HostInv, OnlyNewestLoads, ObjectsLoaded, ObserversNumbered, ObserversHeld, RuntimesExact, EntriesOwned,
        Running, Alive

(* A loaded plugin that nothing references has no object and no observer.  *)
LEMMA UnusedHasNoUser ==
    ASSUME HostInv, NEW p \in DOMAIN plugins, Alive(p), plugins[p].refs = 0
    PROVE  Users(p) = {} /\ Watchers(p) = {}
<1>1. /\ IsFiniteSet(Users(p)) /\ Cardinality(Users(p)) \in Nat
      /\ IsFiniteSet(Watchers(p)) /\ Cardinality(Watchers(p)) \in Nat
      /\ 0 = Cardinality(Users(p)) + Cardinality(Watchers(p))
    BY CountsFinite DEF HostInv, RefsExact
<1>2. Cardinality(Users(p)) = 0 /\ Cardinality(Watchers(p)) = 0
    BY <1>1
<1> QED
    BY <1>1, <1>2, FS_EmptySet

(* The host is destroyed with every plugin that is still loaded.           *)
LEMMA HostDestroyKeeps ==
    ASSUME HostInv, HostDestroy
    PROVE  HostInv'
<1>1. /\ ~Loading /\ entries' = {} /\ UNCHANGED <<observers, objects>>
      /\ \A p \in DOMAIN plugins : plugins[p].state = "loaded" => plugins[p].refs = 0
      /\ DOMAIN plugins' = DOMAIN plugins
      /\ \A p \in DOMAIN plugins :
            plugins'[p] = IF plugins[p].state = "loaded" THEN FreedState(p, "unloaded")[p] ELSE plugins[p]
    BY DEF HostDestroy
<1>2. \A p \in DOMAIN plugins : plugins[p].state \in {"loaded", "failed", "unloaded"}
  <2>0. \A p \in DOMAIN plugins : plugins[p].state \in {"loading", "loaded", "failed", "unloaded"}
      BY PluginFields DEF HostInv
  <2> SUFFICES ASSUME NEW p \in DOMAIN plugins, plugins[p].state = "loading" PROVE FALSE
      BY <2>0
  <2>1. p = Len(plugins) /\ Len(plugins) > 0
      BY PluginFields DEF HostInv, OnlyNewestLoads
  <2> QED
      BY <1>1, <2>1 DEF Loading, NewestPlugin
<1>3. \A p \in DOMAIN plugins : /\ plugins'[p] \in PluginRecords /\ plugins'[p].state \in {"failed", "unloaded"}
                                /\ plugins'[p].calls = plugins[p].calls /\ plugins'[p].refs = 0
  <2> TAKE p \in DOMAIN plugins
  <2>1. plugins[p] \in PluginRecords
      BY PluginFields DEF HostInv
  <2>2. CASE plugins[p].state \in {"failed", "unloaded"}
    <3>1. ~Alive(p) /\ plugins'[p] = plugins[p]
        BY <1>1, <2>2 DEF Alive
    <3> QED
        BY <2>1, <2>2, <3>1 DEF HostInv, RefsExact
  <2>3. CASE plugins[p].state = "loaded"
    <3>1. plugins'[p] = [plugins[p] EXCEPT !.state = "unloaded", !.refs = 0]
        BY <1>1, <2>3 DEF FreedState
    <3>2. PICK r : r = [plugins[p] EXCEPT !.state = "unloaded", !.refs = 0]
        OBVIOUS
    <3>3. r \in PluginRecords /\ r.state = "unloaded" /\ r.calls = plugins[p].calls /\ r.refs = 0
        BY <2>1, <3>2 DEF PluginRecords
    <3> QED
        BY <3>1, <3>2, <3>3
  <2> QED
      BY <1>2, <2>2, <2>3
<1>4. plugins' \in Seq(PluginRecords)
  <2>1. DOMAIN plugins' = 1..Len(plugins) /\ Len(plugins) \in Nat
      BY <1>1, LenProperties DEF HostInv, HostTypes
  <2>2. plugins' = [i \in 1..Len(plugins) |-> plugins'[i]]
      BY <2>1 DEF HostDestroy
  <2> QED
      BY <1>1, <1>3, <2>1, <2>2, IsASeq
<1>5. objects = {}
  <2>1. \A o \in objects : o.plugin \in DOMAIN plugins /\ Alive(o.plugin) /\ plugins[o.plugin].refs = 0
      BY <1>1 DEF HostInv, ObjectsLoaded, Alive
  <2>2. \A o \in objects : o \in Users(o.plugin)
      BY DEF Users
  <2> QED
      BY <2>1, <2>2, UnusedHasNoUser
<1>6. \A p \in DOMAIN plugins : ~Alive(p)'
    BY <1>1, <1>3 DEF Alive
<1>7. runtime' \in [Guests -> Nat] /\ RuntimesExact'
  <2>1. \A l \in Guests : /\ Running(l) = {p \in DOMAIN plugins : plugins[p].state = "loaded" /\ plugins[p].kind = l}
                          /\ Running(l)' = {}
      BY <1>1, <1>2, <1>6 DEF Running, Alive
  <2>2. runtime' = [l \in Guests |-> runtime[l] - Cardinality(Running(l))]
      BY <2>1 DEF HostDestroy, Guests
  <2>3. \A l \in Guests : runtime[l] = Cardinality(Running(l)) /\ runtime[l] \in Nat
      BY DEF HostInv, HostTypes, RuntimesExact
  <2>4. \A l \in Guests : runtime'[l] = 0
      BY <2>2, <2>3
  <2>5. runtime' \in [Guests -> Nat]
    <3>1. \A l \in Guests : runtime[l] - Cardinality(Running(l)) \in Nat
        BY <2>3
    <3> QED
        BY <2>2, <3>1
  <2> QED
      BY <2>1, <2>4, <2>5, FS_EmptySet DEF RuntimesExact
<1>8. OnlyNewestLoads' /\ ObjectsLoaded' /\ EntriesOwned'
    BY <1>1, <1>3, <1>5 DEF OnlyNewestLoads, ObjectsLoaded, EntriesOwned
<1>9. ObserversNumbered' /\ ObserversHeld'
  <2>1. \A o \in observers : o \in Watchers(o.plugin)
      BY DEF Watchers
  <2>2. \A o \in observers : o.plugin \in DOMAIN plugins /\ plugins[o.plugin].state = "failed"
    <3> TAKE o \in observers
    <3>1. o.plugin \in DOMAIN plugins /\ plugins[o.plugin].state # "unloaded"
        BY DEF HostInv, ObserversNumbered, ObserversHeld
    <3>2. plugins[o.plugin].state # "loaded"
        BY <1>1, <2>1, <3>1, UnusedHasNoUser DEF Alive
    <3> QED
        BY <1>2, <3>1, <3>2
  <2> QED
      BY <1>1, <1>3, <2>2 DEF HostInv, ObserversNumbered, ObserversHeld
<1>10. RefsExact'
    BY <1>1, <1>3, <1>6 DEF RefsExact
<1> QED
    BY <1>1, <1>4, <1>7, <1>8, <1>9, <1>10 DEF HostInv, HostTypes

----------------------------------------------------------------------------
LEMMA HostInit == ASSUME PluginInit PROVE HostInv
<1>1. plugins = <<>> /\ DOMAIN plugins = {} /\ plugins \in Seq(PluginRecords)
    BY EmptySeq DEF PluginInit
<1>2. runtime \in [Guests -> Nat] /\ \A l \in Guests : runtime[l] = 0
    BY DEF PluginInit, Guests
<1>3. \A l \in Guests : Running(l) = {}
    BY <1>1 DEF Running
<1> QED
    BY <1>1, <1>2, <1>3, FS_EmptySet
    DEF PluginInit, HostInv, HostTypes, OnlyNewestLoads, ObjectsLoaded, ObserversNumbered, ObserversHeld,
        RefsExact, RuntimesExact, EntriesOwned

(* What the plugin that is loading does in its init.                       *)
LEMMA InitStepKeeps ==
    ASSUME HostInv, NEW p \in DOMAIN plugins,
           \/ \E kind \in Kinds, name \in {"x", "y"} : NativeRegisters(p, kind, name)
           \/ \E spec \in plugins[p].file.specs : WasmRegistersTool(p, spec) \/ PythonRegistersTool(p, spec)
    PROVE  HostInv'
<1>1. /\ plugins[p] \in PluginRecords /\ plugins[p].calls \in Nat /\ plugins[p].file \in Files
      /\ plugins[p].tools \in SUBSET GuestTools /\ plugins[p].state = "loading"
    BY PluginFields DEF HostInv, NativeRegisters, WasmRegistersTool, PythonRegistersTool, Calling, Loading
<1>2. UNCHANGED <<observers, objects, runtime>>
    BY DEF NativeRegisters, WasmRegistersTool, PythonRegistersTool
<1>3. \A e \in entries' : e \in entries \/ e.plugin = p
    BY DEF NativeRegisters, WasmRegistersTool, PythonRegistersTool, ScriptRegisterTool, RemovePluginRegistrations
<1>4. PICK calls \in Nat : calls = plugins[p].calls + 1
    BY <1>1
<1>5. \/ plugins' = Called(p)
      \/ \E spec \in plugins[p].file.specs : plugins' = [Called(p) EXCEPT ![p].tools = @ \union {spec.name}]
    BY DEF NativeRegisters, WasmRegistersTool, PythonRegistersTool, ScriptRegisterTool
<1>6. PICK tools \in SUBSET GuestTools :
          plugins' = [plugins EXCEPT ![p] = [plugins[p] EXCEPT !.calls = calls, !.tools = tools]]
  <2>1. CASE plugins' = Called(p)
    <3>1. plugins' = [plugins EXCEPT ![p] = [plugins[p] EXCEPT !.calls = calls]]
        BY <1>4, <2>1 DEF Called
    <3>2. [plugins[p] EXCEPT !.calls = calls] = [plugins[p] EXCEPT !.calls = calls, !.tools = plugins[p].tools]
        BY <1>1, <1>4 DEF PluginRecords
    <3> QED
        BY <1>1, <3>1, <3>2
  <2>2. ASSUME NEW spec \in plugins[p].file.specs,
               plugins' = [Called(p) EXCEPT ![p].tools = @ \union {spec.name}]
        PROVE  \E tools \in SUBSET GuestTools :
                  plugins' = [plugins EXCEPT ![p] = [plugins[p] EXCEPT !.calls = calls, !.tools = tools]]
    <3>1. spec.name \in GuestTools
        BY <1>1 DEF GuestTools
    <3>2. PICK tools \in SUBSET GuestTools : tools = plugins[p].tools \cup {spec.name}
        BY <1>1, <3>1
    <3>3. Called(p) = [plugins EXCEPT ![p] = [plugins[p] EXCEPT !.calls = calls]]
        BY <1>4 DEF Called
    <3>4. Called(p)[p].tools = plugins[p].tools
        BY <1>1, <3>3 DEF PluginRecords
    <3>5. plugins' = [Called(p) EXCEPT ![p] = [Called(p)[p] EXCEPT !.tools = tools]]
        BY <2>2, <3>2, <3>4
    <3>6. plugins' = [plugins EXCEPT ![p] = [plugins[p] EXCEPT !.calls = calls, !.tools = tools]]
        BY <3>3, <3>5
    <3> QED
        BY <3>6
  <2> QED
      BY <1>5, <2>1, <2>2
<1>7. PICK r : r = [plugins[p] EXCEPT !.calls = calls, !.tools = tools]
    OBVIOUS
<1>8. /\ r \in PluginRecords /\ r.kind = plugins[p].kind /\ r.refs = plugins[p].refs
      /\ r.calls = calls /\ r.state = "loading"
    BY <1>1, <1>7 DEF PluginRecords
<1>9. plugins' = [plugins EXCEPT ![p] = r] /\ r.calls >= plugins[p].calls
    BY <1>1, <1>4, <1>6, <1>7, <1>8
<1> QED
    BY <1>1, <1>2, <1>3, <1>8, <1>9, RegistrationKeeps

(* The init returns: the plugin is loaded, or it goes.                     *)
LEMMA InitReturnKeeps ==
    ASSUME HostInv, NEW p \in DOMAIN plugins, NEW ok \in BOOLEAN,
           NativeInitReturns(p, ok) \/ WasmInitReturns(p, ok) \/ PythonInitReturns(p, ok)
    PROVE  HostInv'
<1>1. /\ plugins[p] \in PluginRecords /\ plugins[p].state = "loading" /\ plugins[p].calls \in Nat
      /\ UNCHANGED <<observers, objects>>
    BY PluginFields DEF HostInv, NativeInitReturns, WasmInitReturns, PythonInitReturns, Loading
<1>2. CASE plugins' = LoadedState(p) /\ UNCHANGED <<entries, runtime>>
  <2>1. PICK r : r = [plugins[p] EXCEPT !.state = "loaded"]
      OBVIOUS
  <2>2. /\ r \in PluginRecords /\ r.kind = plugins[p].kind /\ r.refs = plugins[p].refs
        /\ r.calls = plugins[p].calls /\ r.state = "loaded"
      BY <1>1, <2>1 DEF PluginRecords
  <2>3. plugins' = [plugins EXCEPT ![p] = r] /\ r.calls >= plugins[p].calls
      BY <1>1, <1>2, <2>1, <2>2 DEF LoadedState
  <2> QED
      BY <1>1, <1>2, <2>2, <2>3, RegistrationKeeps
<1>3. CASE /\ plugins' = FreedState(p, "failed")
           /\ \A e \in entries' : e \in entries /\ (e.plugin = p => plugins[p].kind = "wasm")
           /\ runtime' = IF plugins[p].kind = "native" THEN runtime ELSE RuntimeRelease(plugins[p].kind)
  <2>1. Alive(p)
      BY <1>1 DEF Alive
  <2>2. Users(p) = {}
      BY <1>1 DEF Users, HostInv, ObjectsLoaded
  <2> QED
      BY <1>1, <1>3, <2>1, <2>2, PluginGone
<1>4. CASE NativeInitReturns(p, ok)
    BY <1>2, <1>3, <1>4 DEF NativeInitReturns, RemovePluginRegistrations
<1>5. CASE WasmInitReturns(p, ok)
    BY <1>2, <1>3, <1>5 DEF WasmInitReturns, PluginWasmShutdown
<1>6. CASE PythonInitReturns(p, ok)
    BY <1>2, <1>3, <1>6 DEF PythonInitReturns, ScriptLoadFinish, ScriptLoadAbort, RemovePluginRegistrations,
                            PluginScriptShutdown, PythonDestroy
<1> QED
    BY <1>4, <1>5, <1>6

LEMMA UnloadKeeps ==
    ASSUME HostInv, NEW p \in DOMAIN plugins, PluginUnload(p)
    PROVE  HostInv'
<1>1. Alive(p) /\ Users(p) = {} /\ Watchers(p) = {}
    BY UnusedHasNoUser DEF PluginUnload, UnloadGuard, Alive
<1>2. plugins[p].kind \in {"native", "wasm", "python"}
    BY PluginFields DEF HostInv, Guests
<1>3. runtime' = IF plugins[p].kind = "native" THEN runtime ELSE RuntimeRelease(plugins[p].kind)
    BY <1>2 DEF PluginUnload, RuntimeAfter, PluginWasmShutdown, PluginScriptShutdown, PythonDestroy
<1>4. \A e \in entries' : e \in entries /\ e.plugin # p
    BY DEF PluginUnload, RemovePluginRegistrations
<1> QED
    BY <1>1, <1>3, <1>4, PluginGone DEF PluginUnload

LEMMA HostStep ==
    ASSUME HostInv, [PluginNext]_pluginVars
    PROVE  HostInv'
<1>1. CASE UNCHANGED <<plugins, entries, observers, objects, runtime>>
    BY <1>1, NothingKeeps
<1>2. ASSUME NEW a \in Artifacts, LoadBegin(a) \/ LoadRefused(a) PROVE HostInv'
    BY <1>1, <1>2, LoadBeginKeeps DEF LoadRefused, pluginVars
<1>3. ASSUME NEW p \in DOMAIN plugins, NEW ok \in BOOLEAN,
             NativeInitReturns(p, ok) \/ WasmInitReturns(p, ok) \/ PythonInitReturns(p, ok)
      PROVE  HostInv'
    BY <1>3, InitReturnKeeps
<1>4. ASSUME NEW name,
             \/ CreateProvider(name) \/ CreateChannel(name) \/ CreateTool(name)
             \/ CreateMemory(name) \/ CreatePeripheral(name)
      PROVE  HostInv'
    BY <1>4, ObjectKeeps DEF CreateProvider, CreateChannel, CreateTool, CreateMemory, CreatePeripheral
<1>5. ASSUME NEW o \in objects, AdapterDestroy(o) PROVE HostInv'
  <2>1. o.plugin \in DOMAIN plugins /\ Alive(o.plugin)
      BY DEF HostInv, ObjectsLoaded, Alive
  <2> QED
      BY <1>5, <2>1, ReleaseKeeps DEF AdapterDestroy
<1>6. ASSUME NEW o \in observers, ObserverAdapterDestroy(o) PROVE HostInv'
  <2>1. o.plugin \in DOMAIN plugins
      BY DEF HostInv, ObserversNumbered
  <2>2. CASE Alive(o.plugin)
      BY <1>6, <2>1, <2>2, ReleaseKeeps DEF ObserverAdapterDestroy
  <2>3. CASE ~Alive(o.plugin)
      BY <1>6, <2>3, DeadReleaseKeeps DEF ObserverAdapterDestroy
  <2> QED
      BY <2>2, <2>3
<1>7. CASE \/ \E o \in objects \union observers : AdapterCalled(o)
           \/ \E o \in objects, v \in {"allowed", "denied", "approval"} : GuestInvoked(o, v)
           \/ \E s, r \in BOOLEAN : WasmHostSetToolResult(s, r)
           \/ \E code \in {"ok", "denied", "unknown"} : WasmHostSetStatus(code)
           \/ \E trap \in BOOLEAN : WasmToolReturns(trap)
           \/ \E raises \in BOOLEAN, r \in PythonResults : PythonToolReturns(raises, r)
    BY <1>1, <1>7 DEF AdapterCalled, GuestInvoked, WasmHostSetToolResult, WasmHostSetStatus, WasmToolReturns,
                      PythonToolReturns
<1>8. CASE UNCHANGED pluginVars
    BY <1>1, <1>8 DEF pluginVars
<1> QED
    BY <1>2, <1>3, <1>4, <1>5, <1>6, <1>7, <1>8, InitStepKeeps, ObserverKeeps, UnloadKeeps, HostDestroyKeeps
    DEF PluginNext

(* Loading, failing to load, using and unloading plugins in any order      *)
(* leaves every reference count, interpreter count and registration list   *)
(* of the host exact, for any artifacts, host options and bounds           *)
(* (sc_plugin_acquire, sc_plugin_release, sc_plugin_unload,                *)
(* wasm_runtime_acquire, remove_plugin_registrations).                     *)
THEOREM HostCorrect == PluginSpec => []HostSound
<1>1. HostInv => HostSound
  <2> SUFFICES ASSUME HostInv PROVE HostSound
      OBVIOUS
  <2>1. InUseStaysLoaded
      BY DEF HostInv, ObjectsLoaded, ObserversHeld, RefsExact, InUseStaysLoaded, Users, Watchers
  <2>2. RuntimesBalanced
      BY DEF HostInv, RuntimesExact, RuntimesBalanced, Running, Guests
  <2>3. NoEntryOfTheGone
      BY DEF HostInv, EntriesOwned, NoEntryOfTheGone
  <2> QED
      BY <2>1, <2>2, <2>3 DEF HostSound
<1>2. PluginInit => HostInv
    BY HostInit
<1>3. HostInv /\ [PluginNext]_pluginVars => HostInv'
    BY HostStep
<1> QED
    BY <1>1, <1>2, <1>3, PTL DEF PluginSpec

----------------------------------------------------------------------------
(* The record of a guest's call has the fields of NoCall, and its code is  *)
(* one of the three that wasm_host_set_status leaves there.                *)
CallTyped ==
    /\ call = [running |-> call.running, tool |-> call.tool, owner |-> call.owner, set |-> call.set,
               success |-> call.success, code |-> call.code, status |-> call.status]
    /\ call.running \in BOOLEAN
    /\ call.code \in {"ok", "denied", "invalid"}

(* The last answer of a call is about this call only.                      *)
OutcomeTrue ==
    /\ ~call.running /\ call'.running => ~call'.set /\ call'.code = "ok"
    /\ call.running /\ ~call'.running /\ plugins[call.owner].kind = "wasm" =>
         (call'.status \in {"success", "failure"} => call.set /\ call.code = "ok")

LEMMA CallStep ==
    ASSUME CallTyped, [PluginNext]_pluginVars
    PROVE  CallTyped' /\ [OutcomeTrue]_call
<1>1. CASE UNCHANGED call
    BY <1>1 DEF CallTyped
<1>2. ASSUME NEW o, AdapterCalled(o) PROVE CallTyped' /\ OutcomeTrue
    BY <1>2 DEF AdapterCalled, NoCall, CallTyped, OutcomeTrue
<1>3. ASSUME NEW o, NEW v, GuestInvoked(o, v) PROVE CallTyped' /\ OutcomeTrue
    BY <1>3 DEF GuestInvoked, CallState, NoCall, CallTyped, OutcomeTrue
<1>4. ASSUME NEW s, NEW r \in BOOLEAN, WasmHostSetToolResult(s, r) PROVE CallTyped' /\ OutcomeTrue
  <2>1. call'.running = call.running /\ CallTyped'
      BY <1>4 DEF WasmHostSetToolResult, CallTyped
  <2> QED
      BY <1>4, <2>1 DEF WasmHostSetToolResult, OutcomeTrue
<1>5. ASSUME NEW code, WasmHostSetStatus(code) PROVE CallTyped' /\ OutcomeTrue
  <2>1. call'.running = call.running /\ CallTyped'
      BY <1>5 DEF WasmHostSetStatus, CallTyped
  <2> QED
      BY <1>5, <2>1 DEF WasmHostSetStatus, OutcomeTrue
<1>6. ASSUME NEW trap \in BOOLEAN, WasmToolReturns(trap) PROVE CallTyped' /\ OutcomeTrue
  <2>1. /\ call.running /\ call'.running = FALSE /\ call'.status = WasmToolInvoke(trap) /\ CallTyped'
      BY <1>6 DEF WasmToolReturns, CallTyped
  <2>2. WasmToolInvoke(trap) \in {"success", "failure"} => call.set /\ call.code = "ok"
      BY DEF WasmToolInvoke, CallTyped, Result
  <2> QED
      BY <2>1, <2>2 DEF OutcomeTrue
<1>7. ASSUME NEW raises, NEW r, PythonToolReturns(raises, r) PROVE CallTyped' /\ OutcomeTrue
    BY <1>7 DEF PythonToolReturns, CallTyped, OutcomeTrue
<1>8. CASE \/ \E a \in Artifacts : LoadBegin(a) \/ LoadRefused(a)
           \/ \E p \in DOMAIN plugins :
                 \/ \E kind \in Kinds, name \in {"x", "y"} : NativeRegisters(p, kind, name)
                 \/ RegisterObserverApi(p)
                 \/ \E spec \in plugins[p].file.specs : WasmRegistersTool(p, spec) \/ PythonRegistersTool(p, spec)
                 \/ \E ok \in BOOLEAN :
                       NativeInitReturns(p, ok) \/ WasmInitReturns(p, ok) \/ PythonInitReturns(p, ok)
                 \/ PluginUnload(p)
    BY <1>1, <1>8 DEF LoadBegin, LoadRefused, pluginVars, NativeRegisters, RegisterObserverApi, WasmRegistersTool,
                      PythonRegistersTool, NativeInitReturns, WasmInitReturns, PythonInitReturns, PluginUnload
<1>9. CASE \/ \E name \in {"x", "y"} :
                 \/ CreateProvider(name) \/ CreateChannel(name) \/ CreateTool(name)
                 \/ CreateMemory(name) \/ CreatePeripheral(name)
           \/ \E o \in objects : AdapterDestroy(o)
           \/ \E o \in observers : ObserverAdapterDestroy(o)
           \/ HostDestroy
           \/ UNCHANGED pluginVars
    BY <1>1, <1>9 DEF CreateProvider, CreateChannel, CreateTool, CreateMemory, CreatePeripheral, MakeObject,
                      AdapterDestroy, ObserverAdapterDestroy, HostDestroy, pluginVars
<1> QED
    BY <1>2, <1>3, <1>4, <1>5, <1>6, <1>7, <1>8, <1>9 DEF PluginNext

(* What the caller of a guest's tool is told is what the guest reported in *)
(* this very call: no result of an earlier call, of a guest that trapped   *)
(* or of one that reported an error is taken for it, for any guests        *)
(* (wasm_tool_invoke, wasm_host_set_tool_result, wasm_host_set_status).    *)
THEOREM GuestOutcomeTrueHolds == PluginSpec => GuestOutcomeTrue
<1>1. PluginInit => CallTyped
  <2>1. NoCall = [running |-> NoCall.running, tool |-> NoCall.tool, owner |-> NoCall.owner, set |-> NoCall.set,
                  success |-> NoCall.success, code |-> NoCall.code, status |-> NoCall.status]
      BY DEF NoCall
  <2>2. NoCall.running = FALSE /\ NoCall.code = "ok"
      BY DEF NoCall
  <2> QED
      BY <2>1, <2>2 DEF PluginInit, CallTyped
<1>2. CallTyped /\ [PluginNext]_pluginVars => CallTyped' /\ [OutcomeTrue]_call
    BY CallStep
<1> QED
    BY <1>1, <1>2, PTL DEF PluginSpec, GuestOutcomeTrue, OutcomeTrue

----------------------------------------------------------------------------
(***************************************************************************)
(* The Telegram channel.  UpdatesTaken is not inductive: it says nothing   *)
(* of the update in hand.  PollInv adds what the channel's own offset, the *)
(* answer of a poll and the update that is being fetched have to do with   *)
(* what was decided: everything below them was.                            *)
(***************************************************************************)
Settled(i) == fate[i] # "none"
SettledBelow(n) == \A i \in DOMAIN Updates : i < n => Settled(i)

Fetching == {"too_large", "getFile", "download", "store", "react", "deliver"}

(* The fields that the steps read and write.                               *)
CallFields ==
    {"pc", "try", "body", "m", "sent", "ids", "batch", "next", "cur", "ask", "left", "prompt"}

ChannelFields ==
    /\ "offset" \in DOMAIN tg /\ tg.offset \in Nat
    /\ CallFields \subseteq DOMAIN op
    /\ {"avail", "confirmed", "msgs"} \subseteq DOMAIN api
    /\ api.avail \in 0..Len(Updates) /\ api.confirmed \in Nat
    /\ DOMAIN fate = DOMAIN Updates

(* What is posted for the sender is never a poll.                          *)
BodyIsNoPoll == op.body.method # "getUpdates"

(* The updates f + 1, f + 2, ... up to f + n.                              *)
Run(f, n) == [k \in 1..n |-> f + k]

(* A poll's answer starts no earlier than the channel's offset, and after  *)
(* updates that are all decided.                                           *)
AnswerInHand ==
    op.pc = "parse" =>
        \E f, n \in Nat :
            /\ op.batch = Run(f, n) /\ (n > 0 => f + n <= Len(Updates))
            /\ tg.offset <= f + 1 /\ SettledBelow(f + 1)

(* So does the update that is being fetched.                               *)
UpdateInHand ==
    op.pc \in Fetching =>
        /\ op.cur \in DOMAIN Updates /\ op.next = op.cur + 1
        /\ tg.offset <= op.cur /\ SettledBelow(op.cur)

HandedBelow ==
    /\ handed \in Seq(Nat)
    /\ \A k \in DOMAIN handed : handed[k] < tg.offset

PollInv ==
    /\ ChannelFields /\ BodyIsNoPoll /\ AnswerInHand /\ UpdateInHand /\ HandedBelow
    /\ SettledBelow(tg.offset) /\ SettledBelow(api.confirmed) /\ HandedInOrder

----------------------------------------------------------------------------
LEMMA RunIsSeq ==
    ASSUME NEW f \in Nat, NEW n \in Nat
    PROVE  /\ Run(f, n) \in Seq(Nat) /\ Len(Run(f, n)) = n /\ DOMAIN Run(f, n) = 1..n
           /\ \A k \in 1..n : Run(f, n)[k] = f + k
           /\ n > 0 => Last(Run(f, n)) = f + n
           /\ n = 0 => Run(f, n) = <<>>
<1>1. Run(f, n) \in Seq(Nat) /\ DOMAIN Run(f, n) = 1..n /\ \A k \in 1..n : Run(f, n)[k] = f + k
    BY DEF Run
<1>2. Len(Run(f, n)) = n
    BY <1>1, LenProperties
<1>3. n > 0 => Last(Run(f, n)) = f + n
    BY <1>1, <1>2 DEF Last
<1>4. n = 0 => Run(f, n) = <<>>
    BY <1>1, <1>2, EmptySeq
<1> QED
    BY <1>1, <1>2, <1>3, <1>4

(* The first of a set of numbers.                                          *)
LEMMA FirstOfSet ==
    ASSUME NEW T, T \subseteq Nat, T # {}
    PROVE  Min(T) \in T
<1>1. PICK m \in T : \A y \in T : ~ (<<y, m>> \in OpToRel(<, Nat))
    BY NatLessThanWellFounded, WFMin
<1>2. ASSUME NEW y \in T PROVE m <= y
  <2>1. y \in Nat /\ m \in Nat
      OBVIOUS
  <2>2. ~(y < m)
      BY <1>1, <2>1 DEF OpToRel
  <2> QED
      BY <2>1, <2>2
<1> QED
    BY <1>2 DEF Min

(* The candidate of an answer is one of its updates.                       *)
LEMMA FirstIsInside ==
    ASSUME NEW f \in Nat, NEW n \in Nat, NEW b, b = Run(f, n)
    PROVE  FirstOf(b) = 0 \/ FirstOf(b) \in 1..n
<1> DEFINE T == {i \in 1..Len(b) : b[i] \in CandidateUpdates}
<1>1. T \subseteq 1..n
    BY RunIsSeq
<1>2. FirstOf(b) = IF T # {} THEN Min(T) ELSE 0
    BY DEF FirstOf, SelectInSeq
<1>3. T \subseteq Nat
    BY <1>1
<1> HIDE DEF T
<1>4. T # {} => Min(T) \in T
    BY <1>3, FirstOfSet
<1> QED
    BY <1>1, <1>2, <1>4

(* What a poll passes over: everything before the candidate.               *)
LEMMA SkippedAre ==
    ASSUME NEW f \in Nat, NEW n \in Nat, NEW b, b = Run(f, n)
    PROVE  /\ FirstOf(b) = 0 => \A i \in (f + 1)..(f + n) : i \in Skipped(b)
           /\ FirstOf(b) # 0 => \A i \in (f + 1)..(f + FirstOf(b) - 1) : i \in Skipped(b)
<1>1. DOMAIN b = 1..n /\ \A k \in 1..n : b[k] = f + k
    BY RunIsSeq
<1>2. ASSUME FirstOf(b) = 0, NEW i \in (f + 1)..(f + n)
      PROVE  i \in Skipped(b)
  <2>1. i - f \in DOMAIN b /\ b[i - f] = i
      BY <1>1
  <2> QED
      BY <1>2, <2>1 DEF Skipped
<1>3. ASSUME FirstOf(b) # 0, NEW i \in (f + 1)..(f + FirstOf(b) - 1)
      PROVE  i \in Skipped(b)
  <2>1. FirstOf(b) \in 1..n
      BY <1>3, FirstIsInside
  <2>2. i - f \in DOMAIN b /\ b[i - f] = i /\ i - f < FirstOf(b)
      BY <1>1, <2>1
  <2> QED
      BY <2>2 DEF Skipped
<1> QED
    BY <1>2, <1>3

(* The answer without a candidate moves the offset past updates that were  *)
(* passed over, and never back.                                            *)
LEMMA OffsetMoves ==
    ASSUME NEW f \in Nat, NEW n \in Nat, NEW b, b = Run(f, n), FirstOf(b) = 0,
           tg.offset \in Nat, tg.offset <= f + 1
    PROVE  /\ OffsetAfterAll(b) \in Nat /\ tg.offset <= OffsetAfterAll(b)
           /\ OffsetAfterAll(b) <= f + n + 1
<1>0. /\ DOMAIN Run(f, n) = 1..n /\ \A k \in 1..n : Run(f, n)[k] = f + k
      /\ n > 0 => Last(Run(f, n)) = f + n
      /\ n = 0 => Run(f, n) = <<>>
    BY RunIsSeq
<1>1. DOMAIN b = 1..n /\ \A k \in 1..n : b[k] = f + k
    BY <1>0
<1>2. /\ OffsetAfterHidden(b) \in Nat /\ tg.offset <= OffsetAfterHidden(b)
      /\ OffsetAfterHidden(b) <= f + n + 1
  <2> DEFINE hidden == {i \in DOMAIN b : ExtractUpdate(Updates[b[i]]).readable}
             top == CHOOSE i \in hidden : \A j \in hidden : j <= i
  <2>1. OffsetAfterHidden(b) = IF hidden = {} THEN tg.offset ELSE 1 + b[top]
      BY DEF OffsetAfterHidden
  <2>2. hidden # {} => top \in 1..n
    <3>1. hidden \subseteq 1..n
        BY <1>1
    <3>2. ASSUME hidden # {} PROVE \E i \in hidden : \A j \in hidden : j <= i
      <4> DEFINE R == {n - i : i \in hidden}
      <4>1. R \subseteq Nat /\ R # {}
          BY <3>1, <3>2
      <4>2. PICK m \in R : \A y \in R : ~ (<<y, m>> \in OpToRel(<, Nat))
          BY <4>1, NatLessThanWellFounded, WFMin
      <4>3. PICK i \in hidden : m = n - i
          BY <4>2
      <4>4. ASSUME NEW j \in hidden PROVE j <= i
        <5>1. n - j \in R
            OBVIOUS
        <5> HIDE DEF hidden, R
        <5>2. n - j \in Nat /\ m \in Nat /\ i \in Nat /\ j \in Nat
            BY <3>1, <4>3
        <5>3. ~(n - j < m)
            BY <4>2, <5>1, <5>2 DEF OpToRel
        <5> QED
            BY <4>3, <5>2, <5>3
      <4> QED
          BY <4>4
    <3> HIDE DEF hidden
    <3> QED
        BY <3>1, <3>2
  <2> HIDE DEF hidden, top
  <2>3. hidden # {} => b[top] = f + top
      BY <1>1, <2>2
  <2> QED
      BY <2>1, <2>2, <2>3
<1>3. n > 0 => Last(b) = f + n
    BY <1>0
<1>4. n = 0 => b = <<>>
    BY <1>0
<1> QED
    BY <1>2, <1>3, <1>4 DEF OffsetAfterAll

----------------------------------------------------------------------------
(* A request that is no poll leaves the service's queue alone.             *)
LEMMA RequestKeeps ==
    ASSUME ChannelFields, NEW o, NEW body, body.method # "getUpdates", Request(o, body)
    PROVE  /\ {"avail", "confirmed", "msgs"} \subseteq DOMAIN api'
           /\ api'.avail = api.avail /\ api'.confirmed = api.confirmed
<1>1. api' = api \/ api' = Served(api, body)
    BY DEF Request
<1>2. \/ Served(api, body) = [api EXCEPT !.msgs[body.chat] = Append(@, Shown(body))]
      \/ Served(api, body) = [api EXCEPT !.msgs[body.chat] = IF body.id \in DOMAIN @ THEN [@ EXCEPT ![body.id].text = body.text] ELSE @]
      \/ Served(api, body) = [api EXCEPT !.msgs[body.chat][body.id].text = <<>>]
      \/ Served(api, body) = api
    BY DEF Served
<1>3. \/ \E y : Served(api, body) = [api EXCEPT !["msgs"] = y]
      \/ Served(api, body) = api
    BY <1>2
<1> QED
    BY <1>1, <1>3 DEF ChannelFields

(* A poll tells the service the channel's offset.                          *)
LEMMA PollTells ==
    ASSUME ChannelFields, NEW o, Request(o, BuildGetUpdatesUrl(tg.offset))
    PROVE  /\ {"avail", "confirmed", "msgs"} \subseteq DOMAIN api'
           /\ api'.avail = api.avail /\ api'.confirmed \in {api.confirmed, tg.offset}
           /\ o = "ok" => tg.offset <= api'.confirmed
<1>1. ASSUME NEW body, body.method = "getUpdates"
      PROVE  Served(api, body) = [api EXCEPT !.confirmed = IF body.offset > @ THEN body.offset ELSE @]
    BY <1>1 DEF Served, Multipart
<1>2. Served(api, BuildGetUpdatesUrl(tg.offset)) =
        [api EXCEPT !.confirmed = IF tg.offset > @ THEN tg.offset ELSE @]
    BY <1>1 DEF BuildGetUpdatesUrl
<1>3. api' = IF o \in {"ok", "lost"} THEN Served(api, BuildGetUpdatesUrl(tg.offset)) ELSE api
    BY DEF Request
<1> QED
    BY <1>2, <1>3 DEF ChannelFields

----------------------------------------------------------------------------
(* A call that has no update in hand.                                      *)
Quiet(o1) ==
    /\ CallFields \subseteq DOMAIN o1 /\ o1.body.method # "getUpdates"
    /\ o1.pc # "parse" /\ o1.pc \notin Fetching

LEMMA IdleIsQuiet == Quiet(Idle)
BY DEF Quiet, Idle, CallFields, Fetching

(* What the service tells of its queue stays as it is, but for arrivals.   *)
QueueStays ==
    /\ {"avail", "confirmed", "msgs"} \subseteq DOMAIN api'
    /\ api'.avail \in 0..Len(Updates) /\ api'.confirmed = api.confirmed

LEMMA QueueStaysUnchanged ==
    ASSUME ChannelFields, UNCHANGED api
    PROVE  QueueStays
BY DEF ChannelFields, QueueStays

LEMMA QueueStaysRequest ==
    ASSUME ChannelFields, NEW o, NEW body, body.method # "getUpdates", Request(o, body)
    PROVE  QueueStays
BY RequestKeeps DEF ChannelFields, QueueStays

(* A step that leaves the offset and the records alone and has no update   *)
(* in hand.                                                                *)
LEMMA StepAside ==
    ASSUME PollInv, Quiet(op'), QueueStays, "offset" \in DOMAIN tg', tg'.offset = tg.offset,
           UNCHANGED <<fate, handed>>
    PROVE  PollInv'
<1>1. ChannelFields'
    BY DEF PollInv, ChannelFields, Quiet, QueueStays
<1>2. BodyIsNoPoll' /\ AnswerInHand' /\ UpdateInHand'
    BY DEF Quiet, BodyIsNoPoll, AnswerInHand, UpdateInHand, Fetching
<1>3. HandedBelow' /\ HandedInOrder'
    BY DEF PollInv, HandedBelow, HandedInOrder
<1>4. SettledBelow(tg.offset)' /\ SettledBelow(api.confirmed)'
    BY DEF PollInv, SettledBelow, Settled, QueueStays
<1> QED
    BY <1>1, <1>2, <1>3, <1>4 DEF PollInv

(* A step that keeps the update in hand.                                   *)
LEMMA StepInHand ==
    ASSUME PollInv, QueueStays, UNCHANGED <<tg, fate, handed>>,
           op.pc \in Fetching, op'.pc \in Fetching,
           CallFields \subseteq DOMAIN op', op'.body = op.body, op'.cur = op.cur, op'.next = op.next
    PROVE  PollInv'
<1>1. ChannelFields'
    BY DEF PollInv, ChannelFields, QueueStays
<1>2. BodyIsNoPoll' /\ AnswerInHand'
    BY DEF PollInv, BodyIsNoPoll, AnswerInHand, Fetching
<1>3. UpdateInHand'
    BY DEF PollInv, UpdateInHand, SettledBelow, Settled
<1>4. HandedBelow' /\ HandedInOrder'
    BY DEF PollInv, HandedBelow, HandedInOrder
<1>5. SettledBelow(tg.offset)' /\ SettledBelow(api.confirmed)'
    BY DEF PollInv, SettledBelow, Settled, QueueStays
<1> QED
    BY <1>1, <1>2, <1>3, <1>4, <1>5 DEF PollInv

(* When the call returns to its caller, it has no update in hand.          *)
LEMMA ListenQuiet ==
    ASSUME PollInv, NEW st, NEW disk1, ListenReturns(st, tg, disk1)
    PROVE  Quiet(op')
<1>1. \/ op' = Idle \/ op' = [op EXCEPT !.pc = "delete", !.try = 1]
      \/ op' = [op EXCEPT !.pc = "wait", !.cur = 0, !.batch = <<>>]
    BY Zenon DEF ListenReturns
<1>2. CASE op' = Idle
    BY <1>2, IdleIsQuiet
<1>3. CASE op' = [op EXCEPT !.pc = "delete", !.try = 1]
    BY <1>3 DEF PollInv, ChannelFields, BodyIsNoPoll, Quiet, CallFields, Fetching
<1>4. CASE op' = [op EXCEPT !.pc = "wait", !.cur = 0, !.batch = <<>>]
    BY <1>4 DEF PollInv, ChannelFields, BodyIsNoPoll, Quiet, CallFields, Fetching
<1> QED
    BY <1>1, <1>2, <1>3, <1>4

(* A failure that is not final changes nothing but the call.               *)
LEMMA ListenFails ==
    ASSUME PollInv, NEW st, NEW disk1, ListenReturns(st, tg, disk1), QueueStays,
           st \notin {"ok", "timeout"}, ~StatusConsumesUpdate(st)
    PROVE  PollInv'
<1>1. fate' = fate
    BY DEF ListenReturns
<1>2. handed' = handed
    BY DEF ListenReturns
<1>3. tg' = [tg EXCEPT !.offset = tg.offset]
    BY DEF ListenReturns, NextOffset
<1>4. "offset" \in DOMAIN tg' /\ tg'.offset = tg.offset
    BY <1>3 DEF PollInv, ChannelFields
<1> QED
    BY <1>1, <1>2, <1>4, ListenQuiet, StepAside

(* The update in hand is handed over, swallowed or dropped for good.       *)
LEMMA ListenTakes ==
    ASSUME PollInv, NEW st, NEW disk1, ListenReturns(st, tg, disk1), QueueStays,
           op.pc \in Fetching, st = "ok" \/ StatusConsumesUpdate(st)
    PROVE  PollInv'
<1>1. /\ op.cur \in DOMAIN Updates /\ op.next = op.cur + 1
      /\ tg.offset <= op.cur /\ SettledBelow(op.cur)
    BY DEF PollInv, UpdateInHand
<1>2. op.cur \in Nat
    BY <1>1, UpdatesNumbered
<1>3. /\ "offset" \in DOMAIN tg' /\ tg'.offset = op.cur + 1
  <2>1. tg' = [tg EXCEPT !.offset = op.next]
      BY DEF ListenReturns, NextOffset
  <2> QED
      BY <1>1, <2>1 DEF PollInv, ChannelFields
<1>4. \E v : v # "none" /\ fate' = [fate EXCEPT ![op.cur] = v]
    BY DEF ListenReturns
<1>5. DOMAIN fate' = DOMAIN Updates /\ \A i \in DOMAIN Updates : (i = op.cur \/ Settled(i)) => Settled(i)'
    BY <1>1, <1>4 DEF PollInv, ChannelFields, Settled
<1>6. ChannelFields'
    BY <1>2, <1>3, <1>5, ListenQuiet DEF PollInv, ChannelFields, Quiet, QueueStays
<1>7. BodyIsNoPoll' /\ AnswerInHand' /\ UpdateInHand'
    BY ListenQuiet DEF Quiet, BodyIsNoPoll, AnswerInHand, UpdateInHand, Fetching
<1>8. SettledBelow(tg.offset)' /\ SettledBelow(api.confirmed)'
  <2>1. \A i \in DOMAIN Updates : i \in Nat
      BY UpdatesNumbered
  <2>2. SettledBelow(tg.offset)'
      BY <1>1, <1>2, <1>3, <1>5, <2>1 DEF SettledBelow
  <2>3. SettledBelow(api.confirmed)'
      BY <1>5 DEF PollInv, SettledBelow, QueueStays
  <2> QED
      BY <2>2, <2>3
<1>9. handed' = handed \/ handed' = Append(handed, op.cur)
    BY Zenon DEF ListenReturns
<1>10. HandedBelow' /\ HandedInOrder'
  <2>1. /\ handed \in Seq(Nat) /\ tg.offset \in Nat
        /\ \A k \in DOMAIN handed : handed[k] < tg.offset
        /\ \A i, j \in DOMAIN handed : i < j => handed[i] < handed[j]
      BY DEF PollInv, HandedBelow, HandedInOrder, ChannelFields
  <2>2. CASE handed' = handed
      BY <1>1, <1>2, <1>3, <2>1, <2>2 DEF HandedBelow, HandedInOrder
  <2>3. CASE handed' = Append(handed, op.cur)
    <3>0. ASSUME NEW h \in Seq(Nat), NEW c \in Nat, NEW h1, h1 = Append(h, c)
          PROVE  /\ h1 \in Seq(Nat) /\ DOMAIN h = 1..Len(h) /\ DOMAIN h1 = 1..(Len(h) + 1)
                 /\ Len(h) \in Nat /\ h1[Len(h) + 1] = c
                 /\ \A k \in 1..Len(h) : h1[k] = h[k]
        BY <3>0, AppendProperties, LenProperties
    <3>1. /\ handed' \in Seq(Nat) /\ DOMAIN handed = 1..Len(handed) /\ DOMAIN handed' = 1..(Len(handed) + 1)
          /\ Len(handed) \in Nat
          /\ handed'[Len(handed) + 1] = op.cur
          /\ \A k \in 1..Len(handed) : handed'[k] = handed[k]
        BY <1>2, <2>1, <2>3, <3>0
    <3>2. HandedBelow'
      <4>1. ASSUME NEW k \in 1..(Len(handed) + 1) PROVE handed'[k] < op.cur + 1
        <5>1. CASE k = Len(handed) + 1
            BY <1>2, <3>1, <5>1
        <5>2. CASE k # Len(handed) + 1
          <6>1. k \in 1..Len(handed)
              BY <3>1, <5>2
          <6>2. handed'[k] = handed[k] /\ k \in DOMAIN handed
              BY <3>1, <6>1, Zenon
          <6>3. handed[k] \in Nat
              BY <2>1, <6>1, ElementOfSeq
          <6>4. handed[k] < tg.offset
              BY <2>1, <6>2, Zenon
          <6>5. tg.offset \in Nat /\ tg.offset <= op.cur
              BY <1>1, <2>1, Zenon
          <6> QED
              BY <1>2, <6>2, <6>3, <6>4, <6>5
        <5> QED
            BY <5>1, <5>2
      <4> QED
          BY <1>3, <3>1, <4>1 DEF HandedBelow
    <3>3. ASSUME NEW i \in DOMAIN handed', NEW j \in DOMAIN handed', i < j
          PROVE  handed'[i] < handed'[j]
      <4>1. i \in 1..Len(handed) /\ handed'[i] = handed[i] /\ handed[i] \in Nat
          BY <2>1, <3>1, <3>3
      <4>2. CASE j = Len(handed) + 1
          BY <1>1, <1>2, <2>1, <3>1, <4>1, <4>2
      <4>3. CASE j \in 1..Len(handed)
          BY <2>1, <3>1, <3>3, <4>1, <4>3
      <4> QED
          BY <3>1, <4>2, <4>3
    <3> QED
        BY <3>2, <3>3 DEF HandedInOrder
  <2> QED
      BY <1>9, <2>2, <2>3
<1> QED
    BY <1>6, <1>7, <1>8, <1>10 DEF PollInv

----------------------------------------------------------------------------
(* The steps of listening.                                                 *)
LEMMA RetryInHand ==
    ASSUME PollInv, QueueStays, Retry, UNCHANGED <<tg, fate, handed>>, op.pc \in Fetching
    PROVE  PollInv'
<1>1. /\ op'.pc = op.pc /\ CallFields \subseteq DOMAIN op' /\ op'.body = op.body
      /\ op'.cur = op.cur /\ op'.next = op.next
    BY DEF Retry, PollInv, ChannelFields, CallFields
<1> QED
    BY <1>1, StepInHand

LEMMA RetryAside ==
    ASSUME PollInv, QueueStays, Retry, UNCHANGED <<fate, handed>>, "offset" \in DOMAIN tg',
           tg'.offset = tg.offset, op.pc \notin Fetching, op.pc # "parse"
    PROVE  PollInv'
<1>1. Quiet(op')
    BY DEF Retry, PollInv, ChannelFields, CallFields, BodyIsNoPoll, Quiet
<1> QED
    BY <1>1, StepAside

LEMMA PollQuiet ==
    ASSUME PollInv
    PROVE  Quiet(Poll(op))
BY DEF PollInv, ChannelFields, CallFields, BodyIsNoPoll, Quiet, Poll, Fetching

(* What a step leaves alone.                                               *)
LEMMA OffsetThere ==
    ASSUME PollInv
    PROVE  ChannelFields /\ "offset" \in DOMAIN tg /\ tg.offset = tg.offset
BY DEF PollInv, ChannelFields

LEMMA GetUpdatesKeeps ==
    ASSUME PollInv, NEW o, GetUpdates(o)
    PROVE  PollInv'
<1>1. op.pc = "getUpdates" /\ Request(o, BuildGetUpdatesUrl(tg.offset))
    BY DEF GetUpdates
<1>2. /\ {"avail", "confirmed", "msgs"} \subseteq DOMAIN api'
      /\ api'.avail = api.avail /\ api'.confirmed \in {api.confirmed, tg.offset}
      /\ o = "ok" => tg.offset <= api'.confirmed
    BY <1>1, OffsetThere, PollTells
<1>3. /\ tg.offset \in Nat /\ api.confirmed \in Nat /\ api'.confirmed \in Nat
      /\ api.avail \in 0..Len(Updates)
    BY <1>2 DEF PollInv, ChannelFields
<1>4. \A i \in DOMAIN Updates : i < api'.confirmed => Settled(i)
    BY <1>2 DEF PollInv, SettledBelow
<1>5. \A i \in DOMAIN Updates : i \in Nat /\ i > 0
    BY UpdatesNumbered
<1>6. CASE op' = [op EXCEPT !.pc = "parse", !.next = tg.offset, !.batch = BatchFrom(api'.confirmed)]
           /\ o = "ok" /\ UNCHANGED <<tg, fate, handed>>
  <2>1. /\ CallFields \subseteq DOMAIN op' /\ op'.pc = "parse" /\ op'.body = op.body
        /\ op'.batch = BatchFrom(api'.confirmed)
      BY <1>6 DEF PollInv, ChannelFields, CallFields
  <2>2. \E f, n \in Nat :
          /\ op'.batch = Run(f, n) /\ (n > 0 => f + n <= Len(Updates)) /\ tg.offset <= f + 1
          /\ \A i \in DOMAIN Updates : i < f + 1 => Settled(i)
    <3> DEFINE f == IF api'.confirmed = 0 THEN 0 ELSE api'.confirmed - 1
               n == IF f <= api.avail THEN api.avail - f ELSE 0
    <3>1. f \in Nat /\ n \in Nat /\ (n > 0 => f + n <= Len(Updates)) /\ tg.offset <= f + 1
        BY <1>2, <1>3, <1>6, UpdatesNumbered
    <3>2. 1..(api.avail - f) = 1..n
        BY <1>3, <3>1, UpdatesNumbered
    <3>3. BatchFrom(api'.confirmed) = [k \in 1..(api.avail - f) |-> f + k]
        BY DEF BatchFrom
    <3>4. \A i \in DOMAIN Updates : i < f + 1 => Settled(i)
        BY <1>3, <1>4, <1>5
    <3> HIDE DEF f, n
    <3>5. op'.batch = Run(f, n)
        BY <2>1, <3>2, <3>3 DEF Run
    <3> QED
        BY <3>1, <3>4, <3>5
  <2>3. PICK f, n \in Nat :
          /\ op'.batch = Run(f, n) /\ (n > 0 => f + n <= Len(Updates)) /\ tg.offset <= f + 1
          /\ \A i \in DOMAIN Updates : i < f + 1 => Settled(i)
      BY <2>2
  <2>4. ChannelFields' /\ BodyIsNoPoll' /\ UpdateInHand'
      BY <1>2, <1>3, <1>6, <2>1 DEF PollInv, ChannelFields, BodyIsNoPoll, UpdateInHand, Fetching
  <2>5. AnswerInHand'
    <3>1. \A i \in DOMAIN Updates : i < f + 1 => Settled(i)'
        BY <1>6, <2>3 DEF Settled
    <3>2. tg'.offset <= f + 1
        BY <1>6, <2>3
    <3> QED
        BY <2>3, <3>1, <3>2 DEF AnswerInHand, SettledBelow
  <2>6. HandedBelow' /\ HandedInOrder' /\ SettledBelow(tg.offset)'
      BY <1>6 DEF PollInv, HandedBelow, HandedInOrder, SettledBelow, Settled
  <2>7. SettledBelow(api.confirmed)'
      BY <1>4, <1>6 DEF SettledBelow, Settled
  <2> QED
      BY <2>4, <2>5, <2>6, <2>7 DEF PollInv
<1>7. ASSUME Quiet(op'), UNCHANGED <<fate, handed>>, "offset" \in DOMAIN tg', tg'.offset = tg.offset
      PROVE  PollInv'
  <2>1. ChannelFields'
      BY <1>2, <1>3, <1>7 DEF PollInv, ChannelFields, Quiet
  <2>2. BodyIsNoPoll' /\ AnswerInHand' /\ UpdateInHand'
      BY <1>7 DEF Quiet, BodyIsNoPoll, AnswerInHand, UpdateInHand, Fetching
  <2>3. HandedBelow' /\ HandedInOrder' /\ SettledBelow(tg.offset)'
      BY <1>7 DEF PollInv, HandedBelow, HandedInOrder, SettledBelow, Settled
  <2>4. SettledBelow(api.confirmed)'
      BY <1>4, <1>7 DEF SettledBelow, Settled
  <2> QED
      BY <2>1, <2>2, <2>3, <2>4 DEF PollInv
<1>8. CASE Retry /\ UNCHANGED <<tg, held, disk, fate, handed>>
  <2>1. Quiet(op')
      BY <1>1, <1>8 DEF Retry, PollInv, ChannelFields, CallFields, BodyIsNoPoll, Quiet, Fetching
  <2> QED
      BY <1>7, <1>8, <2>1, OffsetThere
<1>9. CASE ListenReturns("http_error", tg, disk)
  <2>1. Quiet(op')
      BY <1>9, ListenQuiet
  <2>2. fate' = fate /\ handed' = handed /\ tg' = [tg EXCEPT !.offset = tg.offset]
      BY <1>9 DEF ListenReturns, NextOffset, StatusConsumesUpdate
  <2>3. "offset" \in DOMAIN tg' /\ tg'.offset = tg.offset
      BY <2>2, OffsetThere
  <2> QED
      BY <1>7, <2>1, <2>2, <2>3
<1> QED
    BY <1>6, <1>8, <1>9 DEF GetUpdates

(* What the poll passed over is recorded, and nothing is forgotten.        *)
LEMMA SkippedSettled ==
    ASSUME PollInv, fate' = WithSkipped
    PROVE  /\ DOMAIN fate' = DOMAIN Updates
           /\ \A i \in DOMAIN Updates : Settled(i) \/ i \in Skipped(op.batch) => Settled(i)'
BY DEF PollInv, ChannelFields, WithSkipped, Settled

LEMMA ParseNothingKeeps ==
    ASSUME PollInv, ParseNothing
    PROVE  PollInv'
<1>1. PICK f, n \in Nat :
        /\ op.batch = Run(f, n) /\ (n > 0 => f + n <= Len(Updates))
        /\ tg.offset <= f + 1 /\ SettledBelow(f + 1)
    BY DEF PollInv, AnswerInHand, ParseNothing
<1>2. FirstOf(op.batch) = 0 /\ fate' = WithSkipped /\ UNCHANGED <<api, handed>>
    BY DEF ParseNothing
<1>3. tg.offset \in Nat
    BY DEF PollInv, ChannelFields
<1>4. /\ OffsetAfterAll(op.batch) \in Nat /\ tg.offset <= OffsetAfterAll(op.batch)
      /\ OffsetAfterAll(op.batch) <= f + n + 1
    BY <1>1, <1>2, <1>3, OffsetMoves
<1>5. /\ "offset" \in DOMAIN tg' /\ tg'.offset = OffsetAfterAll(op.batch)
    BY DEF ParseNothing, PollInv, ChannelFields
<1>6. \A i \in DOMAIN Updates : i \in Nat
    BY UpdatesNumbered
<1>7. \A i \in DOMAIN Updates : i < f + n + 1 => Settled(i)'
  <2>1. \A i \in (f + 1)..(f + n) : i \in Skipped(op.batch)
      BY <1>1, <1>2, SkippedAre
  <2> QED
      BY <1>1, <1>2, <1>6, <2>1, SkippedSettled DEF SettledBelow
<1>8. Quiet(op')
  <2>1. op' = Idle \/ op' = [op EXCEPT !.pc = "wait", !.batch = <<>>]
      BY DEF ParseNothing
  <2>2. CASE op' = [op EXCEPT !.pc = "wait", !.batch = <<>>]
      BY <2>2 DEF PollInv, ChannelFields, CallFields, BodyIsNoPoll, Quiet, Fetching
  <2> QED
      BY <2>1, <2>2, IdleIsQuiet
<1>9. ChannelFields'
    BY <1>2, <1>4, <1>5, <1>8, SkippedSettled DEF PollInv, ChannelFields, Quiet
<1>10. BodyIsNoPoll' /\ AnswerInHand' /\ UpdateInHand'
    BY <1>8 DEF Quiet, BodyIsNoPoll, AnswerInHand, UpdateInHand, Fetching
<1>11. HandedBelow' /\ HandedInOrder'
  <2>1. ASSUME NEW k \in DOMAIN handed PROVE handed[k] < OffsetAfterAll(op.batch)
    <3>1. handed[k] \in Nat /\ handed[k] < tg.offset
        BY DEF PollInv, HandedBelow
    <3> QED
        BY <1>3, <1>4, <3>1
  <2> QED
      BY <1>2, <1>5, <2>1 DEF PollInv, HandedBelow, HandedInOrder
<1>12. SettledBelow(tg.offset)'
    BY <1>4, <1>5, <1>6, <1>7 DEF SettledBelow
<1>13. SettledBelow(api.confirmed)'
    BY <1>2, SkippedSettled DEF PollInv, SettledBelow
<1> QED
    BY <1>9, <1>10, <1>11, <1>12, <1>13 DEF PollInv

LEMMA ParseLimitedKeeps ==
    ASSUME PollInv, ParseLimited
    PROVE  PollInv'
<1>1. op' = Idle /\ fate' = WithSkipped /\ UNCHANGED <<tg, api, handed>>
    BY DEF ParseLimited
<1>2. ChannelFields'
    BY <1>1, IdleIsQuiet, SkippedSettled DEF PollInv, ChannelFields, Quiet
<1>3. BodyIsNoPoll' /\ AnswerInHand' /\ UpdateInHand'
    BY <1>1, IdleIsQuiet DEF Quiet, BodyIsNoPoll, AnswerInHand, UpdateInHand, Fetching
<1>4. HandedBelow' /\ HandedInOrder'
    BY <1>1 DEF PollInv, HandedBelow, HandedInOrder
<1>5. SettledBelow(tg.offset)' /\ SettledBelow(api.confirmed)'
    BY <1>1, SkippedSettled DEF PollInv, SettledBelow
<1> QED
    BY <1>2, <1>3, <1>4, <1>5 DEF PollInv

LEMMA ParseCandidateKeeps ==
    ASSUME PollInv, ParseCandidate
    PROVE  PollInv'
<1> DEFINE c == op.batch[FirstOf(op.batch)]
<1>1. PICK f, n \in Nat :
        /\ op.batch = Run(f, n) /\ (n > 0 => f + n <= Len(Updates))
        /\ tg.offset <= f + 1 /\ SettledBelow(f + 1)
    BY DEF PollInv, AnswerInHand, ParseCandidate
<1>2. FirstOf(op.batch) # 0 /\ fate' = WithSkipped /\ UNCHANGED <<api, handed>>
    BY DEF ParseCandidate
<1>3. FirstOf(op.batch) \in 1..n
    BY <1>1, <1>2, FirstIsInside
<1>4. c = f + FirstOf(op.batch)
  <2>1. \A k \in 1..n : Run(f, n)[k] = f + k
      BY RunIsSeq
  <2> QED
      BY <1>1, <1>3, <2>1
<1>5. c \in DOMAIN Updates /\ c \in Nat /\ tg.offset <= c
    BY <1>1, <1>3, <1>4, UpdatesNumbered DEF PollInv, ChannelFields
<1>6. \A i \in DOMAIN Updates : i \in Nat
    BY UpdatesNumbered
<1>7. \A i \in DOMAIN Updates : i < c => Settled(i)'
  <2>1. \A i \in (f + 1)..(f + FirstOf(op.batch) - 1) : i \in Skipped(op.batch)
      BY <1>1, <1>2, SkippedAre
  <2> HIDE DEF c
  <2> QED
      BY <1>1, <1>2, <1>3, <1>4, <1>6, <2>1, SkippedSettled DEF SettledBelow
<1>8. PICK p \in Fetching : op' = [op EXCEPT !.cur = c, !.next = c + 1, !.try = 1, !.pc = p]
    BY DEF ParseCandidate, Fetching, AfterMedia
<1> HIDE DEF c
<1>9. /\ CallFields \subseteq DOMAIN op' /\ op'.pc \in Fetching /\ op'.body = op.body
      /\ op'.cur = c /\ op'.next = c + 1
    BY <1>8 DEF PollInv, ChannelFields, CallFields
<1>10. "offset" \in DOMAIN tg' /\ tg'.offset = tg.offset
  <2>1. tg' = RateCounted
      BY DEF ParseCandidate
  <2> QED
      BY <2>1 DEF RateCounted, PollInv, ChannelFields
<1>11. ChannelFields'
    BY <1>2, <1>9, <1>10, SkippedSettled DEF PollInv, ChannelFields
<1>12. BodyIsNoPoll' /\ AnswerInHand'
    BY <1>9 DEF PollInv, BodyIsNoPoll, AnswerInHand, Fetching
<1>13. UpdateInHand'
    BY <1>5, <1>7, <1>9, <1>10 DEF UpdateInHand, SettledBelow
<1>14. HandedBelow' /\ HandedInOrder'
    BY <1>2, <1>10 DEF PollInv, HandedBelow, HandedInOrder
<1>15. SettledBelow(tg.offset)' /\ SettledBelow(api.confirmed)'
    BY <1>2, <1>10, SkippedSettled DEF PollInv, SettledBelow
<1> QED
    BY <1>11, <1>12, <1>13, <1>14, <1>15 DEF PollInv

LEMMA DeclaredTooLargeKeeps ==
    ASSUME PollInv, DeclaredTooLarge
    PROVE  PollInv'
<1>1. op.pc \in Fetching /\ ListenReturns("too_large", tg, disk) /\ StatusConsumesUpdate("too_large")
    BY DEF DeclaredTooLarge, Fetching, StatusConsumesUpdate
<1>2. QueueStays
    BY OffsetThere, QueueStaysUnchanged DEF DeclaredTooLarge
<1> QED
    BY <1>1, <1>2, ListenTakes

LEMMA GetFileKeeps ==
    ASSUME PollInv, NEW o, GetFile(o)
    PROVE  PollInv'
<1>1. op.pc \in Fetching
    BY DEF GetFile, Fetching
<1>2. QueueStays
  <2>1. BuildGetFileUrl(Updates[op.cur].file).method # "getUpdates"
      BY DEF BuildGetFileUrl
  <2> QED
      BY <2>1, OffsetThere, QueueStaysRequest DEF GetFile
<1>3. CASE Retry /\ UNCHANGED <<tg, held, disk, fate, handed>>
    BY <1>1, <1>2, <1>3, RetryInHand
<1>4. CASE ListenReturns("http_error", tg, disk)
    BY <1>2, <1>4, ListenFails DEF StatusConsumesUpdate
<1>5. CASE op' = [op EXCEPT !.pc = "download", !.try = 1] /\ UNCHANGED <<tg, held, disk, fate, handed>>
  <2>1. /\ op'.pc \in Fetching /\ CallFields \subseteq DOMAIN op' /\ op'.body = op.body
        /\ op'.cur = op.cur /\ op'.next = op.next
      BY <1>5 DEF PollInv, ChannelFields, CallFields, Fetching
  <2> QED
      BY <1>1, <1>2, <1>5, <2>1, StepInHand
<1> QED
    BY <1>3, <1>4, <1>5 DEF GetFile

LEMMA DownloadKeeps ==
    ASSUME PollInv, NEW o, Download(o)
    PROVE  PollInv'
<1>1. op.pc \in Fetching
    BY DEF Download, Fetching
<1>2. QueueStays
  <2>1. BuildDownloadFileUrl(Updates[op.cur].file).method # "getUpdates"
      BY DEF BuildDownloadFileUrl
  <2> QED
      BY <2>1, OffsetThere, QueueStaysRequest DEF Download
<1>3. CASE Retry /\ UNCHANGED <<tg, held, disk, fate, handed>>
    BY <1>1, <1>2, <1>3, RetryInHand
<1>4. CASE ListenReturns("http_error", tg, disk)
    BY <1>2, <1>4, ListenFails DEF StatusConsumesUpdate
<1>5. CASE op' = [op EXCEPT !.pc = "store"] /\ UNCHANGED <<tg, held, disk, fate, handed>>
  <2>1. /\ op'.pc \in Fetching /\ CallFields \subseteq DOMAIN op' /\ op'.body = op.body
        /\ op'.cur = op.cur /\ op'.next = op.next
      BY <1>5 DEF PollInv, ChannelFields, CallFields, Fetching
  <2> QED
      BY <1>1, <1>2, <1>5, <2>1, StepInHand
<1> QED
    BY <1>3, <1>4, <1>5 DEF Download

LEMMA StoreOutcomes ==
    ASSUME NEW ch, NEW u, NEW d
    PROVE  StoreMediaBytes(ch, u, d) \in
             {"store_invalid", "type_mismatch", "empty", "too_large", "malformed", "open_failed", "ok"}
<1>1. AttachmentValidate(ch, u) \in {"empty", "too_large", "ok"}
    BY DEF AttachmentValidate
<1>2. ScreenMediaAttachment(u) \in {"malformed", "ok"}
    BY Zenon DEF ScreenMediaAttachment
<1>3. StoreTemp(u, d) \in {"open_failed", "ok"}
    BY DEF StoreTemp
<1> QED
    BY <1>1, <1>2, <1>3 DEF StoreMediaBytes

LEMMA AfterMediaFetches ==
    ASSUME NEW u
    PROVE  AfterMedia(u) \in Fetching
BY DEF AfterMedia, Fetching

LEMMA StoreKeeps ==
    ASSUME PollInv, Store
    PROVE  PollInv'
<1> DEFINE st == StoreMediaBytes(Ch, Updates[op.cur], disk)
<1>1. op.pc \in Fetching
    BY DEF Store, Fetching
<1>2. QueueStays
    BY OffsetThere, QueueStaysUnchanged DEF Store
<1>3. st # "timeout"
    BY StoreOutcomes
<1>4. \/ st # "ok" /\ ListenReturns(st, tg, disk)
      \/ /\ op' = [op EXCEPT !.pc = AfterMedia(Updates[op.cur]), !.try = 1]
         /\ UNCHANGED <<tg, held, fate, handed, budget>>
      \/ ListenReturns("write_failed", tg, disk \cup {Updates[op.cur].file})
    BY Zenon DEF Store
<1> HIDE DEF st
<1>5. CASE st # "ok" /\ ListenReturns(st, tg, disk)
  <2>1. CASE StatusConsumesUpdate(st)
      BY <1>1, <1>2, <1>5, <2>1, ListenTakes
  <2>2. CASE ~StatusConsumesUpdate(st)
      BY <1>2, <1>3, <1>5, <2>2, ListenFails
  <2> QED
      BY <2>1, <2>2
<1>6. CASE /\ op' = [op EXCEPT !.pc = AfterMedia(Updates[op.cur]), !.try = 1]
           /\ UNCHANGED <<tg, held, fate, handed, budget>>
  <2>1. /\ op'.pc = AfterMedia(Updates[op.cur]) /\ CallFields \subseteq DOMAIN op' /\ op'.body = op.body
        /\ op'.cur = op.cur /\ op'.next = op.next
      BY <1>6 DEF PollInv, ChannelFields, CallFields
  <2> QED
      BY <1>1, <1>2, <1>6, <2>1, AfterMediaFetches, StepInHand
<1>7. CASE ListenReturns("write_failed", tg, disk \cup {Updates[op.cur].file})
    BY <1>2, <1>7, ListenFails DEF StatusConsumesUpdate
<1> QED
    BY <1>4, <1>5, <1>6, <1>7

LEMMA ReactKeeps ==
    ASSUME PollInv, NEW o, React(o)
    PROVE  PollInv'
<1>1. op.pc \in Fetching /\ UNCHANGED <<tg, fate, handed>>
    BY DEF React, Fetching
<1>2. QueueStays
  <2>1. BuildReactionBody(Updates[op.cur]).method # "getUpdates"
      BY DEF BuildReactionBody
  <2> QED
      BY <2>1, OffsetThere, QueueStaysRequest DEF React
<1>3. CASE Retry
    BY <1>1, <1>2, <1>3, RetryInHand
<1>4. CASE op' = [op EXCEPT !.pc = "deliver"]
  <2>1. /\ op'.pc \in Fetching /\ CallFields \subseteq DOMAIN op' /\ op'.body = op.body
        /\ op'.cur = op.cur /\ op'.next = op.next
      BY <1>4 DEF PollInv, ChannelFields, CallFields, Fetching
  <2> QED
      BY <1>1, <1>2, <2>1, StepInHand
<1> QED
    BY <1>3, <1>4 DEF React

LEMMA DeliverKeeps ==
    ASSUME PollInv, Deliver
    PROVE  PollInv'
<1>1. op.pc \in Fetching /\ ListenReturns("ok", tg, disk)
    BY DEF Deliver, Fetching
<1>2. QueueStays
    BY OffsetThere, QueueStaysUnchanged DEF Deliver
<1> QED
    BY <1>1, <1>2, ListenTakes

----------------------------------------------------------------------------
(* The other steps have no update in hand.                                 *)
LEMMA AsideKeeps ==
    ASSUME PollInv, StartListen \/ WaitPoll \/ WaitEnds \/ SendReturns
    PROVE  PollInv'
<1>1. UNCHANGED <<tg, api, fate, handed>> /\ (op' = Idle \/ op' = Poll(op))
    BY DEF StartListen, WaitPoll, WaitEnds, SendReturns
<1>2. Quiet(op')
    BY <1>1, IdleIsQuiet, PollQuiet
<1> QED
    BY <1>1, <1>2, OffsetThere, QueueStaysUnchanged, StepAside

(* A request of the sender, the asker or the runtime's typing sign.        *)
LEMMA PostsKeep ==
    ASSUME PollInv, NEW o,
           Ask(o) \/ DeletePrompt(o) \/ SendChatAction(o) \/ PostAttachment(o) \/ PostEmpty(o)
    PROVE  PollInv'
<1>1. UNCHANGED <<tg, fate, handed>> /\ op.pc \in {"ask", "delete", "typing", "attach", "empty"}
    BY DEF Ask, DeletePrompt, SendChatAction, PostAttachment, PostEmpty
<1>2. QueueStays
  <2>1. Request(o, op.body) \/ Request(o, BuildDeleteMessageBody(op.ask.chat, op.prompt))
      BY DEF Ask, DeletePrompt, SendChatAction, PostAttachment, PostEmpty
  <2>2. BuildDeleteMessageBody(op.ask.chat, op.prompt).method # "getUpdates"
      BY DEF BuildDeleteMessageBody
  <2>3. op.body.method # "getUpdates"
      BY DEF PollInv, BodyIsNoPoll
  <2> QED
      BY <2>1, <2>2, <2>3, OffsetThere, QueueStaysRequest
<1>3. \/ Retry \/ op' = Idle
      \/ \E l, p : op' = [op EXCEPT !.pc = "wait", !.left = l, !.prompt = p]
      \/ op' = [op EXCEPT !.pc = "chunk"]
      \/ op' = [op EXCEPT !.body = BuildDocumentBody(op.m)]
    BY Zenon DEF Ask, DeletePrompt, SendChatAction, PostAttachment, PostEmpty
<1>4. BuildDocumentBody(op.m).method # "getUpdates"
    BY DEF BuildDocumentBody, Attachment
<1>5. CASE Retry
    BY <1>1, <1>2, <1>5, OffsetThere, RetryAside DEF Fetching
<1>6. CASE op' = Idle
    BY <1>1, <1>2, <1>6, OffsetThere, IdleIsQuiet, StepAside
<1>7. CASE \E l, p : op' = [op EXCEPT !.pc = "wait", !.left = l, !.prompt = p]
  <2>1. Quiet(op')
      BY <1>7 DEF PollInv, ChannelFields, CallFields, BodyIsNoPoll, Quiet, Fetching
  <2> QED
      BY <1>1, <1>2, <2>1, OffsetThere, StepAside
<1>8. CASE op' = [op EXCEPT !.pc = "chunk"]
  <2>1. Quiet(op')
      BY <1>8 DEF PollInv, ChannelFields, CallFields, BodyIsNoPoll, Quiet, Fetching
  <2> QED
      BY <1>1, <1>2, <2>1, OffsetThere, StepAside
<1>9. CASE op' = [op EXCEPT !.body = BuildDocumentBody(op.m)]
  <2>1. Quiet(op')
      BY <1>1, <1>4, <1>9 DEF PollInv, ChannelFields, CallFields, Quiet, Fetching
  <2> QED
      BY <1>1, <1>2, <2>1, OffsetThere, StepAside
<1> QED
    BY <1>3, <1>5, <1>6, <1>7, <1>8, <1>9

LEMMA InboundClearKeeps ==
    ASSUME PollInv, InboundClear
    PROVE  PollInv'
<1>1. UNCHANGED <<tg, op, api, fate, handed>> /\ op.pc = "idle"
    BY DEF InboundClear
<1>2. Quiet(op')
    BY <1>1 DEF PollInv, ChannelFields, BodyIsNoPoll, Quiet, Fetching
<1> QED
    BY <1>1, <1>2, OffsetThere, QueueStaysUnchanged, StepAside

LEMMA StartApprovalKeeps ==
    ASSUME PollInv, StartApproval
    PROVE  PollInv'
<1>1. UNCHANGED <<api, fate, handed>> /\ tg' = [tg EXCEPT !.approvalId = @ + 1]
    BY DEF StartApproval
<1>2. "offset" \in DOMAIN tg' /\ tg'.offset = tg.offset
    BY <1>1 DEF PollInv, ChannelFields
<1>3. \E q, b : b.method # "getUpdates" /\ op' = [Idle EXCEPT !.pc = "ask", !.ask = q, !.body = b]
    BY DEF StartApproval, BuildApprovalBody
<1>4. Quiet(op')
    BY <1>3, IdleIsQuiet DEF Quiet, CallFields, Fetching
<1> QED
    BY <1>1, <1>2, <1>4, OffsetThere, QueueStaysUnchanged, StepAside

LEMMA AttachmentIsNoPoll ==
    ASSUME NEW m
    PROVE  SendAttachment(m).method # "getUpdates"
<1>1. ASSUME NEW x, NEW y PROVE Attachment(x, m, y).method = x
    BY DEF Attachment
<1>2. \E y : \/ SendAttachment(m) = Attachment("sendAudio", m, y)
             \/ SendAttachment(m) = Attachment("sendVoice", m, y)
             \/ SendAttachment(m) = Attachment("sendPhoto", m, y)
             \/ SendAttachment(m) = Attachment("sendDocument", m, y)
    BY Zenon DEF SendAttachment, SendAudio, BuildAudioBody, BuildVoiceBody, BuildPhotoBody, BuildDocumentBody
<1> QED
    BY <1>1, <1>2

LEMMA StartSendKeeps ==
    ASSUME PollInv, NEW m, StartSend(m)
    PROVE  PollInv'
<1>1. UNCHANGED <<tg, api, fate, handed>>
    BY DEF StartSend
<1>2. \E p \in {"typing", "attach", "empty", "chunk"}, b \in {BuildChatActionBody(m), SendAttachment(m), BuildSendBody(m, <<>>)} :
        op' = [[Idle EXCEPT !.m = m] EXCEPT !.pc = p, !.body = b]
    BY Zenon DEF StartSend
<1>3. BuildChatActionBody(m).method # "getUpdates" /\ BuildSendBody(m, <<>>).method # "getUpdates"
    BY DEF BuildChatActionBody, BuildSendBody
<1>4. PICK p, b : /\ p \in {"typing", "attach", "empty", "chunk"} /\ b.method # "getUpdates"
                  /\ op' = [[Idle EXCEPT !.m = m] EXCEPT !.pc = p, !.body = b]
    BY <1>2, <1>3, AttachmentIsNoPoll
<1>5. Quiet(op')
    BY <1>4, IdleIsQuiet DEF Quiet, CallFields, Fetching
<1> QED
    BY <1>1, <1>5, OffsetThere, QueueStaysUnchanged, StepAside

LEMMA NextChunkKeeps ==
    ASSUME PollInv, NextChunk
    PROVE  PollInv'
<1>1. UNCHANGED <<api, fate, handed>>
    BY DEF NextChunk
<1>2. tg' = tg \/ \E x, y : tg' = [tg EXCEPT !.activeDraft = x, !.nextDraft = y]
    BY Zenon DEF NextChunk
<1>3. "offset" \in DOMAIN tg' /\ tg'.offset = tg.offset
    BY <1>2 DEF PollInv, ChannelFields
<1>4. \E b : op' = [op EXCEPT !.pc = "post", !.try = 1, !.body = b] /\ b.method # "getUpdates"
  <2>1. \E t, id : \E b \in {BuildMessageDraftBody(op.m, t, id), BuildEditBody(op.m, t, id), BuildSendBody(op.m, t)} :
          op' = [op EXCEPT !.pc = "post", !.try = 1, !.body = b]
      BY Zenon DEF NextChunk
  <2>2. ASSUME NEW t, NEW id
        PROVE  /\ BuildMessageDraftBody(op.m, t, id).method # "getUpdates"
               /\ BuildEditBody(op.m, t, id).method # "getUpdates"
               /\ BuildSendBody(op.m, t).method # "getUpdates"
      BY DEF BuildMessageDraftBody, BuildEditBody, BuildSendBody
  <2> QED
      BY <2>1, <2>2
<1>5. Quiet(op')
    BY <1>4 DEF PollInv, ChannelFields, CallFields, Quiet, Fetching
<1> QED
    BY <1>1, <1>3, <1>5, OffsetThere, QueueStaysUnchanged, StepAside

LEMMA PostKeeps ==
    ASSUME PollInv, NEW o, Post(o)
    PROVE  PollInv'
<1>1. op.pc = "post" /\ Request(o, op.body) /\ UNCHANGED <<fate, handed>>
    BY DEF Post
<1>2. QueueStays
    BY <1>1, OffsetThere, QueueStaysRequest DEF PollInv, BodyIsNoPoll
<1>3. \/ tg' = tg \/ tg' = ForgetDraft
      \/ \E id : tg' = RememberDraft(id)
    BY Zenon DEF Post
<1>4. "offset" \in DOMAIN tg' /\ tg'.offset = tg.offset
    BY <1>3 DEF RememberDraft, ForgetDraft, PollInv, ChannelFields
<1>5. \/ Retry \/ op' = Idle
      \/ \E n, l : op' = [op EXCEPT !.pc = "chunk", !.sent = n, !.ids = l]
      \/ op' = [op EXCEPT !.try = 1, !.body = BuildSendBody(op.m, op.body.text)]
    BY Zenon DEF Post
<1>6. CASE Retry
    BY <1>1, <1>2, <1>4, <1>6, RetryAside DEF Fetching
<1>7. CASE op' = Idle
    BY <1>1, <1>2, <1>4, <1>7, IdleIsQuiet, StepAside
<1>8. CASE \E n, l : op' = [op EXCEPT !.pc = "chunk", !.sent = n, !.ids = l]
  <2>1. Quiet(op')
      BY <1>8 DEF PollInv, ChannelFields, CallFields, BodyIsNoPoll, Quiet, Fetching
  <2> QED
      BY <1>1, <1>2, <1>4, <2>1, StepAside
<1>9. CASE op' = [op EXCEPT !.try = 1, !.body = BuildSendBody(op.m, op.body.text)]
  <2>1. BuildSendBody(op.m, op.body.text).method # "getUpdates"
      BY DEF BuildSendBody
  <2>2. Quiet(op')
      BY <1>1, <1>9, <2>1 DEF PollInv, ChannelFields, CallFields, Quiet, Fetching
  <2> QED
      BY <1>1, <1>2, <1>4, <2>2, StepAside
<1> QED
    BY <1>5, <1>6, <1>7, <1>8, <1>9

(* A step outside the channel's code: the service's or the clock's.        *)
LEMMA StepOutside ==
    ASSUME PollInv, QueueStays, "offset" \in DOMAIN tg', tg'.offset = tg.offset,
           CallFields \subseteq DOMAIN op', op'.pc = op.pc, op'.body = op.body, op'.batch = op.batch,
           op'.cur = op.cur, op'.next = op.next, UNCHANGED <<fate, handed>>
    PROVE  PollInv'
<1>1. ChannelFields'
    BY DEF PollInv, ChannelFields, QueueStays
<1>2. ASSUME NEW n PROVE SettledBelow(n) => \A i \in DOMAIN Updates : i < n => Settled(i)'
    BY DEF SettledBelow, Settled
<1>3. BodyIsNoPoll' /\ UpdateInHand'
    BY <1>2 DEF PollInv, BodyIsNoPoll, UpdateInHand, SettledBelow
<1>4. AnswerInHand'
    BY <1>2 DEF PollInv, AnswerInHand, SettledBelow
<1>5. HandedBelow' /\ HandedInOrder'
    BY DEF PollInv, HandedBelow, HandedInOrder
<1>6. SettledBelow(tg.offset)' /\ SettledBelow(api.confirmed)'
    BY DEF PollInv, SettledBelow, Settled, QueueStays
<1> QED
    BY <1>1, <1>3, <1>4, <1>5, <1>6 DEF PollInv

LEMMA ArriveKeeps ==
    ASSUME PollInv, Arrive
    PROVE  PollInv'
<1>1. UNCHANGED <<tg, op, fate, handed>> /\ api' = [api EXCEPT !.avail = @ + 1] /\ api.avail < Len(Updates)
    BY DEF Arrive
<1>2. QueueStays
    BY <1>1, UpdatesNumbered DEF PollInv, ChannelFields, QueueStays
<1>3. "offset" \in DOMAIN tg /\ CallFields \subseteq DOMAIN op
    BY DEF PollInv, ChannelFields
<1> QED
    BY <1>1, <1>2, <1>3, StepOutside

LEMMA TickKeeps ==
    ASSUME PollInv, Tick
    PROVE  PollInv'
<1>1. /\ UNCHANGED <<api, fate, handed>>
      /\ \E a : tg' = [tg EXCEPT !.rateAge = a]
      /\ \E l : op' = [op EXCEPT !.left = l]
    BY Zenon DEF Tick
<1>2. "offset" \in DOMAIN tg' /\ tg'.offset = tg.offset
    BY <1>1 DEF PollInv, ChannelFields
<1>3. /\ CallFields \subseteq DOMAIN op' /\ op'.pc = op.pc /\ op'.body = op.body /\ op'.batch = op.batch
      /\ op'.cur = op.cur /\ op'.next = op.next
    BY <1>1 DEF PollInv, ChannelFields, CallFields
<1> QED
    BY <1>1, <1>2, <1>3, OffsetThere, QueueStaysUnchanged, StepOutside

(* A start, the first one or after a crash: nothing is handed out yet and  *)
(* the offset is 0.                                                        *)
LEMMA StartHolds ==
    ASSUME tg = ChannelAtStart, op = Idle, handed = <<>>, DOMAIN fate = DOMAIN Updates,
           {"avail", "confirmed", "msgs"} \subseteq DOMAIN api, api.avail \in 0..Len(Updates),
           api.confirmed \in Nat, SettledBelow(api.confirmed)
    PROVE  PollInv
<1>1. "offset" \in DOMAIN tg /\ tg.offset = 0
    BY DEF ChannelAtStart
<1>2. ChannelFields
    BY <1>1, IdleIsQuiet DEF ChannelFields, Quiet
<1>3. BodyIsNoPoll /\ AnswerInHand /\ UpdateInHand
    BY IdleIsQuiet DEF Quiet, BodyIsNoPoll, AnswerInHand, UpdateInHand
<1>4. HandedBelow /\ HandedInOrder
    BY DEF HandedBelow, HandedInOrder
<1>5. SettledBelow(tg.offset)
    BY <1>1, UpdatesNumbered DEF SettledBelow
<1> QED
    BY <1>2, <1>3, <1>4, <1>5 DEF PollInv

LEMMA CrashKeeps ==
    ASSUME PollInv, Crash
    PROVE  PollInv'
<1>1. /\ tg' = ChannelAtStart /\ op' = Idle /\ handed' = <<>> /\ UNCHANGED <<api, fate>>
    BY DEF Crash
<1>2. ChannelFields /\ SettledBelow(api.confirmed)
    BY DEF PollInv
<1>3. /\ DOMAIN fate' = DOMAIN Updates
      /\ {"avail", "confirmed", "msgs"} \subseteq DOMAIN api' /\ api'.avail \in 0..Len(Updates)
      /\ api'.confirmed \in Nat /\ SettledBelow(api.confirmed)'
    BY <1>1, <1>2 DEF ChannelFields, SettledBelow, Settled
<1>4. "offset" \in DOMAIN tg' /\ tg'.offset = 0
    BY <1>1 DEF ChannelAtStart
<1>5. ChannelFields'
    BY <1>1, <1>3, <1>4, IdleIsQuiet DEF ChannelFields, Quiet
<1>6. BodyIsNoPoll' /\ AnswerInHand' /\ UpdateInHand'
    BY <1>1, IdleIsQuiet DEF Quiet, BodyIsNoPoll, AnswerInHand, UpdateInHand
<1>7. HandedBelow' /\ HandedInOrder'
    BY <1>1 DEF HandedBelow, HandedInOrder
<1>8. SettledBelow(tg.offset)'
    BY <1>4, UpdatesNumbered DEF SettledBelow
<1> QED
    BY <1>3, <1>5, <1>6, <1>7, <1>8 DEF PollInv

----------------------------------------------------------------------------
LEMMA PollInit == ASSUME TelegramInit PROVE PollInv
<1>1. /\ tg = ChannelAtStart /\ op = Idle /\ handed = <<>>
      /\ api = [avail |-> 0, confirmed |-> 0, msgs |-> [c \in Chats |-> <<>>]]
      /\ fate = [i \in DOMAIN Updates |-> "none"]
    BY DEF TelegramInit
<1>2. /\ {"avail", "confirmed", "msgs"} \subseteq DOMAIN api /\ api.avail = 0 /\ api.confirmed = 0
    BY <1>1
<1>3. SettledBelow(api.confirmed)
    BY <1>2, UpdatesNumbered DEF SettledBelow
<1> QED
    BY <1>1, <1>2, <1>3, StartHolds, UpdatesNumbered

LEMMA PollStep ==
    ASSUME PollInv, [TelegramNext]_telegramVars
    PROVE  PollInv'
<1>1. CASE Work
  <2>1. ASSUME NEW o, Step(o) PROVE PollInv'
      BY <2>1, GetUpdatesKeeps, GetFileKeeps, DownloadKeeps, ReactKeeps, PostsKeep, PostKeeps DEF Step
  <2> QED
      BY <1>1, <2>1, AsideKeeps, ParseNothingKeeps, ParseLimitedKeeps, ParseCandidateKeeps,
         DeclaredTooLargeKeeps, StoreKeeps, DeliverKeeps, InboundClearKeeps, NextChunkKeeps
      DEF Work
<1>2. ASSUME NEW m \in Messages, StartSend(m) PROVE PollInv'
    BY <1>2, StartSendKeeps
<1>3. CASE UNCHANGED telegramVars
  <2>1. UNCHANGED <<tg, op, api, fate, handed>>
      BY <1>3 DEF telegramVars
  <2>2. "offset" \in DOMAIN tg /\ CallFields \subseteq DOMAIN op
      BY DEF PollInv, ChannelFields
  <2> QED
      BY <2>1, <2>2, OffsetThere, QueueStaysUnchanged, StepOutside
<1> QED
    BY <1>1, <1>2, <1>3, ArriveKeeps, TickKeeps, CrashKeeps, StartApprovalKeeps DEF TelegramNext

(* Whatever the updates, the messages and the options are, and however     *)
(* often requests fail, answers are lost and the daemon crashes: the       *)
(* service forgets no update that telegram_listen has not decided about,   *)
(* and between two starts the runtime gets each update at most once, in    *)
(* the order of the service.                                               *)
THEOREM UpdatesTakenHolds == TelegramSpec => []UpdatesTaken
<1>1. TelegramInit => PollInv
    BY PollInit
<1>2. PollInv /\ [TelegramNext]_telegramVars => PollInv'
    BY PollStep
<1>3. PollInv => UpdatesTaken
    BY DEF PollInv, UpdatesTaken, ConfirmedWasHandled, SettledBelow, Settled
<1> QED
    BY <1>1, <1>2, <1>3, PTL DEF TelegramSpec

-----------------------------------------------------------------------------
(* A set of numbers has a least one.                                       *)
LEMMA LowestOf ==
    ASSUME NEW T, T \subseteq Nat, T # {}
    PROVE  \E m \in T : \A y \in T : m <= y
<1>1. \E m \in T : \A y \in T : ~ (<<y, m>> \in OpToRel(<, Nat))
    BY NatLessThanWellFounded, WFMin
<1>2. ASSUME NEW y \in T, NEW m \in T, ~ (<<y, m>> \in OpToRel(<, Nat)) PROVE m <= y
  <2>1. ~ (y < m)
      BY <1>2 DEF OpToRel
  <2> QED
      BY <2>1
<1> QED
    BY <1>1, <1>2

(* Induction up to a number, over the set of those for which a claim holds. *)
LEMMA UpTo ==
    ASSUME NEW N \in Nat, NEW G, 0 \in G, \A n \in 1..N : n - 1 \in G => n \in G
    PROVE  N \in G
<1> SUFFICES ASSUME N \notin G PROVE FALSE
    OBVIOUS
<1>1. PICK T : T = (0..N) \ G
    OBVIOUS
<1>2. T \subseteq Nat /\ T # {}
    BY <1>1
<1>3. PICK m \in T : \A y \in T : m <= y
    BY <1>2, LowestOf
<1>4. m \in 1..N /\ m - 1 \in 0..N /\ m \notin G
    BY <1>1, <1>3
<1>5. m - 1 \notin T
    BY <1>3, <1>4
<1> QED
    BY <1>1, <1>4, <1>5

(* A set of numbers up to a bound has a greatest one.                      *)
LEMMA HighestOf ==
    ASSUME NEW n \in Nat, NEW T, T \subseteq 1..n, T # {}
    PROVE  \E m \in T : \A y \in T : y <= m
<1>1. PICK R : R = {n - i : i \in T}
    OBVIOUS
<1>2. R \subseteq Nat /\ R # {}
  <2>1. ASSUME NEW i \in T PROVE n - i \in Nat
    <3>1. i \in 1..n
        OBVIOUS
    <3> QED
        BY <3>1
  <2> QED
      BY <1>1, <2>1
<1>3. PICK r \in R : \A y \in R : r <= y
    BY <1>2, LowestOf
<1>4. PICK m \in T : r = n - m
    BY <1>1, <1>3
<1>5. ASSUME NEW y \in T PROVE y <= m
  <2>1. n - y \in R /\ y \in Nat /\ m \in Nat
      BY <1>1
  <2>2. r <= n - y
      BY <1>3, <2>1
  <2> QED
      BY <1>4, <2>1, <2>2
<1> QED
    BY <1>5

-----------------------------------------------------------------------------
(* Texts put together from parts.                                          *)
Puts(parts, m, g) ==
    g = [i \in 1..m |-> IF i = 1 THEN parts[i] ELSE g[i - 1] \o parts[i]]

Joins(parts, m, g) ==
    /\ g[1] = parts[1]
    /\ \A i \in 2..m : g[i] = g[i - 1] \o parts[i]

LEMMA FlattenRuns ==
    ASSUME NEW parts, NEW N \in Nat, N = Len(parts), N # 0
    PROVE  \E g : Joins(parts, N, g) /\ FlattenSeq(parts) = g[N]
<1> DEFINE G == {m \in 0..N : \E g : Puts(parts, m, g)}
<1>1. 0 \in G
  <2>1. PICK g : g = [i \in 1..0 |-> 0]
      OBVIOUS
  <2>2. Puts(parts, 0, g)
      BY <2>1 DEF Puts
  <2> QED
      BY <2>2
<1>2. ASSUME NEW m \in 1..N, m - 1 \in G PROVE m \in G
  <2>1. PICK g : Puts(parts, m - 1, g)
      BY <1>2
  <2>2. PICK v : v = IF m = 1 THEN parts[m] ELSE g[m - 1] \o parts[m]
      OBVIOUS
  <2>3. PICK h : h = [i \in 1..m |-> IF i = m THEN v ELSE g[i]]
      OBVIOUS
  <2>4. \A i \in 1..(m - 1) : h[i] = g[i]
      BY <2>3
  <2>5. ASSUME NEW i \in 1..m
        PROVE  h[i] = IF i = 1 THEN parts[i] ELSE h[i - 1] \o parts[i]
    <3>1. CASE i = m
      <4>1. h[i] = v /\ (i # 1 => i - 1 \in 1..(m - 1))
          BY <2>3, <3>1
      <4>2. i # 1 => h[i - 1] = g[m - 1]
          BY <2>4, <3>1, <4>1
      <4> QED
          BY <2>2, <3>1, <4>1, <4>2
    <3>2. CASE i # m
      <4>1. i \in 1..(m - 1) /\ (i # 1 => i - 1 \in 1..(m - 1))
          BY <3>2
      <4>2. g[i] = IF i = 1 THEN parts[i] ELSE g[i - 1] \o parts[i]
          BY <2>1, <4>1 DEF Puts
      <4> QED
          BY <2>4, <4>1, <4>2
    <3> QED
        BY <3>1, <3>2
  <2>6. Puts(parts, m, h)
      BY <2>3, <2>5 DEF Puts
  <2> QED
      BY <2>6
<1>3. \E g : Puts(parts, N, g)
  <2>1. N \in G
    <3> HIDE DEF G
    <3> QED
        BY <1>1, <1>2, UpTo
  <2> QED
      BY <2>1
<1>4. PICK g : Puts(parts, N, g) /\ g = CHOOSE f : Puts(parts, N, f)
    BY <1>3
<1>5. FlattenSeq(parts) = g[N]
    BY <1>4 DEF FlattenSeq, Puts
<1>6. Joins(parts, N, g)
  <2>1. Puts(parts, N, g)
      BY <1>4
  <2> HIDE <1>4
  <2>2. g[1] = parts[1]
      BY <2>1 DEF Puts
  <2>3. ASSUME NEW i \in 2..N PROVE g[i] = g[i - 1] \o parts[i]
    <3>1. i \in 1..N /\ i # 1
        OBVIOUS
    <3> QED
        BY <2>1, <3>1 DEF Puts
  <2> QED
      BY <2>2, <2>3 DEF Joins
<1> QED
    BY <1>5, <1>6

BeginAlike(a, b, k) == \A n \in 1..k : a[n] = b[n]

LEMMA JoinsAgree ==
    ASSUME NEW a, NEW b, NEW k \in Nat, NEW l \in Nat, k <= l, k # 0, NEW f, NEW g,
           Joins(a, k, f), Joins(b, l, g), BeginAlike(a, b, k)
    PROVE  f[k] = g[k]
<1> DEFINE G == {n \in 0..k : n = 0 \/ f[n] = g[n]}
<1>1. 0 \in G
    OBVIOUS
<1>2. ASSUME NEW m \in 1..k, m - 1 \in G PROVE m \in G
  <2>1. m \in 1..l /\ a[m] = b[m]
      BY DEF BeginAlike
  <2>2. CASE m = 1
      BY <2>1, <2>2 DEF Joins
  <2>3. CASE m # 1
    <3>1. m \in 2..k /\ m \in 2..l /\ f[m - 1] = g[m - 1]
        BY <1>2, <2>3
    <3>2. f[m] = f[m - 1] \o a[m] /\ g[m] = g[m - 1] \o b[m]
        BY <3>1 DEF Joins
    <3>3. f[m] = g[m]
        BY <2>1, <3>1, <3>2, Zenon
    <3> QED
        BY <3>3
  <2> QED
      BY <2>2, <2>3
<1>3. k \in G
  <2> HIDE DEF G
  <2> QED
      BY <1>1, <1>2, UpTo
<1> QED
    BY <1>3

(* One more part at the end.                                               *)
OneMore(a, b, x, n) == n = Len(a) /\ Len(b) = n + 1 /\ BeginAlike(a, b, n) /\ b[n + 1] = x
Joined(a, b, x, n) == FlattenSeq(b) = IF n = 0 THEN x ELSE FlattenSeq(a) \o x

LEMMA FlattenOneMore ==
    ASSUME NEW a, NEW b, NEW x, NEW n \in Nat, OneMore(a, b, x, n)
    PROVE  Joined(a, b, x, n)
<1>0. n = Len(a) /\ Len(b) = n + 1 /\ BeginAlike(a, b, n) /\ b[n + 1] = x
    BY DEF OneMore
<1>1. PICK l : l = n + 1
    OBVIOUS
<1>2. l \in Nat /\ l = Len(b) /\ l # 0 /\ n <= l
    BY <1>0, <1>1
<1>3. PICK g : Joins(b, l, g) /\ FlattenSeq(b) = g[l]
    BY <1>2, FlattenRuns
<1>4. CASE n = 0
  <2>1. l = 1 /\ b[1] = x
      BY <1>0, <1>1, <1>4
  <2> QED
      BY <1>3, <1>4, <2>1 DEF Joins, Joined
<1>5. CASE n # 0
  <2>1. PICK f : Joins(a, n, f) /\ FlattenSeq(a) = f[n]
      BY <1>0, <1>5, FlattenRuns
  <2>2. Joins(a, n, f) /\ Joins(b, l, g)
      BY <1>3, <2>1
  <2>3. f[n] = g[n]
      BY <1>0, <1>2, <1>5, <2>2, JoinsAgree
  <2>4. g[l] = g[n] \o x
    <3>1. l \in 2..l /\ l - 1 = n /\ b[l] = x
        BY <1>0, <1>1, <1>5
    <3> QED
        BY <2>2, <3>1 DEF Joins
  <2> QED
      BY <1>3, <1>5, <2>1, <2>3, <2>4 DEF Joined
<1> QED
    BY <1>4, <1>5

-----------------------------------------------------------------------------
(* The length of the next part of a text.                                  *)
LEMMA BoundaryIsInside ==
    ASSUME NEW text, NEW offset, NEW len \in Nat, len # 0
    PROVE  Utf8ChunkBoundary(text, offset, len) \in 1..len
<1>1. PICK T : T = {n \in 1..len : offset + n >= Len(text) \/ text[offset + n + 1] # "C"}
    OBVIOUS
<1>2. T \subseteq 1..len
    BY <1>1
<1>3. Utf8ChunkBoundary(text, offset, len) = IF T = {} THEN len ELSE CHOOSE n \in T : \A k \in T : k <= n
    BY <1>1 DEF Utf8ChunkBoundary
<1>4. T # {} => \E n \in T : \A k \in T : k <= n
    BY <1>2, HighestOf
<1>5. T # {} => (CHOOSE n \in T : \A k \in T : k <= n) \in T
    BY <1>4
<1>6. CASE T = {}
    BY <1>3, <1>6
<1>7. CASE T # {}
  <2>1. Utf8ChunkBoundary(text, offset, len) \in T
      BY <1>3, <1>5, <1>7, Zenon
  <2> QED
      BY <1>2, <2>1
<1> QED
    BY <1>6, <1>7

(* The halving: the longest part tried, or the first that fits of the      *)
(* halves of it.                                                           *)
Rendered(text, offset, n) == FormatOutboundText(Ch, SubSeq(text, offset + 1, offset + n)).len
HalfOf(text, offset, n) == Utf8ChunkBoundary(text, offset, n \div 2)

Halves(text, offset, rest, f) ==
    f = [n \in 0..rest |->
            IF n <= 1 THEN 1
            ELSE IF FormatOutboundText(Ch, SubSeq(text, offset + 1, offset + n)).len <= ChunkLimit(Ch)
            THEN n
            ELSE f[Utf8ChunkBoundary(text, offset, n \div 2)]]

LEMMA HalfIsLess ==
    ASSUME NEW text, NEW offset, NEW n \in Nat, n > 1
    PROVE  HalfOf(text, offset, n) \in 1..(n - 1)
<1>1. PICK h : h = n \div 2
    OBVIOUS
<1>2. h \in Nat /\ h # 0 /\ h <= n - 1
    BY <1>1
<1>3. Utf8ChunkBoundary(text, offset, h) \in 1..h
    BY <1>2, BoundaryIsInside
<1>4. HalfOf(text, offset, n) \in 1..h
    BY <1>1, <1>3 DEF HalfOf
<1> QED
    BY <1>2, <1>4

LEMMA HalvesExist ==
    ASSUME NEW text, NEW offset, NEW rest \in Nat
    PROVE  \E f : Halves(text, offset, rest, f)
<1> DEFINE G == {m \in 0..rest : \E f : Halves(text, offset, m, f)}
<1>1. 0 \in G
  <2>1. PICK f : f = [n \in 0..0 |-> 1]
      OBVIOUS
  <2>2. Halves(text, offset, 0, f)
      BY <2>1 DEF Halves
  <2> QED
      BY <2>2
<1>2. ASSUME NEW m \in 1..rest, m - 1 \in G PROVE m \in G
  <2>1. PICK g : Halves(text, offset, m - 1, g)
      BY <1>2
  <2>2. PICK v : v = IF m <= 1 THEN 1 ELSE IF Rendered(text, offset, m) <= ChunkLimit(Ch) THEN m
                     ELSE g[HalfOf(text, offset, m)]
      OBVIOUS
  <2>3. PICK h : h = [n \in 0..m |-> IF n = m THEN v ELSE g[n]]
      OBVIOUS
  <2>4. \A n \in 0..(m - 1) : h[n] = g[n]
      BY <2>3
  <2>5. ASSUME NEW n \in 0..m
        PROVE  h[n] = IF n <= 1 THEN 1 ELSE IF Rendered(text, offset, n) <= ChunkLimit(Ch) THEN n
                      ELSE h[HalfOf(text, offset, n)]
    <3>0. PICK half : half = HalfOf(text, offset, n)
        OBVIOUS
    <3>1. ~(n <= 1) => half \in 0..(m - 1) /\ half \in 0..(n - 1)
        BY <3>0, HalfIsLess
    <3>2. ~(n <= 1) => h[half] = g[half]
        BY <2>4, <3>1
    <3>3. CASE n = m
      <4>1. h[n] = v
          BY <2>3, <3>3
      <4> QED
          BY <2>2, <3>0, <3>2, <3>3, <4>1, Zenon
    <3>4. CASE n # m
      <4>1. n \in 0..(m - 1)
          BY <3>4
      <4>2. g[n] = IF n <= 1 THEN 1 ELSE IF Rendered(text, offset, n) <= ChunkLimit(Ch) THEN n
                   ELSE g[HalfOf(text, offset, n)]
          BY <2>1, <4>1 DEF Halves, Rendered, HalfOf
      <4>3. h[n] = g[n]
          BY <2>4, <4>1
      <4> QED
          BY <3>0, <3>2, <4>2, <4>3, Zenon
    <3> QED
        BY <3>3, <3>4
  <2>6. Halves(text, offset, m, h)
    <3>1. \A n \in 0..m : h[n] = IF n <= 1 THEN 1
              ELSE IF FormatOutboundText(Ch, SubSeq(text, offset + 1, offset + n)).len <= ChunkLimit(Ch)
              THEN n ELSE h[Utf8ChunkBoundary(text, offset, n \div 2)]
        BY <2>5, Zenon DEF Rendered, HalfOf
    <3>2. h = [n \in 0..m |-> h[n]]
        BY <2>3
    <3> QED
        BY <3>1, <3>2, Zenon DEF Halves
  <2> QED
      BY <2>6
<1>3. rest \in G
  <2> HIDE DEF G
  <2> QED
      BY <1>1, <1>2, UpTo
<1> QED
    BY <1>3

LEMMA HalvesInside ==
    ASSUME NEW text, NEW offset, NEW rest \in Nat, NEW f, Halves(text, offset, rest, f), NEW n \in 1..rest
    PROVE  f[n] \in 1..rest
<1>1. PICK T : T = {i \in 1..rest : f[i] \notin 1..rest}
    OBVIOUS
<1>2. SUFFICES ASSUME T # {} PROVE FALSE
    BY <1>1
<1>3. T \subseteq Nat
    BY <1>1
<1>4. PICK i \in T : \A y \in T : i <= y
    BY <1>2, <1>3, LowestOf
<1>5. i \in 1..rest /\ f[i] \notin 1..rest
    BY <1>1
<1>6. PICK half : half = HalfOf(text, offset, i)
    OBVIOUS
<1>7. f[i] = 1 \/ f[i] = i \/ (~(i <= 1) /\ f[i] = f[half])
    BY <1>5, <1>6 DEF Halves, HalfOf
<1>8. CASE ~(i <= 1) /\ f[i] = f[half]
  <2>1. half \in 1..(i - 1)
      BY <1>5, <1>6, <1>8, HalfIsLess
  <2>2. half \in T
      BY <1>1, <1>5, <1>8, <2>1
  <2> QED
      BY <1>4, <1>5, <2>1, <2>2
<1> QED
    BY <1>5, <1>7, <1>8

LEMMA SplitOfChannel ==
    ASSUME Ch.st = "ok"
    PROVE  Ch.split = OrElse(Options.split, SafeLimit)
<1>1. PICK o : o = Options
    OBVIOUS
<1>2. \/ Ch = [st |-> "invalid"]
      \/ \E a, b, c, d, e, f, g, h, i, j, k :
            Ch = [st |-> "ok", split |-> OrElse(o.split, SafeLimit), maxMedia |-> a, maxResponse |-> b,
                  approvalTimeout |-> c, streamMode |-> d, parseMode |-> e, username |-> f,
                  maxRetries |-> g, rateLimit |-> h, mentionOnly |-> i, ack |-> j, post |-> k]
    BY <1>1, Zenon DEF Ch, ChannelNew
<1> QED
    BY <1>1, <1>2

(* It is at least one byte, and no more than are left.                     *)
LEMMA NextPart ==
    ASSUME NEW text, NEW offset, NEW rest \in Nat, rest = Len(text) - offset, rest # 0, Ch.st = "ok"
    PROVE  NextTextChunk(Ch, text, offset) \in 1..rest
<1>1. PICK limit : limit = ChunkLimit(Ch)
    OBVIOUS
<1>2. limit \in Nat /\ limit # 0
  <2>1. Options.split \in Int
      BY TextsAssumption
  <2>2. OrElse(Options.split, SafeLimit) \in Nat /\ OrElse(Options.split, SafeLimit) # 0
      BY <2>1 DEF OrElse, SafeLimit
  <2> QED
      BY <1>1, <2>2, SplitOfChannel DEF ChunkLimit, SafeLimit
<1>3. PICK f : Halves(text, offset, rest, f) /\ f = CHOOSE g : Halves(text, offset, rest, g)
    BY HalvesExist
<1>4. PICK start : start = Utf8ChunkBoundary(text, offset, IF rest < limit THEN rest ELSE limit)
    OBVIOUS
<1>5. start \in 1..rest
  <2>1. PICK len : len = IF rest < limit THEN rest ELSE limit
      OBVIOUS
  <2>2. len \in Nat /\ len # 0 /\ len <= rest
      BY <1>2, <2>1
  <2>3. start \in 1..len
      BY <1>4, <2>1, <2>2, BoundaryIsInside
  <2> QED
      BY <2>2, <2>3
<1>6. NextTextChunk(Ch, text, offset) = f[start]
    BY <1>1, <1>3, <1>4 DEF NextTextChunk, Halves
<1>7. Halves(text, offset, rest, f)
    BY <1>3
<1>8. f[start] \in 1..rest
    BY <1>5, <1>7, HalvesInside
<1> QED
    BY <1>6, <1>8

-----------------------------------------------------------------------------
(* The messages of a chat, and what a request may do to them: put one more *)
(* at the end, or change the text of one.                                  *)
LogOf(log) == (\E S : log \in Seq(S)) /\ \A i \in 1..Len(log) : "text" \in DOMAIN log[i]

KeepsLog(old, new, t) ==
    /\ LogOf(new) /\ Len(old) <= Len(new)
    /\ \A i \in 1..Len(old) : i # t => new[i] = old[i]

LEMMA LogSame ==
    ASSUME NEW log, LogOf(log), NEW t
    PROVE  KeepsLog(log, log, t)
<1>1. Len(log) \in Nat
    BY LenProperties DEF LogOf
<1> QED
    BY <1>1 DEF KeepsLog

LEMMA LogAppend ==
    ASSUME NEW log, LogOf(log), NEW r, "text" \in DOMAIN r, NEW new, new = Append(log, r), NEW t
    PROVE  KeepsLog(log, new, t) /\ Len(new) = Len(log) + 1 /\ new[Len(new)] = r
<1>1. PICK S : log \in Seq(S)
    BY DEF LogOf
<1>2. PICK U, n : U = S \cup {r} /\ n = Len(log)
    OBVIOUS
<1>3. n \in Nat
    BY <1>1, <1>2, LenProperties
<1>4. log \in Seq(U) /\ r \in U
  <2>1. S \subseteq U /\ r \in U
      BY <1>2
  <2> QED
      BY <1>1, <2>1, SeqMonotonic
<1>5. new \in Seq(U) /\ Len(new) = n + 1 /\ new[n + 1] = r /\ \A i \in 1..n : new[i] = log[i]
    BY <1>2, <1>4, AppendProperties
<1>6. LogOf(new)
  <2>1. ASSUME NEW i \in 1..(n + 1) PROVE "text" \in DOMAIN new[i]
    <3>1. CASE i = n + 1
        BY <1>5, <3>1
    <3>2. CASE i # n + 1
      <4>1. i \in 1..n
          BY <1>3, <3>2
      <4>2. "text" \in DOMAIN log[i]
          BY <1>2, <4>1 DEF LogOf
      <4> QED
          BY <1>5, <4>1, <4>2
    <3> QED
        BY <3>1, <3>2
  <2> QED
      BY <1>5, <2>1 DEF LogOf
<1> QED
    BY <1>2, <1>3, <1>5, <1>6 DEF KeepsLog

LEMMA LogEdit ==
    ASSUME NEW log, LogOf(log), NEW id, NEW x, NEW new, new = [log EXCEPT ![id].text = x]
    PROVE  KeepsLog(log, new, id) /\ Len(new) = Len(log) /\ (id \in 1..Len(log) => new[id].text = x)
<1>1. PICK S : log \in Seq(S)
    BY DEF LogOf
<1>2. PICK n \in Nat : n = Len(log) /\ DOMAIN log = 1..n
    BY <1>1, LenProperties
<1>3. PICK r : r = [log[id] EXCEPT !.text = x]
    OBVIOUS
<1>4. new = [log EXCEPT ![id] = r]
    BY <1>3
<1>5. CASE id \notin 1..n
  <2>1. new = log
      BY <1>1, <1>2, <1>4, <1>5
  <2> QED
      BY <1>2, <1>5, <2>1, LogSame
<1>6. CASE id \in 1..n
  <2>1. PICK U : U = S \cup {r}
      OBVIOUS
  <2>2. log \in Seq(U) /\ r \in U
    <3>1. S \subseteq U /\ r \in U
        BY <2>1
    <3> QED
        BY <1>1, <3>1, SeqMonotonic
  <2>3. new \in Seq(U) /\ Len(new) = n
      BY <1>2, <1>4, <1>6, <2>2, ExceptSeq
  <2>4. new[id] = r /\ \A i \in 1..n : i # id => new[i] = log[i]
      BY <1>2, <1>4, <1>6
  <2>5. "text" \in DOMAIN r /\ r.text = x
    <3>1. "text" \in DOMAIN log[id]
        BY <1>2, <1>6 DEF LogOf
    <3> QED
        BY <1>3, <3>1
  <2>6. \A i \in 1..n : "text" \in DOMAIN new[i]
      BY <1>2, <2>4, <2>5 DEF LogOf
  <2> QED
      BY <1>2, <1>6, <2>3, <2>4, <2>5, <2>6 DEF KeepsLog, LogOf
<1> QED
    BY <1>5, <1>6

(* All chats of the service.                                               *)
Logs(a) == "msgs" \in DOMAIN a /\ DOMAIN a.msgs = Chats /\ \A c \in Chats : LogOf(a.msgs[c])

Changing == {"editMessageText", "deleteMessage"}
Target(body, c) == IF body.method \in Changing /\ body.chat = c THEN body.id ELSE 0
Posts(body) == body.method = "sendMessage" \/ Multipart(body)

(* What the service's chats are after it served a request.                 *)
Serves(a, new, body) ==
    /\ Logs(new)
    /\ \A c \in Chats : KeepsLog(a.msgs[c], new.msgs[c], Target(body, c))

LEMMA ServesNothing ==
    ASSUME NEW a, Logs(a), NEW new, "msgs" \in DOMAIN new, new.msgs = a.msgs, NEW body
    PROVE  Serves(a, new, body)
<1>1. Logs(new)
    BY DEF Logs
<1>2. ASSUME NEW c \in Chats PROVE KeepsLog(a.msgs[c], new.msgs[c], Target(body, c))
    BY LogSame DEF Logs
<1> QED
    BY <1>1, <1>2 DEF Serves

(* A request that changes the messages of its chat.                        *)
LEMMA ServesOneChat ==
    ASSUME NEW a, Logs(a), NEW body, NEW log, NEW new, new = [a EXCEPT !.msgs[body.chat] = log],
           body.chat \in Chats => KeepsLog(a.msgs[body.chat], log, Target(body, body.chat))
    PROVE  Serves(a, new, body) /\ (body.chat \in Chats => new.msgs[body.chat] = log)
<1>1. PICK ms, chat : ms = a.msgs /\ chat = body.chat
    OBVIOUS
<1>2. DOMAIN ms = Chats /\ \A c \in Chats : LogOf(ms[c])
    BY <1>1 DEF Logs
<1>3. "msgs" \in DOMAIN new /\ new.msgs = [ms EXCEPT ![chat] = log]
    BY <1>1 DEF Logs
<1>4. ASSUME NEW c \in Chats PROVE KeepsLog(ms[c], new.msgs[c], Target(body, c))
  <2>1. CASE c = chat
    <3>1. new.msgs[c] = log
        BY <1>2, <1>3, <2>1
    <3> QED
        BY <1>1, <2>1, <3>1
  <2>2. CASE c # chat
    <3>1. new.msgs[c] = ms[c]
        BY <1>2, <1>3, <2>2
    <3> QED
        BY <1>2, <3>1, LogSame
  <2> QED
      BY <2>1, <2>2
<1>5. DOMAIN new.msgs = Chats
    BY <1>2, <1>3
<1>6. \A c \in Chats : LogOf(new.msgs[c])
    BY <1>4 DEF KeepsLog
<1>7. chat \in Chats => new.msgs[chat] = log
    BY <1>2, <1>3
<1> QED
    BY <1>1, <1>3, <1>4, <1>5, <1>6, <1>7 DEF Serves, Logs

-----------------------------------------------------------------------------
(* Whatever a request asks for, it changes the chats of the service in no  *)
(* other way.                                                              *)
LEMMA ServedServes ==
    ASSUME NEW a, Logs(a), NEW body
    PROVE  Serves(a, Served(a, body), body)
<1>1. PICK new : new = Served(a, body)
    OBVIOUS
<1>2. \/ new = [a EXCEPT !.confirmed = IF body.offset > @ THEN body.offset ELSE @]
      \/ new = [a EXCEPT !.msgs[body.chat] = Append(@, Shown(body))]
      \/ /\ body.method = "editMessageText"
         /\ new = [a EXCEPT !.msgs[body.chat] = IF body.id \in DOMAIN @ THEN [@ EXCEPT ![body.id].text = body.text] ELSE @]
      \/ /\ body.method = "deleteMessage"
         /\ new = [a EXCEPT !.msgs[body.chat][body.id].text = <<>>]
      \/ new = a
    BY <1>1 DEF Served
<1>3. PICK log : log = a.msgs[body.chat]
    OBVIOUS
<1>4. body.chat \in Chats => LogOf(log)
    BY <1>3 DEF Logs
<1>5. body.method \in Changing => Target(body, body.chat) = body.id
    BY DEF Target
<1>6. CASE new = [a EXCEPT !.confirmed = IF body.offset > @ THEN body.offset ELSE @]
  <2>1. "msgs" \in DOMAIN new /\ new.msgs = a.msgs
      BY <1>6 DEF Logs
  <2> QED
      BY <1>1, <2>1, ServesNothing
<1>7. CASE new = [a EXCEPT !.msgs[body.chat] = Append(@, Shown(body))]
  <2>1. PICK l : l = Append(log, Shown(body))
      OBVIOUS
  <2>2. new = [a EXCEPT !.msgs[body.chat] = l]
      BY <1>3, <1>7, <2>1
  <2>3. PICK r : r = Shown(body)
      OBVIOUS
  <2>4. "text" \in DOMAIN r /\ l = Append(log, r)
      BY <2>1, <2>3 DEF Shown
  <2>5. LogOf(log) => KeepsLog(log, l, Target(body, body.chat))
      BY <2>4, LogAppend
  <2> QED
      BY <1>1, <1>3, <1>4, <2>2, <2>5, ServesOneChat
<1>8. CASE /\ body.method = "editMessageText"
           /\ new = [a EXCEPT !.msgs[body.chat] = IF body.id \in DOMAIN @ THEN [@ EXCEPT ![body.id].text = body.text] ELSE @]
  <2>1. PICK l : l = IF body.id \in DOMAIN log THEN [log EXCEPT ![body.id].text = body.text] ELSE log
      OBVIOUS
  <2>2. new = [a EXCEPT !.msgs[body.chat] = l]
      BY <1>3, <1>8, <2>1
  <2>3. LogOf(log) => KeepsLog(log, l, body.id)
      BY <2>1, LogEdit, LogSame
  <2>4. Target(body, body.chat) = body.id
      BY <1>5, <1>8 DEF Changing
  <2> QED
      BY <1>1, <1>3, <1>4, <2>2, <2>3, <2>4, ServesOneChat
<1>9. CASE /\ body.method = "deleteMessage"
           /\ new = [a EXCEPT !.msgs[body.chat][body.id].text = <<>>]
  <2>1. PICK l : l = [log EXCEPT ![body.id].text = <<>>]
      OBVIOUS
  <2>2. new = [a EXCEPT !.msgs[body.chat] = l]
      BY <1>3, <1>9, <2>1
  <2>3. LogOf(log) => KeepsLog(log, l, body.id)
      BY <2>1, LogEdit
  <2>4. Target(body, body.chat) = body.id
      BY <1>5, <1>9 DEF Changing
  <2> QED
      BY <1>1, <1>3, <1>4, <2>2, <2>3, <2>4, ServesOneChat
<1>10. CASE new = a
  <2>1. "msgs" \in DOMAIN new /\ new.msgs = a.msgs
      BY <1>10 DEF Logs
  <2> QED
      BY <1>1, <2>1, ServesNothing
<1> QED
    BY <1>2, <1>6, <1>7, <1>8, <1>9, <1>10

(* What a message that was posted, and one that was edited, look like.     *)
LEMMA PostedStands ==
    ASSUME NEW a, Logs(a), NEW body, Posts(body), body.chat \in Chats, NEW log, log = a.msgs[body.chat],
           NEW new, new = Served(a, body).msgs[body.chat]
    PROVE  Len(log) \in Nat /\ Len(new) = Len(log) + 1 /\ new[Len(new)].text = body.text
<1>1. PICK r, l : r = Shown(body) /\ l = Append(log, r)
    OBVIOUS
<1>2. Served(a, body) = [a EXCEPT !.msgs[body.chat] = Append(@, Shown(body))]
    BY DEF Served, Posts, Multipart
<1>3. Served(a, body) = [a EXCEPT !.msgs[body.chat] = l]
    BY <1>1, <1>2
<1>4. LogOf(log) /\ DOMAIN a.msgs = Chats
    BY DEF Logs
<1>5. new = l
    BY <1>3 DEF Logs
<1>6. "text" \in DOMAIN r /\ r.text = body.text
    BY <1>1 DEF Shown
<1>7. Len(l) = Len(log) + 1 /\ l[Len(l)] = r
    BY <1>1, <1>4, <1>6, LogAppend
<1>8. Len(log) \in Nat
    BY <1>4, LenProperties DEF LogOf
<1> QED
    BY <1>5, <1>6, <1>7, <1>8

LEMMA EditedStands ==
    ASSUME NEW a, Logs(a), NEW body, body.method = "editMessageText", body.chat \in Chats,
           NEW log, log = a.msgs[body.chat], body.id \in 1..Len(log),
           NEW new, new = Served(a, body).msgs[body.chat]
    PROVE  Len(new) = Len(log) /\ new[body.id].text = body.text
<1>1. PICK l : l = [log EXCEPT ![body.id].text = body.text]
    OBVIOUS
<1>2. Served(a, body) = [a EXCEPT !.msgs[body.chat] = IF body.id \in DOMAIN @ THEN [@ EXCEPT ![body.id].text = body.text] ELSE @]
    BY DEF Served, Multipart
<1>3. LogOf(log) /\ DOMAIN a.msgs = Chats
    BY DEF Logs
<1>4. DOMAIN log = 1..Len(log)
    BY <1>3, LenProperties DEF LogOf
<1>5. Served(a, body) = [a EXCEPT !.msgs[body.chat] = l]
    BY <1>1, <1>2, <1>4
<1>6. new = l
    BY <1>3, <1>5 DEF Logs
<1> QED
    BY <1>1, <1>3, <1>6, LogEdit

LEMMA RequestServes ==
    ASSUME Logs(api), NEW o, NEW body, Request(o, body)
    PROVE  Serves(api, api', body)
<1>1. api' = api \/ api' = Served(api, body)
    BY DEF Request
<1>2. "msgs" \in DOMAIN api
    BY DEF Logs
<1> QED
    BY <1>1, <1>2, ServedServes, ServesNothing

-----------------------------------------------------------------------------
(* A text that stands in a chat: the messages with these numbers are there *)
(* in this order and put together are the text.                            *)
Parts(log, ids) == [k \in DOMAIN ids |-> log[ids[k]].text]

Apart(ids, t) == \A k \in 1..Len(ids) : ids[k] # t

Rising(log, ids) ==
    /\ ids \in Seq(Nat)
    /\ \A k \in 1..Len(ids) : ids[k] \in 1..Len(log)
    /\ \A k \in 1..Len(ids) : k > 1 => ids[k - 1] < ids[k]

Standing(log, ids, text) == Rising(log, ids) /\ FlattenSeq(Parts(log, ids)) = text

LEMMA NothingStands ==
    ASSUME NEW log
    PROVE  Standing(log, <<>>, <<>>)
<1>1. PICK ids : ids = <<>>
    OBVIOUS
<1>2. ids \in Seq(Nat) /\ Len(ids) = 0 /\ DOMAIN ids = {}
    BY <1>1
<1>3. PICK parts : parts = Parts(log, ids)
    OBVIOUS
<1>4. parts = <<>>
    BY <1>2, <1>3 DEF Parts
<1>5. FlattenSeq(parts) = <<>>
    BY <1>4 DEF FlattenSeq
<1>6. Rising(log, ids)
    BY <1>2 DEF Rising
<1> QED
    BY <1>1, <1>3, <1>5, <1>6 DEF Standing

(* It stays as long as none of its messages is changed.                    *)
LEMMA RisingKept ==
    ASSUME NEW old, NEW new, NEW t, KeepsLog(old, new, t), Len(old) \in Nat, NEW ids, Rising(old, ids), Apart(ids, t)
    PROVE  Rising(new, ids) /\ Parts(new, ids) = Parts(old, ids)
<1>1. PICK n \in Nat : n = Len(ids) /\ DOMAIN ids = 1..n
    BY LenProperties DEF Rising
<1>2. Len(new) \in Nat /\ Len(old) <= Len(new)
    BY LenProperties DEF KeepsLog, LogOf
<1>3. ASSUME NEW k \in 1..n PROVE ids[k] \in 1..Len(new) /\ new[ids[k]] = old[ids[k]]
  <2>1. ids[k] \in 1..Len(old) /\ ids[k] # t
      BY <1>1 DEF Rising, Apart
  <2> QED
      BY <1>2, <2>1 DEF KeepsLog
<1>4. Rising(new, ids)
    BY <1>1, <1>3 DEF Rising
<1>5. Parts(new, ids) = Parts(old, ids)
    BY <1>1, <1>3 DEF Parts
<1> QED
    BY <1>4, <1>5

LEMMA StandingKept ==
    ASSUME NEW old, NEW new, NEW t, KeepsLog(old, new, t), Len(old) \in Nat, NEW ids, NEW text,
           Standing(old, ids, text), Apart(ids, t)
    PROVE  Standing(new, ids, text)
<1>1. Rising(new, ids) /\ Parts(new, ids) = Parts(old, ids)
    BY RisingKept DEF Standing
<1> QED
    BY <1>1 DEF Standing

(* It grows with a message behind the others.                              *)
LEMMA StandingGrows ==
    ASSUME NEW old, NEW new, NEW t, KeepsLog(old, new, t), Len(old) \in Nat, NEW ids, NEW text,
           Standing(old, ids, text), Apart(ids, t), NEW id \in 1..Len(new),
           \A k \in 1..Len(ids) : ids[k] < id,
           NEW part, part \in Seq(Bytes), new[id].text = part, NEW more, more = Append(ids, id)
    PROVE  Standing(new, more, text \o part)
<1>1. Rising(new, ids) /\ Parts(new, ids) = Parts(old, ids) /\ FlattenSeq(Parts(old, ids)) = text
    BY RisingKept DEF Standing
<1>2. PICK n \in Nat : n = Len(ids) /\ DOMAIN ids = 1..n
    BY <1>1, LenProperties DEF Rising
<1>3. Len(new) \in Nat
    BY LenProperties DEF KeepsLog, LogOf
<1>4. /\ more \in Seq(Nat) /\ Len(more) = n + 1 /\ more[n + 1] = id /\ \A i \in 1..n : more[i] = ids[i]
  <2>1. ids \in Seq(Nat) /\ id \in Nat
      BY <1>1, <1>3 DEF Rising
  <2> QED
      BY <1>2, <2>1, AppendProperties
<1>5. DOMAIN more = 1..(n + 1)
    BY <1>4, LenProperties
<1>6. \A i \in 1..n : ids[i] \in 1..Len(new) /\ (i > 1 => ids[i - 1] < ids[i]) /\ ids[i] < id
    BY <1>1, <1>2 DEF Rising
<1>7. Rising(new, more)
  <2>1. ASSUME NEW k \in 1..(n + 1) PROVE more[k] \in 1..Len(new) /\ (k > 1 => more[k - 1] < more[k])
    <3>1. CASE k = n + 1
      <4>1. k > 1 => n \in 1..n /\ k - 1 = n
          BY <3>1
      <4>2. k > 1 => more[k - 1] = ids[n] /\ ids[n] < id
          BY <1>4, <1>6, <4>1
      <4> QED
          BY <1>4, <3>1, <4>2
    <3>2. CASE k # n + 1
      <4>1. k \in 1..n /\ (k > 1 => k - 1 \in 1..n)
          BY <3>2
      <4>2. more[k] = ids[k] /\ (k > 1 => more[k - 1] = ids[k - 1])
          BY <1>4, <4>1
      <4> QED
          BY <1>6, <4>1, <4>2
    <3> QED
        BY <3>1, <3>2
  <2> QED
      BY <1>4, <2>1 DEF Rising
<1>8. PICK a, b : a = Parts(new, ids) /\ b = Parts(new, more)
    OBVIOUS
<1>9. /\ DOMAIN a = 1..n /\ DOMAIN b = 1..(n + 1) /\ b[n + 1] = part
      /\ \A i \in 1..n : a[i] = new[ids[i]].text /\ b[i] = new[more[i]].text
    BY <1>2, <1>4, <1>5, <1>8 DEF Parts
<1>10. BeginAlike(a, b, n)
    BY <1>4, <1>9 DEF BeginAlike
<1>11. Len(a) = n /\ Len(b) = n + 1
  <2>1. PICK S, U : S = {a[i] : i \in 1..n} /\ U = {b[i] : i \in 1..(n + 1)}
      OBVIOUS
  <2>2. a = [i \in 1..n |-> a[i]] /\ b = [i \in 1..(n + 1) |-> b[i]]
      BY <1>8, <1>9 DEF Parts
  <2>3. a \in [1..n -> S] /\ b \in [1..(n + 1) -> U]
      BY <2>1, <2>2
  <2>4. a \in Seq(S) /\ b \in Seq(U)
      BY <2>3, SeqDef
  <2> QED
      BY <1>9, <2>4, LenProperties
<1>12. FlattenSeq(b) = IF n = 0 THEN part ELSE FlattenSeq(a) \o part
  <2>1. OneMore(a, b, part, n)
      BY <1>9, <1>10, <1>11 DEF OneMore
  <2>2. Joined(a, b, part, n)
      BY <2>1, FlattenOneMore
  <2> QED
      BY <2>2 DEF Joined
<1>13. FlattenSeq(b) = text \o part
  <2>1. CASE n # 0
      BY <1>1, <1>8, <1>12, <2>1
  <2>2. CASE n = 0
    <3>1. ids = <<>>
        BY <1>1, <1>2, <2>2, EmptySeq DEF Rising
    <3>2. text = <<>>
        BY <1>1, <3>1, NothingStands DEF Standing
    <3>3. text \o part = part
        BY <3>2, ConcatEmptySeq
    <3> QED
        BY <1>12, <2>2, <3>3
  <2> QED
      BY <2>1, <2>2
<1> QED
    BY <1>7, <1>8, <1>13 DEF Standing

(* The part that comes next after the first n bytes.                       *)
LEMMA PartsJoin ==
    ASSUME NEW text, text \in Seq(Bytes), NEW n \in Nat, NEW k \in Nat, n + k <= Len(text)
    PROVE  SubSeq(text, 1, n) \o SubSeq(text, n + 1, n + k) = SubSeq(text, 1, n + k)
<1>1. PICK a, b, c : a = SubSeq(text, 1, n) /\ b = SubSeq(text, n + 1, n + k) /\ c = SubSeq(text, 1, n + k)
    OBVIOUS
<1>2. Len(text) \in Nat
    BY LenProperties
<1>3. \A i \in 1..Len(text) : text[i] \in Bytes
    BY ElementOfSeq
<1>4. a \in Seq(Bytes) /\ Len(a) = n /\ \A i \in 1..n : a[i] = text[i]
    BY <1>1, <1>2, <1>3
<1>5. b \in Seq(Bytes) /\ Len(b) = k /\ \A i \in 1..k : b[i] = text[n + i]
    BY <1>1, <1>2, <1>3
<1>6. c \in Seq(Bytes) /\ Len(c) = n + k /\ \A i \in 1..(n + k) : c[i] = text[i]
    BY <1>1, <1>2, <1>3
<1>7. PICK d : d = a \o b
    OBVIOUS
<1>8. /\ d \in Seq(Bytes) /\ Len(d) = n + k
      /\ \A i \in 1..(n + k) : d[i] = IF i <= n THEN a[i] ELSE b[i - n]
    BY <1>4, <1>5, <1>7, ConcatProperties
<1>9. ASSUME NEW i \in 1..(n + k) PROVE d[i] = c[i]
  <2>1. CASE i <= n
      BY <1>4, <1>6, <1>8, <2>1
  <2>2. CASE ~(i <= n)
    <3>1. i - n \in 1..k /\ n + (i - n) = i
        BY <2>2
    <3> QED
        BY <1>5, <1>6, <1>8, <2>2, <3>1
  <2> QED
      BY <2>1, <2>2
<1>10. d = c
    BY <1>6, <1>8, <1>9, SeqEqual
<1> QED
    BY <1>1, <1>7, <1>10

-----------------------------------------------------------------------------
(***************************************************************************)
(* SentStands is not inductive: it does not say what the edits and the     *)
(* deletions to come are about, nor what of the message under way has been *)
(* sent.  SentInv does: the draft that may be edited and the question that *)
(* will be deleted belong to no message reported as sent, and what was     *)
(* sent so far stands in the chat.                                         *)
(***************************************************************************)
Untouched(chat, id) == \A a \in acked : a.chat = chat => Apart(a.ids, id)

AckedStand == \A a \in acked : a.chat \in Chats /\ Standing(api.msgs[a.chat], a.ids, a.text)

DraftApart ==
    tg.lastId # 0 =>
        /\ tg.lastChat \in Chats /\ tg.lastId \in 1..Len(api.msgs[tg.lastChat])
        /\ Untouched(tg.lastChat, tg.lastId)

PromptApart == Untouched(op.ask.chat, op.prompt)

Sending == {"attach", "chunk", "post"}

SentSoFar ==
    op.pc \in Sending =>
        /\ op.m \in Messages /\ op.sent \in 0..Len(op.m.text)
        /\ ~op.m.draft => /\ Standing(api.msgs[op.m.chat], op.ids, SubSeq(op.m.text, 1, op.sent))
                          /\ op.ids # <<>> => tg.lastId = 0

AttachFirst == op.pc = "attach" => Multipart(op.body) /\ op.ids = <<>> /\ op.sent = 0

(* What is being posted is the next part of the text, as a message, as a   *)
(* draft, or in the place of the draft message.                            *)
NextOfText(body) ==
    /\ body.chat = op.m.chat
    /\ \E k \in 1..(Len(op.m.text) - op.sent) : body.text = SubSeq(op.m.text, op.sent + 1, op.sent + k)

Edits(body) ==
    /\ ~op.m.draft /\ body.method = "editMessageText" /\ op.ids = <<>>
    /\ tg.lastId # 0 /\ body.id = tg.lastId /\ tg.lastChat = op.m.chat

PostFits ==
    op.pc = "post" =>
        /\ NextOfText(op.body)
        /\ \/ op.body.method = "sendMessage"
           \/ op.m.draft /\ op.body.method = "sendMessageDraft"
           \/ Edits(op.body)

AskPosts ==
    /\ op.pc \in {"typing", "empty"} => op.body.method \notin Changing
    /\ op.pc = "ask" => Posts(op.body) /\ op.body.chat = op.ask.chat

DraftFields == {"activeDraft", "nextDraft", "lastChat", "lastThread", "lastId"} \subseteq DOMAIN tg

SentInv ==
    /\ Ch.st = "ok" /\ DraftFields /\ Logs(api) /\ AckedStand /\ DraftApart /\ PromptApart
    /\ SentSoFar /\ AttachFirst /\ PostFits /\ AskPosts

-----------------------------------------------------------------------------
LEMMA ChatKnown ==
    ASSUME NEW m \in Messages
    PROVE  m.chat \in Chats /\ m.text \in Seq(Bytes) /\ Len(m.text) \in Nat
<1>1. m.text \in Seq(Bytes)
    BY TextsAssumption
<1>2. Len(m.text) \in Nat
    BY <1>1, LenProperties
<1> QED
    BY <1>1, <1>2 DEF Chats

LEMMA LogLen ==
    ASSUME NEW a, Logs(a), NEW c \in Chats
    PROVE  Len(a.msgs[c]) \in Nat
BY LenProperties DEF Logs, LogOf

LEMMA ZeroApart ==
    ASSUME NEW log, NEW ids, Rising(log, ids)
    PROVE  Apart(ids, 0)
BY DEF Rising, Apart

LEMMA ZeroUntouched ==
    ASSUME AckedStand, NEW chat
    PROVE  Untouched(chat, 0)
BY ZeroApart DEF AckedStand, Untouched, Standing

(* The number of a message that is new in its chat.                        *)
LEMMA NewUntouched ==
    ASSUME Logs(api), AckedStand, NEW c, NEW id, c \in Chats => id \in Nat /\ Len(api.msgs[c]) < id
    PROVE  Untouched(c, id)
<1>1. ASSUME NEW a \in acked, a.chat = c PROVE Apart(a.ids, id)
  <2>1. c \in Chats /\ Rising(api.msgs[c], a.ids)
      BY <1>1 DEF AckedStand, Standing
  <2>2. Len(api.msgs[c]) \in Nat
      BY <2>1, LogLen
  <2> QED
      BY <2>1, <2>2 DEF Rising, Apart
<1> QED
    BY <1>1 DEF Untouched

(* A step of the service that touches nothing of what was reported.        *)
Gentle(body) ==
    /\ Serves(api, api', body)
    /\ \A c \in Chats : Untouched(c, Target(body, c))

LEMMA GentleRequest ==
    ASSUME SentInv, NEW o, NEW body, Request(o, body), body.method \notin Changing
    PROVE  Gentle(body)
<1>1. Serves(api, api', body)
    BY RequestServes DEF SentInv
<1>2. \A c \in Chats : Target(body, c) = 0
    BY DEF Target
<1>3. AckedStand
    BY DEF SentInv
<1> QED
    BY <1>1, <1>2, <1>3, ZeroUntouched DEF Gentle

LEMMA GentleNothing ==
    ASSUME SentInv, "msgs" \in DOMAIN api', api'.msgs = api.msgs
    PROVE  \E body : Gentle(body)
<1>1. PICK body : body = [method |-> "none"]
    OBVIOUS
<1>2. \A c \in Chats : Target(body, c) = 0
    BY <1>1 DEF Target, Changing
<1>3. Logs(api) /\ AckedStand
    BY DEF SentInv
<1>4. PICK new : new = api'
    OBVIOUS
<1>5. Serves(api, new, body)
    BY <1>3, <1>4, ServesNothing
<1> QED
    BY <1>2, <1>3, <1>4, <1>5, ZeroUntouched DEF Gentle

LEMMA AckedKept ==
    ASSUME SentInv, NEW body, Gentle(body), acked' = acked
    PROVE  Logs(api)' /\ AckedStand'
<1>1. Logs(api)'
    BY DEF Gentle, Serves, Logs
<1>2. ASSUME NEW a \in acked PROVE a.chat \in Chats /\ Standing(api'.msgs[a.chat], a.ids, a.text)
  <2>1. PICK c, ids, text : c = a.chat /\ ids = a.ids /\ text = a.text
      OBVIOUS
  <2>2. PICK old, new, t : old = api.msgs[c] /\ new = api'.msgs[c] /\ t = Target(body, c)
      OBVIOUS
  <2>3. c \in Chats /\ Standing(old, ids, text)
      BY <2>1, <2>2 DEF SentInv, AckedStand
  <2>4. KeepsLog(old, new, t)
      BY <2>2, <2>3 DEF Gentle, Serves
  <2>5. Len(old) \in Nat
      BY <2>2, <2>3, LogLen DEF SentInv
  <2>6. Apart(ids, t)
      BY <2>1, <2>2, <2>3 DEF Gentle, Untouched
  <2>7. Standing(new, ids, text)
      BY <2>3, <2>4, <2>5, <2>6, StandingKept
  <2> QED
      BY <2>1, <2>2, <2>3, <2>7
<1> QED
    BY <1>1, <1>2 DEF AckedStand

LEMMA DraftKept ==
    ASSUME SentInv, NEW body, Gentle(body), acked' = acked, tg'.lastId = tg.lastId, tg'.lastChat = tg.lastChat
    PROVE  DraftApart'
<1>1. SUFFICES ASSUME tg.lastId # 0 PROVE /\ tg.lastChat \in Chats /\ tg.lastId \in 1..Len(api'.msgs[tg.lastChat])
                                          /\ Untouched(tg.lastChat, tg.lastId)
    BY DEF DraftApart, Untouched
<1>2. PICK c, id : c = tg.lastChat /\ id = tg.lastId
    OBVIOUS
<1>3. c \in Chats /\ id \in 1..Len(api.msgs[c]) /\ Untouched(c, id)
    BY <1>1, <1>2 DEF SentInv, DraftApart
<1>4. Len(api.msgs[c]) \in Nat
    BY <1>3, LogLen DEF SentInv
<1>5. KeepsLog(api.msgs[c], api'.msgs[c], Target(body, c))
    BY <1>3 DEF Gentle, Serves
<1>6. Len(api'.msgs[c]) \in Nat /\ Len(api.msgs[c]) <= Len(api'.msgs[c])
    BY <1>5, LenProperties DEF KeepsLog, LogOf
<1> QED
    BY <1>2, <1>3, <1>4, <1>6

(* A step that leaves what is sent alone.                                  *)
LastSame == DraftFields' /\ tg'.lastId = tg.lastId /\ tg'.lastChat = tg.lastChat
LastForgotten == DraftFields' /\ tg'.lastId = 0

LEMMA AsideSent ==
    ASSUME SentInv, NEW body, Gentle(body), acked' = acked, LastSame, op'.pc \notin Sending, PromptApart', AskPosts'
    PROVE  SentInv'
<1>1. Logs(api)' /\ AckedStand' /\ DraftApart'
    BY AckedKept, DraftKept DEF LastSame
<1>2. SentSoFar' /\ AttachFirst' /\ PostFits'
    BY DEF SentSoFar, AttachFirst, PostFits, Sending
<1>3. (Ch.st = "ok")'
    BY DEF SentInv, Ch
<1> QED
    BY <1>1, <1>2, <1>3 DEF SentInv, LastSame

-----------------------------------------------------------------------------
(* A call that is neither sending nor asking.                              *)
Elsewhere(o1) ==
    /\ o1.pc \notin Sending \cup {"ask", "typing", "empty"}
    /\ \/ o1.prompt = 0
       \/ o1.prompt = op.prompt /\ o1.ask = op.ask

LEMMA ElsewhereSent ==
    ASSUME SentInv, NEW body, Gentle(body), acked' = acked, LastSame, Elsewhere(op')
    PROVE  SentInv'
<1>1. PromptApart'
  <2>1. Untouched(op'.ask.chat, op'.prompt)
    <3>1. CASE op'.prompt = 0
        BY <3>1, ZeroUntouched DEF SentInv
    <3>2. CASE op'.prompt = op.prompt /\ op'.ask = op.ask
        BY <3>2 DEF SentInv, PromptApart
    <3> QED
        BY <3>1, <3>2 DEF Elsewhere
  <2> QED
      BY <2>1 DEF PromptApart, Untouched
<1>2. op'.pc \notin Sending /\ AskPosts'
    BY DEF Elsewhere, AskPosts
<1> QED
    BY <1>1, <1>2, AsideSent

LEMMA IdleElsewhere == Elsewhere(Idle)
BY DEF Elsewhere, Idle, Sending

LEMMA SameLast ==
    ASSUME SentInv, tg' = tg
    PROVE  LastSame
BY DEF SentInv, LastSame, DraftFields

(* The channel's record with another field changed.                        *)
LEMMA OtherField ==
    ASSUME SentInv, NEW f, f \notin {"lastChat", "lastId"}, NEW v, tg' = [tg EXCEPT ![f] = v]
    PROVE  LastSame
BY DEF SentInv, LastSame, DraftFields

LEMMA SameService ==
    ASSUME SentInv, api' = api
    PROVE  \E body : Gentle(body)
<1>1. "msgs" \in DOMAIN api' /\ api'.msgs = api.msgs
    BY DEF SentInv, Logs
<1> QED
    BY <1>1, GentleNothing

LEMMA RetryElsewhere ==
    ASSUME PollInv, Retry, op.pc \notin Sending \cup {"ask", "typing", "empty"}
    PROVE  Elsewhere(op')
BY DEF PollInv, ChannelFields, CallFields, Retry, Elsewhere

LEMMA ListenSent ==
    ASSUME SentInv, PollInv, NEW st, NEW disk1, ListenReturns(st, tg, disk1), NEW body, Gentle(body), acked' = acked
    PROVE  SentInv'
<1>1. tg' = [tg EXCEPT !["offset"] = NextOffset(st)]
    BY DEF ListenReturns
<1>2. \/ op' = Idle \/ op' = [op EXCEPT !.pc = "delete", !.try = 1]
      \/ op' = [op EXCEPT !.pc = "wait", !.cur = 0, !.batch = <<>>]
    BY Zenon DEF ListenReturns
<1>3. CASE op' = Idle
    BY <1>1, <1>3, IdleElsewhere, OtherField, ElsewhereSent
<1>4. CASE op' = [op EXCEPT !.pc = "delete", !.try = 1] \/ op' = [op EXCEPT !.pc = "wait", !.cur = 0, !.batch = <<>>]
  <2>1. op'.pc \in {"delete", "wait"} /\ op'.prompt = op.prompt /\ op'.ask = op.ask
      BY <1>4 DEF PollInv, ChannelFields, CallFields
  <2>2. Elsewhere(op')
      BY <2>1 DEF Elsewhere, Sending
  <2> QED
      BY <1>1, <2>2, OtherField, ElsewhereSent
<1> QED
    BY <1>2, <1>3, <1>4

LEMMA GetUpdatesSent ==
    ASSUME SentInv, PollInv, NEW o, GetUpdates(o)
    PROVE  SentInv'
<1>1. PICK body : body = BuildGetUpdatesUrl(tg.offset)
    OBVIOUS
<1>2. Request(o, body) /\ body.method \notin Changing /\ acked' = acked /\ op.pc = "getUpdates"
    BY <1>1 DEF GetUpdates, BuildGetUpdatesUrl, Changing
<1>3. Gentle(body)
    BY <1>2, GentleRequest
<1>4. CASE Retry /\ UNCHANGED <<tg, held, disk, fate, handed>>
  <2>1. Elsewhere(op')
      BY <1>2, <1>4, RetryElsewhere DEF Sending
  <2> QED
      BY <1>2, <1>3, <1>4, <2>1, SameLast, ElsewhereSent
<1>5. CASE ListenReturns("http_error", tg, disk)
    BY <1>2, <1>3, <1>5, ListenSent
<1>6. CASE /\ op' = [op EXCEPT !.pc = "parse", !.next = tg.offset, !.batch = BatchFrom(api'.confirmed)]
           /\ UNCHANGED <<tg, held, disk, fate, handed>>
  <2>1. op'.pc = "parse" /\ op'.prompt = op.prompt /\ op'.ask = op.ask
      BY <1>6 DEF PollInv, ChannelFields, CallFields
  <2>2. Elsewhere(op')
      BY <2>1 DEF Elsewhere, Sending
  <2> QED
      BY <1>2, <1>3, <1>6, <2>2, SameLast, ElsewhereSent
<1> QED
    BY <1>4, <1>5, <1>6 DEF GetUpdates

(* Steps that ask the service for nothing.                                 *)
LEMMA PlainSent ==
    ASSUME SentInv, PollInv,
           StartListen \/ WaitPoll \/ WaitEnds \/ ParseNothing \/ ParseLimited \/ ParseCandidate \/ InboundClear
    PROVE  SentInv'
<1>1. UNCHANGED <<api, acked>>
    BY DEF StartListen, WaitPoll, WaitEnds, ParseNothing, ParseLimited, ParseCandidate, InboundClear
<1>2. PICK body : Gentle(body)
    BY <1>1, SameService
<1>3. LastSame
  <2>1. \/ tg' = tg \/ \E v : tg' = [tg EXCEPT !["offset"] = v]
        \/ tg' = RateCounted
      BY Zenon DEF StartListen, WaitPoll, WaitEnds, ParseNothing, ParseLimited, ParseCandidate, InboundClear
  <2>2. CASE tg' = RateCounted
      BY <2>2 DEF RateCounted, SentInv, LastSame, DraftFields
  <2> QED
      BY <2>1, <2>2, SameLast, OtherField
<1>4. Elsewhere(op')
  <2>1. ASSUME NEW p, p \notin Sending \cup {"ask", "typing", "empty"}, op'.pc = p, op'.prompt = op.prompt, op'.ask = op.ask
        PROVE  Elsewhere(op')
      BY <2>1 DEF Elsewhere
  <2>2. CASE op' = Poll(op)
    <3>1. op'.pc = "getUpdates" /\ op'.prompt = op.prompt /\ op'.ask = op.ask
        BY <2>2 DEF Poll, PollInv, ChannelFields, CallFields
    <3> QED
        BY <2>1, <3>1 DEF Sending
  <2>3. CASE op' = Idle
      BY <2>3, IdleElsewhere
  <2>4. CASE op' = [op EXCEPT !.pc = "wait", !.batch = <<>>]
    <3>1. op'.pc = "wait" /\ op'.prompt = op.prompt /\ op'.ask = op.ask
        BY <2>4 DEF PollInv, ChannelFields, CallFields
    <3> QED
        BY <2>1, <3>1 DEF Sending
  <2>5. CASE ParseCandidate
    <3>0. PICK c : c = op.batch[FirstOf(op.batch)]
        OBVIOUS
    <3>1. PICK p \in Fetching : op' = [op EXCEPT !.cur = c, !.next = c + 1, !.try = 1, !.pc = p]
        BY <2>5, <3>0 DEF ParseCandidate, Fetching, AfterMedia
    <3>2. op'.pc = p /\ op'.prompt = op.prompt /\ op'.ask = op.ask
        BY <3>1 DEF PollInv, ChannelFields, CallFields
    <3>3. p \notin Sending \cup {"ask", "typing", "empty"}
        BY DEF Fetching, Sending
    <3> QED
        BY <2>1, <3>2, <3>3
  <2>6. CASE InboundClear
      BY <2>1, <2>6 DEF InboundClear, Sending
  <2> QED
      BY <2>2, <2>3, <2>4, <2>5, <2>6 DEF StartListen, WaitPoll, WaitEnds, ParseNothing, ParseLimited
<1> QED
    BY <1>1, <1>2, <1>3, <1>4, ElsewhereSent

(* Fetching an update and handing it over.                                 *)
LEMMA FetchForm ==
    ASSUME PollInv, NEW p, p \in Fetching \cup {"download", "store"}, op' = [op EXCEPT !.pc = p] \/ op' = [op EXCEPT !.pc = p, !.try = 1]
    PROVE  Elsewhere(op')
<1>1. op'.pc = p /\ op'.prompt = op.prompt /\ op'.ask = op.ask
    BY DEF PollInv, ChannelFields, CallFields
<1> QED
    BY <1>1 DEF Elsewhere, Sending, Fetching

LEMMA FetchSent ==
    ASSUME SentInv, PollInv, NEW o, GetFile(o) \/ Download(o) \/ React(o)
    PROVE  SentInv'
<1>1. PICK body : Request(o, body) /\ body.method \notin Changing
  <2>1. ASSUME NEW x
        PROVE  /\ BuildGetFileUrl(x).method \notin Changing
               /\ BuildDownloadFileUrl(x).method \notin Changing
               /\ BuildReactionBody(x).method \notin Changing
      BY DEF BuildGetFileUrl, BuildDownloadFileUrl, BuildReactionBody, Changing
  <2> QED
      BY <2>1 DEF GetFile, Download, React
<1>2. acked' = acked /\ op.pc \notin Sending \cup {"ask", "typing", "empty"}
    BY DEF GetFile, Download, React, Sending
<1>3. Gentle(body)
    BY <1>1, GentleRequest
<1>4. CASE Retry /\ UNCHANGED tg
  <2>1. Elsewhere(op')
      BY <1>2, <1>4, RetryElsewhere
  <2> QED
      BY <1>2, <1>3, <1>4, <2>1, SameLast, ElsewhereSent
<1>5. CASE ListenReturns("http_error", tg, disk)
    BY <1>2, <1>3, <1>5, ListenSent
<1>6. CASE /\ UNCHANGED tg
           /\ \E p \in Fetching : op' = [op EXCEPT !.pc = p] \/ op' = [op EXCEPT !.pc = p, !.try = 1]
  <2>1. Elsewhere(op')
      BY <1>6, FetchForm
  <2> QED
      BY <1>2, <1>3, <1>6, <2>1, SameLast, ElsewhereSent
<1> QED
    BY <1>4, <1>5, <1>6 DEF GetFile, Download, React, Fetching

LEMMA TakeSent ==
    ASSUME SentInv, PollInv, DeclaredTooLarge \/ Deliver \/ Store
    PROVE  SentInv'
<1>1. UNCHANGED <<api, acked>>
    BY DEF DeclaredTooLarge, Deliver, Store
<1>2. PICK body : Gentle(body)
    BY <1>1, SameService
<1>3. \/ \E st, d : ListenReturns(st, tg, d)
      \/ UNCHANGED tg /\ op' = [op EXCEPT !.pc = AfterMedia(Updates[op.cur]), !.try = 1]
    BY Zenon DEF DeclaredTooLarge, Deliver, Store
<1>4. CASE \E st, d : ListenReturns(st, tg, d)
    BY <1>1, <1>2, <1>4, ListenSent
<1>5. CASE UNCHANGED tg /\ op' = [op EXCEPT !.pc = AfterMedia(Updates[op.cur]), !.try = 1]
  <2>1. PICK p : p = AfterMedia(Updates[op.cur])
      OBVIOUS
  <2>2. p \in Fetching /\ op' = [op EXCEPT !.pc = p, !.try = 1]
      BY <1>5, <2>1, AfterMediaFetches
  <2>3. Elsewhere(op')
      BY <2>2, FetchForm
  <2> QED
      BY <1>1, <1>2, <1>5, <2>3, SameLast, ElsewhereSent
<1> QED
    BY <1>3, <1>4, <1>5

-----------------------------------------------------------------------------
(* Asking.                                                                 *)
LEMMA PostsChangeNothing ==
    ASSUME NEW body, Posts(body)
    PROVE  body.method \notin Changing
BY DEF Posts, Multipart, Changing

LEMMA AskSent ==
    ASSUME SentInv, PollInv, NEW o, Ask(o)
    PROVE  SentInv'
<1>1. op.pc = "ask" /\ Request(o, op.body) /\ UNCHANGED <<tg, acked>>
    BY DEF Ask
<1>2. Posts(op.body) /\ op.body.chat = op.ask.chat
    BY <1>1 DEF SentInv, AskPosts
<1>3. Gentle(op.body) /\ LastSame
    BY <1>1, <1>2, PostsChangeNothing, GentleRequest, SameLast
<1>4. CASE Retry
  <2>1. /\ op'.pc = "ask" /\ op'.body = op.body /\ op'.ask = op.ask /\ op'.prompt = op.prompt
      BY <1>1, <1>4 DEF Retry, PollInv, ChannelFields, CallFields
  <2>2. PromptApart'
      BY <1>1, <2>1 DEF SentInv, PromptApart, Untouched
  <2>3. AskPosts' /\ op'.pc \notin Sending
      BY <1>2, <2>1 DEF AskPosts, Sending, Posts, Multipart
  <2> QED
      BY <1>1, <1>3, <2>2, <2>3, AsideSent
<1>5. CASE op' = Idle
    BY <1>1, <1>3, <1>5, IdleElsewhere, ElsewhereSent
<1>6. CASE /\ o = "ok"
           /\ op' = [op EXCEPT !.pc = "wait", !.left = Ch.approvalTimeout, !.prompt = Len(api'.msgs[op.ask.chat])]
  <2>1. PICK c, n : c = op.ask.chat /\ n = Len(api'.msgs[c])
      OBVIOUS
  <2>2. op'.pc = "wait" /\ op'.prompt = n /\ op'.ask = op.ask
      BY <1>6, <2>1 DEF PollInv, ChannelFields, CallFields
  <2>3. api' = Served(api, op.body)
      BY <1>1, <1>6 DEF Request
  <2>4. c \in Chats => n \in Nat /\ Len(api.msgs[c]) < n
    <3>1. SUFFICES ASSUME c \in Chats PROVE n \in Nat /\ Len(api.msgs[c]) < n
        OBVIOUS
    <3>2. PICK body, old, new : /\ body = op.body /\ old = api.msgs[body.chat]
                                /\ new = Served(api, body).msgs[body.chat]
        OBVIOUS
    <3>3. body.chat = c /\ Posts(body) /\ Logs(api)
        BY <1>2, <2>1, <3>2 DEF SentInv
    <3>4. Len(old) \in Nat /\ Len(new) = Len(old) + 1
        BY <3>1, <3>2, <3>3, PostedStands
    <3>5. new = api'.msgs[c] /\ old = api.msgs[c]
        BY <2>3, <3>2, <3>3
    <3> QED
        BY <2>1, <3>4, <3>5
  <2>5. Untouched(c, n)
      BY <2>4, NewUntouched DEF SentInv
  <2>6. PromptApart'
      BY <1>1, <2>1, <2>2, <2>5 DEF PromptApart, Untouched
  <2>7. AskPosts' /\ op'.pc \notin Sending
      BY <2>2 DEF AskPosts, Sending
  <2> QED
      BY <1>1, <1>3, <2>6, <2>7, AsideSent
<1> QED
    BY <1>4, <1>5, <1>6 DEF Ask

LEMMA StartApprovalSent ==
    ASSUME SentInv, StartApproval
    PROVE  SentInv'
<1>1. UNCHANGED <<api, acked>> /\ tg' = [tg EXCEPT !["approvalId"] = tg.approvalId + 1]
    BY DEF StartApproval
<1>2. PICK body : Gentle(body)
    BY <1>1, SameService
<1>3. PICK ask, b : /\ b.method = "sendMessage" /\ b.chat = ask.chat
                    /\ op' = [Idle EXCEPT !.pc = "ask", !.ask = ask, !.body = b]
  <2>1. PICK ask : op' = [Idle EXCEPT !.pc = "ask", !.ask = ask, !.body = BuildApprovalBody(ask, tg.approvalId + 1)]
      BY DEF StartApproval
  <2>2. PICK b : b = BuildApprovalBody(ask, tg.approvalId + 1)
      OBVIOUS
  <2>3. b.method = "sendMessage" /\ b.chat = ask.chat
      BY <2>2 DEF BuildApprovalBody
  <2> QED
      BY <2>1, <2>2, <2>3
<1>4. op'.pc = "ask" /\ op'.ask = ask /\ op'.body = b /\ op'.prompt = 0
    BY <1>3 DEF Idle
<1>5. PromptApart'
  <2>1. Untouched(ask.chat, 0)
      BY ZeroUntouched DEF SentInv
  <2> QED
      BY <1>1, <1>4, <2>1 DEF PromptApart, Untouched
<1>6. AskPosts' /\ op'.pc \notin Sending
    BY <1>3, <1>4 DEF AskPosts, Sending, Posts
<1>7. LastSame
    BY <1>1, OtherField
<1> QED
    BY <1>1, <1>2, <1>5, <1>6, <1>7, AsideSent

(* The deleted question is no message that was reported as sent.           *)
LEMMA DeletePromptSent ==
    ASSUME SentInv, PollInv, NEW o, DeletePrompt(o)
    PROVE  SentInv'
<1>1. PICK body : body = BuildDeleteMessageBody(op.ask.chat, op.prompt)
    OBVIOUS
<1>2. op.pc = "delete" /\ Request(o, body) /\ UNCHANGED <<tg, acked>> /\ (Retry \/ op' = Idle)
    BY <1>1 DEF DeletePrompt
<1>3. ASSUME NEW c \in Chats PROVE Untouched(c, Target(body, c))
  <2>1. CASE c = op.ask.chat
    <3>1. Target(body, c) = op.prompt
        BY <1>1, <2>1 DEF Target, BuildDeleteMessageBody, Changing
    <3> QED
        BY <2>1, <3>1 DEF SentInv, PromptApart
  <2>2. CASE c # op.ask.chat
    <3>1. Target(body, c) = 0
        BY <1>1, <2>2 DEF Target, BuildDeleteMessageBody
    <3> QED
        BY <3>1, ZeroUntouched DEF SentInv
  <2> QED
      BY <2>1, <2>2
<1>4. Gentle(body)
  <2>1. Serves(api, api', body)
      BY <1>2, RequestServes DEF SentInv
  <2> QED
      BY <1>3, <2>1 DEF Gentle
<1>5. Elsewhere(op')
    BY <1>2, IdleElsewhere, RetryElsewhere DEF Sending
<1> QED
    BY <1>2, <1>4, <1>5, SameLast, ElsewhereSent

-----------------------------------------------------------------------------
(* Sending.                                                                *)
LEMMA SignSent ==
    ASSUME SentInv, PollInv, NEW o, SendChatAction(o) \/ PostEmpty(o)
    PROVE  SentInv'
<1>1. op.pc \in {"typing", "empty"} /\ Request(o, op.body) /\ UNCHANGED <<tg, acked>> /\ (Retry \/ op' = Idle)
    BY DEF SendChatAction, PostEmpty
<1>2. op.body.method \notin Changing
    BY <1>1 DEF SentInv, AskPosts
<1>3. Gentle(op.body) /\ LastSame
    BY <1>1, <1>2, GentleRequest, SameLast
<1>4. CASE Retry
  <2>1. /\ op'.pc = op.pc /\ op'.body = op.body /\ op'.ask = op.ask /\ op'.prompt = op.prompt
      BY <1>4 DEF Retry, PollInv, ChannelFields, CallFields
  <2>2. PromptApart'
      BY <1>1, <2>1 DEF SentInv, PromptApart, Untouched
  <2>3. AskPosts' /\ op'.pc \notin Sending
      BY <1>1, <1>2, <2>1 DEF AskPosts, Sending
  <2> QED
      BY <1>1, <1>3, <2>2, <2>3, AsideSent
<1>5. CASE op' = Idle
    BY <1>1, <1>3, <1>5, IdleElsewhere, ElsewhereSent
<1> QED
    BY <1>1, <1>4, <1>5

(* The message under way while nothing of it is changed.                   *)
SameMessage == op'.m = op.m /\ op'.sent = op.sent /\ op'.ids = op.ids

SamePrompt == op'.ask = op.ask /\ op'.prompt = op.prompt

LEMMA UnderWay ==
    ASSUME SentInv, NEW body, Gentle(body), op.pc \in Sending, SameMessage, LastSame \/ LastForgotten,
           ~op.m.draft => Apart(op.ids, Target(body, op.m.chat))
    PROVE  SentSoFar'
<1>1. PICK m, c : m = op.m /\ c = m.chat
    OBVIOUS
<1>2. /\ m \in Messages /\ op.sent \in 0..Len(m.text)
      /\ ~m.draft => /\ Standing(api.msgs[c], op.ids, SubSeq(m.text, 1, op.sent))
                     /\ op.ids # <<>> => tg.lastId = 0
    BY <1>1 DEF SentInv, SentSoFar
<1>3. c \in Chats
    BY <1>1, <1>2, ChatKnown
<1>4. ~m.draft => Standing(api'.msgs[c], op.ids, SubSeq(m.text, 1, op.sent))
  <2>1. SUFFICES ASSUME ~m.draft PROVE Standing(api'.msgs[c], op.ids, SubSeq(m.text, 1, op.sent))
      OBVIOUS
  <2>2. PICK old, new, t, ids, text : /\ old = api.msgs[c] /\ new = api'.msgs[c] /\ t = Target(body, c)
                                      /\ ids = op.ids /\ text = SubSeq(m.text, 1, op.sent)
      OBVIOUS
  <2>3. KeepsLog(old, new, t)
      BY <1>3, <2>2 DEF Gentle, Serves
  <2>4. Len(old) \in Nat
      BY <1>3, <2>2, LogLen DEF SentInv
  <2>5. Standing(old, ids, text) /\ Apart(ids, t)
      BY <1>1, <1>2, <2>1, <2>2
  <2>6. Standing(new, ids, text)
      BY <2>3, <2>4, <2>5, StandingKept
  <2> QED
      BY <2>2, <2>6
<1> QED
    BY <1>1, <1>2, <1>4 DEF SentSoFar, SameMessage, LastSame, LastForgotten

(* A step during which the message under way stays.                        *)
LEMMA StillSending ==
    ASSUME SentInv, NEW body, Gentle(body), op.pc \in Sending, SameMessage, SamePrompt,
           LastSame \/ LastForgotten, acked' = acked,
           ~op.m.draft => Apart(op.ids, Target(body, op.m.chat)), op'.pc \in Sending, AttachFirst', PostFits'
    PROVE  SentInv'
<1>1. Logs(api)' /\ AckedStand'
    BY AckedKept
<1>1a. DraftApart'
  <2>1. CASE LastSame
      BY <2>1, DraftKept DEF LastSame
  <2>2. CASE LastForgotten
      BY <2>2 DEF LastForgotten, DraftApart
  <2> QED
      BY <2>1, <2>2
<1>2. SentSoFar'
    BY UnderWay
<1>3. PromptApart'
    BY DEF SentInv, PromptApart, Untouched, SamePrompt
<1>4. AskPosts'
    BY DEF AskPosts, Sending
<1>5. (Ch.st = "ok")'
    BY DEF SentInv, Ch
<1> QED
    BY <1>1, <1>1a, <1>2, <1>3, <1>4, <1>5 DEF SentInv, LastSame, LastForgotten

(* What was sent so far is apart from what no request changes.             *)
LEMMA OwnApart ==
    ASSUME SentInv, op.pc \in Sending, ~op.m.draft
    PROVE  Apart(op.ids, 0)
BY ZeroApart DEF SentInv, SentSoFar, Standing

-----------------------------------------------------------------------------
LEMMA FitsStill ==
    ASSUME SentInv, SameMessage, LastSame, op'.body = op.body, op'.pc = op.pc
    PROVE  PostFits' /\ AttachFirst'
<1>1. AttachFirst'
    BY DEF SentInv, AttachFirst, SameMessage, Multipart
<1>2. PostFits'
    BY DEF SentInv, PostFits, NextOfText, Edits, SameMessage, LastSame
<1> QED
    BY <1>1, <1>2

LEMMA DocumentIsMultipart ==
    ASSUME NEW m
    PROVE  Multipart(BuildDocumentBody(m))
BY DEF BuildDocumentBody, Attachment, Multipart

LEMMA AttachmentIsMultipart ==
    ASSUME NEW m
    PROVE  Multipart(SendAttachment(m))
<1>1. ASSUME NEW x \in {"sendAudio", "sendVoice", "sendPhoto", "sendDocument"}, NEW y
      PROVE  Multipart(Attachment(x, m, y))
    BY DEF Attachment, Multipart
<1>2. \E y : \/ SendAttachment(m) = Attachment("sendAudio", m, y)
             \/ SendAttachment(m) = Attachment("sendVoice", m, y)
             \/ SendAttachment(m) = Attachment("sendPhoto", m, y)
             \/ SendAttachment(m) = Attachment("sendDocument", m, y)
    BY Zenon DEF SendAttachment, SendAudio, BuildAudioBody, BuildVoiceBody, BuildPhotoBody, BuildDocumentBody
<1> QED
    BY <1>1, <1>2

LEMMA PostAttachmentSent ==
    ASSUME SentInv, PollInv, NEW o, PostAttachment(o)
    PROVE  SentInv'
<1>1. op.pc = "attach" /\ Request(o, op.body) /\ UNCHANGED <<tg, acked>>
    BY DEF PostAttachment
<1>2. Multipart(op.body) /\ op.ids = <<>> /\ op.sent = 0
    BY <1>1 DEF SentInv, AttachFirst
<1>3. op.body.method \notin Changing
    BY <1>2 DEF Multipart, Changing
<1>4. Gentle(op.body) /\ LastSame
    BY <1>1, <1>3, GentleRequest, SameLast
<1>5. op.pc \in Sending /\ (~op.m.draft => Apart(op.ids, Target(op.body, op.m.chat)))
    BY <1>1, <1>2 DEF Sending, Apart
<1>6. CASE op' = Idle
    BY <1>1, <1>4, <1>6, IdleElsewhere, ElsewhereSent
<1>7. CASE op' = [op EXCEPT !.pc = "chunk"] \/ op' = [op EXCEPT !.body = BuildDocumentBody(op.m)]
  <2>1. PICK b : b = BuildDocumentBody(op.m)
      OBVIOUS
  <2>2. SameMessage /\ SamePrompt /\ (op'.pc = "chunk" \/ (op'.pc = "attach" /\ op'.body = b))
      BY <1>1, <1>7, <2>1 DEF PollInv, ChannelFields, CallFields, SameMessage, SamePrompt
  <2>3. Multipart(b)
      BY <2>1, DocumentIsMultipart
  <2>4. op'.pc \in Sending /\ AttachFirst' /\ PostFits'
      BY <1>2, <2>2, <2>3 DEF Sending, AttachFirst, PostFits, SameMessage, Multipart
  <2> QED
      BY <1>1, <1>4, <1>5, <2>2, <2>4, StillSending
<1> QED
    BY <1>6, <1>7, Zenon DEF PostAttachment

(* A message is started on.                                                *)
LEMMA StartSendSent ==
    ASSUME SentInv, NEW m \in Messages, StartSend(m)
    PROVE  SentInv'
<1>1. UNCHANGED <<tg, api, acked>>
    BY DEF StartSend
<1>2. PICK body : Gentle(body)
    BY <1>1, SameService
<1>3. LastSame
    BY <1>1, SameLast
<1>4. PICK p, b : /\ \/ p = "typing" /\ b = BuildChatActionBody(m)
                     \/ p = "attach" /\ b = SendAttachment(m)
                     \/ p \in {"empty", "chunk"} /\ b = BuildSendBody(m, <<>>)
                  /\ op' = [[Idle EXCEPT !.m = m] EXCEPT !.pc = p, !.body = b]
  <2>1. \/ op' = [[Idle EXCEPT !.m = m] EXCEPT !.pc = "typing", !.body = BuildChatActionBody(m)]
        \/ op' = [[Idle EXCEPT !.m = m] EXCEPT !.pc = "attach", !.body = SendAttachment(m)]
        \/ op' = [[Idle EXCEPT !.m = m] EXCEPT !.pc = "empty", !.body = BuildSendBody(m, <<>>)]
        \/ op' = [[Idle EXCEPT !.m = m] EXCEPT !.pc = "chunk", !.body = BuildSendBody(m, <<>>)]
      BY Zenon DEF StartSend
  <2> QED
      BY <2>1, Zenon
<1>5. /\ op'.pc = p /\ op'.body = b /\ op'.m = m /\ op'.sent = 0 /\ op'.ids = <<>> /\ op'.prompt = 0
    BY <1>4 DEF Idle
<1>6. p \in {"typing", "attach", "empty", "chunk"}
    BY <1>4
<1>7. PromptApart'
  <2>1. Untouched(op'.ask.chat, 0)
      BY ZeroUntouched DEF SentInv
  <2> QED
      BY <1>1, <1>5, <2>1 DEF PromptApart, Untouched
<1>8. AskPosts'
  <2>1. p \in {"typing", "empty"} => b.method \notin Changing
      BY <1>4 DEF BuildChatActionBody, BuildSendBody, Changing
  <2> QED
      BY <1>5, <1>6, <2>1 DEF AskPosts
<1>9. SentSoFar'
  <2>1. m.text \in Seq(Bytes) /\ Len(m.text) \in Nat
      BY ChatKnown
  <2>2. SubSeq(m.text, 1, 0) = <<>>
      BY <2>1
  <2>3. Standing(api'.msgs[m.chat], <<>>, SubSeq(m.text, 1, 0))
      BY <2>2, NothingStands
  <2> QED
      BY <1>5, <2>1, <2>3 DEF SentSoFar
<1>10. AttachFirst' /\ PostFits'
  <2>1. p = "attach" => Multipart(b)
      BY <1>4, AttachmentIsMultipart
  <2> QED
      BY <1>5, <1>6, <2>1 DEF AttachFirst, PostFits, Multipart
<1>11. Logs(api)' /\ AckedStand' /\ DraftApart'
    BY <1>1, <1>2, <1>3, AckedKept, DraftKept DEF LastSame
<1>12. (Ch.st = "ok")'
    BY DEF SentInv, Ch
<1> QED
    BY <1>3, <1>7, <1>8, <1>9, <1>10, <1>11, <1>12 DEF SentInv, LastSame

LEMMA NextChunkSent ==
    ASSUME SentInv, PollInv, NextChunk
    PROVE  SentInv'
<1>1. UNCHANGED <<api, acked>> /\ op.pc = "chunk" /\ op.sent < Len(op.m.text)
    BY DEF NextChunk
<1>2. PICK none : Gentle(none)
    BY <1>1, SameService
<1>3. op.pc \in Sending
    BY <1>1 DEF Sending
<1>4. PICK m : m = op.m
    OBVIOUS
<1>5. m \in Messages /\ op.sent \in 0..Len(m.text) /\ m.chat \in Chats /\ Len(m.text) \in Nat
    BY <1>3, <1>4, ChatKnown DEF SentInv, SentSoFar
<1>6. PICK k : k = NextTextChunk(Ch, m.text, op.sent)
    OBVIOUS
<1>7. k \in 1..(Len(m.text) - op.sent)
  <2>1. PICK rest, text, offset : rest = Len(m.text) - op.sent /\ text = m.text /\ offset = op.sent
      OBVIOUS
  <2>2. rest \in Nat /\ rest = Len(text) - offset /\ rest # 0
      BY <1>1, <1>4, <1>5, <2>1
  <2>3. NextTextChunk(Ch, text, offset) \in 1..rest
      BY <2>2, NextPart DEF SentInv
  <2> QED
      BY <1>6, <2>1, <2>3
<1>8. PICK chunk : chunk = SubSeq(m.text, op.sent + 1, op.sent + k)
    OBVIOUS
<1>9. Chunk = chunk
    BY <1>4, <1>6, <1>8 DEF Chunk
<1>10. /\ tg' = tg \/ \E x, y : tg' = [tg EXCEPT !.activeDraft = x, !.nextDraft = y]
       /\ \E b : /\ op' = [op EXCEPT !.pc = "post", !.try = 1, !.body = b]
                 /\ \/ m.draft /\ \E id : b = BuildMessageDraftBody(m, chunk, id)
                    \/ ~m.draft /\ SameMessageTarget(m) /\ tg.lastId # 0 /\ b = BuildEditBody(m, chunk, tg.lastId)
                    \/ b = BuildSendBody(m, chunk)
    BY <1>4, <1>9, Zenon DEF NextChunk
<1>11. LastSame
    BY <1>10 DEF SentInv, LastSame, DraftFields
<1>12. PICK b : /\ op' = [op EXCEPT !.pc = "post", !.try = 1, !.body = b]
                /\ \/ m.draft /\ \E id : b = BuildMessageDraftBody(m, chunk, id)
                   \/ ~m.draft /\ SameMessageTarget(m) /\ tg.lastId # 0 /\ b = BuildEditBody(m, chunk, tg.lastId)
                   \/ b = BuildSendBody(m, chunk)
    BY <1>10
<1>13. SameMessage /\ SamePrompt /\ op'.pc = "post" /\ op'.body = b
    BY <1>12 DEF PollInv, ChannelFields, CallFields, SameMessage, SamePrompt
<1>14. b.chat = m.chat /\ b.text = chunk
    BY <1>12 DEF BuildMessageDraftBody, BuildEditBody, BuildSendBody
<1>15. \/ b.method = "sendMessage"
       \/ m.draft /\ b.method = "sendMessageDraft"
       \/ /\ ~m.draft /\ b.method = "editMessageText" /\ tg.lastId # 0 /\ b.id = tg.lastId
          /\ tg.lastChat = m.chat
    BY <1>12 DEF BuildMessageDraftBody, BuildEditBody, BuildSendBody, SameMessageTarget
<1>16. ~m.draft /\ tg.lastId # 0 => op.ids = <<>>
    BY <1>3, <1>4 DEF SentInv, SentSoFar
<1>17. NextOfText(op.body)'
    BY <1>4, <1>7, <1>8, <1>13, <1>14 DEF NextOfText, SameMessage
<1>18. PostFits'
    BY <1>4, <1>11, <1>13, <1>15, <1>16, <1>17 DEF PostFits, Edits, SameMessage, LastSame
<1>19. AttachFirst' /\ op'.pc \in Sending
    BY <1>13 DEF AttachFirst, Sending
<1>20. api' = api /\ SentSoFar'
  <2>1. /\ ~m.draft => Standing(api'.msgs[m.chat], op.ids, SubSeq(m.text, 1, op.sent))
        /\ ~m.draft => (op.ids # <<>> => tg.lastId = 0)
      BY <1>1, <1>3, <1>4 DEF SentInv, SentSoFar
  <2> QED
      BY <1>1, <1>4, <1>5, <1>11, <1>13, <2>1 DEF SentSoFar, SameMessage, LastSame
<1>21. Logs(api)' /\ AckedStand' /\ DraftApart'
    BY <1>1, <1>2, <1>11, AckedKept, DraftKept DEF LastSame
<1>22. PromptApart' /\ AskPosts'
    BY <1>1, <1>13 DEF SentInv, PromptApart, Untouched, SamePrompt, AskPosts
<1>23. (Ch.st = "ok")'
    BY DEF SentInv, Ch
<1> QED
    BY <1>11, <1>18, <1>19, <1>20, <1>21, <1>22, <1>23 DEF SentInv, LastSame

-----------------------------------------------------------------------------
(* A part is posted.                                                       *)
LEMMA PostGentle ==
    ASSUME SentInv, NEW o, op.pc = "post", Request(o, op.body)
    PROVE  Gentle(op.body) /\ (~op.m.draft => Apart(op.ids, Target(op.body, op.m.chat)))
<1>1. CASE Edits(op.body)
  <2>1. PICK body : body = op.body
      OBVIOUS
  <2>2. /\ body.method = "editMessageText" /\ body.id = tg.lastId /\ tg.lastId # 0 /\ op.ids = <<>>
        /\ body.chat = tg.lastChat
      BY <1>1, <2>1 DEF SentInv, PostFits, NextOfText, Edits
  <2>3. ASSUME NEW c \in Chats PROVE Untouched(c, Target(body, c))
    <3>1. CASE c = tg.lastChat
      <4>1. Target(body, c) = tg.lastId
          BY <2>2, <3>1 DEF Target, Changing
      <4> QED
          BY <2>2, <3>1, <4>1 DEF SentInv, DraftApart
    <3>2. CASE c # tg.lastChat
      <4>1. Target(body, c) = 0
          BY <2>2, <3>2 DEF Target
      <4> QED
          BY <4>1, ZeroUntouched DEF SentInv
    <3> QED
        BY <3>1, <3>2
  <2>4. Serves(api, api', body)
      BY <2>1, RequestServes DEF SentInv
  <2>5. Gentle(body)
      BY <2>3, <2>4 DEF Gentle
  <2>6. \A t : Apart(op.ids, t)
      BY <2>2 DEF Apart
  <2> QED
      BY <2>1, <2>5, <2>6
<1>2. CASE ~Edits(op.body)
  <2>1. op.body.method \notin Changing
      BY <1>2 DEF SentInv, PostFits, Changing
  <2>2. Target(op.body, op.m.chat) = 0
      BY <2>1 DEF Target
  <2>3. ~op.m.draft => Apart(op.ids, 0)
      BY OwnApart DEF Sending
  <2> QED
      BY <2>1, <2>2, <2>3, GentleRequest
<1> QED
    BY <1>1, <1>2

(* Where the part stands when the service answers.                         *)
PartStands(body, id) ==
    /\ id \in 1..Len(api'.msgs[body.chat])
    /\ api'.msgs[body.chat][id].text = body.text
    /\ \/ body.method = "sendMessage" /\ id > Len(api.msgs[body.chat])
       \/ body.method = "editMessageText"

LEMMA PostAnswered ==
    ASSUME SentInv, op.pc = "post", Request("ok", op.body), op.body.method # "sendMessageDraft", NEW id,
           id = IF op.body.method = "editMessageText" THEN op.body.id ELSE Len(api'.msgs[op.m.chat])
    PROVE  PartStands(op.body, id)
<1>1. PICK body, c, old, new : body = op.body /\ c = body.chat /\ old = api.msgs[c] /\ new = api'.msgs[c]
    OBVIOUS
<1>2. api' = Served(api, body)
    BY <1>1 DEF Request
<1>3. c = op.m.chat /\ c \in Chats /\ Logs(api)
    BY <1>1, ChatKnown DEF SentInv, PostFits, NextOfText, SentSoFar, Sending
<1>4. Len(old) \in Nat
    BY <1>1, <1>3, LogLen
<1>5. /\ body.chat \in Chats /\ old = api.msgs[body.chat] /\ new = Served(api, body).msgs[body.chat]
    BY <1>1, <1>2, <1>3
<1>6. CASE body.method = "sendMessage"
  <2>1. Posts(body)
      BY <1>6 DEF Posts
  <2>2. Len(new) = Len(old) + 1 /\ new[Len(new)].text = body.text
      BY <1>3, <1>5, <2>1, PostedStands
  <2>3. id = Len(new)
      BY <1>1, <1>3, <1>6
  <2>4. id \in 1..Len(new) /\ id > Len(old) /\ new[id].text = body.text
      BY <1>4, <2>2, <2>3
  <2> QED
      BY <1>1, <1>6, <2>4, Zenon DEF PartStands
<1>7. CASE body.method = "editMessageText"
  <2>1. body.id = tg.lastId /\ tg.lastId # 0 /\ tg.lastChat = c
      BY <1>1, <1>3, <1>7 DEF SentInv, PostFits, Edits
  <2>2. body.id \in 1..Len(old)
      BY <1>1, <2>1 DEF SentInv, DraftApart
  <2>3. Len(new) = Len(old) /\ new[body.id].text = body.text
      BY <1>3, <1>5, <1>7, <2>2, EditedStands
  <2>4. id = body.id
      BY <1>1, <1>7
  <2>5. id \in 1..Len(new) /\ new[id].text = body.text
      BY <2>2, <2>3, <2>4
  <2> QED
      BY <1>1, <1>7, <2>5, Zenon DEF PartStands
<1>8. body.method \in {"sendMessage", "editMessageText"}
    BY <1>1 DEF SentInv, PostFits, Edits
<1> QED
    BY <1>6, <1>7, <1>8

LEMMA PostOkSent ==
    ASSUME SentInv, PollInv, op.pc = "post", Request("ok", op.body), acked' = acked, NEW id,
           id = IF op.body.method = "editMessageText" THEN op.body.id ELSE Len(api'.msgs[op.m.chat]),
           op' = [op EXCEPT !.pc = "chunk", !.sent = @ + Len(op.body.text), !.ids = Append(@, id)],
           tg' = RememberDraft(id)
    PROVE  SentInv'
<1>1. PICK body, m, c : body = op.body /\ m = op.m /\ c = m.chat
    OBVIOUS
<1>2. Gentle(body) /\ (~m.draft => Apart(op.ids, Target(body, c)))
    BY <1>1, PostGentle
<1>3. /\ m \in Messages /\ op.sent \in 0..Len(m.text)
      /\ ~m.draft => Standing(api.msgs[c], op.ids, SubSeq(m.text, 1, op.sent))
    BY <1>1 DEF SentInv, SentSoFar, Sending
<1>4. c \in Chats /\ m.text \in Seq(Bytes) /\ Len(m.text) \in Nat
    BY <1>1, <1>3, ChatKnown
<1>5. PICK k \in 1..(Len(m.text) - op.sent) : body.text = SubSeq(m.text, op.sent + 1, op.sent + k)
    BY <1>1 DEF SentInv, PostFits, NextOfText
<1>6. body.chat = c /\ k \in Nat /\ op.sent \in Nat /\ op.sent + k <= Len(m.text)
  <2>1. body.chat = c
      BY <1>1 DEF SentInv, PostFits, NextOfText
  <2>2. k \in Nat /\ op.sent \in Nat /\ op.sent + k <= Len(m.text)
      BY <1>3, <1>4
  <2> QED
      BY <2>1, <2>2
<1>7. body.text \in Seq(Bytes) /\ Len(body.text) = k
  <2>1. \A i \in 1..Len(m.text) : m.text[i] \in Bytes
      BY <1>4, ElementOfSeq
  <2> QED
      BY <1>4, <1>5, <1>6, <2>1
<1>8. /\ op'.pc = "chunk" /\ op'.m = m /\ op'.sent = op.sent + k /\ op'.ids = Append(op.ids, id)
      /\ SamePrompt
    BY <1>1, <1>7 DEF PollInv, ChannelFields, CallFields, SamePrompt
<1>9. body.method # "sendMessageDraft" => PartStands(body, id)
    BY <1>1, PostAnswered
<1>10. Logs(api)' /\ AckedStand'
    BY <1>2, AckedKept
<1>11. DraftFields' /\ (~m.draft => tg'.lastId = 0)
       /\ (m.draft => tg'.lastChat = c /\ tg'.lastId = IF body.method = "sendMessageDraft" THEN 0 ELSE id)
    BY <1>1 DEF RememberDraft, ForgetDraft, SentInv, DraftFields
<1>12. DraftApart'
  <2>1. CASE ~m.draft \/ body.method = "sendMessageDraft"
      BY <1>11, <2>1 DEF DraftApart
  <2>2. CASE m.draft /\ body.method # "sendMessageDraft"
    <3>1. body.method = "sendMessage"
        BY <1>1, <2>2 DEF SentInv, PostFits, Edits
    <3>2. id \in 1..Len(api'.msgs[c]) /\ id > Len(api.msgs[c])
        BY <1>6, <1>9, <2>2, <3>1 DEF PartStands
    <3>3. id \in Nat
      <4>1. Len(api'.msgs[c]) \in Nat
          BY <1>4, <1>10, LenProperties DEF Logs, LogOf
      <4> QED
          BY <3>2, <4>1
    <3>4. Len(api.msgs[c]) < id
      <4>1. Len(api.msgs[c]) \in Nat
          BY <1>4, LogLen DEF SentInv
      <4> QED
          BY <3>2, <3>3, <4>1
    <3>5. Untouched(c, id)
        BY <3>3, <3>4, NewUntouched DEF SentInv
    <3> QED
        BY <1>4, <1>11, <2>2, <3>2, <3>5 DEF DraftApart, Untouched
  <2> QED
      BY <2>1, <2>2
<1>13. ~m.draft => Standing(api'.msgs[c], op'.ids, SubSeq(m.text, 1, op.sent + k))
  <2>1. SUFFICES ASSUME ~m.draft PROVE Standing(api'.msgs[c], op'.ids, SubSeq(m.text, 1, op.sent + k))
      OBVIOUS
  <2>2. body.method \in {"sendMessage", "editMessageText"} /\ (body.method = "editMessageText" => op.ids = <<>>)
      BY <1>1, <2>1 DEF SentInv, PostFits, Edits
  <2>3. PICK old, new, t, ids, text, part, more :
          /\ old = api.msgs[c] /\ new = api'.msgs[c] /\ t = Target(body, c) /\ ids = op.ids
          /\ text = SubSeq(m.text, 1, op.sent) /\ part = body.text /\ more = Append(ids, id)
      OBVIOUS
  <2>4. KeepsLog(old, new, t)
      BY <1>2, <1>4, <2>3 DEF Gentle, Serves
  <2>5. Len(old) \in Nat
      BY <1>4, <2>3, LogLen DEF SentInv
  <2>6. Standing(old, ids, text) /\ Apart(ids, t)
      BY <1>2, <1>3, <2>1, <2>3
  <2>7. id \in 1..Len(new) /\ new[id].text = part /\ (id > Len(old) \/ body.method = "editMessageText")
      BY <1>6, <1>9, <2>2, <2>3 DEF PartStands
  <2>8. \A i \in 1..Len(ids) : ids[i] < id
    <3>1. CASE body.method = "editMessageText"
      <4>1. Len(ids) = 0
          BY <2>2, <2>3, <3>1
      <4> QED
          BY <4>1
    <3>2. CASE id > Len(old)
      <4>1. \A i \in 1..Len(ids) : ids[i] \in 1..Len(old)
          BY <2>6 DEF Standing, Rising
      <4>2. Len(new) \in Nat
          BY <2>4, LenProperties DEF KeepsLog, LogOf
      <4> QED
          BY <2>5, <2>7, <3>2, <4>1, <4>2
    <3> QED
        BY <2>7, <3>1, <3>2
  <2>9. part \in Seq(Bytes)
      BY <1>7, <2>3
  <2>10. id \in 1..Len(new) /\ new[id].text = part /\ more = Append(ids, id)
      BY <2>3, <2>7
  <2>11. Standing(new, more, text \o part)
      BY <2>4, <2>5, <2>6, <2>8, <2>9, <2>10, StandingGrows
  <2>12. text \o part = SubSeq(m.text, 1, op.sent + k)
      BY <1>4, <1>5, <1>6, <2>3, PartsJoin
  <2> QED
      BY <1>8, <2>3, <2>11, <2>12
<1>14. SentSoFar'
    BY <1>1, <1>3, <1>4, <1>6, <1>8, <1>11, <1>13 DEF SentSoFar
<1>15. AttachFirst' /\ PostFits' /\ AskPosts'
    BY <1>8 DEF AttachFirst, PostFits, AskPosts
<1>16. PromptApart'
    BY <1>8 DEF SentInv, PromptApart, Untouched, SamePrompt
<1>17. (Ch.st = "ok")'
    BY DEF SentInv, Ch
<1> QED
    BY <1>10, <1>11, <1>12, <1>14, <1>15, <1>16, <1>17 DEF SentInv

LEMMA PostSent ==
    ASSUME SentInv, PollInv, NEW o, Post(o)
    PROVE  SentInv'
<1>1. op.pc = "post" /\ Request(o, op.body) /\ acked' = acked /\ op.pc \in Sending
    BY DEF Post, Sending
<1>2. Gentle(op.body) /\ (~op.m.draft => Apart(op.ids, Target(op.body, op.m.chat)))
    BY <1>1, PostGentle
<1>3. PICK id : id = IF op.body.method = "editMessageText" THEN op.body.id ELSE Len(api'.msgs[op.m.chat])
    OBVIOUS
<1>4. \/ Retry /\ UNCHANGED tg
      \/ /\ o = "ok" /\ tg' = RememberDraft(id)
         /\ op' = [op EXCEPT !.pc = "chunk", !.sent = @ + Len(op.body.text), !.ids = Append(@, id)]
      \/ /\ op' = [op EXCEPT !.try = 1, !.body = BuildSendBody(op.m, op.body.text)]
         /\ tg' = ForgetDraft
      \/ op' = Idle /\ UNCHANGED tg
    BY <1>3, Zenon DEF Post
<1>5. CASE Retry /\ UNCHANGED tg
  <2>1. SameMessage /\ SamePrompt /\ op'.pc = op.pc /\ op'.body = op.body
      BY <1>5 DEF Retry, PollInv, ChannelFields, CallFields, SameMessage, SamePrompt
  <2>2. LastSame
      BY <1>5, SameLast
  <2>3. PostFits' /\ AttachFirst' /\ op'.pc \in Sending
      BY <1>1, <2>1, <2>2, FitsStill
  <2> QED
      BY <1>1, <1>2, <2>1, <2>2, <2>3, StillSending
<1>6. CASE /\ o = "ok" /\ tg' = RememberDraft(id)
           /\ op' = [op EXCEPT !.pc = "chunk", !.sent = @ + Len(op.body.text), !.ids = Append(@, id)]
    BY <1>1, <1>3, <1>6, PostOkSent
<1>7. CASE /\ op' = [op EXCEPT !.try = 1, !.body = BuildSendBody(op.m, op.body.text)]
           /\ tg' = ForgetDraft
  <2>1. PICK b : b = BuildSendBody(op.m, op.body.text)
      OBVIOUS
  <2>2. SameMessage /\ SamePrompt /\ op'.pc = op.pc /\ op'.body = b
      BY <1>7, <2>1 DEF PollInv, ChannelFields, CallFields, SameMessage, SamePrompt
  <2>3. LastForgotten
      BY <1>7 DEF ForgetDraft, SentInv, DraftFields, LastForgotten
  <2>4. b.method = "sendMessage" /\ b.chat = op.m.chat /\ b.text = op.body.text
      BY <2>1 DEF BuildSendBody
  <2>5. NextOfText(op.body)'
      BY <1>1, <2>2, <2>4 DEF SentInv, PostFits, NextOfText, SameMessage
  <2>6. PostFits' /\ AttachFirst' /\ op'.pc \in Sending
      BY <1>1, <2>2, <2>4, <2>5 DEF PostFits, AttachFirst
  <2> QED
      BY <1>1, <1>2, <2>2, <2>3, <2>6, StillSending
<1>8. CASE op' = Idle /\ UNCHANGED tg
    BY <1>1, <1>2, <1>8, IdleElsewhere, SameLast, ElsewhereSent
<1> QED
    BY <1>4, <1>5, <1>6, <1>7, <1>8

-----------------------------------------------------------------------------
(* The message is reported as sent: it stands, and no draft of it is left. *)
LEMMA SendReturnsSent ==
    ASSUME SentInv, SendReturns
    PROVE  SentInv'
<1>1. op.pc = "chunk" /\ op.sent >= Len(op.m.text) /\ op' = Idle /\ UNCHANGED <<tg, api>>
    BY DEF SendReturns
<1>2. PICK m, c : m = op.m /\ c = m.chat
    OBVIOUS
<1>3. /\ m \in Messages /\ op.sent \in 0..Len(m.text)
      /\ ~m.draft => /\ Standing(api.msgs[c], op.ids, SubSeq(m.text, 1, op.sent))
                     /\ op.ids # <<>> => tg.lastId = 0
    BY <1>1, <1>2 DEF SentInv, SentSoFar, Sending
<1>4. c \in Chats /\ m.text \in Seq(Bytes) /\ Len(m.text) \in Nat
    BY <1>2, <1>3, ChatKnown
<1>5. SubSeq(m.text, 1, op.sent) = m.text
  <2>1. op.sent = Len(m.text)
      BY <1>1, <1>2, <1>3, <1>4
  <2>2. SubSeq(m.text, 1, Len(m.text)) = m.text
      BY <1>4, SubSeqFull
  <2> QED
      BY <2>1, <2>2
<1>6. CASE m.draft
  <2>1. acked' = acked
      BY <1>2, <1>6 DEF SendReturns
  <2>2. PICK body : Gentle(body)
      BY <1>1, SameService
  <2> QED
      BY <1>1, <2>1, <2>2, IdleElsewhere, SameLast, ElsewhereSent
<1>7. CASE ~m.draft
  <2>1. PICK new : new = [chat |-> c, thread |-> m.thread, ids |-> op.ids, text |-> m.text]
      OBVIOUS
  <2>2. acked' = acked \cup {new}
      BY <1>2, <1>7, <2>1 DEF SendReturns
  <2>3. new.chat = c /\ new.ids = op.ids /\ new.text = m.text
      BY <2>1
  <2>4. AckedStand'
      BY <1>1, <1>3, <1>4, <1>5, <1>7, <2>2, <2>3 DEF SentInv, AckedStand
  <2>5. DraftApart'
    <3>1. tg.lastId # 0 => op.ids = <<>>
        BY <1>3, <1>7
    <3>2. op.ids = <<>> => Apart(op.ids, tg.lastId)
        BY DEF Apart
    <3>3. tg.lastId # 0 => Untouched(tg.lastChat, tg.lastId)'
        BY <1>1, <2>2, <2>3, <3>1, <3>2 DEF SentInv, DraftApart, Untouched
    <3> QED
        BY <1>1, <3>3 DEF SentInv, DraftApart
  <2>6. PromptApart'
    <3>1. op'.prompt = 0
        BY <1>1 DEF Idle
    <3>2. \A a \in acked' : Apart(a.ids, 0)
        BY <2>4, ZeroApart DEF AckedStand, Standing
    <3> QED
        BY <3>1, <3>2 DEF PromptApart, Untouched
  <2>7. SentSoFar' /\ AttachFirst' /\ PostFits' /\ AskPosts'
    <3>1. op'.pc = "idle"
        BY <1>1 DEF Idle
    <3> QED
        BY <3>1 DEF SentSoFar, AttachFirst, PostFits, AskPosts, Sending
  <2>8. (Ch.st = "ok")' /\ DraftFields' /\ Logs(api)'
      BY <1>1 DEF SentInv, Ch, DraftFields, Logs
  <2> QED
      BY <2>4, <2>5, <2>6, <2>7, <2>8 DEF SentInv
<1> QED
    BY <1>6, <1>7

(* A step of the clock or of the service's queue, and none.                *)
LEMMA OutsideSent ==
    ASSUME SentInv, "msgs" \in DOMAIN api', api'.msgs = api.msgs, acked' = acked, LastSame, SameMessage, SamePrompt,
           op'.pc = op.pc, op'.body = op.body
    PROVE  SentInv'
<1>1. PICK body : Gentle(body) /\ \A c \in Chats : Target(body, c) = 0
  <2>1. PICK body : body = [method |-> "none"]
      OBVIOUS
  <2>2. \A c : Target(body, c) = 0
      BY <2>1 DEF Target, Changing
  <2>3. Logs(api) /\ AckedStand
      BY DEF SentInv
  <2>4. PICK new : new = api'
      OBVIOUS
  <2>5. Serves(api, new, body)
      BY <2>3, <2>4, ServesNothing
  <2>6. Gentle(body)
      BY <2>2, <2>3, <2>4, <2>5, ZeroUntouched DEF Gentle
  <2> QED
      BY <2>2, <2>6
<1>2. PostFits' /\ AttachFirst'
    BY FitsStill
<1>3. CASE op.pc \in Sending
  <2>1. op.m.chat \in Chats
      BY <1>3, ChatKnown DEF SentInv, SentSoFar
  <2>2. ~op.m.draft => Apart(op.ids, Target(body, op.m.chat))
      BY <1>1, <1>3, <2>1, OwnApart
  <2> QED
      BY <1>1, <1>2, <1>3, <2>2, StillSending
<1>4. CASE op.pc \notin Sending
  <2>1. PromptApart'
      BY DEF SentInv, PromptApart, Untouched, SamePrompt
  <2>2. AskPosts'
      BY DEF SentInv, AskPosts, SamePrompt, Posts, Multipart
  <2> QED
      BY <1>1, <1>4, <2>1, <2>2, AsideSent
<1> QED
    BY <1>3, <1>4

LEMMA ArriveSent ==
    ASSUME SentInv, Arrive
    PROVE  SentInv'
<1>1. UNCHANGED <<tg, op, acked>> /\ api' = [api EXCEPT !.avail = @ + 1]
    BY DEF Arrive
<1>2. "msgs" \in DOMAIN api' /\ api'.msgs = api.msgs
    BY <1>1 DEF SentInv, Logs
<1>3. SameMessage /\ SamePrompt /\ LastSame
    BY <1>1, SameLast DEF SameMessage, SamePrompt
<1> QED
    BY <1>1, <1>2, <1>3, OutsideSent

LEMMA TickSent ==
    ASSUME SentInv, PollInv, Tick
    PROVE  SentInv'
<1>1. /\ UNCHANGED <<api, acked>>
      /\ \E a : tg' = [tg EXCEPT !["rateAge"] = a]
      /\ \E l : op' = [op EXCEPT !.left = l]
    BY Zenon DEF Tick
<1>2. "msgs" \in DOMAIN api' /\ api'.msgs = api.msgs
    BY <1>1 DEF SentInv, Logs
<1>3. SameMessage /\ SamePrompt /\ op'.pc = op.pc /\ op'.body = op.body
    BY <1>1 DEF PollInv, ChannelFields, CallFields, SameMessage, SamePrompt
<1>4. LastSame
    BY <1>1, OtherField
<1> QED
    BY <1>1, <1>2, <1>3, <1>4, OutsideSent

(* At a start there is neither a draft nor a question.                     *)
LEMMA StartSent ==
    ASSUME tg = ChannelAtStart, op = Idle, Ch.st = "ok", Logs(api), AckedStand
    PROVE  SentInv
<1>1. DraftFields /\ tg.lastId = 0
    BY DEF DraftFields, ChannelAtStart
<1>2. op.pc = "idle" /\ op.prompt = 0
    BY DEF Idle
<1>3. DraftApart /\ PromptApart
    BY <1>1, <1>2, ZeroUntouched DEF DraftApart, PromptApart
<1>4. SentSoFar /\ AttachFirst /\ PostFits /\ AskPosts
    BY <1>2 DEF SentSoFar, AttachFirst, PostFits, AskPosts, Sending
<1> QED
    BY <1>1, <1>3, <1>4 DEF SentInv

LEMMA CrashSent ==
    ASSUME SentInv, Crash
    PROVE  SentInv'
<1>1. tg' = ChannelAtStart /\ op' = Idle /\ UNCHANGED <<api, acked>>
    BY DEF Crash
<1>2. DraftFields' /\ tg'.lastId = 0
    BY <1>1 DEF DraftFields, ChannelAtStart
<1>3. op'.pc = "idle" /\ op'.prompt = 0
    BY <1>1 DEF Idle
<1>4. Logs(api)' /\ AckedStand' /\ (Ch.st = "ok")'
    BY <1>1 DEF SentInv, Logs, AckedStand, Ch
<1>5. DraftApart' /\ PromptApart'
  <2>1. \A a \in acked' : Apart(a.ids, 0)
      BY <1>4, ZeroApart DEF AckedStand, Standing
  <2> QED
      BY <1>2, <1>3, <2>1 DEF DraftApart, PromptApart, Untouched
<1>6. SentSoFar' /\ AttachFirst' /\ PostFits' /\ AskPosts'
    BY <1>3 DEF SentSoFar, AttachFirst, PostFits, AskPosts, Sending
<1> QED
    BY <1>2, <1>4, <1>5, <1>6 DEF SentInv

LEMMA SentInit == ASSUME TelegramInit PROVE SentInv
<1>1. /\ Ch.st = "ok" /\ tg = ChannelAtStart /\ op = Idle /\ acked = {}
      /\ api = [avail |-> 0, confirmed |-> 0, msgs |-> [c \in Chats |-> <<>>]]
    BY DEF TelegramInit
<1>2. Logs(api)
  <2>1. PICK log : log = <<>>
      OBVIOUS
  <2>2. LogOf(log)
    <3>1. log \in Seq({}) /\ Len(log) = 0
        BY <2>1
    <3> QED
        BY <3>1 DEF LogOf
  <2> QED
      BY <1>1, <2>1, <2>2 DEF Logs
<1>3. AckedStand
    BY <1>1 DEF AckedStand
<1> QED
    BY <1>1, <1>2, <1>3, StartSent

LEMMA SentStep ==
    ASSUME SentInv, PollInv, [TelegramNext]_telegramVars
    PROVE  SentInv'
<1>1. CASE Work
  <2>1. ASSUME NEW o, Step(o) PROVE SentInv'
      BY <2>1, GetUpdatesSent, FetchSent, AskSent, DeletePromptSent, SignSent, PostAttachmentSent, PostSent DEF Step
  <2> QED
      BY <1>1, <2>1, PlainSent, TakeSent, NextChunkSent, SendReturnsSent DEF Work
<1>2. CASE UNCHANGED telegramVars
  <2>1. UNCHANGED <<tg, op, api, acked>>
      BY <1>2 DEF telegramVars
  <2>2. "msgs" \in DOMAIN api' /\ api'.msgs = api.msgs
      BY <2>1 DEF SentInv, Logs
  <2>3. SameMessage /\ SamePrompt /\ LastSame
      BY <2>1, SameLast DEF SameMessage, SamePrompt
  <2> QED
      BY <2>1, <2>2, <2>3, OutsideSent
<1> QED
    BY <1>1, <1>2, ArriveSent, TickSent, CrashSent, StartApprovalSent, StartSendSent DEF TelegramNext

LEMMA SentTells ==
    ASSUME SentInv
    PROVE  SentStands
<1>1. ASSUME NEW a \in acked
      PROVE  /\ FlattenSeq([k \in DOMAIN a.ids |-> api.msgs[a.chat][a.ids[k]].text]) = a.text
             /\ \A k \in DOMAIN a.ids : k > 1 => a.ids[k - 1] < a.ids[k]
  <2>1. Standing(api.msgs[a.chat], a.ids, a.text)
      BY DEF SentInv, AckedStand
  <2>2. Rising(api.msgs[a.chat], a.ids)
      BY <2>1 DEF Standing
  <2>3. DOMAIN a.ids = 1..Len(a.ids)
      BY <2>2, LenProperties DEF Rising
  <2>4. \A k \in DOMAIN a.ids : k > 1 => a.ids[k - 1] < a.ids[k]
      BY <2>2, <2>3 DEF Rising
  <2> QED
      BY <2>1, <2>4 DEF Standing, Parts
<1> QED
    BY <1>1 DEF SentStands

(* Whatever the updates, the messages and the options are: what            *)
(* telegram_send reported as sent stands in its chat, complete and in      *)
(* order.  Later drafts, edits, deletions of questions, repeated requests, *)
(* lost answers and crashes do not change it.                              *)
THEOREM SentStandsHolds == TelegramSpec => []SentStands
<1>1. TelegramInit => PollInv /\ SentInv
    BY PollInit, SentInit
<1>2. PollInv /\ SentInv /\ [TelegramNext]_telegramVars => PollInv' /\ SentInv'
    BY PollStep, SentStep
<1>3. SentInv => SentStands
    BY SentTells
<1> QED
    BY <1>1, <1>2, <1>3, PTL DEF TelegramSpec
=============================================================================
