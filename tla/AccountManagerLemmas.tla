------------------------ MODULE AccountManagerLemmas ------------------------
(***************************************************************************)
(* The inductive invariant of AccountManager (Inv), and lemmas about its   *)
(* operators, for any constants.                                           *)
(*                                                                         *)
(* The invariant has two halves that meet in the manager attribute of an   *)
(* entry of the cache: Sound, of the stores, for which an account is a     *)
(* name, and Objects, of the McdAccounts.  The lemmas are about the        *)
(* operators of AccountStorage, each of which keeps Sound; about those     *)
(* that change one object, load it, make one or remove it; and about what  *)
(* is freed at the end of a handler.                                       *)
(***************************************************************************)
EXTENDS AccountManager, Integers, SequenceTheorems, FiniteSetTheorems,
        WellFoundedInduction, TLAPS

-----------------------------------------------------------------------------
(* Types.                                                                   *)

Settled == [Keys -> 0..2]
EntryType == [in : BOOLEAN, val : Settled, escaped : BOOLEAN]
SsoType ==
  [name : Names \cup {None}, view : [Settings -> 0..2], dirty : SUBSET Settings,
   watch : BOOLEAN, save : BOOLEAN, timer : BOOLEAN]
AgType ==
  [state : {"never", "present", "deleted"}, complete : BOOLEAN,
   uid : Names \cup {None}, val : [Settings -> 0..2]]
DiskType ==
  [kind : {"good", "corrupt", "missing", "system", "old"}, data : [Names -> Settled]]

ObjType ==
  [st : {"none", "live", "freed"}, name : Names \cup {None},
   for : {"setup", "create", "created"}, given : {None, 1},
   enabled : BOOLEAN, loaded : BOOLEAN, valid : BOOLEAN,
   reg : BOOLEAN, removed : BOOLEAN, timer : BOOLEAN, reply : BOOLEAN]

(* The callbacks that wait for the connection manager.                      *)
Acc(o) == [cb |-> "account", obj |-> o, key |-> ""]
Cre(o) == [cb |-> "created", obj |-> o, key |-> ""]
Alt(o, k) == [cb |-> "altered", obj |-> o, key |-> k]
Callback == {Acc(o) : o \in Objs} \cup {Cre(o) : o \in Objs}
            \cup {Alt(o, k) : o \in Objs, k \in {"Enabled", "param"}}

(* What a handler works on.                                                 *)
McType ==
  [s : StoreType, obj : [Objs -> ObjType], hash : [Names -> Objs \cup {None}],
   lock : Int, onBus : BOOLEAN, todo : Seq(Callback), gone : SUBSET Names,
   known : SUBSET (Names \X Why), failed : BOOLEAN]
Signal == {"created", "updated", "toggled", "deleted"}

Types ==
  /\ up \in BOOLEAN /\ full \in BOOLEAN /\ mgr \in {"unready", "ready", "failed"}
  /\ mc \in McType /\ events \in Seq(Signal)

-----------------------------------------------------------------------------
(* The stores s, with what is known of the accounts (K), those that were    *)
(* removed (G) and the signals of libaccounts on their way (e).             *)

Knows(K, n, whys) == \E w \in whys : <<n, w>> \in K
Has(e, signal) == \E i \in DOMAIN e : e[i] = signal

(* MC and libaccounts agree on whether there is an account.                 *)
Link(s, K, e) ==
  /\ s.sso.name # None => /\ s.ag.uid = s.sso.name /\ s.sso.watch
                          /\ s.ag.state = "deleted" => Has(e, "deleted")
                          /\ s.ag.state # "never"
  /\ s.sso.name = None => s.sso.dirty = {}
  /\ s.sso.name = None /\ s.ag.state = "present" /\ s.ag.uid # None =>
       Knows(K, s.ag.uid, {"kept"}) /\ ~s.sso.watch
  /\ s.ag.state = "never" => s.ag.uid = None /\ ~s.sso.watch /\ e = <<>>
  /\ s.ag.state # "never" => s.ag.val["Enabled"] # None
  /\ \A i \in DOMAIN e : /\ e[i] = "created" => i = 1 /\ s.ag.uid = None /\ ~s.sso.watch
                         /\ e[i] = "deleted" => s.ag.state = "deleted"

Common(s, K, e) ==
  /\ s.disk.kind \notin {"good", "system", "old"} => \A n \in Names : s.disk.data[n] = Nothing
  /\ ~s.save => s.keys = s.disk.data
  /\ s.sso.dirty # {} => s.sso.save
  /\ \A n \in Names : <<n, "ghost">> \in K => s.ag.state = "deleted"
  /\ Link(s, K, e)

(* The AgAccount shows what libaccounts stores, and the cache what it shows.*)
Mirrors(s, K, n) ==
  /\ \A k \in Settings \ s.sso.dirty : s.sso.view[k] = s.ag.val[k]
  /\ \/ Knows(K, n, {"kept", "unset", "unwritten"})
     \/ \A k \in Settings : s.cache[n].val[k] = s.sso.view[k]

InLibaccounts(s, K, e, n) ==
  /\ s.keys[n] = Nothing \/ Knows(K, n, {"kept", "unwritten"})
  /\ s.cache[n].val["manager"] = 1
  /\ s.cache[n].val["Enabled"] # None /\ s.sso.view["Enabled"] # None
  /\ s.ag.state = "present" /\ ~Has(e, "updated") => Mirrors(s, K, n)

InKeyfile(s, K, n) == s.keys[n] = s.cache[n].val \/ Knows(K, n, {"ghost"})

Forgotten(s, n) ==
  /\ ~InSso(s, n) /\ ~Owns(s, n)
  /\ s.keys[n] = Nothing /\ s.cache[n].val = Nothing
Excused(K, n) == Knows(K, n, {"kept", "zombie", "unwritten"})

Entry(s, K, G, e, n) ==
  /\ ~s.cache[n].in => s.cache[n] = NoEntry
  /\ Owns(s, n) => InLibaccounts(s, K, e, n)
  /\ ~Owns(s, n) => InKeyfile(s, K, n)
  /\ n \in G => Excused(K, n) \/ Forgotten(s, n)

Sound(s, K, G, e) == Common(s, K, e) /\ \A n \in Names : Entry(s, K, G, e, n)

(* What a handler has left to write is on its way.                          *)
Synced(s, failed) == failed = s.save /\ (s.sso.save => s.sso.timer)

(* Of a process that is dead.                                               *)
Asleep(s, K, G) ==
  /\ s.disk.kind \notin {"good", "system", "old"} => \A n \in Names : s.disk.data[n] = Nothing
  /\ \A n \in Names : /\ <<n, "ghost">> \in K => s.ag.state = "deleted"
                      /\ InSso(s, n) => Knows(K, n, {"kept", "unwritten"})
                                        \/ s.disk.data[n] = Nothing
                      /\ n \in G => \/ Excused(K, n)
                                    \/ ~InSso(s, n) /\ s.disk.data[n] = Nothing
  /\ s.ag.state = "never" => s.ag.uid = None
  /\ s.ag.state # "never" => s.ag.val["Enabled"] # None
  /\ s = Stopped(s)

-----------------------------------------------------------------------------
(* The objects of m, when the connection manager is in state g.             *)

Pend(m) == {m.todo[i] : i \in DOMAIN m.todo}
Alive(m, o) == m.obj[o].st = "live"
Lives(m, o) == Alive(m, o) /\ ~m.obj[o].removed
(* Removed, and yet on the bus or on its way there.                         *)
Lingers(m, o) == Alive(m, o) /\ m.obj[o].removed /\ (m.obj[o].reg \/ ~m.obj[o].loaded)
Managed(m, n) == m.s.cache[n].val["manager"] # None
Setups(m) == {o \in Objs : Alive(m, o) /\ m.obj[o].for = "setup" /\ ~m.obj[o].loaded}

(* account_loaded runs once, and after async_created_manager_cb.            *)
Queue(q) ==
  /\ \A i, j \in DOMAIN q : q[i] = q[j] /\ q[i].cb # "altered" => i = j
  /\ \A i, j \in DOMAIN q : q[i].obj = q[j].obj /\ q[i].cb = "created" /\ q[j].cb = "account"
                              => i < j

(* What is true of one object by itself.                                    *)
Object(m, o) ==
  /\ m.obj[o].reg \/ m.obj[o].reply => m.obj[o].loaded
  /\ m.obj[o].loaded \/ m.obj[o].timer => Alive(m, o)
  /\ Alive(m, o) => m.obj[o].name \in Names
  /\ Alive(m, o) => (Acc(o) \in Pend(m) <=> ~m.obj[o].loaded)
  /\ Cre(o) \in Pend(m) => /\ Lives(m, o) /\ m.obj[o].for = "created" /\ ~m.obj[o].loaded
                           /\ m.hash[m.obj[o].name] # o
  /\ Alive(m, o) /\ m.obj[o].removed /\ ~m.obj[o].loaded =>
       m.obj[o].for = "setup" /\ m.s.ag.state = "deleted"
  /\ Lives(m, o) => /\ \/ m.hash[m.obj[o].name] = o
                       \/ m.obj[o].for = "create" /\ ~m.obj[o].loaded
                       \/ Cre(o) \in Pend(m)
                    /\ m.obj[o].loaded => m.obj[o].reg

(* An account has one object that is not removed, at most.                  *)
Apiece(m) ==
  \A o, p \in Objs : /\ Lives(m, o) /\ Lives(m, p) /\ m.obj[o].name = m.obj[p].name => o = p
                     /\ Lingers(m, o) /\ Lives(m, p) => m.obj[o].name # m.obj[p].name

Lock(m, g) ==
  /\ m.lock = Cardinality(Setups(m)) /\ m.lock <= Cardinality(Names)
  /\ g = "unready" => /\ \A o \in Objs : ~m.obj[o].loaded
                      /\ m.onBus => m.lock = 0
                      /\ \A n \in Names : m.hash[n] # None => m.obj[m.hash[n]].for = "setup"

Objects(m, g) ==
  /\ Queue(m.todo)
  /\ \A c \in Pend(m) : m.obj[c.obj].st # "none" /\ (c.cb # "account" => Alive(m, c.obj))
  /\ \A o \in Objs : Object(m, o)
  /\ \A n \in Names : m.hash[n] # None => Lives(m, m.hash[n]) /\ m.obj[m.hash[n]].name = n
  /\ \A n \in Names : Managed(m, n) <=> \E o \in Objs : Lives(m, o) /\ m.obj[o].name = n
  /\ Apiece(m)
  /\ Lock(m, g)

(* An object knows what is stored.                                          *)
Current(m, g, o) ==
  LET n == m.obj[o].name
      val == m.s.cache[n].val
  IN  Lives(m, o) =>
        /\ m.obj[o].loaded => \/ m.obj[o].valid = (g = "ready" /\ val["param"] # None)
                              \/ Knows(m.known, n, {"altered"})
        /\ \/ m.obj[o].enabled = (val["Enabled"] = 2)
           \/ Knows(m.known, n, {"missed"})
           \/ Alt(o, "Enabled") \in Pend(m) /\ val["Enabled"] # None

Awake(m, g, e) ==
  /\ Sound(m.s, m.known, m.gone, e)
  /\ Objects(m, g)
  /\ \A o \in Objs : Current(m, g, o)

Dead(m) ==
  /\ Asleep(m.s, m.known, m.gone)
  /\ m.obj = [o \in Objs |-> NoObject] /\ m.hash = [n \in Names |-> None]
  /\ m.lock = 0 /\ ~m.onBus /\ m.todo = <<>> /\ ~m.failed

Inv ==
  /\ Types
  /\ up => Awake(mc, mgr, events) /\ Synced(mc.s, mc.failed)
  /\ ~up => Dead(mc) /\ mgr = "unready" /\ events = <<>>

(* The same type, by its parts.                                             *)
LEMMA StoreTypes ==
  StoreType = [cache : [Names -> EntryType], keys : [Names -> Settled], save : BOOLEAN,
               disk : DiskType, ag : AgType, sso : SsoType]
  BY DEF StoreType, EntryType, Settled, DiskType, AgType, SsoType

-----------------------------------------------------------------------------
(* The stores.                                                             *)

(* From s to t only the settings of n have changed, and only in memory.     *)
Apart(s, t, n) ==
  /\ t \in StoreType
  /\ t.ag = s.ag /\ t.disk = s.disk
  /\ t.sso.name = s.sso.name /\ t.sso.watch = s.sso.watch /\ t.sso.timer = s.sso.timer
  /\ \A p \in Names \ {n} : t.cache[p] = s.cache[p] /\ t.keys[p] = s.keys[p]
  /\ s.sso.name # n => t.sso = s.sso
  /\ s.save => t.save
  /\ ~t.save => t.keys = s.keys
  /\ (s.sso.dirty # {} => s.sso.save) => (t.sso.dirty # {} => t.sso.save)

(* A setting goes to one store, the other one forgets it.                   *)
LEMMA UpdateStorageIs ==
  ASSUME NEW s \in StoreType, NEW n \in Names, NEW k \in Keys, NEW v \in 0..2
  PROVE  LET t == UpdateStorage(s, n, k, v) IN
         /\ Apart(s, t, n) /\ t.cache = s.cache
         /\ t.keys[n] = [s.keys[n] EXCEPT ![k] = IF Owns(s, n) THEN None ELSE v]
         /\ Owns(s, n) => /\ t.sso.view = IF k \in Settings
                                          THEN [s.sso.view EXCEPT ![k] = v] ELSE s.sso.view
                          /\ t.sso.dirty \subseteq s.sso.dirty \cup {k}
                          /\ s.sso.dirty \subseteq t.sso.dirty
                          /\ k \in t.sso.dirty \/ t.sso.view = s.sso.view
<1> DEFINE a == SsoSet(s, n, k, v)
<1>0. s.sso \in SsoType /\ s.keys \in [Names -> Settled] /\ s.keys[n] \in Settled
  BY StoreTypes DEF Settled
<1>1. /\ a \in StoreType
      /\ a = [s EXCEPT !.sso = a.sso]
      /\ a.sso = IF ~Owns(s, n) \/ k \notin Settings \/ s.sso.view[k] = v THEN s.sso
                 ELSE [s.sso EXCEPT !.view[k] = v, !.dirty = @ \cup {k}, !.save = TRUE]
  BY <1>0, StoreTypes DEF SsoSet, SsoType
<1> DEFINE t == UpdateStorage(s, n, k, v)
           w == IF Owns(s, n) THEN None ELSE v
           keys == [s.keys EXCEPT ![n] = [s.keys[n] EXCEPT ![k] = w]]
<1>2. None \in 0..2 /\ keys \in [Names -> Settled]
  BY <1>0 DEF None, Settled
<1>3. /\ t = [a EXCEPT !.keys = keys, !.save = t.save]
      /\ t.save \in BOOLEAN
      /\ s.save => t.save
      /\ ~t.save => keys = s.keys
  <2>1. CASE v = None \/ Owns(s, n)
    <3>1. t = KeyfileDelete(a, n, k)
      BY <2>1 DEF UpdateStorage, None
    <3>2. w = None /\ a.keys = s.keys /\ a.save = s.save
      BY <1>1, <2>1, StoreTypes
    <3>3. s.keys[n][k] = None => keys = s.keys
      BY <1>0, <3>2 DEF Settled
    <3> QED  BY <1>0, <1>1, <3>1, <3>2, <3>3, StoreTypes DEF KeyfileDelete
  <2>2. CASE ~(v = None \/ Owns(s, n))
    <3>1. t = KeyfileSet(a, n, k, v) /\ a = s
      BY <1>1, <2>2 DEF UpdateStorage, None, SsoSet
    <3> QED  BY <1>0, <2>2, <3>1, StoreTypes DEF KeyfileSet
  <2> QED  BY <2>1, <2>2
<1> HIDE DEF a, t, keys
<1>4. t \in StoreType /\ t.keys = keys /\ t.sso = a.sso /\ t.cache = s.cache /\ t.ag = s.ag
      /\ t.disk = s.disk
  <2>1. a \in StoreType /\ a.cache = s.cache /\ a.ag = s.ag /\ a.disk = s.disk
    BY <1>1, StoreTypes
  <2>2. t.keys = keys /\ t.sso = a.sso /\ t.cache = a.cache /\ t.ag = a.ag /\ t.disk = a.disk
    BY <1>2, <1>3, <2>1, StoreTypes
  <2>3. t \in StoreType
    BY <1>2, <1>3, <2>1, StoreTypes
  <2> QED  BY <2>1, <2>2, <2>3
<1>5. keys[n] = [s.keys[n] EXCEPT ![k] = w] /\ \A p \in Names \ {n} : keys[p] = s.keys[p]
  BY <1>0, <1>2 DEF keys
<1>6. Apart(s, t, n)
  <2>1. s.sso.name # n => t.sso = s.sso
    BY <1>1, <1>4 DEF Owns
  <2>2. t.sso \in SsoType /\ t.sso.name = s.sso.name /\ t.sso.watch = s.sso.watch
        /\ t.sso.timer = s.sso.timer
    BY <1>0, <1>1, <1>4, StoreTypes DEF SsoType
  <2>3. (s.sso.dirty # {} => s.sso.save) => (t.sso.dirty # {} => t.sso.save)
    BY <1>0, <1>1, <1>4 DEF SsoType
  <2>4. \A p \in Names \ {n} : t.cache[p] = s.cache[p] /\ t.keys[p] = s.keys[p]
    BY <1>4, <1>5
  <2>5. (s.save => t.save) /\ (~t.save => t.keys = s.keys)
    <3>1. (s.save => t.save) /\ (~t.save => keys = s.keys)
      BY <1>3
    <3> QED  BY <3>1, <1>4
  <2> QED  BY <1>4, <2>1, <2>2, <2>3, <2>4, <2>5 DEF Apart
<1>7. Owns(s, n) => /\ t.sso.view = IF k \in Settings THEN [s.sso.view EXCEPT ![k] = v]
                                     ELSE s.sso.view
                    /\ t.sso.dirty \subseteq s.sso.dirty \cup {k}
                    /\ s.sso.dirty \subseteq t.sso.dirty
                    /\ k \in t.sso.dirty \/ t.sso.view = s.sso.view
  BY <1>0, <1>1, <1>4 DEF SsoType, Owns
<1> QED  BY <1>4, <1>5, <1>6, <1>7 DEF t

(* From s to t the setting k of n became v, in the cache and, if it was not *)
(* v already, in the store that has n.                                      *)
Sets(s, t, n, k, v) ==
  /\ Apart(s, t, n)
  /\ t.cache[n].in /\ t.cache[n].val = [s.cache[n].val EXCEPT ![k] = v]
  /\ \/ s.cache[n].val[k] = v /\ t.keys = s.keys /\ t.sso = s.sso
     \/ /\ s.cache[n].val[k] # v
        /\ t.keys[n] = [s.keys[n] EXCEPT ![k] = IF Owns(s, n) THEN None ELSE v]
        /\ Owns(s, n) => /\ t.sso.view = IF k \in Settings THEN [s.sso.view EXCEPT ![k] = v]
                                         ELSE s.sso.view
                         /\ t.sso.dirty \subseteq s.sso.dirty \cup {k}
                         /\ s.sso.dirty \subseteq t.sso.dirty
                         /\ k \in t.sso.dirty \/ t.sso.view = s.sso.view

(* The two ways to store a setting: both write the cache first.             *)
LEMMA CacheFirst ==
  ASSUME NEW s \in StoreType, NEW n \in Names, NEW k \in Keys, NEW v \in 0..2,
         NEW c \in EntryType, c.in, c.val = [s.cache[n].val EXCEPT ![k] = v],
         s.cache[n].val[k] # v
  PROVE  Sets(s, UpdateStorage([s EXCEPT !.cache[n] = c], n, k, v), n, k, v)
<1> DEFINE u == [s EXCEPT !.cache[n] = c]
           t == UpdateStorage(u, n, k, v)
<1>1. /\ u \in StoreType
      /\ u.cache = [s.cache EXCEPT ![n] = c] /\ u.ag = s.ag /\ u.disk = s.disk
      /\ u.sso = s.sso /\ u.keys = s.keys /\ u.save = s.save
  BY StoreTypes
<1>2. Owns(u, n) <=> Owns(s, n)
  BY <1>1 DEF Owns
<1> HIDE DEF u
<1>3. /\ Apart(u, t, n)
      /\ t.cache = u.cache
      /\ t.keys[n] = [s.keys[n] EXCEPT ![k] = IF Owns(s, n) THEN None ELSE v]
      /\ Owns(s, n) => /\ t.sso.view = IF k \in Settings THEN [s.sso.view EXCEPT ![k] = v]
                                       ELSE s.sso.view
                       /\ t.sso.dirty \subseteq s.sso.dirty \cup {k}
                       /\ s.sso.dirty \subseteq t.sso.dirty
                       /\ k \in t.sso.dirty \/ t.sso.view = s.sso.view
  <2>1. /\ Apart(u, t, n) /\ t.cache = u.cache
        /\ t.keys[n] = [u.keys[n] EXCEPT ![k] = IF Owns(u, n) THEN None ELSE v]
        /\ Owns(u, n) => /\ t.sso.view = IF k \in Settings THEN [u.sso.view EXCEPT ![k] = v]
                                         ELSE u.sso.view
                         /\ t.sso.dirty \subseteq u.sso.dirty \cup {k}
                         /\ u.sso.dirty \subseteq t.sso.dirty
                         /\ k \in t.sso.dirty \/ t.sso.view = u.sso.view
    BY <1>1, UpdateStorageIs
  <2> QED  BY <1>1, <1>2, <2>1
<1> HIDE DEF t
<1>4. t.cache[n] = c /\ \A p \in Names \ {n} : t.cache[p] = s.cache[p]
  BY <1>1, <1>3, StoreTypes
<1>5. Apart(s, t, n)
  BY <1>1, <1>3, <1>4 DEF Apart
<1>6. Sets(s, t, n, k, v)
  BY <1>3, <1>4, <1>5 DEF Sets
<1> QED  BY <1>6 DEF t, u

(* A setting that has its value already only gets an entry.                 *)
LEMMA CacheOnly ==
  ASSUME NEW s \in StoreType, NEW n \in Names, NEW k \in Keys
  PROVE  LET v == s.cache[n].val[k] IN Sets(s, [s EXCEPT !.cache[n].in = TRUE], n, k, v)
<1> DEFINE t == [s EXCEPT !.cache[n].in = TRUE]
<1>1. s.cache \in [Names -> EntryType] /\ s.cache[n].val \in Settled
  BY StoreTypes DEF EntryType
<1>2. /\ t \in StoreType
      /\ t.cache = [s.cache EXCEPT ![n] = [@ EXCEPT !.in = TRUE]] /\ t.ag = s.ag
      /\ t.disk = s.disk /\ t.sso = s.sso /\ t.keys = s.keys /\ t.save = s.save
  BY <1>1, StoreTypes DEF EntryType
<1> HIDE DEF t
<1>3. Apart(s, t, n)
  BY <1>1, <1>2 DEF Apart
<1>4. t.cache[n].in /\ t.cache[n].val = s.cache[n].val
  BY <1>1, <1>2 DEF EntryType
<1>5. s.cache[n].val = [s.cache[n].val EXCEPT ![k] = s.cache[n].val[k]]
  BY <1>1 DEF Settled
<1> QED  BY <1>2, <1>3, <1>4, <1>5 DEF Sets, t

(* mcd_storage_set_attribute, whether or not the value is new.              *)
LEMMA SetAttributeIs ==
  ASSUME NEW s \in StoreType, NEW n \in Names, NEW k \in Keys, NEW v \in 0..2
  PROVE  Sets(s, SetAttribute(s, n, k, v), n, k, v)
<1>1. CASE s.cache[n].val[k] = v
  BY <1>1, CacheOnly DEF SetAttribute
<1>2. CASE s.cache[n].val[k] # v
  <2> DEFINE c == [s.cache[n] EXCEPT !.in = TRUE, !.val[k] = v]
  <2>1. s.cache \in [Names -> EntryType] /\ s.cache[n].val \in Settled
    BY StoreTypes DEF EntryType
  <2>2. c \in EntryType /\ c.in /\ c.val = [s.cache[n].val EXCEPT ![k] = v]
    BY <2>1 DEF EntryType, Settled
  <2> DEFINE u == [s EXCEPT !.cache[n] = [@ EXCEPT !.in = TRUE, !.val[k] = v]]
  <2>3. SetAttribute(s, n, k, v) = UpdateStorage(u, n, k, v)
    BY <1>2 DEF SetAttribute
  <2>4. u = [s EXCEPT !.cache[n] = c]
    OBVIOUS
  <2>5. Sets(s, UpdateStorage([s EXCEPT !.cache[n] = c], n, k, v), n, k, v)
    <3> HIDE DEF c
    <3> QED  BY <1>2, <2>2, CacheFirst
  <2>6. SetAttribute(s, n, k, v) = UpdateStorage([s EXCEPT !.cache[n] = c], n, k, v)
    BY <2>3, <2>4
  <2> QED  BY <2>5, <2>6
<1> QED  BY <1>1, <1>2

(* mcd_storage_set_parameter, which also drops the escaped form.            *)
LEMMA SetParameterIs ==
  ASSUME NEW s \in StoreType, NEW n \in Names, NEW v \in 0..2
  PROVE  Sets(s, SetParameter(s, n, v), n, "param", v)
<1>0. "param" \in Keys
  BY DEF Keys
<1>1. CASE s.cache[n].val["param"] = v
  BY <1>0, <1>1, CacheOnly DEF SetParameter
<1>2. CASE s.cache[n].val["param"] # v
  <2> DEFINE c == [s.cache[n] EXCEPT !.in = TRUE, !.escaped = FALSE, !.val["param"] = v]
  <2>1. s.cache \in [Names -> EntryType] /\ s.cache[n].val \in Settled
    BY StoreTypes DEF EntryType
  <2>2. c \in EntryType /\ c.in /\ c.val = [s.cache[n].val EXCEPT !["param"] = v]
    BY <1>0, <2>1 DEF EntryType, Settled
  <2> DEFINE u == [s EXCEPT !.cache[n] = [@ EXCEPT !.in = TRUE, !.escaped = FALSE, !.val["param"] = v]]
  <2>3. SetParameter(s, n, v) = UpdateStorage(u, n, "param", v)
    BY <1>2 DEF SetParameter
  <2>4. u = [s EXCEPT !.cache[n] = c]
    OBVIOUS
  <2>5. Sets(s, UpdateStorage([s EXCEPT !.cache[n] = c], n, "param", v), n, "param", v)
    <3> HIDE DEF c
    <3> QED  BY <1>0, <1>2, <2>2, CacheFirst
  <2>6. SetParameter(s, n, v) = UpdateStorage([s EXCEPT !.cache[n] = c], n, "param", v)
    BY <2>3, <2>4
  <2> QED  BY <2>5, <2>6
<1> QED  BY <1>1, <1>2

(* None is the number 0, and Nothing has it for every key.                  *)
LEMMA Constants == None = 0 /\ None \in 0..2 /\ Nothing \in Settled /\ Nothing = [k \in Keys |-> 0]
                   /\ \A k \in Keys : Nothing[k] = None
  BY DEF None, Nothing, Settled

(* Names are finitely many numbers, none of which is None.                  *)
LEMMA NotNone == /\ \A n \in Names : n # None /\ n \in Nat
                 /\ IsFiniteSet(Names)
  BY NamesAssumption DEF None

(* The keys that the model has; manager is not one of libaccounts.          *)
LEMMA TheKeys ==
  /\ "manager" \in Keys /\ "Enabled" \in Keys /\ "param" \in Keys /\ "token" \in Keys
  /\ "manager" \notin Settings /\ "Enabled" \in Settings /\ "param" \in Settings
  /\ Settings \subseteq Keys /\ Keys = Settings \cup {"manager"}
  BY DEF Keys, Settings

(* An entry depends on these parts of the stores only.                      *)
LEMMA EntryDependsOn ==
  ASSUME NEW s, NEW t, NEW K, NEW G, NEW e, NEW n,
         t.cache[n] = s.cache[n], t.keys[n] = s.keys[n], t.ag = s.ag,
         t.sso.name = s.sso.name, t.sso.view = s.sso.view, t.sso.dirty = s.sso.dirty
  PROVE  Entry(s, K, G, e, n) => Entry(t, K, G, e, n)
  BY DEF Entry, Owns, InSso, InLibaccounts, Mirrors, InKeyfile, Forgotten

(* ... and if it is another one's settings that change in libaccounts, not  *)
(* even on those.                                                           *)
LEMMA EntryOfAnother ==
  ASSUME NEW s, NEW t, NEW K, NEW G, NEW e, NEW n,
         t.cache[n] = s.cache[n], t.keys[n] = s.keys[n], t.ag = s.ag,
         t.sso.name # n, s.sso.name # n
  PROVE  Entry(s, K, G, e, n) => Entry(t, K, G, e, n)
  BY DEF Entry, Owns, InSso, InKeyfile, Forgotten

(* An entry stays sound when more is known of it or it is not removed any   *)
(* more.                                                                    *)
LEMMA EntryGrows ==
  ASSUME NEW s, NEW K, NEW L, NEW G, NEW H, NEW e, NEW n, K \subseteq L,
         n \in H => n \in G
  PROVE  Entry(s, K, G, e, n) => Entry(s, L, H, e, n)
<1>1. \A whys : Knows(K, n, whys) => Knows(L, n, whys)
  BY DEF Knows
<1> QED  BY <1>1 DEF Entry, InLibaccounts, Mirrors, InKeyfile, Excused

(* What MC and libaccounts agree on depends on little of the plugin's       *)
(* state.                                                                   *)
LEMMA LinkDependsOn ==
  ASSUME NEW s, NEW t, NEW K, NEW L, NEW e, K \subseteq L, t.ag = s.ag,
         t.sso.name = s.sso.name, t.sso.watch = s.sso.watch,
         s.sso.name = None => t.sso.dirty = s.sso.dirty
  PROVE  Link(s, K, e) => Link(t, L, e)
<1>1. \A n, whys : Knows(K, n, whys) => Knows(L, n, whys)
  BY DEF Knows
<1> QED  BY <1>1 DEF Link

(* What becomes known changes nothing else.                                 *)
LEMMA SoundGrows ==
  ASSUME NEW s, NEW K, NEW L, NEW G, NEW H, NEW e, K \subseteq L, H \subseteq G,
         \A n \in Names : <<n, "ghost">> \in L => <<n, "ghost">> \in K \/ s.ag.state = "deleted"
  PROVE  Sound(s, K, G, e) => Sound(s, L, H, e)
<1>1. \A n \in Names : Entry(s, K, G, e, n) => Entry(s, L, H, e, n)
  <2> TAKE n \in Names
  <2>1. n \in H => n \in G
    OBVIOUS
  <2> QED  BY <2>1, EntryGrows
<1>2. Common(s, K, e) => Common(s, L, e)
  BY LinkDependsOn DEF Common
<1> QED  BY <1>1, <1>2 DEF Sound

(* Setting something of an account leaves the others and the files alone.   *)
LEMMA ApartKeeps ==
  ASSUME NEW s \in StoreType, NEW t, NEW K, NEW e, NEW n \in Names, Apart(s, t, n),
         Common(s, K, e)
  PROVE  /\ Common(t, K, e)
         /\ \A G : \A p \in Names \ {n} : Entry(s, K, G, e, p) => Entry(t, K, G, e, p)
<1>1. Link(t, K, e)
  <2>1. s.sso.name = None => t.sso.dirty = s.sso.dirty
    BY NotNone DEF Apart
  <2> QED  BY <2>1, LinkDependsOn DEF Apart, Common
<1>2. Common(t, K, e)
  <2>1. ~t.save => t.keys = t.disk.data
    BY DEF Apart, Common
  <2>2. t.sso.dirty # {} => t.sso.save
    BY DEF Apart, Common
  <2> QED  BY <1>1, <2>1, <2>2 DEF Apart, Common
<1>3. ASSUME NEW G, NEW p \in Names \ {n}, Entry(s, K, G, e, p)  PROVE Entry(t, K, G, e, p)
  <2>1. t.cache[p] = s.cache[p] /\ t.keys[p] = s.keys[p] /\ t.ag = s.ag
        /\ t.sso.name = s.sso.name
    BY DEF Apart
  <2>2. CASE s.sso.name = n
    BY <1>3, <2>1, <2>2, EntryOfAnother
  <2>3. CASE s.sso.name # n
    <3>1. t.sso = s.sso
      BY <2>3 DEF Apart
    <3> QED  BY <1>3, <2>1, <3>1, EntryDependsOn
  <2> QED  BY <2>2, <2>3
<1> QED  BY <1>2, <1>3

(* Setting something of an account that is not forgotten.                   *)
LEMMA SetsSound ==
  ASSUME NEW s \in StoreType, NEW t, NEW K, NEW G, NEW e, NEW n \in Names, NEW k \in Keys,
         NEW v \in 0..2, Sets(s, t, n, k, v), Sound(s, K, G, e),
         n \in G => Excused(K, n),
         Owns(s, n) => k # "manager" /\ (k = "Enabled" => v # None)
  PROVE  t \in StoreType /\ Sound(t, K, G, e)
<1>1. Apart(s, t, n) /\ t \in StoreType
  BY DEF Sets, Apart
<1>2. /\ Common(t, K, e)
      /\ \A p \in Names \ {n} : Entry(s, K, G, e, p) => Entry(t, K, G, e, p)
  BY <1>1, ApartKeeps DEF Sound
<1>3. Entry(s, K, G, e, n)
  BY DEF Sound
<1>4. /\ s.cache[n].val \in Settled /\ s.keys[n] \in Settled /\ s.sso.view \in [Settings -> 0..2]
      /\ s.sso.dirty \in SUBSET Settings
  BY StoreTypes DEF EntryType, SsoType
<1>5. t.ag = s.ag /\ (Owns(t, n) <=> Owns(s, n))
  BY <1>1 DEF Apart, Owns
<1>6. t.cache[n].in /\ t.cache[n].val = [s.cache[n].val EXCEPT ![k] = v]
  BY DEF Sets
<1>7. ~Owns(s, n) => InKeyfile(t, K, n)
  <2> SUFFICES ASSUME ~Owns(s, n), ~Knows(K, n, {"ghost"})  PROVE t.keys[n] = t.cache[n].val
    BY DEF InKeyfile
  <2>1. s.keys[n] = s.cache[n].val
    BY <1>3 DEF Entry, InKeyfile
  <2>2. CASE s.cache[n].val[k] = v /\ t.keys = s.keys
    BY <1>4, <1>6, <2>1, <2>2 DEF Settled
  <2>3. CASE t.keys[n] = [s.keys[n] EXCEPT ![k] = IF Owns(s, n) THEN None ELSE v]
    BY <1>6, <2>1, <2>3
  <2> QED  BY <2>2, <2>3 DEF Sets
<1>8. Owns(s, n) => InLibaccounts(t, K, e, n)
  <2> SUFFICES ASSUME Owns(s, n)  PROVE InLibaccounts(t, K, e, n)
    OBVIOUS
  <2>1. InLibaccounts(s, K, e, n) /\ k \in Settings /\ (k = "Enabled" => v # None)
    BY <1>3, TheKeys DEF Entry
  <2>2. CASE s.cache[n].val[k] = v /\ t.keys = s.keys /\ t.sso = s.sso
    <3>1. t.cache[n].val = s.cache[n].val
      BY <1>4, <1>6, <2>2 DEF Settled
    <3> QED  BY <1>5, <2>1, <2>2, <3>1 DEF InLibaccounts, Mirrors
  <2>3. CASE /\ t.keys[n] = [s.keys[n] EXCEPT ![k] = None]
             /\ t.sso.view = [s.sso.view EXCEPT ![k] = v]
             /\ s.sso.dirty \subseteq t.sso.dirty
             /\ k \in t.sso.dirty \/ t.sso.view = s.sso.view
    <3>1. t.keys[n] = Nothing \/ Knows(K, n, {"kept", "unwritten"})
      <4>1. CASE s.keys[n] = Nothing
        BY <2>3, <4>1, Constants DEF Settled
      <4> QED  BY <2>1, <4>1 DEF InLibaccounts
    <3>2. /\ t.cache[n].val["manager"] = 1 /\ t.cache[n].val["Enabled"] # None
          /\ t.sso.view["Enabled"] # None
      BY <1>4, <1>6, <2>1, <2>3, TheKeys DEF InLibaccounts, Settled
    <3>3. Mirrors(s, K, n) => Mirrors(t, K, n)
      <4>1. ASSUME Mirrors(s, K, n), NEW x \in Settings \ t.sso.dirty
            PROVE  t.sso.view[x] = t.ag.val[x]
        BY <1>4, <1>5, <2>3, <4>1 DEF Mirrors
      <4>2. ASSUME \A x \in Settings : s.cache[n].val[x] = s.sso.view[x], NEW x \in Settings
            PROVE  t.cache[n].val[x] = t.sso.view[x]
        BY <1>4, <1>6, <2>1, <2>3, <4>2, TheKeys DEF Settled
      <4> QED  BY <4>1, <4>2 DEF Mirrors
    <3> QED  BY <1>5, <2>1, <3>1, <3>2, <3>3 DEF InLibaccounts
  <2> QED  BY <2>1, <2>2, <2>3 DEF Sets
<1>9. n \in G => Excused(K, n) \/ Forgotten(t, n)
  OBVIOUS
<1>10. Entry(t, K, G, e, n)
  BY <1>5, <1>6, <1>7, <1>8, <1>9 DEF Entry
<1> QED  BY <1>1, <1>2, <1>10 DEF Sound

(* mcd_storage_delete_account, field by field.                              *)
LEMMA DeleteAccountIs ==
  ASSUME NEW s \in StoreType, NEW n \in Names
  PROVE  LET t == DeleteAccount(s, n) IN
         /\ t \in StoreType
         /\ t.cache = [s.cache EXCEPT ![n] = NoEntry]
         /\ t.keys = [s.keys EXCEPT ![n] = Nothing]
         /\ t.ag = s.ag /\ t.disk = s.disk
         /\ t.sso = IF Owns(s, n) THEN [s.sso EXCEPT !.name = None, !.dirty = {},
                                                     !.watch = FALSE, !.save = TRUE]
                    ELSE s.sso
         /\ s.save => t.save
         /\ ~t.save => t.keys = s.keys
<1>1. NoEntry \in EntryType
  BY Constants DEF NoEntry, EntryType
<1> DEFINE u == [s EXCEPT !.cache[n] = NoEntry]
           a == SsoDeleteAccount(u, n)
           b == KeyfileDeleteAccount(a, n)
<1>2. /\ u \in StoreType
      /\ u.cache = [s.cache EXCEPT ![n] = NoEntry] /\ u.ag = s.ag /\ u.disk = s.disk
      /\ u.sso = s.sso /\ u.keys = s.keys /\ u.save = s.save
  BY <1>1, StoreTypes
<1> HIDE DEF u
<1>3. /\ a \in StoreType
      /\ a.cache = u.cache /\ a.ag = u.ag /\ a.disk = u.disk /\ a.keys = u.keys /\ a.save = u.save
      /\ a.sso = IF Owns(u, n) THEN [u.sso EXCEPT !.name = None, !.dirty = {},
                                                  !.watch = FALSE, !.save = TRUE]
                 ELSE u.sso
  BY <1>2, StoreTypes DEF SsoDeleteAccount, SsoType
<1> HIDE DEF a
<1>4. /\ b \in StoreType
      /\ b.cache = a.cache /\ b.ag = a.ag /\ b.disk = a.disk /\ b.sso = a.sso
      /\ b.keys = [a.keys EXCEPT ![n] = Nothing]
      /\ b.save = (a.save \/ a.keys[n] # Nothing)
  BY <1>3, StoreTypes, Constants DEF KeyfileDeleteAccount
<1>5. a.keys[n] = Nothing => [a.keys EXCEPT ![n] = Nothing] = a.keys
  BY <1>3, StoreTypes
<1> HIDE DEF b
<1>6. Owns(u, n) <=> Owns(s, n)
  BY <1>2 DEF Owns
<1>7. DeleteAccount(s, n) = b
  BY DEF DeleteAccount, b, a, u
<1> QED  BY <1>2, <1>3, <1>4, <1>5, <1>6, <1>7

(* Whatever was in an entry, its removal leaves no trace of it but the      *)
(* account of libaccounts that it was ("kept").                             *)
LEMMA DeleteSound ==
  ASSUME NEW s \in StoreType, NEW K, NEW L, NEW G, NEW e, NEW n \in Names,
         Common(s, K, e), \A p \in Names \ {n} : Entry(s, K, G, e, p),
         K \subseteq L, Owns(s, n) => <<n, "kept">> \in L,
         \A p \in Names : <<p, "ghost">> \in L => <<p, "ghost">> \in K
  PROVE  DeleteAccount(s, n) \in StoreType /\ Sound(DeleteAccount(s, n), L, G \cup {n}, e)
<1> DEFINE t == DeleteAccount(s, n)
<1>1. /\ t \in StoreType
      /\ t.cache = [s.cache EXCEPT ![n] = NoEntry]
      /\ t.keys = [s.keys EXCEPT ![n] = Nothing]
      /\ t.ag = s.ag /\ t.disk = s.disk
      /\ t.sso = IF Owns(s, n) THEN [s.sso EXCEPT !.name = None, !.dirty = {},
                                                  !.watch = FALSE, !.save = TRUE]
                 ELSE s.sso
      /\ s.save => t.save
      /\ ~t.save => t.keys = s.keys
  BY DeleteAccountIs
<1> HIDE DEF t
<1>2. s.cache \in [Names -> EntryType] /\ s.keys \in [Names -> Settled] /\ s.sso \in SsoType
  BY StoreTypes
<1>3. t.cache[n] = NoEntry /\ t.keys[n] = Nothing
      /\ \A p \in Names \ {n} : t.cache[p] = s.cache[p] /\ t.keys[p] = s.keys[p]
  BY <1>1, <1>2
<1>4. CASE Owns(s, n)
  <2>1. /\ s.sso.name = n /\ t.sso.name = None /\ t.sso.dirty = {} /\ ~t.sso.watch /\ t.sso.save
    BY <1>1, <1>2, <1>4 DEF Owns, SsoType
  <2>2. Knows(L, n, {"kept"})
    BY <1>4 DEF Knows
  <2>3. Link(t, L, e)
    BY <1>1, <2>1, <2>2, NotNone DEF Link, Common
  <2>4. Common(t, L, e)
    BY <1>1, <2>1, <2>3 DEF Common
  <2>5. ASSUME NEW p \in Names \ {n}  PROVE Entry(t, L, G \cup {n}, e, p)
    <3>1. Entry(t, K, G, e, p)
      BY <1>1, <1>3, <2>1, NotNone, EntryOfAnother
    <3>2. p \in G \cup {n} => p \in G
      OBVIOUS
    <3> QED  BY <3>1, <3>2, EntryGrows
  <2>6. Entry(t, L, G \cup {n}, e, n)
    <3>1. ~Owns(t, n)
      BY <2>1, NotNone DEF Owns
    <3>2. Excused(L, n)
      BY <2>2 DEF Knows, Excused
    <3> QED  BY <1>3, <3>1, <3>2 DEF Entry, InKeyfile, NoEntry
  <2> QED  BY <1>1, <2>4, <2>5, <2>6 DEF Sound, t
<1>5. CASE ~Owns(s, n)
  <2>1. t.sso = s.sso /\ s.sso.name # n
    BY <1>1, <1>5 DEF Owns
  <2>2. Link(t, L, e)
    BY <1>1, <2>1, LinkDependsOn DEF Common
  <2>3. Common(t, L, e)
    <3>1. ~t.save => t.keys = t.disk.data
      BY <1>1 DEF Common
    <3>2. \A p \in Names : <<p, "ghost">> \in L => t.ag.state = "deleted"
      BY <1>1 DEF Common
    <3> QED  BY <1>1, <2>1, <2>2, <3>1, <3>2 DEF Common
  <2>4. ASSUME NEW p \in Names \ {n}  PROVE Entry(t, L, G \cup {n}, e, p)
    <3>1. Entry(t, K, G, e, p)
      BY <1>1, <1>3, <2>1, EntryDependsOn
    <3>2. p \in G \cup {n} => p \in G
      OBVIOUS
    <3> QED  BY <3>1, <3>2, EntryGrows
  <2>5. Entry(t, L, G \cup {n}, e, n)
    <3>1. ~Owns(t, n)
      BY <2>1 DEF Owns
    <3>2. InSso(t, n) => Excused(L, n)
      <4> SUFFICES ASSUME InSso(t, n)  PROVE Excused(L, n)
        OBVIOUS
      <4>1. s.sso.name = None /\ s.ag.state = "present" /\ s.ag.uid = n
        BY <1>1, <2>1 DEF InSso, Common, Link
      <4>2. Knows(K, n, {"kept"})
        BY <4>1, NotNone DEF Common, Link
      <4> QED  BY <4>2 DEF Knows, Excused
    <3>3. t.cache[n].val = Nothing
      BY <1>3 DEF NoEntry
    <3> QED  BY <1>3, <3>1, <3>2, <3>3 DEF Entry, InKeyfile, Forgotten
  <2> QED  BY <1>1, <2>3, <2>4, <2>5 DEF Sound, t
<1> QED  BY <1>4, <1>5

(* mcd_storage_commit, which may fail to write the keyfile (ok).            *)
LEMMA CommitIs ==
  ASSUME NEW s \in StoreType, NEW ok \in BOOLEAN
  PROVE  LET t == Commit(s, ok) IN
         /\ t \in StoreType
         /\ t.cache = s.cache /\ t.keys = s.keys /\ t.ag = s.ag
         /\ t.sso.name = s.sso.name /\ t.sso.view = s.sso.view /\ t.sso.dirty = s.sso.dirty
         /\ t.sso.watch = s.sso.watch /\ t.sso.save = s.sso.save
         /\ t.sso.timer = (s.sso.timer \/ s.sso.save)
         /\ \/ t.disk = s.disk /\ t.save = s.save
            \/ t.disk = [kind |-> "good", data |-> s.keys] /\ ~t.save
<1> DEFINE u == SsoCommit(s)
           t == KeyfileCommit(u, ok)
<1>1. /\ u \in StoreType
      /\ u.cache = s.cache /\ u.keys = s.keys /\ u.ag = s.ag /\ u.disk = s.disk /\ u.save = s.save
      /\ u.sso = [s.sso EXCEPT !.timer = s.sso.timer \/ s.sso.save]
  BY StoreTypes DEF SsoCommit, SsoType
<1>2. /\ u.sso.name = s.sso.name /\ u.sso.view = s.sso.view /\ u.sso.dirty = s.sso.dirty
      /\ u.sso.watch = s.sso.watch /\ u.sso.save = s.sso.save
      /\ u.sso.timer = (s.sso.timer \/ s.sso.save)
  BY <1>1, StoreTypes DEF SsoType
<1> HIDE DEF u
<1>3. [kind |-> "good", data |-> u.keys] \in DiskType
  BY <1>1, StoreTypes DEF DiskType
<1>4. /\ t \in StoreType
      /\ t.cache = u.cache /\ t.keys = u.keys /\ t.ag = u.ag /\ t.sso = u.sso
      /\ \/ t.disk = u.disk /\ t.save = u.save
         \/ t.disk = [kind |-> "good", data |-> u.keys] /\ ~t.save
  BY <1>1, <1>3, StoreTypes DEF KeyfileCommit
<1> HIDE DEF t
<1>5. Commit(s, ok) = t
  BY DEF Commit, CommitStores, t, u
<1> QED  BY <1>1, <1>2, <1>4, <1>5

(* A commit keeps the stores sound, and leaves nothing to write but what is *)
(* on its way.                                                              *)
LEMMA CommitSound ==
  ASSUME NEW s \in StoreType, NEW ok \in BOOLEAN, NEW K, NEW G, NEW e, Sound(s, K, G, e)
  PROVE  LET t == Commit(s, ok) IN t \in StoreType /\ Sound(t, K, G, e) /\ Synced(t, t.save)
<1> DEFINE t == Commit(s, ok)
<1>1. /\ t \in StoreType
      /\ t.cache = s.cache /\ t.keys = s.keys /\ t.ag = s.ag
      /\ t.sso.name = s.sso.name /\ t.sso.view = s.sso.view /\ t.sso.dirty = s.sso.dirty
      /\ t.sso.watch = s.sso.watch /\ t.sso.save = s.sso.save
      /\ t.sso.timer = (s.sso.timer \/ s.sso.save)
      /\ \/ t.disk = s.disk /\ t.save = s.save
         \/ t.disk = [kind |-> "good", data |-> s.keys] /\ ~t.save
  BY CommitIs
<1> HIDE DEF t
<1>2. Link(t, K, e)
  BY <1>1, LinkDependsOn DEF Sound, Common
<1>3. Common(t, K, e)
  <2>1. CASE t.disk = s.disk /\ t.save = s.save
    BY <1>1, <1>2, <2>1 DEF Sound, Common
  <2>2. CASE t.disk = [kind |-> "good", data |-> s.keys] /\ ~t.save
    BY <1>1, <1>2, <2>2 DEF Sound, Common
  <2> QED  BY <1>1, <2>1, <2>2
<1>4. \A n \in Names : Entry(t, K, G, e, n)
  BY <1>1, EntryDependsOn DEF Sound
<1> QED  BY <1>1, <1>3, <1>4 DEF Sound, Synced, t

(* ag_account_store: libaccounts has what the AgAccount shows.              *)
LEMMA SsoCommitRealSound ==
  ASSUME NEW s \in StoreType, NEW K, NEW G, NEW e, Sound(s, K, G, e)
  PROVE  LET t == SsoCommitReal(s) IN
         /\ t \in StoreType /\ Sound(t, K, G, e)
         /\ t.cache = s.cache /\ t.save = s.save /\ ~t.sso.save /\ t.ag.state = s.ag.state
<1> DEFINE t == SsoCommitReal(s)
           val == [k \in Settings |-> IF k \in s.sso.dirty THEN s.sso.view[k] ELSE s.ag.val[k]]
<1>0. s.sso \in SsoType /\ s.ag \in AgType /\ val \in [Settings -> 0..2]
  BY StoreTypes DEF SsoType, AgType
<1>1. /\ t.cache = s.cache /\ t.keys = s.keys /\ t.save = s.save /\ t.disk = s.disk
      /\ t.sso = [s.sso EXCEPT !.timer = FALSE, !.save = FALSE, !.dirty = {}]
      /\ t.ag = IF s.sso.name = None \/ s.ag.state # "present" THEN s.ag
                ELSE [s.ag EXCEPT !.uid = s.sso.name, !.val = val]
  BY <1>0, StoreTypes DEF SsoCommitReal, AgType
<1>2. t = [s EXCEPT !.ag = t.ag, !.sso = t.sso]
  BY <1>0, StoreTypes DEF SsoCommitReal, AgType
<1> HIDE DEF t
<1>3. /\ t.sso.name = s.sso.name /\ t.sso.view = s.sso.view /\ t.sso.dirty = {}
      /\ t.sso.watch = s.sso.watch /\ ~t.sso.save /\ t.sso \in SsoType
  BY <1>0, <1>1 DEF SsoType
<1>4. /\ t.ag \in AgType /\ t.ag.state = s.ag.state /\ t.ag.uid = s.ag.uid
      /\ s.sso.name = None \/ s.ag.state # "present" => t.ag.val = s.ag.val
      /\ s.sso.name # None /\ s.ag.state = "present" => t.ag.val = val
  <2>1. CASE s.sso.name = None \/ s.ag.state # "present"
    BY <1>0, <1>1, <2>1
  <2>2. CASE s.sso.name # None /\ s.ag.state = "present"
    <3>1. s.ag.uid = s.sso.name
      BY <2>2 DEF Sound, Common, Link
    <3> HIDE DEF val
    <3> QED  BY <1>0, <1>1, <2>2, <3>1 DEF AgType, SsoType
  <2> QED  BY <2>1, <2>2
<1>5. t \in StoreType
  <2> HIDE DEF val
  <2> QED  BY <1>2, <1>3, <1>4, StoreTypes
<1>6. t.ag.state # "never" => t.ag.val["Enabled"] # None
  <2>1. CASE s.sso.name # None /\ s.ag.state = "present"
    <3>1. s.sso.name \in Names /\ Owns(s, s.sso.name)
      BY <1>0, <2>1 DEF SsoType, Owns
    <3>2. s.sso.view["Enabled"] # None
      BY <3>1 DEF Sound, Entry, InLibaccounts
    <3>3. s.ag.val["Enabled"] # None
      BY <2>1 DEF Sound, Common, Link
    <3> QED  BY <1>4, <2>1, <3>2, <3>3, TheKeys
  <2>2. CASE s.sso.name = None \/ s.ag.state # "present"
    BY <1>4, <2>2 DEF Sound, Common, Link
  <2> QED  BY <2>1, <2>2
<1>7. Common(t, K, e)
  <2> HIDE DEF val
  <2>1. Link(s, K, e)
    BY DEF Sound, Common
  <2>2. Link(t, K, e)
    BY <1>3, <1>4, <1>6, <2>1 DEF Link
  <2> QED  BY <1>1, <1>3, <1>4, <2>2 DEF Sound, Common
<1>8. ASSUME NEW n \in Names  PROVE Entry(t, K, G, e, n)
  <2>1. Entry(s, K, G, e, n)
    BY DEF Sound
  <2>2. /\ t.cache[n] = s.cache[n] /\ t.keys[n] = s.keys[n]
        /\ Owns(t, n) <=> Owns(s, n)
        /\ InSso(t, n) <=> InSso(s, n)
    BY <1>1, <1>3, <1>4 DEF Owns, InSso
  <2>3. Owns(s, n) => InLibaccounts(t, K, e, n)
    <3> SUFFICES ASSUME Owns(s, n)  PROVE InLibaccounts(t, K, e, n)
      OBVIOUS
    <3>1. InLibaccounts(s, K, e, n)
      BY <2>1 DEF Entry
    <3>2. ASSUME Mirrors(s, K, n), s.ag.state = "present"  PROVE Mirrors(t, K, n)
      <4>1. t.ag.val = val
        BY <1>4, <3>2, NotNone DEF Owns
      <4>2. \A k \in Settings : t.sso.view[k] = t.ag.val[k]
        BY <1>3, <3>2, <4>1 DEF Mirrors
      <4> QED  BY <1>3, <2>2, <3>2, <4>2 DEF Mirrors
    <3> QED  BY <1>3, <1>4, <2>2, <3>1, <3>2 DEF InLibaccounts
  <2>4. ~Owns(s, n) => InKeyfile(t, K, n)
    BY <2>1, <2>2 DEF Entry, InKeyfile
  <2>5. n \in G => Excused(K, n) \/ Forgotten(t, n)
    BY <2>1, <2>2 DEF Entry, Forgotten
  <2> QED  BY <2>1, <2>2, <2>3, <2>4, <2>5 DEF Entry
<1> QED  BY <1>1, <1>3, <1>4, <1>5, <1>7, <1>8 DEF Sound, t

(* What plugins and readers put into the cache is nobody else's business.   *)
LEMMA CacheIs ==
  ASSUME NEW s \in StoreType, NEW n \in Names, NEW c \in EntryType
  PROVE  LET t == [s EXCEPT !.cache[n] = c] IN
         /\ t \in StoreType
         /\ t.cache = [s.cache EXCEPT ![n] = c]
         /\ t.cache[n] = c /\ \A p \in Names \ {n} : t.cache[p] = s.cache[p]
         /\ t.keys = s.keys /\ t.ag = s.ag /\ t.disk = s.disk /\ t.sso = s.sso /\ t.save = s.save
         /\ \A K, e : Common(s, K, e) => Common(t, K, e)
         /\ \A K, G, e : \A p \in Names \ {n} : Entry(s, K, G, e, p) => Entry(t, K, G, e, p)
<1> DEFINE t == [s EXCEPT !.cache[n] = c]
<1>1. /\ t \in StoreType
      /\ t.cache = [s.cache EXCEPT ![n] = c]
      /\ t.keys = s.keys /\ t.ag = s.ag /\ t.disk = s.disk /\ t.sso = s.sso /\ t.save = s.save
  BY StoreTypes
<1> HIDE DEF t
<1>2. t.cache[n] = c /\ \A p \in Names \ {n} : t.cache[p] = s.cache[p]
  BY <1>1, StoreTypes
<1>3. \A K, e : Common(s, K, e) => Common(t, K, e)
  BY <1>1 DEF Common, Link
<1>4. \A K, G, e : \A p \in Names \ {n} : Entry(s, K, G, e, p) => Entry(t, K, G, e, p)
  BY <1>1, <1>2, EntryDependsOn
<1> QED  BY <1>1, <1>2, <1>3, <1>4 DEF t

-----------------------------------------------------------------------------
(* Signals of libaccounts.                                                  *)

(* The first element and the rest of a sequence.                            *)
LEMMA FirstAndRest ==
  ASSUME NEW S, NEW e \in Seq(S), e # <<>>
  PROVE  /\ Tail(e) \in Seq(S) /\ Head(e) \in S
         /\ 1 \in DOMAIN e /\ e[1] = Head(e)
         /\ \A i \in DOMAIN Tail(e) : i \in Nat /\ i + 1 \in DOMAIN e /\ i + 1 # 1
                                      /\ Tail(e)[i] = e[i + 1]
         /\ \A i \in DOMAIN e : i \in Nat
                                /\ (i = 1 \/ (i - 1 \in DOMAIN Tail(e) /\ e[i] = Tail(e)[i - 1]))
<1>1. /\ Head(e) \in S /\ Tail(e) \in Seq(S) /\ Len(Tail(e)) = Len(e) - 1
      /\ \A i \in 1 .. Len(Tail(e)) : Tail(e)[i] = e[i + 1]
  BY HeadTailProperties
<1>2. Len(e) \in Nat \ {0} /\ DOMAIN e = 1 .. Len(e) /\ DOMAIN Tail(e) = 1 .. Len(Tail(e))
  BY <1>1, EmptySeq, LenProperties
<1>3. Head(e) = e[1]
  OBVIOUS
<1>4. ASSUME NEW i \in DOMAIN e, i # 1
      PROVE  i - 1 \in DOMAIN Tail(e) /\ e[i] = Tail(e)[i - 1]
  <2>1. i - 1 \in 1 .. Len(Tail(e)) /\ (i - 1) + 1 = i
    BY <1>1, <1>2, <1>4
  <2>2. Tail(e)[i - 1] = e[(i - 1) + 1]
    BY <1>1, <2>1
  <2> QED  BY <1>2, <2>1, <2>2
<1>5. \A i \in DOMAIN Tail(e) : i \in Nat /\ i + 1 \in DOMAIN e /\ i + 1 # 1
                                /\ Tail(e)[i] = e[i + 1]
  BY <1>1, <1>2
<1>6. 1 \in DOMAIN e /\ \A i \in DOMAIN e : i \in Nat
  BY <1>2
<1> QED  BY <1>1, <1>3, <1>4, <1>5, <1>6

(* A signal is the first or among the rest.                                 *)
LEMMA HasRest ==
  ASSUME NEW e \in Seq(Signal), e # <<>>, NEW x
  PROVE  Has(e, x) <=> Head(e) = x \/ Has(Tail(e), x)
<1>1. ASSUME Has(e, x)  PROVE Head(e) = x \/ Has(Tail(e), x)
  BY <1>1, FirstAndRest DEF Has
<1>2. ASSUME Head(e) = x \/ Has(Tail(e), x)  PROVE Has(e, x)
  BY <1>2, FirstAndRest DEF Has
<1> QED  BY <1>1, <1>2

(* A signal that is taken changes nothing, unless it is the one that tells  *)
(* that the account is no more.                                             *)
LEMMA LinkRest ==
  ASSUME NEW s, NEW K, NEW e \in Seq(Signal), e # <<>>, Link(s, K, e)
  PROVE  /\ Head(e) # "deleted" \/ s.sso.name = None => Link(s, K, Tail(e))
         /\ ~Has(Tail(e), "created")
         /\ Head(e) = "created" => s.ag.uid = None /\ ~s.sso.watch
         /\ Head(e) = "deleted" => s.ag.state = "deleted"
         /\ s.ag.state # "never"
<1>1. /\ \A i \in DOMAIN e : /\ e[i] = "created" => i = 1 /\ s.ag.uid = None /\ ~s.sso.watch
                             /\ e[i] = "deleted" => s.ag.state = "deleted"
      /\ s.ag.state # "never"
  BY DEF Link
<1>2. \A i \in DOMAIN Tail(e) : /\ Tail(e)[i] # "created"
                                /\ Tail(e)[i] = "deleted" => s.ag.state = "deleted"
  BY <1>1, FirstAndRest
<1>3. /\ Head(e) = "created" => s.ag.uid = None /\ ~s.sso.watch
      /\ Head(e) = "deleted" => s.ag.state = "deleted"
  BY <1>1, FirstAndRest
<1>4. ASSUME Head(e) # "deleted" \/ s.sso.name = None  PROVE Link(s, K, Tail(e))
  <2>1. Head(e) # "deleted" => (Has(e, "deleted") => Has(Tail(e), "deleted"))
    BY HasRest
  <2> QED  BY <1>1, <1>2, <1>4, <2>1 DEF Link
<1> QED  BY <1>1, <1>2, <1>3, <1>4 DEF Has

(* The AgAccount when a signal arrives.                                     *)
Fresher(s) ==
  [s EXCEPT !.sso.view = [k \in Settings |-> IF k \in s.sso.dirty THEN s.sso.view[k]
                                             ELSE s.ag.val[k]]]

(* An AgAccount shows at once what other processes stored, but for its own  *)
(* changes.                                                                 *)
LEMMA FresherSound ==
  ASSUME NEW s \in StoreType, NEW K, NEW G, NEW e, Sound(s, K, G, e)
  PROVE  LET t == Fresher(s) IN
         /\ t \in StoreType /\ Sound(t, K, G, e)
         /\ t.cache = s.cache /\ t.ag = s.ag /\ t.save = s.save
         /\ t.sso.name = s.sso.name /\ t.sso.watch = s.sso.watch /\ t.sso.dirty = s.sso.dirty
         /\ t.sso.save = s.sso.save /\ t.sso.timer = s.sso.timer
         /\ \A k \in Settings \ t.sso.dirty : t.sso.view[k] = t.ag.val[k]
<1> DEFINE t == Fresher(s)
           view == [k \in Settings |-> IF k \in s.sso.dirty THEN s.sso.view[k] ELSE s.ag.val[k]]
<1>0. s.sso \in SsoType /\ s.ag \in AgType /\ view \in [Settings -> 0..2]
  BY StoreTypes DEF SsoType, AgType
<1>1. /\ t.cache = s.cache /\ t.keys = s.keys /\ t.save = s.save /\ t.disk = s.disk /\ t.ag = s.ag
      /\ t.sso = [s.sso EXCEPT !.view = view]
      /\ t = [s EXCEPT !.sso = t.sso]
  BY <1>0, StoreTypes DEF Fresher
<1> HIDE DEF t
<1>2. /\ t.sso.name = s.sso.name /\ t.sso.view = view /\ t.sso.dirty = s.sso.dirty
      /\ t.sso.watch = s.sso.watch /\ t.sso.save = s.sso.save /\ t.sso.timer = s.sso.timer
      /\ t.sso \in SsoType
  <2> HIDE DEF view
  <2> QED  BY <1>0, <1>1 DEF SsoType
<1>3. t \in StoreType
  BY <1>1, <1>2, StoreTypes
<1>4. Common(t, K, e)
  <2>1. Link(t, K, e)
    BY <1>1, <1>2, LinkDependsOn DEF Sound, Common
  <2> QED  BY <1>1, <1>2, <2>1 DEF Sound, Common
<1>5. ASSUME NEW n \in Names  PROVE Entry(t, K, G, e, n)
  <2>1. Entry(s, K, G, e, n)
    BY DEF Sound
  <2>2. CASE Owns(s, n)
    <3>1. InLibaccounts(s, K, e, n) /\ Owns(t, n) /\ ~Forgotten(s, n) /\ ~Forgotten(t, n)
      BY <1>2, <2>1, <2>2 DEF Entry, Owns, Forgotten
    <3>2. s.ag.val["Enabled"] # None
      BY <2>2, NotNone DEF Owns, Sound, Common, Link
    <3>3. t.sso.view["Enabled"] # None
      BY <1>2, <3>1, <3>2, TheKeys DEF InLibaccounts
    <3>4. Mirrors(s, K, n) => Mirrors(t, K, n)
      <4>1. ASSUME Mirrors(s, K, n)  PROVE \A k \in Settings : t.sso.view[k] = s.sso.view[k]
        BY <1>2, <4>1 DEF Mirrors
      <4> QED  BY <1>1, <1>2, <4>1 DEF Mirrors
    <3>5. InLibaccounts(t, K, e, n)
      BY <1>1, <3>1, <3>3, <3>4 DEF InLibaccounts
    <3> QED  BY <1>1, <2>1, <3>1, <3>5 DEF Entry
  <2>3. CASE ~Owns(s, n)
    BY <1>1, <1>2, <2>1, <2>3, EntryOfAnother DEF Owns
  <2> QED  BY <2>2, <2>3
<1>6. \A k \in Settings \ t.sso.dirty : t.sso.view[k] = t.ag.val[k]
  BY <1>1, <1>2
<1> QED  BY <1>1, <1>2, <1>3, <1>4, <1>5, <1>6 DEF Sound, t

(* A signal that is handled says nothing more, unless it told of new        *)
(* values.                                                                  *)
LEMMA EntryRest ==
  ASSUME NEW s, NEW K, NEW G, NEW e \in Seq(Signal), e # <<>>, NEW n, Entry(s, K, G, e, n),
         Head(e) # "updated" \/ ~Owns(s, n)
  PROVE  Entry(s, K, G, Tail(e), n)
<1>1. Owns(s, n) => (~Has(Tail(e), "updated") => ~Has(e, "updated"))
  BY HasRest
<1> QED  BY <1>1 DEF Entry, InLibaccounts

(* The same of all stores, if it did not tell of a deletion either.         *)
LEMMA SoundRest ==
  ASSUME NEW s, NEW K, NEW G, NEW e \in Seq(Signal), e # <<>>, Sound(s, K, G, e),
         Head(e) \notin {"updated", "deleted"} \/ s.sso.name = None
  PROVE  Sound(s, K, G, Tail(e))
<1>1. Common(s, K, Tail(e))
  BY LinkRest DEF Sound, Common
<1>2. ASSUME NEW n \in Names  PROVE Entry(s, K, G, Tail(e), n)
  <2>1. s.sso.name = None => ~Owns(s, n)
    BY NotNone DEF Owns
  <2> QED  BY <2>1, EntryRest DEF Sound
<1> QED  BY <1>1, <1>2 DEF Sound

(* Values that a plugin pushes for its account.                             *)
LEMMA PushSound ==
  ASSUME NEW s \in StoreType, NEW K, NEW L, NEW G, NEW e, NEW f, NEW n \in Names, Owns(s, n),
         NEW c \in EntryType, c.in, K \subseteq L,
         Common(s, K, f), \A p \in Names : Entry(s, K, G, e, p),
         \A p \in Names : <<p, "ghost">> \in L => <<p, "ghost">> \in K,
         e = f \/ (e \in Seq(Signal) /\ e # <<>> /\ f = Tail(e)),
         c.val["manager"] = 1, c.val["Enabled"] # None,
         ~Has(f, "updated") /\ s.ag.state = "present" =>
           /\ \A k \in Settings \ s.sso.dirty : s.sso.view[k] = s.ag.val[k]
           /\ \/ Knows(L, n, {"kept", "unset", "unwritten"})
              \/ \A k \in Settings : c.val[k] = s.sso.view[k]
  PROVE  LET t == [s EXCEPT !.cache[n] = c] IN t \in StoreType /\ Sound(t, L, G, f)
<1> DEFINE t == [s EXCEPT !.cache[n] = c]
<1>1. /\ t \in StoreType /\ t.cache[n] = c
      /\ t.keys = s.keys /\ t.ag = s.ag /\ t.disk = s.disk /\ t.sso = s.sso /\ t.save = s.save
      /\ Common(s, K, f) => Common(t, K, f)
      /\ \A p \in Names \ {n} : Entry(s, K, G, f, p) => Entry(t, K, G, f, p)
  BY CacheIs
<1> HIDE DEF t
<1>2. Common(t, L, f)
  BY <1>1, LinkDependsOn DEF Common
<1>3. ASSUME NEW p \in Names \ {n}  PROVE Entry(t, L, G, f, p)
  <2>1. ~Owns(s, p)
    BY DEF Owns
  <2>2. Entry(s, K, G, f, p)
    BY <2>1, EntryRest
  <2>3. Entry(t, K, G, f, p)
    BY <1>1, <2>2
  <2> QED  BY <2>3, EntryGrows
<1>4. Entry(t, L, G, f, n)
  <2>1. Entry(s, L, G, e, n)
    BY EntryGrows
  <2>2. Owns(t, n)
    BY <1>1 DEF Owns
  <2>3. Forgotten(s, n) => FALSE
    BY DEF Forgotten
  <2>4. InLibaccounts(t, L, f, n)
    BY <1>1, <2>1 DEF Entry, InLibaccounts, Mirrors
  <2> QED  BY <1>1, <2>1, <2>2, <2>3, <2>4 DEF Entry
<1> QED  BY <1>1, <1>2, <1>3, <1>4 DEF Sound, t

(* _sso_deleted: the account is forgotten, its entry is not.                *)
Forgot(s) == [s EXCEPT !.sso = [@ EXCEPT !.name = None, !.dirty = {}, !.watch = FALSE]]

(* When its deletion is handled the plugin forgets the account: all that    *)
(* the name needs is to be excused or to be removed from the cache.         *)
LEMMA ForgotIs ==
  ASSUME NEW s \in StoreType, NEW K, NEW G, NEW e \in Seq(Signal), e # <<>>, Sound(s, K, G, e),
         Head(e) = "deleted", s.sso.name # None
  PROVE  LET t == Forgot(s)
             n == s.sso.name IN
         /\ t \in StoreType /\ n \in Names /\ ~Owns(t, n)
         /\ Common(t, K, Tail(e)) /\ \A p \in Names \ {n} : Entry(t, K, G, Tail(e), p)
         /\ Sound(t, K \cup {<<n, "ghost">>}, G, Tail(e))
         /\ t.cache = s.cache /\ t.ag = s.ag /\ t.save = s.save
         /\ t.sso.save = s.sso.save /\ t.sso.timer = s.sso.timer
<1> DEFINE t == Forgot(s)
           n == s.sso.name
           L == K \cup {<<n, "ghost">>}
<1>0. s.sso \in SsoType /\ n \in Names
  BY StoreTypes DEF SsoType
<1>1. /\ t.cache = s.cache /\ t.keys = s.keys /\ t.save = s.save /\ t.disk = s.disk /\ t.ag = s.ag
      /\ t.sso = [s.sso EXCEPT !.name = None, !.dirty = {}, !.watch = FALSE]
      /\ t = [s EXCEPT !.sso = t.sso]
  BY <1>0, StoreTypes DEF Forgot
<1> HIDE DEF t
<1>2. /\ t.sso.name = None /\ t.sso.dirty = {} /\ ~t.sso.watch
      /\ t.sso.save = s.sso.save /\ t.sso.timer = s.sso.timer /\ t.sso \in SsoType
  BY <1>0, <1>1 DEF SsoType
<1>3. t \in StoreType
  BY <1>1, <1>2, StoreTypes
<1>4. s.ag.state = "deleted"
  BY LinkRest DEF Sound, Common
<1>5. Link(s, K, e) /\ \A i \in DOMAIN e : e[i] # "created"
  <2>1. s.ag.uid # None
    BY DEF Sound, Common, Link
  <2> QED  BY <2>1 DEF Sound, Common, Link
<1>6. Link(t, K, e)
  BY <1>1, <1>2, <1>4, <1>5 DEF Link
<1>7. Link(t, K, Tail(e))
  BY <1>2, <1>6, LinkRest
<1>8. Common(t, K, Tail(e))
  BY <1>1, <1>2, <1>7 DEF Sound, Common
<1>9. ASSUME NEW p \in Names \ {n}  PROVE Entry(t, K, G, Tail(e), p)
  <2>1. Entry(t, K, G, e, p)
    BY <1>1, <1>2, NotNone, EntryOfAnother DEF Sound
  <2>2. ~Owns(t, p)
    BY <1>2, NotNone DEF Owns
  <2> QED  BY <2>1, <2>2, EntryRest
<1>10. Common(t, L, Tail(e))
  <2>1. Link(t, L, Tail(e))
    BY <1>7, LinkDependsOn
  <2> QED  BY <1>1, <1>4, <1>8, <2>1 DEF Common
<1>11. ~Owns(t, n)
  BY <1>0, <1>2, NotNone DEF Owns
<1>12. Entry(t, L, G, Tail(e), n)
  <2>1. InKeyfile(t, L, n)
    BY DEF InKeyfile, Knows
  <2>2. n \in G => Excused(K, n)
    BY <1>0 DEF Sound, Entry, Forgotten, Owns
  <2>3. n \in G => Excused(L, n)
    BY <2>2 DEF Excused, Knows
  <2>4. Entry(s, K, G, e, n)
    BY <1>0 DEF Sound
  <2> QED  BY <1>1, <1>11, <2>1, <2>3, <2>4 DEF Entry
<1>13. ASSUME NEW p \in Names \ {n}  PROVE Entry(t, L, G, Tail(e), p)
  BY <1>9, EntryGrows
<1> QED  BY <1>0, <1>1, <1>2, <1>3, <1>8, <1>9, <1>10, <1>11, <1>12, <1>13 DEF Sound, t

(* _ag_accountid_to_mc_key gives the account of libaccounts a name.         *)
Named(s, n) ==
  [s EXCEPT !.ag.uid = n,
            !.sso = [@ EXCEPT !.name = n, !.watch = TRUE, !.view = s.ag.val],
            !.cache[n] = FromSso(@, s.ag.val)]

(* An entry of the cache that is read from libaccounts has a manager, and   *)
(* what libaccounts does not have keeps its value.                          *)
LEMMA FromSsoIs ==
  ASSUME NEW c \in EntryType, NEW val \in [Settings -> 0..2]
  PROVE  LET f == FromSso(c, val) IN
         /\ f \in EntryType /\ f.in /\ f.val["manager"] = 1
         /\ \A k \in Settings : f.val[k] = IF val[k] # None THEN val[k] ELSE c.val[k]
<1> DEFINE v == [k \in Keys |-> IF k = "manager" THEN 1
                                ELSE IF val[k] # None THEN val[k] ELSE c.val[k]]
           f == FromSso(c, val)
<1>1. v \in Settled
  <2> SUFFICES ASSUME NEW k \in Keys
               PROVE  (IF k = "manager" THEN 1 ELSE IF val[k] # None THEN val[k] ELSE c.val[k]) \in 0..2
    BY DEF Settled
  <2>1. c.val \in Settled
    BY DEF EntryType
  <2>2. k # "manager" => k \in Settings
    BY TheKeys
  <2> QED  BY <2>1, <2>2 DEF Settled
<1>2. v["manager"] = 1 /\ \A k \in Settings : v[k] = IF val[k] # None THEN val[k] ELSE c.val[k]
  BY TheKeys
<1> HIDE DEF v
<1>3. f = [c EXCEPT !.in = TRUE, !.val = v, !.escaped = @ \/ val["param"] # None]
  BY DEF FromSso, v
<1>4. f \in EntryType /\ f.in /\ f.val = v
  BY <1>1, <1>3 DEF EntryType
<1> QED  BY <1>2, <1>4

(* The account of libaccounts that had no name gets one that is free, and   *)
(* the cache an entry for it.                                               *)
LEMMA NamedSound ==
  ASSUME NEW s \in StoreType, NEW K, NEW G, NEW e, NEW n \in Names, Sound(s, K, G, e),
         s.sso.name = None, s.ag.state = "present", s.ag.uid = None, ~Cached(s, n),
         ~Has(e, "created")
  PROVE  LET t == Named(s, n) IN
         /\ t \in StoreType /\ Sound(t, K, G \ {n}, e) /\ Owns(t, n)
         /\ t.ag.state = s.ag.state /\ t.ag.uid = n /\ t.save = s.save
         /\ t.sso.save = s.sso.save /\ t.sso.timer = s.sso.timer
         /\ t.cache[n].val["manager"] = 1 /\ t.cache[n].val["Enabled"] # None
         /\ \A p \in Names \ {n} : t.cache[p] = s.cache[p]
<1> DEFINE t == Named(s, n)
           c == FromSso(s.cache[n], s.ag.val)
<1>0. /\ s.sso \in SsoType /\ s.ag \in AgType /\ s.cache \in [Names -> EntryType]
      /\ s.ag.val \in [Settings -> 0..2]
  BY StoreTypes DEF AgType
<1>1. s.cache[n] = NoEntry /\ Entry(s, K, G, e, n)
  BY DEF Sound, Entry, Cached
<1>2. NoEntry \in EntryType /\ NoEntry.val = Nothing
  BY <1>0, <1>1 DEF NoEntry
<1>3. /\ c \in EntryType /\ c.in /\ c.val["manager"] = 1
      /\ \A k \in Settings : c.val[k] = s.ag.val[k]
  BY <1>0, <1>1, <1>2, FromSsoIs, Constants, TheKeys
<1> HIDE DEF c
<1>4. /\ t.cache = [s.cache EXCEPT ![n] = c] /\ t.keys = s.keys /\ t.save = s.save
      /\ t.disk = s.disk /\ t.ag = [s.ag EXCEPT !.uid = n]
      /\ t.sso = [s.sso EXCEPT !.name = n, !.watch = TRUE, !.view = s.ag.val]
      /\ t = [s EXCEPT !.ag = t.ag, !.sso = t.sso, !.cache = t.cache]
  BY <1>0, StoreTypes DEF Named, c
<1> HIDE DEF t
<1>5. /\ t.sso.name = n /\ t.sso.dirty = s.sso.dirty /\ t.sso.watch /\ t.sso.view = s.ag.val
      /\ t.sso.save = s.sso.save /\ t.sso.timer = s.sso.timer /\ t.sso \in SsoType
  BY <1>0, <1>4 DEF SsoType
<1>6. t.ag.state = s.ag.state /\ t.ag.val = s.ag.val /\ t.ag.uid = n /\ t.ag \in AgType
  BY <1>0, <1>4 DEF AgType
<1>7. t.cache[n] = c /\ t.cache \in [Names -> EntryType]
      /\ \A p \in Names \ {n} : t.cache[p] = s.cache[p]
  BY <1>0, <1>3, <1>4
<1>8. t \in StoreType
  BY <1>4, <1>5, <1>6, <1>7, StoreTypes
<1>9. Link(t, K, e)
  <2>1. Link(s, K, e) /\ \A i \in DOMAIN e : e[i] # "created"
    BY DEF Sound, Common, Has
  <2> QED  BY <1>5, <1>6, <2>1, NotNone DEF Link
<1>10. Common(t, K, e)
  BY <1>4, <1>5, <1>6, <1>9 DEF Sound, Common
<1>11. ASSUME NEW p \in Names \ {n}  PROVE Entry(t, K, G \ {n}, e, p)
  <2>1. Entry(s, K, G, e, p) /\ ~Owns(s, p) /\ ~Owns(t, p)
    BY <1>5, NotNone DEF Sound, Owns
  <2>2. InSso(t, p) <=> InSso(s, p)
    BY <1>6, NotNone DEF InSso
  <2> QED  BY <1>4, <1>7, <2>1, <2>2 DEF Entry, InKeyfile, Forgotten
<1>12. Entry(t, K, G \ {n}, e, n)
  <2>1. s.keys[n] = Nothing
    <3>1. ~Owns(s, n) /\ ~Knows(K, n, {"ghost"})
      BY NotNone DEF Owns, Sound, Common, Knows
    <3> QED  BY <1>1, <1>2, <3>1 DEF Entry, InKeyfile
  <2>2. s.sso.dirty = {} /\ s.ag.val["Enabled"] # None
    BY DEF Sound, Common, Link
  <2>3. Mirrors(t, K, n)
    BY <1>3, <1>5, <1>6, <1>7 DEF Mirrors
  <2>4. InLibaccounts(t, K, e, n)
    BY <1>3, <1>4, <1>5, <1>7, <2>1, <2>2, <2>3, TheKeys DEF InLibaccounts
  <2>5. Owns(t, n)
    BY <1>5 DEF Owns
  <2> QED  BY <1>3, <1>7, <2>4, <2>5 DEF Entry
<1>13. c.val["Enabled"] # None
  BY <1>3, TheKeys DEF Sound, Common, Link
<1> QED  BY <1>3, <1>4, <1>5, <1>6, <1>7, <1>8, <1>10, <1>11, <1>12, <1>13 DEF Sound, Owns, t

(* What is to be saved is noted.                                            *)
ToSave(s, n) == IF Owns(s, n) THEN [s EXCEPT !.sso.save = TRUE] ELSE [s EXCEPT !.save = TRUE]

(* mcd_storage_commit is not called yet, but the account is marked for it.  *)
LEMMA ToSaveSound ==
  ASSUME NEW s \in StoreType, NEW K, NEW G, NEW e, NEW n \in Names, Sound(s, K, G, e)
  PROVE  LET t == ToSave(s, n) IN
         t \in StoreType /\ Sound(t, K, G, e) /\ t.cache = s.cache /\ t.ag = s.ag
<1> DEFINE t == ToSave(s, n)
<1>1. /\ t \in StoreType /\ t.cache = s.cache /\ t.keys = s.keys /\ t.ag = s.ag /\ t.disk = s.disk
      /\ t.sso.name = s.sso.name /\ t.sso.view = s.sso.view /\ t.sso.dirty = s.sso.dirty
      /\ t.sso.watch = s.sso.watch /\ (s.sso.save => t.sso.save) /\ (s.save => t.save)
  BY StoreTypes DEF ToSave, SsoType
<1> HIDE DEF t
<1>2. Common(t, K, e)
  BY <1>1, LinkDependsOn DEF Sound, Common
<1>3. \A p \in Names : Entry(t, K, G, e, p)
  BY <1>1, EntryDependsOn DEF Sound
<1> QED  BY <1>1, <1>2, <1>3 DEF Sound, t

-----------------------------------------------------------------------------
(* Loading and dying.                                                       *)

(* An entry of the cache that is read from a group of the keyfile.          *)
LEMMA FromKeyfileIs ==
  ASSUME NEW group \in Settled
  PROVE  LET c == FromKeyfile(group) IN
         c \in EntryType /\ c.val = group /\ (~c.in => c = NoEntry)
                         /\ (group = Nothing => c = NoEntry)
  BY Constants DEF FromKeyfile, NoEntry, EntryType

(* The keyfile that is read is the one on disk, wherever that was found.    *)
LEMMA ReadKeyfileIs ==
  ASSUME NEW s \in StoreType,
         s.disk.kind \notin {"good", "system", "old"} => \A n \in Names : s.disk.data[n] = Nothing
  PROVE  LET t == ReadKeyfile(s) IN
         /\ t \in StoreType
         /\ t.keys = s.disk.data /\ t.save = (s.disk.kind \in {"old", "missing"})
         /\ t.disk = s.disk /\ t.ag = s.ag /\ t.sso = s.sso /\ t.cache = s.cache
<1> DEFINE keys == IF s.disk.kind \in {"good", "system", "old"} THEN s.disk.data
                   ELSE [n \in Names |-> Nothing]
<1>1. keys = s.disk.data /\ keys \in [Names -> Settled]
  BY StoreTypes DEF DiskType
<1> HIDE DEF keys
<1> DEFINE save == s.disk.kind \in {"old", "missing"}
<1>2. save \in BOOLEAN /\ ReadKeyfile(s) = [s EXCEPT !.keys = keys, !.save = save]
  BY DEF ReadKeyfile, keys
<1> HIDE DEF save
<1>3. /\ ReadKeyfile(s) \in StoreType /\ ReadKeyfile(s).keys = keys /\ ReadKeyfile(s).save = save
      /\ ReadKeyfile(s).disk = s.disk /\ ReadKeyfile(s).ag = s.ag /\ ReadKeyfile(s).sso = s.sso
      /\ ReadKeyfile(s).cache = s.cache
  BY <1>1, <1>2, StoreTypes
<1> QED  BY <1>1, <1>3 DEF save

(* mcd_storage_load: the keyfile, then libaccounts over it.                 *)
LEMMA LoadIs ==
  ASSUME NEW s \in StoreType, NEW ok \in BOOLEAN,
         s.disk.kind \notin {"good", "system", "old"} => \A n \in Names : s.disk.data[n] = Nothing
  PROVE  LET t == Load(s, ok) IN
         /\ t \in StoreType
         /\ t.keys = s.disk.data /\ t.disk.data = s.disk.data /\ t.ag = s.ag
         /\ t.disk.kind \in {"good", s.disk.kind}
         /\ t.sso = [name |-> IF s.ag.state = "present" THEN s.ag.uid ELSE None,
                     view |-> s.ag.val, dirty |-> {},
                     watch |-> s.ag.state = "present" /\ s.ag.uid # None,
                     save |-> FALSE, timer |-> FALSE]
         /\ t.cache = [n \in Names |-> IF InSso(s, n)
                                       THEN FromSso(FromKeyfile(s.disk.data[n]), s.ag.val)
                                       ELSE FromKeyfile(s.disk.data[n])]
<1> DEFINE a == ReadKeyfile(s)
           b == KeyfileCommit(a, ok)
           r == LoadSso(b)
           sso == [name |-> IF s.ag.state = "present" THEN s.ag.uid ELSE None,
                   view |-> s.ag.val, dirty |-> {},
                   watch |-> s.ag.state = "present" /\ s.ag.uid # None,
                   save |-> FALSE, timer |-> FALSE]
<1>1. /\ a \in StoreType /\ a.keys = s.disk.data /\ a.disk = s.disk /\ a.ag = s.ag
  BY ReadKeyfileIs
<1> HIDE DEF a
<1>2. [kind |-> "good", data |-> a.keys] \in DiskType
  BY <1>1, StoreTypes DEF DiskType
<1>3. /\ b \in StoreType /\ b.keys = s.disk.data /\ b.ag = s.ag
      /\ b.disk.data = s.disk.data /\ b.disk.kind \in {"good", s.disk.kind}
  <2>1. CASE a.save /\ ok
    BY <1>1, <1>2, <2>1, StoreTypes DEF KeyfileCommit
  <2>2. CASE ~(a.save /\ ok)
    BY <1>1, <2>2 DEF KeyfileCommit
  <2> QED  BY <2>1, <2>2
<1> HIDE DEF b
<1>4. sso \in SsoType
  BY StoreTypes DEF SsoType, AgType
<1>5. /\ r \in StoreType /\ r.keys = s.disk.data /\ r.ag = s.ag /\ r.disk = b.disk /\ r.sso = sso
  <2>1. r = [b EXCEPT !.sso = sso]
    BY <1>3 DEF LoadSso
  <2> HIDE DEF r, sso
  <2> QED  BY <1>3, <1>4, <2>1, StoreTypes
<1> HIDE DEF r
<1>6. LoadedCache(r) \in [Names -> EntryType]
  <2> SUFFICES ASSUME NEW n \in Names
               PROVE  /\ FromKeyfile(r.keys[n]) \in EntryType
                      /\ FromSso(FromKeyfile(r.keys[n]), r.ag.val) \in EntryType
    BY DEF LoadedCache
  <2>1. r.keys[n] \in Settled /\ r.ag.val \in [Settings -> 0..2]
    BY <1>5, StoreTypes DEF AgType
  <2>2. FromKeyfile(r.keys[n]) \in EntryType
    BY <2>1, FromKeyfileIs
  <2> QED  BY <2>1, <2>2, FromSsoIs
<1>7. Load(s, ok) = [r EXCEPT !.cache = LoadedCache(r)]
  BY DEF Load, r, b, a
<1>8. LoadedCache(r) = [n \in Names |-> IF InSso(s, n)
                                        THEN FromSso(FromKeyfile(s.disk.data[n]), s.ag.val)
                                        ELSE FromKeyfile(s.disk.data[n])]
  BY <1>5 DEF LoadedCache, InSso
<1> HIDE DEF sso
<1>9. /\ Load(s, ok) \in StoreType /\ Load(s, ok).keys = r.keys /\ Load(s, ok).ag = r.ag
      /\ Load(s, ok).disk = r.disk /\ Load(s, ok).sso = r.sso
      /\ Load(s, ok).cache = LoadedCache(r)
  BY <1>5, <1>6, <1>7, StoreTypes
<1> QED  BY <1>3, <1>5, <1>8, <1>9 DEF sso

(* The stores are sound after a load, whatever the dead process had left.   *)
LEMMA LoadSound ==
  ASSUME NEW s \in StoreType, NEW ok \in BOOLEAN, NEW K, NEW G, Asleep(s, K, G)
  PROVE  LET t == Load(s, ok) IN
         /\ t \in StoreType /\ Sound(t, K, G, <<>>) /\ t.ag = s.ag
         /\ t.sso.name = IF s.ag.state = "present" THEN s.ag.uid ELSE None
<1> DEFINE t == Load(s, ok)
<1>1. /\ t \in StoreType
      /\ t.keys = s.disk.data /\ t.disk.data = s.disk.data /\ t.ag = s.ag
      /\ t.disk.kind \in {"good", s.disk.kind}
      /\ t.sso.name = IF s.ag.state = "present" THEN s.ag.uid ELSE None
      /\ t.sso.view = s.ag.val /\ t.sso.dirty = {}
      /\ t.sso.watch = (s.ag.state = "present" /\ s.ag.uid # None)
      /\ \A n \in Names : t.cache[n] = IF InSso(s, n)
                                       THEN FromSso(FromKeyfile(s.disk.data[n]), s.ag.val)
                                       ELSE FromKeyfile(s.disk.data[n])
  <2>1. /\ t \in StoreType
        /\ t.keys = s.disk.data /\ t.disk.data = s.disk.data /\ t.ag = s.ag
        /\ t.disk.kind \in {"good", s.disk.kind}
        /\ t.sso = [name |-> IF s.ag.state = "present" THEN s.ag.uid ELSE None,
                    view |-> s.ag.val, dirty |-> {},
                    watch |-> s.ag.state = "present" /\ s.ag.uid # None,
                    save |-> FALSE, timer |-> FALSE]
        /\ t.cache = [n \in Names |-> IF InSso(s, n)
                                      THEN FromSso(FromKeyfile(s.disk.data[n]), s.ag.val)
                                      ELSE FromKeyfile(s.disk.data[n])]
    BY LoadIs DEF Asleep
  <2> HIDE DEF t
  <2> QED  BY <2>1
<1> HIDE DEF t
<1>2. s.disk.data \in [Names -> Settled] /\ s.ag.val \in [Settings -> 0..2]
      /\ s.ag.state \in {"never", "present", "deleted"}
  BY StoreTypes DEF DiskType, AgType
<1>3. Link(t, K, <<>>)
  <2>1. \A i \in DOMAIN <<>> : FALSE
    OBVIOUS
  <2> QED  BY <1>1, <1>2, <2>1 DEF Link, Asleep
<1>4. Common(t, K, <<>>)
  BY <1>1, <1>3 DEF Common, Asleep
<1>5. ASSUME NEW n \in Names  PROVE Entry(t, K, G, <<>>, n)
  <2> DEFINE k == FromKeyfile(s.disk.data[n])
  <2>1. k \in EntryType /\ k.val = s.disk.data[n] /\ (~k.in => k = NoEntry)
        /\ (s.disk.data[n] = Nothing => k = NoEntry)
    BY <1>2, FromKeyfileIs
  <2>2. Owns(t, n) <=> InSso(s, n)
    BY <1>1, NotNone DEF Owns, InSso
  <2>3. InSso(t, n) <=> InSso(s, n)
    BY <1>1 DEF InSso
  <2>4. /\ InSso(s, n) => Knows(K, n, {"kept", "unwritten"}) \/ s.disk.data[n] = Nothing
        /\ n \in G => Excused(K, n) \/ (~InSso(s, n) /\ s.disk.data[n] = Nothing)
    BY DEF Asleep
  <2> HIDE DEF k
  <2>5. CASE InSso(s, n)
    <3> DEFINE f == FromSso(k, s.ag.val)
    <3>1. /\ f.in /\ f.val["manager"] = 1
          /\ \A x \in Settings : f.val[x] = IF s.ag.val[x] # None THEN s.ag.val[x] ELSE k.val[x]
      BY <1>2, <2>1, FromSsoIs
    <3>2. t.cache[n] = f
      BY <1>1, <2>5 DEF k
    <3> HIDE DEF f
    <3>3. s.ag.val["Enabled"] # None
      BY <2>5 DEF InSso, Asleep
    <3>4. Mirrors(t, K, n)
      <4>1. ASSUME s.disk.data[n] = Nothing  PROVE \A x \in Settings : f.val[x] = s.ag.val[x]
        <5>1. \A x \in Settings : k.val[x] = None
          BY <2>1, <4>1, Constants, TheKeys DEF NoEntry
        <5> QED  BY <3>1, <5>1
      <4>2. Knows(K, n, {"kept", "unset", "unwritten"}) \/ s.disk.data[n] = Nothing
        BY <2>4, <2>5 DEF Knows
      <4> QED  BY <1>1, <3>2, <4>1, <4>2 DEF Mirrors
    <3>5. InLibaccounts(t, K, <<>>, n)
      BY <1>1, <2>4, <2>5, <3>1, <3>2, <3>3, <3>4, TheKeys DEF InLibaccounts
    <3> QED  BY <2>2, <2>4, <2>5, <3>1, <3>2, <3>5 DEF Entry
  <2>6. CASE ~InSso(s, n)
    <3>1. t.cache[n] = k
      BY <1>1, <2>6 DEF k
    <3>2. s.disk.data[n] = Nothing => k.val = Nothing
      BY <2>1
    <3> QED  BY <1>1, <2>1, <2>2, <2>3, <2>4, <2>6, <3>1, <3>2 DEF Entry, InKeyfile, Forgotten
  <2> QED  BY <2>5, <2>6
<1> QED  BY <1>1, <1>4, <1>5 DEF Sound, t

(* A process that died leaves what is on disk and in libaccounts, and       *)
(* nothing else.                                                            *)
LEMMA StoppedIs ==
  ASSUME NEW s \in StoreType
  PROVE  LET t == Stopped(s) IN
         t \in StoreType /\ t.disk = s.disk /\ t.ag = s.ag /\ t = Stopped(t)
<1> DEFINE t == Stopped(s)
           sso == [name |-> None, view |-> NoChange, dirty |-> {}, watch |-> FALSE,
                   save |-> FALSE, timer |-> FALSE]
<1>1. NoEntry \in EntryType /\ NoChange \in [Settings -> 0..2] /\ sso \in SsoType
  BY Constants DEF NoEntry, EntryType, NoChange, SsoType
<1> HIDE DEF sso
<1>2. t = [s EXCEPT !.cache = [n \in Names |-> NoEntry], !.keys = [n \in Names |-> Nothing],
                    !.save = FALSE, !.sso = sso]
  BY DEF Stopped, sso
<1>3. Stopped(t) = [t EXCEPT !.cache = [n \in Names |-> NoEntry],
                             !.keys = [n \in Names |-> Nothing], !.save = FALSE, !.sso = sso]
  BY DEF Stopped, sso
<1> HIDE DEF t
<1>4. /\ t \in StoreType /\ t.disk = s.disk /\ t.ag = s.ag
      /\ t.cache = [n \in Names |-> NoEntry] /\ t.keys = [n \in Names |-> Nothing]
      /\ t.save = FALSE /\ t.sso = sso
  BY <1>1, <1>2, Constants, StoreTypes
<1>5. t = Stopped(t)
  BY <1>3, <1>4, StoreTypes
<1> QED  BY <1>4, <1>5 DEF t

(* A crash loses what was not written, which is then known.                 *)
LEMMA StopSound ==
  ASSUME NEW s \in StoreType, NEW K, NEW L, NEW G, NEW e, NEW failed \in BOOLEAN,
         Sound(s, K, G, e), Synced(s, failed), K \subseteq L,
         \A n \in Names : failed /\ s.keys[n] # s.disk.data[n] => <<n, "unwritten">> \in L,
         \A n \in Names : <<n, "ghost">> \in L => <<n, "ghost">> \in K
  PROVE  Stopped(s) \in StoreType /\ Asleep(Stopped(s), L, G)
<1> DEFINE t == Stopped(s)
<1>1. t \in StoreType /\ t.disk = s.disk /\ t.ag = s.ag /\ t = Stopped(t)
  BY StoppedIs
<1> HIDE DEF t
<1>2. \A n \in Names : Knows(L, n, {"unwritten"}) \/ s.keys[n] = s.disk.data[n]
  BY DEF Synced, Sound, Common, Knows
<1>3. \A n, whys : Knows(K, n, whys) => Knows(L, n, whys)
  BY DEF Knows
<1>4. ASSUME NEW n \in Names
      PROVE  /\ <<n, "ghost">> \in L => t.ag.state = "deleted"
             /\ InSso(t, n) => Knows(L, n, {"kept", "unwritten"}) \/ t.disk.data[n] = Nothing
             /\ n \in G => Excused(L, n) \/ (~InSso(t, n) /\ t.disk.data[n] = Nothing)
  <2>1. Entry(s, K, G, e, n) /\ Common(s, K, e) /\ Link(s, K, e)
    BY DEF Sound, Common
  <2>2. <<n, "ghost">> \in L => t.ag.state = "deleted"
    BY <1>1, <2>1 DEF Common
  <2>3. InSso(t, n) => Knows(L, n, {"kept", "unwritten"}) \/ t.disk.data[n] = Nothing
    <3> SUFFICES ASSUME InSso(s, n)
                 PROVE  Knows(L, n, {"kept", "unwritten"}) \/ s.disk.data[n] = Nothing
      BY <1>1 DEF InSso
    <3>1. CASE Owns(s, n)
      <4>1. s.keys[n] = Nothing \/ Knows(L, n, {"kept", "unwritten"})
        BY <1>3, <2>1, <3>1 DEF Entry, InLibaccounts
      <4>2. Knows(L, n, {"unwritten"}) => Knows(L, n, {"kept", "unwritten"})
        BY DEF Knows
      <4> QED  BY <1>2, <4>1, <4>2
    <3>2. CASE ~Owns(s, n)
      <4>1. s.sso.name = None /\ s.ag.uid = n
        BY <2>1, <3>2 DEF Owns, InSso, Link
      <4>2. Knows(K, n, {"kept"})
        BY <2>1, <4>1, NotNone DEF InSso, Link
      <4> QED  BY <4>2 DEF Knows
    <3> QED  BY <3>1, <3>2
  <2>4. n \in G => Excused(L, n) \/ (~InSso(t, n) /\ t.disk.data[n] = Nothing)
    <3> SUFFICES ASSUME n \in G, ~Excused(L, n)
                 PROVE  ~InSso(t, n) /\ t.disk.data[n] = Nothing
      OBVIOUS
    <3>1. ~Excused(K, n) /\ ~Knows(L, n, {"unwritten"})
      BY <1>3 DEF Excused, Knows
    <3>2. Forgotten(s, n)
      BY <2>1, <3>1 DEF Entry
    <3> QED  BY <1>1, <1>2, <3>1, <3>2 DEF Forgotten, InSso
  <2> QED  BY <2>2, <2>3, <2>4
<1>5. \A n \in Names : s.disk.kind \notin {"good", "system", "old"} => s.disk.data[n] = Nothing
  BY DEF Sound, Common
<1>6. /\ s.ag.state = "never" => s.ag.uid = None
      /\ s.ag.state # "never" => s.ag.val["Enabled"] # None
  BY DEF Sound, Common, Link
<1> QED  BY <1>1, <1>4, <1>5, <1>6 DEF Asleep, t

-----------------------------------------------------------------------------
(* Other processes change libaccounts.                                      *)

(* Two sequences in a row.                                                  *)
LEMMA Joined ==
  ASSUME NEW S, NEW e \in Seq(S), NEW x \in Seq(S)
  PROVE  /\ e \o x \in Seq(S)
         /\ \A i \in DOMAIN e : i \in DOMAIN (e \o x) /\ (e \o x)[i] = e[i]
         /\ \A j \in DOMAIN x : Len(e) + j \in DOMAIN (e \o x) /\ (e \o x)[Len(e) + j] = x[j]
         /\ \A i \in DOMAIN (e \o x) : \/ i \in DOMAIN e /\ (e \o x)[i] = e[i]
                                       \/ i - Len(e) \in DOMAIN x /\ (e \o x)[i] = x[i - Len(e)]
         /\ Len(e) \in Nat /\ DOMAIN e = 1 .. Len(e)
         /\ Len(x) \in Nat /\ DOMAIN x = 1 .. Len(x)
         /\ DOMAIN (e \o x) = 1 .. (Len(e) + Len(x))
<1>1. /\ e \o x \in Seq(S) /\ Len(e \o x) = Len(e) + Len(x)
      /\ \A i \in 1 .. Len(e) + Len(x) : (e \o x)[i] = IF i <= Len(e) THEN e[i] ELSE x[i - Len(e)]
  BY ConcatProperties
<1>2. /\ Len(e) \in Nat /\ DOMAIN e = 1 .. Len(e)
      /\ Len(x) \in Nat /\ DOMAIN x = 1 .. Len(x)
  BY LenProperties
<1>3. DOMAIN (e \o x) = 1 .. (Len(e) + Len(x))
  BY <1>1, LenProperties
<1> DEFINE f == e \o x
<1>4. \A i \in 1 .. Len(e) + Len(x) : f[i] = IF i <= Len(e) THEN e[i] ELSE x[i - Len(e)]
  BY <1>1
<1>5. DOMAIN f = 1 .. (Len(e) + Len(x))
  BY <1>3
<1> HIDE DEF f
<1>6. \A i \in DOMAIN e : i \in DOMAIN f /\ f[i] = e[i]
  BY <1>2, <1>4, <1>5
<1>7. \A j \in DOMAIN x : Len(e) + j \in DOMAIN f /\ f[Len(e) + j] = x[j]
  <2> TAKE j \in DOMAIN x
  <2>1. Len(e) + j \in 1 .. (Len(e) + Len(x)) /\ ~(Len(e) + j <= Len(e))
        /\ (Len(e) + j) - Len(e) = j
    BY <1>2
  <2> QED  BY <1>4, <1>5, <2>1
<1>8. \A i \in DOMAIN f : \/ i \in DOMAIN e /\ f[i] = e[i]
                          \/ i - Len(e) \in DOMAIN x /\ f[i] = x[i - Len(e)]
  <2> TAKE i \in DOMAIN f
  <2>1. i <= Len(e) => i \in 1 .. Len(e)
    BY <1>2, <1>5
  <2>2. ~(i <= Len(e)) => i - Len(e) \in 1 .. Len(x)
    BY <1>2, <1>5
  <2> QED  BY <1>2, <1>4, <1>5, <2>1, <2>2
<1> QED  BY <1>1, <1>2, <1>3, <1>6, <1>7, <1>8 DEF f

(* A signal is among the first ones or the ones added.                      *)
LEMMA HasJoined ==
  ASSUME NEW e \in Seq(Signal), NEW x \in Seq(Signal), NEW y
  PROVE  Has(e \o x, y) <=> Has(e, y) \/ Has(x, y)
<1>1. ASSUME Has(e \o x, y)  PROVE Has(e, y) \/ Has(x, y)
  <2>1. PICK i \in DOMAIN (e \o x) : (e \o x)[i] = y
    BY <1>1 DEF Has
  <2> QED  BY <2>1, Joined DEF Has
<1>2. ASSUME Has(e, y)  PROVE Has(e \o x, y)
  BY <1>2, Joined DEF Has
<1>3. ASSUME Has(x, y)  PROVE Has(e \o x, y)
  <2>1. PICK j \in DOMAIN x : x[j] = y
    BY <1>3 DEF Has
  <2>2. Len(e) + j \in DOMAIN (e \o x) /\ (e \o x)[Len(e) + j] = x[j]
    BY Joined
  <2> QED  BY <2>1, <2>2 DEF Has
<1> QED  BY <1>1, <1>2, <1>3

(* Only libaccounts changes when another process stores something.          *)
LEMMA AgIs ==
  ASSUME NEW s \in StoreType, NEW ag \in AgType
  PROVE  LET t == [s EXCEPT !.ag = ag] IN
         /\ t \in StoreType /\ t.ag = ag
         /\ t.cache = s.cache /\ t.keys = s.keys /\ t.save = s.save /\ t.disk = s.disk
         /\ t.sso = s.sso
  BY StoreTypes

(* What was set outside is told by a signal.                                *)
LEMMA SetOutside ==
  ASSUME NEW s \in StoreType, NEW K, NEW G, NEW e \in Seq(Signal), Sound(s, K, G, e),
         NEW x \in Seq(Signal), Has(x, "updated"), ~Has(x, "created"), ~Has(x, "deleted"),
         NEW ag \in AgType, s.ag.state = "present", ag.state = "present", ag.uid = s.ag.uid,
         ag.val["Enabled"] # None
  PROVE  Sound([s EXCEPT !.ag = ag], K, G, e \o x)
<1> DEFINE t == [s EXCEPT !.ag = ag]
           f == e \o x
<1>1. /\ t \in StoreType /\ t.ag = ag
      /\ t.cache = s.cache /\ t.keys = s.keys /\ t.save = s.save /\ t.disk = s.disk
      /\ t.sso = s.sso
  BY AgIs
<1>2. /\ Has(f, "updated") /\ (Has(e, "deleted") => Has(f, "deleted"))
      /\ \A i \in DOMAIN f : f[i] \in {"created", "deleted"} => i \in DOMAIN e /\ f[i] = e[i]
  <2>1. Has(f, "updated") /\ (Has(e, "deleted") => Has(f, "deleted"))
    BY HasJoined
  <2>2. ASSUME NEW i \in DOMAIN f, f[i] \in {"created", "deleted"}
        PROVE  i \in DOMAIN e /\ f[i] = e[i]
    <3>1. \/ i \in DOMAIN e /\ f[i] = e[i]
          \/ i - Len(e) \in DOMAIN x /\ f[i] = x[i - Len(e)]
      BY Joined
    <3> QED  BY <2>2, <3>1 DEF Has
  <2> QED  BY <2>1, <2>2
<1> HIDE DEF t, f
<1>3. Link(s, K, e)
  BY DEF Sound, Common
<1>4. Link(t, K, f)
  <2>1. \A i \in DOMAIN f : /\ f[i] = "created" => i = 1 /\ s.ag.uid = None /\ ~s.sso.watch
                            /\ f[i] = "deleted" => s.ag.state = "deleted"
    BY <1>2, <1>3 DEF Link
  <2> QED  BY <1>1, <1>3, <2>1 DEF Link
<1>5. Common(t, K, f)
  BY <1>1, <1>4 DEF Sound, Common
<1>6. ASSUME NEW n \in Names  PROVE Entry(t, K, G, f, n)
  <2>1. Entry(s, K, G, e, n) /\ (InSso(t, n) <=> InSso(s, n)) /\ (Owns(t, n) <=> Owns(s, n))
    BY <1>1 DEF Sound, InSso, Owns
  <2>2. InLibaccounts(s, K, e, n) => InLibaccounts(t, K, f, n)
    BY <1>1, <1>2 DEF InLibaccounts
  <2> QED  BY <1>1, <2>1, <2>2 DEF Entry, InKeyfile, Forgotten
<1> QED  BY <1>5, <1>6 DEF Sound, t, f

(* A deletion by another process is sound together with its signal.         *)
LEMMA DeletedOutside ==
  ASSUME NEW s \in StoreType, NEW K, NEW G, NEW e \in Seq(Signal), Sound(s, K, G, e),
         NEW ag \in AgType, s.ag.state = "present", ag = [s.ag EXCEPT !.state = "deleted"]
  PROVE  Sound([s EXCEPT !.ag = ag], K, G, e \o <<"deleted">>)
<1> DEFINE t == [s EXCEPT !.ag = ag]
           x == <<"deleted">>
           f == e \o x
<1>0. ag.state = "deleted" /\ ag.uid = s.ag.uid /\ ag.val = s.ag.val
  BY StoreTypes DEF AgType
<1>1. /\ t \in StoreType /\ t.ag = ag
      /\ t.cache = s.cache /\ t.keys = s.keys /\ t.save = s.save /\ t.disk = s.disk
      /\ t.sso = s.sso
  BY AgIs
<1>2. x \in Seq(Signal) /\ Has(x, "deleted") /\ ~Has(x, "created")
  BY DEF Signal, Has
<1> HIDE DEF x
<1>3. /\ Has(f, "deleted")
      /\ \A i \in DOMAIN f : f[i] = "created" => i \in DOMAIN e /\ f[i] = e[i]
  <2>1. Has(f, "deleted")
    BY <1>2, HasJoined
  <2>2. ASSUME NEW i \in DOMAIN f, f[i] = "created"  PROVE i \in DOMAIN e /\ f[i] = e[i]
    <3>1. \/ i \in DOMAIN e /\ f[i] = e[i]
          \/ i - Len(e) \in DOMAIN x /\ f[i] = x[i - Len(e)]
      BY <1>2, Joined
    <3> QED  BY <1>2, <2>2, <3>1 DEF Has
  <2> QED  BY <2>1, <2>2
<1> HIDE DEF t, f
<1>4. Link(s, K, e)
  BY DEF Sound, Common
<1>5. Link(t, K, f)
  <2>1. \A i \in DOMAIN f : f[i] = "created" => i = 1 /\ s.ag.uid = None /\ ~s.sso.watch
    BY <1>3, <1>4 DEF Link
  <2> QED  BY <1>0, <1>1, <1>3, <1>4, <2>1 DEF Link
<1>6. Common(t, K, f)
  BY <1>0, <1>1, <1>5 DEF Sound, Common
<1>7. ASSUME NEW n \in Names  PROVE Entry(t, K, G, f, n)
  <2>1. Entry(s, K, G, e, n) /\ ~InSso(t, n) /\ (Owns(t, n) <=> Owns(s, n))
    BY <1>0, <1>1 DEF Sound, InSso, Owns
  <2>2. InLibaccounts(s, K, e, n) => InLibaccounts(t, K, f, n)
    BY <1>0, <1>1 DEF InLibaccounts
  <2> QED  BY <1>1, <2>1, <2>2 DEF Entry, InKeyfile, Forgotten
<1> QED  BY <1>6, <1>7 DEF Sound, t, f, x

(* So is a creation.                                                        *)
LEMMA CreatedOutside ==
  ASSUME NEW s \in StoreType, NEW K, NEW G, NEW e, Sound(s, K, G, e),
         NEW ag \in AgType, s.ag.state = "never", ag.state = "present", ag.uid = s.ag.uid,
         ag.val["Enabled"] # None
  PROVE  Sound([s EXCEPT !.ag = ag], K, G, e \o <<"created">>)
<1> DEFINE t == [s EXCEPT !.ag = ag]
           x == <<"created">>
<1>1. /\ t \in StoreType /\ t.ag = ag
      /\ t.cache = s.cache /\ t.keys = s.keys /\ t.save = s.save /\ t.disk = s.disk
      /\ t.sso = s.sso
  BY AgIs
<1>2. x \in Seq(Signal) /\ \A i \in DOMAIN x : i = 1 /\ x[i] = "created"
  BY DEF Signal
<1>3. Link(s, K, e) /\ e = <<>> /\ s.ag.uid = None /\ ~s.sso.watch /\ s.sso.name = None
  BY DEF Sound, Common, Link
<1>4. e \o x = x
  BY <1>2, <1>3, ConcatEmptySeq
<1> HIDE DEF t, x
<1>5. Link(t, K, x)
  BY <1>1, <1>2, <1>3 DEF Link
<1>6. Common(t, K, x)
  BY <1>1, <1>5 DEF Sound, Common
<1>7. ASSUME NEW n \in Names  PROVE Entry(t, K, G, x, n)
  <2>1. Entry(s, K, G, e, n) /\ ~InSso(t, n) /\ ~Owns(t, n) /\ ~Owns(s, n)
    BY <1>1, <1>3, NotNone DEF Sound, InSso, Owns
  <2> QED  BY <1>1, <2>1 DEF Entry, InKeyfile, Forgotten
<1> QED  BY <1>4, <1>6, <1>7 DEF Sound, t, x

-----------------------------------------------------------------------------
(* The callbacks that wait.                                                 *)

(* Each callback is of one of three kinds, and has its object.              *)
LEMMA Callbacks ==
  /\ \A o \in Objs : Acc(o) \in Callback /\ Cre(o) \in Callback
  /\ \A o \in Objs : \A k \in {"Enabled", "param"} : Alt(o, k) \in Callback
  /\ \A c \in Callback : /\ c.obj \in Objs /\ c.cb \in {"account", "created", "altered"}
                         /\ c.cb = "account" => c = Acc(c.obj)
                         /\ c.cb = "created" => c = Cre(c.obj)
                         /\ c.cb = "altered" => c.key \in {"Enabled", "param"}
                                                /\ c = Alt(c.obj, c.key)
  /\ \A o : Acc(o).obj = o /\ Acc(o).cb = "account" /\ Cre(o).obj = o /\ Cre(o).cb = "created"
  /\ \A o, k : Alt(o, k).obj = o /\ Alt(o, k).cb = "altered" /\ Alt(o, k).key = k
<1>1. /\ \A o \in Objs : Acc(o) \in Callback /\ Cre(o) \in Callback
      /\ \A o \in Objs : \A k \in {"Enabled", "param"} : Alt(o, k) \in Callback
  BY DEF Callback
<1>2. /\ \A o : Acc(o).obj = o /\ Acc(o).cb = "account" /\ Cre(o).obj = o /\ Cre(o).cb = "created"
      /\ \A o, k : Alt(o, k).obj = o /\ Alt(o, k).cb = "altered" /\ Alt(o, k).key = k
  BY DEF Acc, Cre, Alt
<1>3. ASSUME NEW c \in Callback
      PROVE  /\ c.obj \in Objs /\ c.cb \in {"account", "created", "altered"}
             /\ c.cb = "account" => c = Acc(c.obj)
             /\ c.cb = "created" => c = Cre(c.obj)
             /\ c.cb = "altered" => c.key \in {"Enabled", "param"} /\ c = Alt(c.obj, c.key)
  <2>1. \/ \E o \in Objs : c = Acc(o)
        \/ \E o \in Objs : c = Cre(o)
        \/ \E o \in Objs, k \in {"Enabled", "param"} : c = Alt(o, k)
    BY DEF Callback
  <2>2. CASE \E o \in Objs : c = Acc(o)
    BY <1>2, <2>2
  <2>3. CASE \E o \in Objs : c = Cre(o)
    BY <1>2, <2>3
  <2>4. CASE \E o \in Objs, k \in {"Enabled", "param"} : c = Alt(o, k)
    BY <1>2, <2>4
  <2> QED  BY <2>1, <2>2, <2>3, <2>4
<1> QED  BY <1>1, <1>2, <1>3

Elems(q) == {q[i] : i \in DOMAIN q}

(* The elements of a queue are callbacks.                                   *)
LEMMA ElemsType ==
  ASSUME NEW q \in Seq(Callback)
  PROVE  Elems(q) \subseteq Callback
<1>1. \A i \in DOMAIN q : q[i] \in Callback
  BY LenProperties, ElementOfSeq
<1> QED  BY <1>1 DEF Elems

(* The next one is taken.                                                   *)
LEMMA QueuePop ==
  ASSUME NEW q \in Seq(Callback), q # <<>>, Queue(q)
  PROVE  /\ Tail(q) \in Seq(Callback) /\ Head(q) \in Callback /\ Queue(Tail(q))
         /\ Elems(q) = Elems(Tail(q)) \cup {Head(q)}
         /\ Head(q).cb # "altered" => Head(q) \notin Elems(Tail(q))
         /\ Head(q).cb = "account" => Cre(Head(q).obj) \notin Elems(Tail(q))
<1> DEFINE r == Tail(q)
<1>1. /\ r \in Seq(Callback) /\ Head(q) \in Callback /\ 1 \in DOMAIN q /\ q[1] = Head(q)
      /\ \A i \in DOMAIN r : i \in Nat /\ i + 1 \in DOMAIN q /\ i + 1 # 1 /\ r[i] = q[i + 1]
      /\ \A i \in DOMAIN q : i \in Nat
                             /\ (i = 1 \/ (i - 1 \in DOMAIN r /\ q[i] = r[i - 1]))
  BY FirstAndRest
<1> HIDE DEF r
<1>2. ASSUME NEW i \in DOMAIN r, NEW j \in DOMAIN r, r[i] = r[j], r[i].cb # "altered"
      PROVE  i = j
  <2>1. i + 1 = j + 1
    BY <1>1, <1>2 DEF Queue
  <2> QED  BY <1>1, <2>1
<1>3. ASSUME NEW i \in DOMAIN r, NEW j \in DOMAIN r,
             r[i].obj = r[j].obj, r[i].cb = "created", r[j].cb = "account"
      PROVE  i < j
  <2>1. i + 1 < j + 1
    BY <1>1, <1>3 DEF Queue
  <2> QED  BY <1>1, <2>1
<1>4. Elems(q) = Elems(r) \cup {Head(q)}
  <2>1. ASSUME NEW c \in Elems(q)  PROVE c \in Elems(r) \cup {Head(q)}
    <3>1. PICK i \in DOMAIN q : c = q[i]
      BY DEF Elems
    <3> QED  BY <1>1, <3>1 DEF Elems
  <2>2. ASSUME NEW c \in Elems(r) \cup {Head(q)}  PROVE c \in Elems(q)
    BY <1>1 DEF Elems
  <2> QED  BY <2>1, <2>2
<1>5. ASSUME Head(q).cb # "altered", Head(q) \in Elems(r)  PROVE FALSE
  <2>1. PICK i \in DOMAIN r : Head(q) = r[i]
    BY <1>5 DEF Elems
  <2> QED  BY <1>1, <1>5, <2>1 DEF Queue
<1>6. ASSUME Head(q).cb = "account", Cre(Head(q).obj) \in Elems(r)  PROVE FALSE
  <2>1. PICK i \in DOMAIN r : Cre(Head(q).obj) = r[i]
    BY <1>6 DEF Elems
  <2> DEFINE o == Head(q).obj
  <2>2. q[i + 1].obj = q[1].obj /\ q[i + 1].cb = "created" /\ q[1].cb = "account"
    <3>1. q[i + 1] = Cre(o) /\ q[1] = Head(q)
      BY <1>1, <2>1
    <3>2. Cre(o).obj = o /\ Cre(o).cb = "created"
      BY Callbacks
    <3> QED  BY <1>6, <3>1, <3>2
  <2>3. i + 1 < 1
    BY <1>1, <2>2 DEF Queue
  <2> QED  BY <1>1, <2>3
<1> QED  BY <1>1, <1>2, <1>3, <1>4, <1>5, <1>6 DEF Queue, r

(* New ones go first.                                                       *)
LEMMA QueuePush ==
  ASSUME NEW q \in Seq(Callback), NEW x \in Seq(Callback), Queue(q), Queue(x),
         \A c \in Elems(x), d \in Elems(q) : c.cb # "altered" => c.obj # d.obj
  PROVE  x \o q \in Seq(Callback) /\ Queue(x \o q) /\ Elems(x \o q) = Elems(x) \cup Elems(q)
<1> DEFINE r == x \o q
<1>1. /\ r \in Seq(Callback)
      /\ \A i \in DOMAIN x : i \in DOMAIN r /\ r[i] = x[i]
      /\ \A j \in DOMAIN q : Len(x) + j \in DOMAIN r /\ r[Len(x) + j] = q[j]
      /\ \A i \in DOMAIN r : \/ i \in DOMAIN x /\ r[i] = x[i]
                             \/ i - Len(x) \in DOMAIN q /\ r[i] = q[i - Len(x)]
      /\ Len(x) \in Nat /\ DOMAIN x = 1 .. Len(x)
      /\ Len(q) \in Nat /\ DOMAIN q = 1 .. Len(q)
      /\ DOMAIN r = 1 .. (Len(x) + Len(q))
  BY Joined
<1> HIDE DEF r
<1>2. /\ \A i \in DOMAIN x : x[i] \in Elems(x) /\ x[i] \in Callback
      /\ \A i \in DOMAIN q : q[i] \in Elems(q) /\ q[i] \in Callback
  BY ElemsType DEF Elems
<1>3. Elems(r) = Elems(x) \cup Elems(q)
  <2>1. ASSUME NEW c \in Elems(r)  PROVE c \in Elems(x) \cup Elems(q)
    <3>1. PICK i \in DOMAIN r : c = r[i]
      BY DEF Elems
    <3>2. \/ i \in DOMAIN x /\ r[i] = x[i]
          \/ i - Len(x) \in DOMAIN q /\ r[i] = q[i - Len(x)]
      BY <1>1
    <3> QED  BY <1>2, <3>1, <3>2
  <2>2. ASSUME NEW c \in Elems(x)  PROVE c \in Elems(r)
    BY <1>1 DEF Elems
  <2>3. ASSUME NEW c \in Elems(q)  PROVE c \in Elems(r)
    <3>1. PICK j \in DOMAIN q : c = q[j]
      BY DEF Elems
    <3>2. Len(x) + j \in DOMAIN r /\ r[Len(x) + j] = q[j]
      BY <1>1
    <3> QED  BY <3>1, <3>2 DEF Elems
  <2> QED  BY <2>1, <2>2, <2>3
<1>4. ASSUME NEW i \in DOMAIN r, NEW j \in DOMAIN r, r[i] = r[j], r[i].cb # "altered"
      PROVE  i = j
  <2>1. CASE i \in DOMAIN x /\ r[i] = x[i] /\ j \in DOMAIN x /\ r[j] = x[j]
    BY <1>4, <2>1 DEF Queue
  <2>2. CASE /\ i - Len(x) \in DOMAIN q /\ r[i] = q[i - Len(x)]
             /\ j - Len(x) \in DOMAIN q /\ r[j] = q[j - Len(x)]
    <3>1. i - Len(x) = j - Len(x)
      BY <1>4, <2>2 DEF Queue
    <3> QED  BY <1>1, <3>1
  <2>3. CASE i \in DOMAIN x /\ r[i] = x[i] /\ j - Len(x) \in DOMAIN q /\ r[j] = q[j - Len(x)]
    BY <1>2, <1>4, <2>3
  <2>4. CASE j \in DOMAIN x /\ r[j] = x[j] /\ i - Len(x) \in DOMAIN q /\ r[i] = q[i - Len(x)]
    BY <1>2, <1>4, <2>4
  <2>5. /\ \/ i \in DOMAIN x /\ r[i] = x[i]
           \/ i - Len(x) \in DOMAIN q /\ r[i] = q[i - Len(x)]
        /\ \/ j \in DOMAIN x /\ r[j] = x[j]
           \/ j - Len(x) \in DOMAIN q /\ r[j] = q[j - Len(x)]
    BY <1>1
  <2> QED  BY <2>1, <2>2, <2>3, <2>4, <2>5
<1>5. ASSUME NEW i \in DOMAIN r, NEW j \in DOMAIN r,
             r[i].obj = r[j].obj, r[i].cb = "created", r[j].cb = "account"
      PROVE  i < j
  <2>1. CASE i \in DOMAIN x /\ r[i] = x[i] /\ j \in DOMAIN x /\ r[j] = x[j]
    BY <1>5, <2>1 DEF Queue
  <2>2. CASE /\ i - Len(x) \in DOMAIN q /\ r[i] = q[i - Len(x)]
             /\ j - Len(x) \in DOMAIN q /\ r[j] = q[j - Len(x)]
    <3>1. i - Len(x) < j - Len(x)
      BY <1>5, <2>2 DEF Queue
    <3> QED  BY <1>1, <3>1
  <2>3. CASE i \in DOMAIN x /\ r[i] = x[i] /\ j - Len(x) \in DOMAIN q /\ r[j] = q[j - Len(x)]
    BY <1>2, <1>5, <2>3
  <2>4. CASE j \in DOMAIN x /\ r[j] = x[j] /\ i - Len(x) \in DOMAIN q /\ r[i] = q[i - Len(x)]
    BY <1>2, <1>5, <2>4
  <2>5. /\ \/ i \in DOMAIN x /\ r[i] = x[i]
           \/ i - Len(x) \in DOMAIN q /\ r[i] = q[i - Len(x)]
        /\ \/ j \in DOMAIN x /\ r[j] = x[j]
           \/ j - Len(x) \in DOMAIN q /\ r[j] = q[j - Len(x)]
    BY <1>1
  <2> QED  BY <2>1, <2>2, <2>3, <2>4, <2>5
<1> QED  BY <1>1, <1>3, <1>4, <1>5 DEF Queue, r

-----------------------------------------------------------------------------
(* The objects.                                                             *)

(* The callbacks that wait are the elements of the queue.                   *)
LEMMA PendIs == \A m : Pend(m) = Elems(m.todo)
  BY DEF Pend, Elems

(* From m to r only the object o and the account n are another.             *)
Frame(m, r, o, n) ==
  /\ \A p \in Objs \ {o} : r.obj[p] = m.obj[p]
  /\ \A p \in Names \ {n} : r.hash[p] = m.hash[p] /\ r.s.cache[p] = m.s.cache[p]
  /\ \A c \in Callback : c.obj # o => (c \in Pend(r) <=> c \in Pend(m))
  /\ m.known \subseteq r.known
  /\ m.s.ag.state = "deleted" => r.s.ag.state = "deleted"

(* Two changes of the same object and name are one such change.             *)
LEMMA FrameTransitive ==
  ASSUME NEW m, NEW r, NEW x, NEW o, NEW n, Frame(m, r, o, n), Frame(r, x, o, n)
  PROVE  Frame(m, x, o, n)
  BY DEF Frame

(* n is the account of no object but o.                                     *)
Alone(m, o, n) == \A p \in Objs \ {o} : Lives(m, p) => m.obj[p].name # n

(* What has an account to itself, by Apiece.                                *)
LEMMA AloneIs ==
  ASSUME NEW m, NEW o \in Objs, Apiece(m), Lives(m, o) \/ Lingers(m, o)
  PROVE  Alone(m, o, m.obj[o].name)
  BY DEF Apiece, Alone

(* A handler that was about o and its account n.                            *)
LEMMA OneObject ==
  ASSUME NEW m \in McType, NEW r \in McType, NEW o \in Objs, NEW n \in Names, NEW g, NEW h,
         Objects(m, g), Frame(m, r, o, n), Alone(m, o, n),
         Alive(r, o), r.obj[o].name = n, Alive(m, o) => m.obj[o].name = n,
         Lives(r, o) /\ ~Lives(m, o) =>
           \A p \in Objs \ {o} : Lingers(m, p) => m.obj[p].name # n,
         r.hash[n] \in {None, o}, r.hash[n] = o => Lives(r, o),
         Queue(r.todo), Object(r, o), Managed(r, n) <=> Lives(r, o), Lock(r, h)
  PROVE  Objects(r, h)
<1>0. /\ \A c \in Pend(m) : c \in Callback
      /\ \A c \in Pend(r) : c \in Callback
      /\ \A c \in Callback : c.obj \in Objs
  BY PendIs, ElemsType, Callbacks DEF McType
<1>1. \A p \in Objs \ {o} : /\ Alive(r, p) <=> Alive(m, p)
                            /\ Lives(r, p) <=> Lives(m, p)
                            /\ Lingers(r, p) <=> Lingers(m, p)
                            /\ r.obj[p] = m.obj[p]
  BY DEF Frame, Alive, Lives, Lingers
<1>2. \A c \in Pend(r) : r.obj[c.obj].st # "none" /\ (c.cb # "account" => Alive(r, c.obj))
  <2> TAKE c \in Pend(r)
  <2>1. CASE c.obj = o
    BY <2>1 DEF Alive
  <2>2. CASE c.obj # o
    <3>1. c \in Pend(m) /\ c.obj \in Objs \ {o}
      BY <1>0, <2>2 DEF Frame
    <3>2. m.obj[c.obj].st # "none" /\ (c.cb # "account" => Alive(m, c.obj))
      BY <3>1 DEF Objects
    <3> QED  BY <1>1, <3>1, <3>2
  <2> QED  BY <2>1, <2>2
<1>3. ASSUME NEW p \in Objs \ {o}  PROVE Object(r, p)
  <2>1. Object(m, p)
    BY DEF Objects
  <2>2. /\ Acc(p) \in Pend(r) <=> Acc(p) \in Pend(m)
        /\ Cre(p) \in Pend(r) <=> Cre(p) \in Pend(m)
    <3>1. Acc(p) \in Callback /\ Cre(p) \in Callback /\ Acc(p).obj = p /\ Cre(p).obj = p
      BY Callbacks
    <3> QED  BY <3>1 DEF Frame
  <2>3. Lives(m, p) => m.obj[p].name \in Names \ {n}
    BY <2>1 DEF Object, Lives, Alone
  <2>4. Lives(m, p) => r.hash[m.obj[p].name] = m.hash[m.obj[p].name]
    BY <2>3 DEF Frame
  <2>5. m.s.ag.state = "deleted" => r.s.ag.state = "deleted"
    BY DEF Frame
  <2> QED  BY <1>1, <2>1, <2>2, <2>3, <2>4, <2>5 DEF Object
<1>4. ASSUME NEW p \in Names, r.hash[p] # None
      PROVE  Lives(r, r.hash[p]) /\ r.obj[r.hash[p]].name = p
  <2>1. CASE p = n
    BY <1>4, <2>1
  <2>2. CASE p # n
    <3>1. r.hash[p] = m.hash[p]
      BY <2>2 DEF Frame
    <3>2. Lives(m, m.hash[p]) /\ m.obj[m.hash[p]].name = p /\ m.hash[p] \in Objs
      BY <1>4, <3>1 DEF Objects, McType
    <3>3. m.hash[p] # o
      BY <2>2, <3>2 DEF Lives
    <3> QED  BY <1>1, <3>1, <3>2, <3>3
  <2> QED  BY <2>1, <2>2
<1>5. ASSUME NEW p \in Names
      PROVE  Managed(r, p) <=> \E x \in Objs : Lives(r, x) /\ r.obj[x].name = p
  <2>1. CASE p = n
    BY <1>1, <2>1 DEF Alone
  <2>2. CASE p # n
    <3>1. Managed(r, p) <=> Managed(m, p)
      BY <2>2 DEF Frame, Managed
    <3>2. Managed(m, p) <=> \E x \in Objs : Lives(m, x) /\ m.obj[x].name = p
      BY DEF Objects
    <3>3. \A x \in Objs : (Lives(m, x) /\ m.obj[x].name = p) <=> (Lives(r, x) /\ r.obj[x].name = p)
      <4> TAKE x \in Objs
      <4>1. CASE x = o
        BY <2>2, <4>1 DEF Lives
      <4>2. CASE x # o
        BY <1>1, <4>2
      <4> QED  BY <4>1, <4>2
    <3> QED  BY <3>1, <3>2, <3>3
  <2> QED  BY <2>1, <2>2
<1>6. Apiece(r)
  <2>1. ASSUME NEW x \in Objs, NEW y \in Objs, Lives(r, x), Lives(r, y), r.obj[x].name = r.obj[y].name
        PROVE  x = y
    <3>1. CASE x # o /\ y # o
      BY <1>1, <2>1, <3>1 DEF Objects, Apiece
    <3>2. CASE x = o \/ y = o
      BY <1>1, <2>1, <3>2 DEF Alone
    <3> QED  BY <3>1, <3>2
  <2>2. ASSUME NEW x \in Objs, NEW y \in Objs, Lingers(r, x), Lives(r, y)
        PROVE  r.obj[x].name # r.obj[y].name
    <3>1. CASE x # o /\ y # o
      BY <1>1, <2>2, <3>1 DEF Objects, Apiece
    <3>2. CASE x = o /\ y # o
      BY <1>1, <2>2, <3>2 DEF Alone
    <3>3. CASE x # o /\ y = o
      <4>1. Lingers(m, x) /\ r.obj[x].name = m.obj[x].name
        BY <1>1, <2>2, <3>3
      <4>2. CASE Lives(m, o)
        BY <2>2, <3>3, <4>1, <4>2 DEF Objects, Apiece, Lives
      <4>3. CASE ~Lives(m, o)
        BY <2>2, <3>3, <4>1, <4>3
      <4> QED  BY <4>2, <4>3
    <3>4. CASE x = o /\ y = o
      BY <2>2, <3>4 DEF Lingers, Lives
    <3> QED  BY <3>1, <3>2, <3>3, <3>4
  <2> QED  BY <2>1, <2>2 DEF Apiece
<1> QED  BY <1>2, <1>3, <1>4, <1>5, <1>6 DEF Objects

(* An object that a step is not about stays current.                        *)
LEMMA OthersCurrent ==
  ASSUME NEW m, NEW r, NEW o \in Objs, NEW n \in Names, NEW g, NEW p \in Objs \ {o},
         Frame(m, r, o, n), Alone(m, o, n), Object(m, p), Current(m, g, p)
  PROVE  Current(r, g, p)
<1> SUFFICES ASSUME Lives(r, p)  PROVE Current(r, g, p)
  BY DEF Current
<1>1. r.obj[p] = m.obj[p] /\ Lives(m, p)
  BY DEF Frame, Lives, Alive
<1>2. m.obj[p].name \in Names \ {n}
  BY <1>1 DEF Object, Lives, Alone
<1>3. r.s.cache[m.obj[p].name] = m.s.cache[m.obj[p].name]
  BY <1>2 DEF Frame
<1>4. Alt(p, "Enabled") \in Pend(r) <=> Alt(p, "Enabled") \in Pend(m)
  BY Callbacks DEF Frame
<1>5. \A whys : Knows(m.known, m.obj[p].name, whys) => Knows(r.known, m.obj[p].name, whys)
  BY DEF Frame, Knows
<1> QED  BY <1>1, <1>3, <1>4, <1>5 DEF Current

(* From m to r the objects are the same but for what they know, and wait    *)
(* for the same but for news.                                               *)
Shape(m, r) ==
  /\ \A p \in Objs :
       /\ r.obj[p].st = m.obj[p].st /\ r.obj[p].name = m.obj[p].name
       /\ r.obj[p].for = m.obj[p].for /\ r.obj[p].loaded = m.obj[p].loaded
       /\ r.obj[p].reg = m.obj[p].reg /\ r.obj[p].removed = m.obj[p].removed
       /\ r.obj[p].reply => m.obj[p].reply \/ m.obj[p].loaded
       /\ r.obj[p].timer => m.obj[p].timer \/ Alive(m, p)
  /\ r.hash = m.hash /\ r.lock = m.lock /\ r.onBus = m.onBus
  /\ Queue(r.todo)
  /\ \A c \in Pend(r) : c \in Pend(m) \/ (c.cb = "altered" /\ Alive(m, c.obj))
  /\ \A c \in Pend(m) : c \in Pend(r) \/ c.cb = "altered"
  /\ \A n \in Names : Managed(r, n) <=> Managed(m, n)
  /\ m.s.ag.state = "deleted" => r.s.ag.state = "deleted"

(* A step that keeps the shape of the objects keeps what is true of them.   *)
LEMMA ShapeKeeps ==
  ASSUME NEW m \in McType, NEW r \in McType, NEW g, Shape(m, r), Objects(m, g)
  PROVE  Objects(r, g)
<1>1. \A p \in Objs : /\ Alive(r, p) <=> Alive(m, p)
                      /\ Lives(r, p) <=> Lives(m, p)
                      /\ Lingers(r, p) <=> Lingers(m, p)
                      /\ r.obj[p].name = m.obj[p].name
                      /\ r.obj[p].st = m.obj[p].st
  BY DEF Shape, Alive, Lives, Lingers
<1>2. \A c \in Pend(r) : c.obj \in Objs
  BY PendIs, ElemsType, Callbacks DEF McType
<1>3. Setups(r) = Setups(m)
  BY <1>1 DEF Setups, Shape
<1>4. \A c \in Pend(r) : r.obj[c.obj].st # "none" /\ (c.cb # "account" => Alive(r, c.obj))
  <2> TAKE c \in Pend(r)
  <2>1. CASE c \in Pend(m)
    BY <1>1, <1>2, <2>1 DEF Objects
  <2>2. CASE c.cb = "altered" /\ Alive(m, c.obj)
    BY <1>1, <1>2, <2>2 DEF Alive
  <2> QED  BY <2>1, <2>2 DEF Shape
<1>5. ASSUME NEW p \in Objs  PROVE Object(r, p)
  <2>1. Object(m, p)
    BY DEF Objects
  <2>2. /\ r.obj[p].for = m.obj[p].for /\ r.obj[p].loaded = m.obj[p].loaded
        /\ r.obj[p].reg = m.obj[p].reg /\ r.obj[p].removed = m.obj[p].removed
        /\ r.obj[p].reply => m.obj[p].reply \/ m.obj[p].loaded
        /\ r.obj[p].timer => m.obj[p].timer \/ Alive(m, p)
        /\ r.hash = m.hash
        /\ m.s.ag.state = "deleted" => r.s.ag.state = "deleted"
    BY DEF Shape
  <2>3. /\ Acc(p) \in Pend(r) <=> Acc(p) \in Pend(m)
        /\ Cre(p) \in Pend(r) <=> Cre(p) \in Pend(m)
    BY Callbacks DEF Shape
  <2> QED  BY <1>1, <2>1, <2>2, <2>3 DEF Object
<1>6. \A n \in Names : r.hash[n] # None => Lives(r, r.hash[n]) /\ r.obj[r.hash[n]].name = n
  <2>1. \A n \in Names : r.hash[n] = m.hash[n] /\ m.hash[n] \in Objs \cup {None}
    BY DEF Shape, McType
  <2> QED  BY <1>1, <2>1 DEF Objects
<1>7. \A n \in Names : Managed(r, n) <=> \E o \in Objs : Lives(r, o) /\ r.obj[o].name = n
  <2>1. \A n \in Names : Managed(r, n) <=> Managed(m, n)
    BY DEF Shape
  <2> QED  BY <1>1, <2>1 DEF Objects
<1>8. Apiece(r)
  BY <1>1 DEF Objects, Apiece
<1>9. Lock(r, g)
  <2>1. /\ \A n \in Names : r.hash[n] = m.hash[n] /\ m.hash[n] \in Objs \cup {None}
        /\ \A p \in Objs : r.obj[p].for = m.obj[p].for /\ r.obj[p].loaded = m.obj[p].loaded
        /\ r.lock = m.lock /\ r.onBus = m.onBus
    BY DEF Shape, McType
  <2>2. \A n \in Names : r.hash[n] # None => r.obj[r.hash[n]].for = m.obj[m.hash[n]].for
    BY <2>1
  <2> QED  BY <1>3, <2>1, <2>2 DEF Objects, Lock
<1> QED  BY <1>4, <1>5, <1>6, <1>7, <1>8, <1>9 DEF Objects, Shape

(* ... or know the same as well.                                            *)
Unmoved(m, r) ==
  /\ Shape(m, r) /\ r.todo = m.todo
  /\ \A p \in Objs : r.obj[p].valid = m.obj[p].valid /\ r.obj[p].enabled = m.obj[p].enabled
  /\ \A n \in Names : \A k \in Keys \ {"token"} : r.s.cache[n].val[k] = m.s.cache[n].val[k]
  /\ m.known \subseteq r.known

(* A step that touches no object and none of the settings they know.        *)
LEMMA UnmovedKeeps ==
  ASSUME NEW m \in McType, NEW r \in McType, NEW g, Unmoved(m, r), Objects(m, g)
  PROVE  /\ Objects(r, g)
         /\ (\A o \in Objs : Current(m, g, o)) => \A o \in Objs : Current(r, g, o)
<1>1. Objects(r, g)
  BY ShapeKeeps DEF Unmoved
<1>2. ASSUME NEW p \in Objs, Current(m, g, p)  PROVE Current(r, g, p)
  <2> SUFFICES ASSUME Lives(r, p)  PROVE Current(r, g, p)
    BY DEF Current
  <2>1. m.obj[p].name \in Names /\ Lives(m, p) /\ r.obj[p].name = m.obj[p].name
    BY DEF Objects, Object, Lives, Alive, Unmoved, Shape
  <2>2. \A whys : Knows(m.known, m.obj[p].name, whys) => Knows(r.known, m.obj[p].name, whys)
    BY DEF Unmoved, Knows
  <2>3. /\ r.obj[p].loaded = m.obj[p].loaded /\ r.obj[p].valid = m.obj[p].valid
        /\ r.obj[p].enabled = m.obj[p].enabled
        /\ r.s.cache[m.obj[p].name].val["param"] = m.s.cache[m.obj[p].name].val["param"]
        /\ r.s.cache[m.obj[p].name].val["Enabled"] = m.s.cache[m.obj[p].name].val["Enabled"]
    BY <2>1 DEF Unmoved, Shape, Keys
  <2>4. Pend(r) = Pend(m)
    BY DEF Pend, Unmoved
  <2> QED  BY <1>2, <2>1, <2>2, <2>3, <2>4 DEF Current
<1> QED  BY <1>1, <1>2

(* mcd_account_manager_write_conf_async, field by field.                          *)
LEMMA WriteIs ==
  ASSUME NEW m \in McType
  PROVE  LET r == Write(m) IN
         /\ r \in McType /\ r.s = Commit(m.s, ~full) /\ r.failed = r.s.save
         /\ r.obj = m.obj /\ r.hash = m.hash /\ r.lock = m.lock /\ r.onBus = m.onBus
         /\ r.todo = m.todo /\ r.gone = m.gone /\ r.known = m.known
         /\ r.s.cache = m.s.cache /\ r.s.ag = m.s.ag
<1> DEFINE s == Commit(m.s, ~full)
<1>1. s \in StoreType /\ s.save \in BOOLEAN /\ s.cache = m.s.cache /\ s.ag = m.s.ag
  <2>1. m.s \in StoreType /\ (~full) \in BOOLEAN
    BY DEF McType
  <2>2. s \in StoreType /\ s.cache = m.s.cache /\ s.ag = m.s.ag
    BY <2>1, CommitIs
  <2> HIDE DEF s
  <2> QED  BY <2>2, StoreTypes
<1> HIDE DEF s
<1>2. Write(m) = [m EXCEPT !.s = s, !.failed = s.save]
  BY DEF Write, s
<1> QED  BY <1>1, <1>2 DEF McType, s

(* Writing restores that nothing is left to write but what is on its way.   *)
LEMMA WriteAwake ==
  ASSUME NEW m \in McType, NEW g, NEW e, Awake(m, g, e)
  PROVE  LET r == Write(m) IN r \in McType /\ Awake(r, g, e) /\ Synced(r.s, r.failed)
<1> DEFINE r == Write(m)
<1>1. /\ r \in McType /\ r.s = Commit(m.s, ~full) /\ r.failed = r.s.save
      /\ r.obj = m.obj /\ r.hash = m.hash /\ r.lock = m.lock /\ r.onBus = m.onBus
      /\ r.todo = m.todo /\ r.gone = m.gone /\ r.known = m.known
      /\ r.s.cache = m.s.cache /\ r.s.ag = m.s.ag
  BY WriteIs
<1> HIDE DEF r
<1>2. Unmoved(m, r)
  BY <1>1 DEF Unmoved, Shape, Awake, Objects, Pend, Managed
<1>3. Objects(r, g) /\ \A o \in Objs : Current(r, g, o)
  BY <1>1, <1>2, UnmovedKeeps DEF Awake
<1>4. Sound(r.s, r.known, r.gone, e) /\ Synced(r.s, r.failed)
  <2>1. m.s \in StoreType /\ (~full) \in BOOLEAN
    BY DEF McType
  <2> QED  BY <1>1, <2>1, CommitSound DEF Awake
<1> QED  BY <1>1, <1>3, <1>4 DEF Awake, r

-----------------------------------------------------------------------------
(* What handlers are made of.                                               *)

(* mcd_account_check_validity, field by field; a change is announced later. *)
LEMMA CheckValidityIs ==
  ASSUME NEW m \in McType, NEW o \in Objs
  PROVE  LET r == CheckValidity(m, o)
             ok == ParametersOk(m.s, m.obj[o].name) IN
         /\ r \in McType
         /\ r.obj = [m.obj EXCEPT ![o] = [m.obj[o] EXCEPT !.valid = ok,
                                                   !.timer = m.obj[o].timer \/ ok # m.obj[o].valid]]
         /\ r.s = m.s /\ r.hash = m.hash /\ r.lock = m.lock /\ r.onBus = m.onBus
         /\ r.todo = m.todo /\ r.gone = m.gone /\ r.known = m.known /\ r.failed = m.failed
<1> DEFINE ok == ParametersOk(m.s, m.obj[o].name)
           ob == [m.obj[o] EXCEPT !.valid = ok, !.timer = @ \/ ok # m.obj[o].valid]
<1>1. ok \in BOOLEAN
  BY DEF ParametersOk
<1> HIDE DEF ok
<1>2. m.obj[o] \in ObjType
  BY DEF McType
<1>3. ob \in ObjType
  BY <1>1, <1>2 DEF ObjType
<1> DEFINE obj == [m.obj EXCEPT ![o] = ob]
<1>4. CheckValidity(m, o) = [m EXCEPT !.obj = obj]
  BY <1>2 DEF CheckValidity, ok, ObjType, McType
<1> HIDE DEF ob
<1>5. obj \in [Objs -> ObjType]
  BY <1>3 DEF McType
<1> HIDE DEF obj
<1>6. /\ CheckValidity(m, o) \in McType /\ CheckValidity(m, o).obj = obj
      /\ CheckValidity(m, o).s = m.s /\ CheckValidity(m, o).hash = m.hash
      /\ CheckValidity(m, o).lock = m.lock /\ CheckValidity(m, o).onBus = m.onBus
      /\ CheckValidity(m, o).todo = m.todo /\ CheckValidity(m, o).gone = m.gone
      /\ CheckValidity(m, o).known = m.known /\ CheckValidity(m, o).failed = m.failed
  BY <1>4, <1>5 DEF McType
<1> QED  BY <1>6 DEF obj, ob, ok

(* _mcd_account_set_enabled, up to the write.                               *)
LEMMA SetEnabledIs ==
  ASSUME NEW m \in McType, NEW o \in Objs, NEW on \in BOOLEAN, NEW how \in {"stored", "cached"},
         m.obj[o].name \in Names
  PROVE  LET r == SetEnabled(m, o, on, how)
             n == m.obj[o].name IN
         /\ r \in McType
         /\ r.obj = [m.obj EXCEPT ![o] = [m.obj[o] EXCEPT !.enabled = on,
                                   !.timer = m.obj[o].timer \/ m.obj[o].enabled # on]]
         /\ r.s = IF how = "stored" \/ m.obj[o].enabled = on THEN m.s
                  ELSE SetAttribute(m.s, n, "Enabled", IF on THEN 2 ELSE 1)
         /\ r.hash = m.hash /\ r.lock = m.lock /\ r.onBus = m.onBus
         /\ r.todo = m.todo /\ r.gone = m.gone /\ r.known = m.known /\ r.failed = m.failed
<1> DEFINE n == m.obj[o].name
           v == IF on THEN 2 ELSE 1
           ob == [m.obj[o] EXCEPT !.enabled = on, !.timer = @ \/ m.obj[o].enabled # on]
           obj == [m.obj EXCEPT ![o] = ob]
           s == IF how = "stored" \/ m.obj[o].enabled = on THEN m.s
                ELSE SetAttribute(m.s, n, "Enabled", v)
           r == SetEnabled(m, o, on, how)
<1>1. m.obj[o] \in ObjType /\ m.obj \in [Objs -> ObjType] /\ m.s \in StoreType /\ v \in 0..2
  BY DEF McType
<1>2. ob \in ObjType
  BY <1>1 DEF ObjType
<1>3. s \in StoreType
  <2> HIDE DEF v
  <2>1. Sets(m.s, SetAttribute(m.s, n, "Enabled", v), n, "Enabled", v)
    BY <1>1, TheKeys, SetAttributeIs
  <2> QED  BY <1>1, <2>1 DEF Sets, Apart
<1>4. r = [m EXCEPT !.obj = obj, !.s = s]
  <2>1. CASE m.obj[o].enabled = on
    <3>1. ob = m.obj[o]
      BY <1>1, <2>1 DEF ObjType
    <3>2. obj = m.obj /\ s = m.s
      BY <1>1, <2>1, <3>1
    <3>3. r = m
      BY <2>1 DEF SetEnabled
    <3> HIDE DEF obj, s, r
    <3> QED  BY <3>2, <3>3 DEF McType
  <2>2. CASE m.obj[o].enabled # on
    <3>1. ob = [m.obj[o] EXCEPT !.enabled = on, !.timer = TRUE]
      BY <1>1, <2>2 DEF ObjType
    <3> DEFINE e == [m EXCEPT !.obj[o].enabled = on, !.obj[o].timer = TRUE]
    <3>2. e = [m EXCEPT !.obj = obj]
      BY <1>1, <3>1 DEF McType, ObjType
    <3>3. r = IF how = "stored" THEN e
              ELSE [e EXCEPT !.s = SetAttribute(@, n, "Enabled", v)]
      BY <2>2 DEF SetEnabled
    <3> HIDE DEF e, obj, r
    <3>4. e.s = m.s
      BY <3>2 DEF McType
    <3> QED  BY <2>2, <3>2, <3>3, <3>4 DEF McType
  <2> QED  BY <2>1, <2>2
<1> HIDE DEF ob, s, r
<1>5. obj \in [Objs -> ObjType]
  BY <1>1, <1>2
<1> HIDE DEF obj
<1>6. /\ r \in McType /\ r.obj = obj /\ r.s = s
      /\ r.hash = m.hash /\ r.lock = m.lock /\ r.onBus = m.onBus
      /\ r.todo = m.todo /\ r.gone = m.gone /\ r.known = m.known /\ r.failed = m.failed
  BY <1>3, <1>4, <1>5 DEF McType
<1> QED  BY <1>6 DEF obj, ob, s, r

(* _mcd_account_set_enabled with a write is one without, and a write.       *)
LEMMA SetEnabledWrites ==
  ASSUME NEW m \in McType, NEW o \in Objs, NEW on \in BOOLEAN, m.obj[o].enabled # on
  PROVE  SetEnabled(m, o, on, "written") = Write(SetEnabled(m, o, on, "cached"))
  BY DEF SetEnabled

(* on_account_removed: what has been deleted stays deleted.                 *)
LEMMA OnAccountRemovedIs ==
  ASSUME NEW m \in McType, NEW o \in Objs, NEW K, NEW G, NEW e, m.obj[o].name \in Names,
         Sound(m.s, K, G, e), Synced(m.s, m.failed), m.obj[o].name \in G,
         Owns(m.s, m.obj[o].name) => <<m.obj[o].name, "kept">> \in K,
         m.s.cache[m.obj[o].name] = NoEntry
  PROVE  LET r == OnAccountRemoved(m, o)
             n == m.obj[o].name IN
         /\ r \in McType
         /\ Sound(r.s, K, G, e) /\ Synced(r.s, r.failed)
         /\ r.s.cache = m.s.cache /\ r.s.ag = m.s.ag
         /\ r.hash = [m.hash EXCEPT ![n] = IF m.hash[n] = o THEN None ELSE m.hash[n]]
         /\ r.obj = m.obj /\ r.lock = m.lock /\ r.onBus = m.onBus
         /\ r.todo = m.todo /\ r.gone = m.gone /\ r.known = m.known
<1> DEFINE n == m.obj[o].name
           r == OnAccountRemoved(m, o)
           hash == [m.hash EXCEPT ![n] = IF m.hash[n] = o THEN None ELSE m.hash[n]]
<1>1. CASE m.hash[n] # o
  <2>1. hash = m.hash
    BY <1>1 DEF McType
  <2>2. r = m
    BY <1>1 DEF OnAccountRemoved
  <2> HIDE DEF hash, r
  <2>3. r.hash = hash
    BY <2>1, <2>2
  <2> QED  BY <2>2, <2>3 DEF hash, r
<1>2. CASE m.hash[n] = o
  <2> DEFINE s == DeleteAccount(m.s, n)
             a == [m EXCEPT !.hash = hash, !.s = s]
  <2>1. hash \in [Names -> Objs \cup {None}] /\ m.s \in StoreType
    BY DEF McType
  <2>2. s \in StoreType /\ Sound(s, K, G \cup {n}, e)
    <3>1. Common(m.s, K, e) /\ \A p \in Names \ {n} : Entry(m.s, K, G, e, p)
      BY DEF Sound
    <3> QED  BY <2>1, <3>1, DeleteSound
  <2>3. s.cache = [m.s.cache EXCEPT ![n] = NoEntry] /\ s.ag = m.s.ag
    BY <2>1, DeleteAccountIs
  <2>4. s.cache = m.s.cache
    BY <2>1, <2>3, StoreTypes
  <2>5. G \cup {n} = G
    OBVIOUS
  <2>6. r = Write(a)
    <3>1. hash = [m.hash EXCEPT ![n] = None]
      BY <1>2
    <3> QED  BY <1>2, <3>1 DEF OnAccountRemoved
  <2> HIDE DEF s, hash
  <2>7. /\ a \in McType /\ a.s = s /\ a.hash = hash
        /\ a.obj = m.obj /\ a.lock = m.lock /\ a.onBus = m.onBus
        /\ a.todo = m.todo /\ a.gone = m.gone /\ a.known = m.known
    BY <2>1, <2>2 DEF McType
  <2> HIDE DEF a
  <2>8. /\ r \in McType /\ r.s = Commit(s, ~full) /\ r.failed = r.s.save
        /\ r.obj = m.obj /\ r.hash = hash /\ r.lock = m.lock /\ r.onBus = m.onBus
        /\ r.todo = m.todo /\ r.gone = m.gone /\ r.known = m.known
        /\ r.s.cache = s.cache /\ r.s.ag = s.ag
    BY <2>6, <2>7, WriteIs
  <2>9. Sound(r.s, K, G, e) /\ Synced(r.s, r.s.save)
    <3>1. (~full) \in BOOLEAN
      OBVIOUS
    <3> QED  BY <2>2, <2>5, <2>8, <3>1, CommitSound
  <2> QED  BY <2>3, <2>4, <2>8, <2>9 DEF hash
<1> QED  BY <1>1, <1>2

(* mcd_account_delete, whatever the entry of the account was like.          *)
LEMMA McdAccountDeleteIs ==
  ASSUME NEW m \in McType, NEW o \in Objs, NEW e, m.obj[o].name \in Names,
         Common(m.s, m.known, e),
         \A p \in Names \ {m.obj[o].name} : Entry(m.s, m.known, m.gone, e, p)
  PROVE  LET r == McdAccountDelete(m, o)
             n == m.obj[o].name IN
         /\ r \in McType
         /\ Sound(r.s, r.known, r.gone, e) /\ Synced(r.s, r.failed)
         /\ r.s.cache = [m.s.cache EXCEPT ![n] = NoEntry] /\ r.s.ag = m.s.ag
         /\ r.obj = [m.obj EXCEPT ![o] = [m.obj[o] EXCEPT !.enabled = FALSE,
                       !.timer = m.obj[o].timer \/ m.obj[o].enabled # FALSE,
                       !.removed = TRUE, !.reg = FALSE]]
         /\ r.hash = [m.hash EXCEPT ![n] = IF m.hash[n] = o THEN None ELSE m.hash[n]]
         /\ r.lock = m.lock /\ r.onBus = m.onBus /\ r.todo = m.todo
         /\ m.known \subseteq r.known
<1> DEFINE n == m.obj[o].name
           off == SetEnabled(m, o, FALSE, "cached")
           s == DeleteAccount(off.s, n)
           a == [off EXCEPT !.s = DeleteAccount(@, n), !.obj[o].removed = TRUE]
           del == Write(a)
           b == OnAccountRemoved(del, o)
           K == IF Owns(m.s, n) THEN m.known \cup {<<n, "kept">>} ELSE m.known
           G == m.gone \cup {n}
           hash == [m.hash EXCEPT ![n] = IF m.hash[n] = o THEN None ELSE m.hash[n]]
           obj1 == [m.obj EXCEPT ![o] = [m.obj[o] EXCEPT !.enabled = FALSE,
                      !.timer = m.obj[o].timer \/ m.obj[o].enabled # FALSE]]
           obj2 == [m.obj EXCEPT ![o] = [m.obj[o] EXCEPT !.enabled = FALSE,
                      !.timer = m.obj[o].timer \/ m.obj[o].enabled # FALSE, !.removed = TRUE]]
           obj3 == [m.obj EXCEPT ![o] = [m.obj[o] EXCEPT !.enabled = FALSE,
                      !.timer = m.obj[o].timer \/ m.obj[o].enabled # FALSE,
                      !.removed = TRUE, !.reg = FALSE]]
<1>1. m.s \in StoreType /\ m.obj[o] \in ObjType /\ m.obj \in [Objs -> ObjType]
  BY DEF McType
<1>2. obj2 = [obj1 EXCEPT ![o] = [obj1[o] EXCEPT !.removed = TRUE]]
      /\ obj3 = [obj2 EXCEPT ![o] = [obj2[o] EXCEPT !.reg = FALSE]]
      /\ obj1 \in [Objs -> ObjType] /\ obj2 \in [Objs -> ObjType] /\ obj3 \in [Objs -> ObjType]
      /\ obj2[o].name = n
  BY <1>1 DEF ObjType
<1>3. /\ off \in McType /\ off.obj = obj1
      /\ off.s = IF m.obj[o].enabled = FALSE THEN m.s ELSE SetAttribute(m.s, n, "Enabled", 1)
      /\ off.hash = m.hash /\ off.lock = m.lock /\ off.onBus = m.onBus
      /\ off.todo = m.todo /\ off.gone = m.gone /\ off.known = m.known
  BY SetEnabledIs
<1>4. /\ Common(off.s, m.known, e)
      /\ \A p \in Names \ {n} : Entry(off.s, m.known, m.gone, e, p)
      /\ off.s.sso.name = m.s.sso.name /\ off.s \in StoreType /\ off.s.ag = m.s.ag
      /\ \A p \in Names \ {n} : off.s.cache[p] = m.s.cache[p]
  <2>1. CASE m.obj[o].enabled = FALSE
    <3>1. off.s = m.s
      BY <1>3, <2>1
    <3> HIDE DEF off
    <3> QED  BY <1>1, <3>1
  <2>2. CASE m.obj[o].enabled # FALSE
    <3>1. off.s = SetAttribute(m.s, n, "Enabled", 1)
      BY <1>3, <2>2
    <3>2. Sets(m.s, SetAttribute(m.s, n, "Enabled", 1), n, "Enabled", 1)
      BY <1>1, TheKeys, SetAttributeIs
    <3> HIDE DEF off
    <3>3. Apart(m.s, off.s, n)
      BY <3>1, <3>2 DEF Sets
    <3>4. Common(off.s, m.known, e) /\ \A p \in Names \ {n} : Entry(off.s, m.known, m.gone, e, p)
      BY <1>1, <3>3, ApartKeeps
    <3> QED  BY <3>3, <3>4 DEF Apart
  <2> QED  BY <2>1, <2>2
<1> HIDE DEF obj1, off
<1>5. a = [off EXCEPT !.s = s, !.obj = obj2]
  BY <1>2, <1>3 DEF McType
<1>6. s \in StoreType /\ Sound(s, K, G, e) /\ s.ag = m.s.ag /\ s.cache = [off.s.cache EXCEPT ![n] = NoEntry]
      /\ ~Owns(s, n)
  <2>1. K \subseteq (m.known \cup {<<n, "kept">>}) /\ m.known \subseteq K
        /\ \A p \in Names : <<p, "ghost">> \in K => <<p, "ghost">> \in m.known
    OBVIOUS
  <2>2. Owns(off.s, n) => <<n, "kept">> \in K
    BY <1>4 DEF Owns
  <2>3. s \in StoreType /\ Sound(s, K, G, e)
    <3> HIDE DEF K
    <3> QED  BY <1>4, <2>1, <2>2, DeleteSound
  <2>4. s.ag = off.s.ag /\ s.cache = [off.s.cache EXCEPT ![n] = NoEntry]
        /\ s.sso = IF Owns(off.s, n) THEN [off.s.sso EXCEPT !.name = None, !.dirty = {},
                                                            !.watch = FALSE, !.save = TRUE]
                   ELSE off.s.sso
    BY <1>4, DeleteAccountIs
  <2>5. ~Owns(s, n)
    <3> HIDE DEF s
    <3> QED  BY <1>4, <2>4, NotNone, StoreTypes DEF Owns, SsoType
  <2> QED  BY <1>4, <2>3, <2>4, <2>5
<1>7. s.cache = [m.s.cache EXCEPT ![n] = NoEntry] /\ s.cache[n] = NoEntry
  BY <1>1, <1>4, <1>6, StoreTypes
<1> HIDE DEF s, obj2
<1>8. /\ a \in McType /\ a.s = s /\ a.obj = obj2 /\ a.hash = m.hash
      /\ a.lock = m.lock /\ a.onBus = m.onBus
      /\ a.todo = m.todo /\ a.gone = m.gone /\ a.known = m.known
  BY <1>2, <1>3, <1>5, <1>6 DEF McType
<1> HIDE DEF a
<1>9. /\ del \in McType /\ del.s = Commit(s, ~full) /\ del.failed = del.s.save
      /\ del.obj = obj2 /\ del.hash = m.hash /\ del.lock = m.lock /\ del.onBus = m.onBus
      /\ del.todo = m.todo /\ del.gone = m.gone /\ del.known = m.known
      /\ del.s.cache = s.cache /\ del.s.ag = s.ag
  BY <1>8, WriteIs
<1> HIDE DEF del
<1>10. Sound(del.s, K, G, e) /\ Synced(del.s, del.s.save) /\ ~Owns(del.s, n)
  <2>1. (~full) \in BOOLEAN
    OBVIOUS
  <2>2. Sound(del.s, K, G, e) /\ Synced(del.s, del.s.save)
    <3> HIDE DEF K, G
    <3>1. s \in StoreType /\ Sound(s, K, G, e)
      BY <1>6
    <3>2. LET t == Commit(s, ~full) IN
          t \in StoreType /\ Sound(t, K, G, e) /\ Synced(t, t.save)
      BY <2>1, <3>1, CommitSound
    <3> QED  BY <1>9, <3>2
  <2>3. del.s.sso.name = s.sso.name
    <3>1. s \in StoreType
      BY <1>6
    <3>2. LET t == Commit(s, ~full) IN t.sso.name = s.sso.name
      BY <2>1, <3>1, CommitIs
    <3> QED  BY <1>9, <3>2
  <2> QED  BY <1>6, <2>2, <2>3 DEF Owns
<1> HIDE DEF K
<1>11. /\ b \in McType
       /\ Sound(b.s, K, G, e) /\ Synced(b.s, b.failed)
       /\ b.s.cache = del.s.cache /\ b.s.ag = del.s.ag /\ b.hash = hash
       /\ b.obj = obj2 /\ b.lock = m.lock /\ b.onBus = m.onBus
       /\ b.todo = m.todo /\ b.gone = m.gone /\ b.known = m.known
  <2>1. del.obj[o].name = n /\ n \in G
    BY <1>2, <1>9
  <2>2. del.s.cache[n] = NoEntry
    BY <1>7, <1>9
  <2>3. LET n1 == del.obj[o].name IN
        /\ b \in McType
        /\ Sound(b.s, K, G, e) /\ Synced(b.s, b.failed)
        /\ b.s.cache = del.s.cache /\ b.s.ag = del.s.ag
        /\ b.hash = [del.hash EXCEPT ![n1] = IF del.hash[n1] = o THEN None ELSE del.hash[n1]]
        /\ b.obj = del.obj /\ b.lock = del.lock /\ b.onBus = del.onBus
        /\ b.todo = del.todo /\ b.gone = del.gone /\ b.known = del.known
    <3> HIDE DEF b, G
    <3> QED  BY <1>9, <1>10, <2>1, <2>2, OnAccountRemovedIs DEF b
  <2> HIDE DEF b
  <2> QED  BY <1>9, <2>1, <2>3
<1> DEFINE r == [b EXCEPT !.obj = obj3, !.gone = G, !.known = K]
<1>12. McdAccountDelete(m, o) = r
  <2>1. McdAccountDelete(m, o) = [b EXCEPT !.obj[o].reg = FALSE, !.gone = @ \cup {n},
                                           !.known = IF Owns(m.s, n) THEN @ \cup {<<n, "kept">>} ELSE @]
    BY DEF McdAccountDelete, off, a, del
  <2> HIDE DEF b
  <2>2. K = IF Owns(m.s, n) THEN b.known \cup {<<n, "kept">>} ELSE b.known
    BY <1>11 DEF K
  <2>3. obj3 = [b.obj EXCEPT ![o] = [b.obj[o] EXCEPT !.reg = FALSE]]
    BY <1>2, <1>11
  <2>4. G = b.gone \cup {n}
    BY <1>11
  <2> HIDE DEF obj3, G
  <2> QED  BY <1>11, <2>1, <2>2, <2>3, <2>4 DEF McType
<1>13. K \subseteq (Names \X Why) /\ m.known \subseteq K /\ G \in SUBSET Names
  BY DEF K, McType, Why
<1> HIDE DEF b, obj3, G, hash
<1>14. /\ r \in McType /\ r.s = b.s /\ r.known = K /\ r.gone = G /\ r.failed = b.failed
       /\ r.obj = obj3 /\ r.hash = hash /\ r.lock = m.lock /\ r.onBus = m.onBus /\ r.todo = m.todo
  BY <1>2, <1>11, <1>13 DEF McType
<1> HIDE DEF r
<1>15. r.s.cache = [m.s.cache EXCEPT ![n] = NoEntry] /\ r.s.ag = m.s.ag
  BY <1>6, <1>7, <1>9, <1>11, <1>14
<1> QED  BY <1>11, <1>12, <1>13, <1>14, <1>15 DEF obj3, hash

(* What a setting that is stored leaves alone.                              *)
LEMMA SetsIs ==
  ASSUME NEW s \in StoreType, NEW t, NEW n \in Names, NEW k \in Keys, NEW v, Sets(s, t, n, k, v)
  PROVE  /\ t \in StoreType /\ t.ag = s.ag
         /\ \A p \in Names \ {n} : t.cache[p] = s.cache[p]
         /\ \A x \in Keys \ {k} : t.cache[n].val[x] = s.cache[n].val[x]
         /\ t.cache[n].val[k] = v
<1>1. s.cache[n].val \in Settled
  BY StoreTypes DEF EntryType
<1> QED  BY <1>1 DEF Sets, Apart, Settled

(* Only an account that has no entry is forgotten.                          *)
LEMMA ManagedExcused ==
  ASSUME NEW s, NEW K, NEW G, NEW e, NEW n \in Names, Sound(s, K, G, e),
         s.cache[n].val["manager"] # None
  PROVE  n \in G => Excused(K, n)
  BY Constants, TheKeys DEF Sound, Entry, Forgotten

(* The accounts of the setup that are not loaded yet can be counted.        *)
LEMMA SetupsFinite ==
  ASSUME NEW m
  PROVE  IsFiniteSet(Setups(m)) /\ Cardinality(Setups(m)) \in Nat /\ Setups(m) \subseteq Objs
<1>1. IsFiniteSet(Objs)
  BY BoundsAssumption, FS_Interval DEF Objs
<1>2. Setups(m) \in SUBSET Objs
  BY DEF Setups
<1> QED  BY <1>1, <1>2, FS_Subset, FS_CardinalityType

(* The account of an object that is to be loaded now, when b was before.    *)
Arrives(b, m, o, n, e) ==
  /\ b \in McType /\ m \in McType /\ Awake(b, mgr, e) /\ mgr # "unready"
  /\ Frame(b, m, o, n) /\ Alone(b, o, n)
  /\ Alive(b, o) => b.obj[o].name = n
  /\ Lives(m, o) /\ ~Lives(b, o) => \A p \in Objs \ {o} : Lingers(b, p) => b.obj[p].name # n
  /\ Alive(m, o) /\ m.obj[o].name = n /\ ~m.obj[o].loaded /\ ~m.obj[o].reply
  /\ Queue(m.todo) /\ Acc(o) \notin Pend(m) /\ Cre(o) \notin Pend(m)
  /\ m.hash[n] \in {None, o} /\ (m.hash[n] = o => Lives(m, o))
  /\ m.obj[o].removed => m.obj[o].for = "setup"
  /\ Managed(m, n) <=> Lives(m, o)
  /\ m.lock = Cardinality(Setups(m)) /\ m.lock <= Cardinality(Names)
  /\ Sound(m.s, m.known, m.gone, e) /\ Synced(m.s, m.failed)
  /\ Lives(m, o) => \/ m.obj[o].enabled = (m.s.cache[n].val["Enabled"] = 2)
                    \/ Knows(m.known, n, {"missed"})
                    \/ Alt(o, "Enabled") \in Pend(m) /\ m.s.cache[n].val["Enabled"] # None

(* It has been loaded if this is so afterwards.                             *)
LEMMA Arrived ==
  ASSUME NEW b, NEW m, NEW o \in Objs, NEW n \in Names, NEW e, Arrives(b, m, o, n, e),
         NEW r \in McType, Frame(m, r, o, n), Queue(r.todo),
         Acc(o) \notin Pend(r), Cre(o) \notin Pend(r),
         Alive(r, o), r.obj[o].name = n, r.obj[o].loaded, r.obj[o].reg,
         r.hash[n] \in {None, o}, r.hash[n] = o <=> Lives(r, o),
         Managed(r, n) <=> Lives(r, o), Lives(r, o) => Lives(m, o),
         r.lock = Cardinality(Setups(r)), r.lock <= m.lock,
         Sound(r.s, r.known, r.gone, e), Synced(r.s, r.failed), Current(r, mgr, o)
  PROVE  Awake(r, mgr, e)
<1>1. b \in McType /\ Frame(b, r, o, n) /\ Alone(b, o, n) /\ Objects(b, mgr)
  BY FrameTransitive DEF Arrives, Awake
<1>2. Object(r, o)
  BY DEF Object, Lives
<1>3. Lock(r, mgr)
  <2>1. m.lock \in Int /\ r.lock \in Int /\ Cardinality(Names) \in Nat
    BY NotNone, FS_CardinalityType DEF McType, Arrives
  <2> QED  BY <2>1 DEF Lock, Arrives
<1>4. Objects(r, mgr)
  <2>1. Lives(r, o) /\ ~Lives(b, o) => \A p \in Objs \ {o} : Lingers(b, p) => b.obj[p].name # n
    BY DEF Arrives
  <2>2. Alive(b, o) => b.obj[o].name = n
    BY DEF Arrives
  <2> QED  BY <1>1, <1>2, <1>3, <2>1, <2>2, OneObject
<1>5. ASSUME NEW p \in Objs  PROVE Current(r, mgr, p)
  <2>1. CASE p = o
    BY <2>1
  <2>2. CASE p # o
    <3>1. Object(b, p) /\ Current(b, mgr, p)
      BY DEF Arrives, Awake, Objects
    <3> QED  BY <1>1, <2>2, <3>1, OthersCurrent
  <2> QED  BY <2>1, <2>2
<1> QED  BY <1>4, <1>5 DEF Awake

-----------------------------------------------------------------------------
(* The callback of load_manager.                                            *)

(* on_manager_ready for an account that was there: it is loaded, on the     *)
(* bus, and its validity is known.                                          *)
LEMMA LoadedAs ==
  ASSUME NEW m \in McType, NEW o \in Objs, m.obj[o].for # "create"
  PROVE  LET r == OnManagerReady(m, o) IN
         /\ r \in McType
         /\ r.obj = [m.obj EXCEPT ![o] = [m.obj[o] EXCEPT !.loaded = TRUE, !.reg = TRUE,
                                            !.valid = ParametersOk(m.s, m.obj[o].name)]]
         /\ r.lock = IF m.obj[o].for = "setup" THEN m.lock - 1 ELSE m.lock
         /\ r.s = m.s /\ r.hash = m.hash /\ r.todo = m.todo
         /\ r.gone = m.gone /\ r.known = m.known /\ r.failed = m.failed
<1> DEFINE ok == ParametersOk(m.s, m.obj[o].name)
           obj == [m.obj EXCEPT ![o] = [m.obj[o] EXCEPT !.loaded = TRUE, !.reg = TRUE, !.valid = ok]]
           lock == IF m.obj[o].for = "setup" THEN m.lock - 1 ELSE m.lock
           onBus == m.onBus \/ m.obj[o].for = "created" \/ m.lock = 1
           r == OnManagerReady(m, o)
<1>1. ok \in BOOLEAN
  BY DEF ParametersOk
<1> HIDE DEF ok
<1>2. m.obj[o] \in ObjType /\ m.obj[o].for \in {"setup", "created"}
  BY DEF McType, ObjType
<1>3. obj \in [Objs -> ObjType]
  <2>1. [m.obj[o] EXCEPT !.loaded = TRUE, !.reg = TRUE, !.valid = ok] \in ObjType
    BY <1>1, <1>2 DEF ObjType
  <2> QED  BY <2>1 DEF McType
<1> DEFINE l == [m EXCEPT !.obj = [m.obj EXCEPT ![o] = [m.obj[o] EXCEPT !.loaded = TRUE, !.valid = ok]]]
<1>4. r = [(IF m.obj[o].for = "setup" THEN ReleaseLoadAccountsLock(l)
            ELSE [l EXCEPT !.onBus = TRUE]) EXCEPT !.obj[o].reg = TRUE]
  <2>1. l = [[m EXCEPT !.obj[o].valid = ok] EXCEPT !.obj[o].loaded = TRUE]
    BY <1>2 DEF McType, ObjType
  <2>2. [m EXCEPT !.obj[o].valid = ok].obj[o].for = m.obj[o].for
    BY <1>2 DEF McType, ObjType
  <2> DEFINE a == [m EXCEPT !.obj[o].valid = ok]
  <2>3. r = AccountLoaded(a, o)
    BY DEF OnManagerReady, ok
  <2> HIDE DEF l, r, a
  <2>4. CASE m.obj[o].for = "setup"
    <3>1. AccountLoaded(a, o) = [ReleaseLoadAccountsLock([a EXCEPT !.obj[o].loaded = TRUE])
                                 EXCEPT !.obj[o].reg = TRUE]
      BY <2>2, <2>4, Zenon DEF AccountLoaded, a
    <3> QED  BY <2>1, <2>3, <2>4, <3>1 DEF a
  <2>5. CASE m.obj[o].for = "created"
    BY <2>1, <2>2, <2>3, <2>5 DEF AccountLoaded, a
  <2> QED  BY <1>2, <2>4, <2>5
<1>5. l \in McType /\ l.obj = [m.obj EXCEPT ![o] = [m.obj[o] EXCEPT !.loaded = TRUE, !.valid = ok]]
      /\ l.lock = m.lock /\ l.onBus = m.onBus /\ l.s = m.s /\ l.hash = m.hash
      /\ l.todo = m.todo /\ l.gone = m.gone /\ l.known = m.known /\ l.failed = m.failed
  <2>1. [m.obj[o] EXCEPT !.loaded = TRUE, !.valid = ok] \in ObjType
    BY <1>1, <1>2 DEF ObjType
  <2>2. [m.obj EXCEPT ![o] = [m.obj[o] EXCEPT !.loaded = TRUE, !.valid = ok]] \in [Objs -> ObjType]
    BY <2>1 DEF McType
  <2> QED  BY <2>2 DEF McType
<1> HIDE DEF l
<1> DEFINE c == IF m.obj[o].for = "setup" THEN ReleaseLoadAccountsLock(l)
                ELSE [l EXCEPT !.onBus = TRUE]
<1>6. /\ c \in McType /\ c.obj = l.obj /\ c.lock = lock
      /\ c.s = m.s /\ c.hash = m.hash
      /\ c.todo = m.todo /\ c.gone = m.gone /\ c.known = m.known /\ c.failed = m.failed
  <2>1. CASE m.obj[o].for = "setup"
    <3> DEFINE bus == l.onBus \/ l.lock = 1
    <3>1. bus \in BOOLEAN
      BY <1>5 DEF McType
    <3>2. c = [l EXCEPT !.lock = l.lock - 1, !.onBus = bus]
      BY <1>5, <2>1 DEF ReleaseLoadAccountsLock, McType
    <3>3. l.lock - 1 \in Int
      BY <1>5 DEF McType
    <3> HIDE DEF bus, c
    <3> QED  BY <1>5, <2>1, <3>1, <3>2, <3>3 DEF McType, lock
  <2>2. CASE m.obj[o].for # "setup"
    BY <1>5, <2>2 DEF McType
  <2> QED  BY <2>1, <2>2
<1> HIDE DEF c, lock, onBus
<1>7. r = [c EXCEPT !.obj = obj]
  <2>1. [c.obj EXCEPT ![o].reg = TRUE] = obj
    <3> DEFINE x == [m.obj[o] EXCEPT !.loaded = TRUE, !.valid = ok]
    <3>1. [x EXCEPT !.reg = TRUE] = [m.obj[o] EXCEPT !.loaded = TRUE, !.reg = TRUE, !.valid = ok]
      BY <1>2 DEF ObjType
    <3>2. c.obj = [m.obj EXCEPT ![o] = x]
      BY <1>5, <1>6
    <3> HIDE DEF x
    <3>3. [c.obj EXCEPT ![o].reg = TRUE] = [m.obj EXCEPT ![o] = [x EXCEPT !.reg = TRUE]]
      BY <3>2 DEF McType
    <3> QED  BY <3>1, <3>3
  <2> HIDE DEF obj
  <2> QED  BY <1>4, <2>1 DEF c
<1> HIDE DEF obj, r
<1> QED  BY <1>3, <1>6, <1>7 DEF McType, obj, ok, lock, r

(* It is current then, and the rest as it was.                              *)
LEMMA ArrivesReady ==
  ASSUME NEW b, NEW m, NEW o \in Objs, NEW n \in Names, NEW e, Arrives(b, m, o, n, e),
         m.obj[o].for # "create", m.hash[n] = o <=> Lives(m, o)
  PROVE  LET r == OnManagerReady(m, o) IN
         r \in McType /\ Awake(r, mgr, e) /\ Synced(r.s, r.failed)
<1> DEFINE r == OnManagerReady(m, o)
           ob == [m.obj[o] EXCEPT !.loaded = TRUE, !.reg = TRUE, !.valid = ParametersOk(m.s, n)]
           lock == IF m.obj[o].for = "setup" THEN m.lock - 1 ELSE m.lock
<1>1. m \in McType /\ m.obj[o].name = n /\ Alive(m, o) /\ ~m.obj[o].loaded
  BY DEF Arrives
<1>2. /\ r \in McType /\ r.obj = [m.obj EXCEPT ![o] = ob] /\ r.lock = lock
      /\ r.s = m.s /\ r.hash = m.hash /\ r.todo = m.todo
      /\ r.gone = m.gone /\ r.known = m.known /\ r.failed = m.failed
  BY <1>1, LoadedAs
<1> HIDE DEF r
<1>3. m.obj[o] \in ObjType /\ m.obj \in [Objs -> ObjType]
  BY <1>1 DEF McType
<1>4. /\ ob.st = m.obj[o].st /\ ob.name = m.obj[o].name /\ ob.removed = m.obj[o].removed
      /\ ob.loaded /\ ob.reg /\ ob.enabled = m.obj[o].enabled /\ ob.for = m.obj[o].for
      /\ ob.valid = ParametersOk(m.s, n)
  BY <1>3 DEF ObjType
<1> HIDE DEF ob
<1>5. r.obj[o] = ob /\ \A p \in Objs \ {o} : r.obj[p] = m.obj[p]
  BY <1>2, <1>3
<1>6. Frame(m, r, o, n)
  BY <1>2, <1>5 DEF Frame, Pend
<1>7. Queue(r.todo) /\ Acc(o) \notin Pend(r) /\ Cre(o) \notin Pend(r)
  BY <1>2 DEF Arrives, Pend
<1>8. Alive(r, o) /\ r.obj[o].name = n /\ r.obj[o].loaded /\ r.obj[o].reg
      /\ (Lives(r, o) <=> Lives(m, o))
  BY <1>1, <1>4, <1>5 DEF Alive, Lives
<1>9. /\ r.hash[n] \in {None, o}
      /\ r.hash[n] = o <=> Lives(r, o)
      /\ Managed(r, n) <=> Lives(r, o)
  BY <1>2, <1>8 DEF Arrives, Managed
<1>10. r.lock = Cardinality(Setups(r)) /\ r.lock <= m.lock
  <2>1. m.lock = Cardinality(Setups(m)) /\ m.lock \in Int
    BY <1>1 DEF Arrives, McType
  <2>2. CASE m.obj[o].for = "setup"
    <3>1. o \in Setups(m) /\ Setups(r) = Setups(m) \ {o}
      BY <1>1, <1>4, <1>5, <2>2 DEF Setups, Alive
    <3>2. Cardinality(Setups(r)) = Cardinality(Setups(m)) - 1
      BY <3>1, SetupsFinite, FS_RemoveElement
    <3> QED  BY <1>2, <2>1, <2>2, <3>2
  <2>3. CASE m.obj[o].for # "setup"
    <3>1. Setups(r) = Setups(m)
      BY <1>1, <1>4, <1>5, <2>3 DEF Setups, Alive
    <3> QED  BY <1>2, <2>1, <2>3, <3>1
  <2> QED  BY <2>2, <2>3
<1>11. Sound(r.s, r.known, r.gone, e) /\ Synced(r.s, r.failed)
  BY <1>2 DEF Arrives
<1>12. Current(r, mgr, o)
  <2>1. r.obj[o].valid = (mgr = "ready" /\ r.s.cache[n].val["param"] # None)
    BY <1>2, <1>4, <1>5 DEF ParametersOk
  <2>2. Lives(r, o) => \/ r.obj[o].enabled = (r.s.cache[n].val["Enabled"] = 2)
                       \/ Knows(r.known, n, {"missed"})
                       \/ Alt(o, "Enabled") \in Pend(r) /\ r.s.cache[n].val["Enabled"] # None
    BY <1>2, <1>4, <1>5, <1>8 DEF Arrives, Pend
  <2> QED  BY <1>8, <2>1, <2>2 DEF Current
<1>13. Awake(r, mgr, e)
  BY <1>2, <1>6, <1>7, <1>8, <1>9, <1>10, <1>11, <1>12, Arrived
<1> QED  BY <1>2, <1>11, <1>13 DEF r

(* The end of complete_account_creation, when x is to be written.           *)
LEMMA Completed ==
  ASSUME NEW b, NEW m, NEW o \in Objs, NEW n \in Names, NEW e, Arrives(b, m, o, n, e),
         m.obj[o].for = "create",
         NEW x \in McType, Frame(m, x, o, n), x.todo = m.todo, x.lock = m.lock,
         Alive(x, o), x.obj[o].name = n, x.obj[o].for = "create", x.obj[o].loaded,
         x.hash[n] \in {None, o}, x.hash[n] = o <=> Lives(x, o),
         Managed(x, n) <=> Lives(x, o), Lives(x, o) => Lives(m, o),
         Sound(x.s, x.known, x.gone, e),
         Lives(x, o) => /\ x.obj[o].valid = ParametersOk(x.s, n)
                        /\ x.obj[o].enabled = m.obj[o].enabled
                        /\ x.s.cache[n].val["Enabled"] = m.s.cache[n].val["Enabled"]
  PROVE  LET r == [Write(x) EXCEPT !.obj[o].reg = TRUE] IN
         r \in McType /\ Awake(r, mgr, e) /\ Synced(r.s, r.failed)
<1> DEFINE w == Write(x)
           r == [w EXCEPT !.obj[o].reg = TRUE]
           ob == [x.obj[o] EXCEPT !.reg = TRUE]
           obj == [x.obj EXCEPT ![o] = ob]
<1>1. /\ w \in McType /\ w.s = Commit(x.s, ~full) /\ w.failed = w.s.save
      /\ w.obj = x.obj /\ w.hash = x.hash /\ w.lock = x.lock
      /\ w.todo = x.todo /\ w.gone = x.gone /\ w.known = x.known
      /\ w.s.cache = x.s.cache /\ w.s.ag = x.s.ag
  BY WriteIs
<1> HIDE DEF w
<1>2. x.obj[o] \in ObjType /\ x.obj \in [Objs -> ObjType] /\ x.s \in StoreType
  BY DEF McType
<1>3. /\ ob \in ObjType /\ ob.st = x.obj[o].st /\ ob.name = x.obj[o].name
      /\ ob.removed = x.obj[o].removed /\ ob.loaded = x.obj[o].loaded /\ ob.reg
      /\ ob.enabled = x.obj[o].enabled /\ ob.for = x.obj[o].for /\ ob.valid = x.obj[o].valid
  BY <1>2 DEF ObjType
<1>4. r = [w EXCEPT !.obj = obj]
  BY <1>1, <1>2 DEF McType
<1> HIDE DEF ob, r
<1>5. obj \in [Objs -> ObjType] /\ obj[o] = ob /\ \A p \in Objs \ {o} : obj[p] = x.obj[p]
  BY <1>2, <1>3
<1> HIDE DEF obj
<1>6. /\ r \in McType /\ r.s = w.s /\ r.failed = w.failed
      /\ r.obj = obj /\ r.hash = x.hash /\ r.lock = x.lock
      /\ r.todo = x.todo /\ r.gone = x.gone /\ r.known = x.known
  BY <1>1, <1>4, <1>5 DEF McType
<1> HIDE DEF r
<1>7. Frame(m, r, o, n)
  BY <1>1, <1>5, <1>6 DEF Frame, Pend
<1>8. Queue(r.todo) /\ Acc(o) \notin Pend(r) /\ Cre(o) \notin Pend(r)
  BY <1>6 DEF Arrives, Pend
<1>9. Alive(r, o) /\ r.obj[o].name = n /\ r.obj[o].loaded /\ r.obj[o].reg
      /\ (Lives(r, o) <=> Lives(x, o))
  BY <1>3, <1>5, <1>6 DEF Alive, Lives
<1>10. /\ r.hash[n] \in {None, o}
       /\ r.hash[n] = o <=> Lives(r, o)
       /\ Managed(r, n) <=> Lives(r, o)
  BY <1>1, <1>6, <1>9 DEF Managed
<1>11. r.lock = Cardinality(Setups(r)) /\ r.lock <= m.lock
  <2>1. Setups(r) = Setups(m)
    BY <1>3, <1>5, <1>6 DEF Setups, Alive, Frame
  <2>2. m.lock \in Int /\ m.lock = Cardinality(Setups(m))
    BY DEF Arrives, McType
  <2> QED  BY <1>6, <2>1, <2>2
<1>12. Sound(r.s, r.known, r.gone, e) /\ Synced(r.s, r.failed)
  <2>1. (~full) \in BOOLEAN
    OBVIOUS
  <2>2. LET t == Commit(x.s, ~full) IN
        t \in StoreType /\ Sound(t, x.known, x.gone, e) /\ Synced(t, t.save)
    BY <1>2, <2>1, CommitSound
  <2> QED  BY <1>1, <1>6, <2>2
<1>13. Current(r, mgr, o)
  <2>1. Lives(x, o) => r.obj[o].valid = (mgr = "ready" /\ r.s.cache[n].val["param"] # None)
    BY <1>1, <1>3, <1>5, <1>6 DEF ParametersOk
  <2>2. Lives(x, o) => \/ r.obj[o].enabled = (r.s.cache[n].val["Enabled"] = 2)
                       \/ Knows(r.known, n, {"missed"})
                       \/ Alt(o, "Enabled") \in Pend(r) /\ r.s.cache[n].val["Enabled"] # None
    <3>1. Lives(x, o) => \/ m.obj[o].enabled = (m.s.cache[n].val["Enabled"] = 2)
                         \/ Knows(m.known, n, {"missed"})
                         \/ Alt(o, "Enabled") \in Pend(m) /\ m.s.cache[n].val["Enabled"] # None
      BY DEF Arrives
    <3>2. m.known \subseteq r.known /\ Pend(r) = Pend(m)
      BY <1>6 DEF Frame, Pend
    <3>3. r.obj[o].enabled = x.obj[o].enabled /\ r.s.cache = x.s.cache
      BY <1>1, <1>3, <1>5, <1>6
    <3>4. Lives(x, o) => /\ r.obj[o].enabled = m.obj[o].enabled
                         /\ r.s.cache[n].val["Enabled"] = m.s.cache[n].val["Enabled"]
      BY <3>3
    <3>5. Knows(m.known, n, {"missed"}) => Knows(r.known, n, {"missed"})
      BY <3>2 DEF Knows
    <3> QED  BY <3>1, <3>2, <3>4, <3>5
  <2> QED  BY <1>9, <2>1, <2>2 DEF Current
<1>14. Awake(r, mgr, e)
  BY <1>6, <1>7, <1>8, <1>9, <1>10, <1>11, <1>12, <1>13, Arrived
<1> QED  BY <1>6, <1>12, <1>14 DEF r, w

(* ... when the account is deleted.                                         *)
LEMMA CompletedDeleting ==
  ASSUME NEW b, NEW m, NEW o \in Objs, NEW n \in Names, NEW e, Arrives(b, m, o, n, e),
         m.obj[o].for = "create",
         NEW l \in McType, Frame(m, l, o, n), l.todo = m.todo, l.lock = m.lock,
         Alive(l, o), l.obj[o].name = n, l.obj[o].for = "create", l.obj[o].loaded,
         l.hash[n] \in {None, o}, Sound(l.s, l.known, l.gone, e)
  PROVE  LET r == [Write(McdAccountDelete(l, o)) EXCEPT !.obj[o].reg = TRUE] IN
         r \in McType /\ Awake(r, mgr, e) /\ Synced(r.s, r.failed)
<1> DEFINE x == McdAccountDelete(l, o)
           ob == [l.obj[o] EXCEPT !.enabled = FALSE,
                       !.timer = l.obj[o].timer \/ l.obj[o].enabled # FALSE,
                       !.removed = TRUE, !.reg = FALSE]
<1>1. Common(l.s, l.known, e) /\ \A p \in Names \ {n} : Entry(l.s, l.known, l.gone, e, p)
  BY DEF Sound
<1>2. /\ x \in McType
      /\ Sound(x.s, x.known, x.gone, e)
      /\ x.s.cache = [l.s.cache EXCEPT ![n] = NoEntry] /\ x.s.ag = l.s.ag
      /\ x.obj = [l.obj EXCEPT ![o] = ob]
      /\ x.hash = [l.hash EXCEPT ![n] = IF l.hash[n] = o THEN None ELSE l.hash[n]]
      /\ x.lock = l.lock /\ x.onBus = l.onBus /\ x.todo = l.todo
      /\ l.known \subseteq x.known
  <2>1. l.obj[o].name \in Names /\ \A p \in Names \ {l.obj[o].name} : Entry(l.s, l.known, l.gone, e, p)
    BY <1>1
  <2> HIDE DEF x, ob
  <2>2. LET r == McdAccountDelete(l, o)
            q == l.obj[o].name IN
        /\ r \in McType
        /\ Sound(r.s, r.known, r.gone, e) /\ Synced(r.s, r.failed)
        /\ r.s.cache = [l.s.cache EXCEPT ![q] = NoEntry] /\ r.s.ag = l.s.ag
        /\ r.obj = [l.obj EXCEPT ![o] = ob]
        /\ r.hash = [l.hash EXCEPT ![q] = IF l.hash[q] = o THEN None ELSE l.hash[q]]
        /\ r.lock = l.lock /\ r.onBus = l.onBus /\ r.todo = l.todo
        /\ l.known \subseteq r.known
    BY <1>1, <2>1, McdAccountDeleteIs DEF ob
  <2> QED  BY <2>2 DEF x
<1> HIDE DEF x
<1>3. l.obj[o] \in ObjType /\ l.obj \in [Objs -> ObjType]
      /\ l.hash \in [Names -> Objs \cup {None}] /\ l.s.cache \in [Names -> EntryType]
  BY StoreTypes DEF McType
<1>4. ob.st = l.obj[o].st /\ ob.name = n /\ ob.for = "create" /\ ob.loaded /\ ob.removed
  BY <1>3 DEF ObjType
<1> HIDE DEF ob
<1>5. x.obj[o] = ob /\ \A p \in Objs \ {o} : x.obj[p] = l.obj[p]
  BY <1>2, <1>3
<1>6. Frame(m, x, o, n)
  <2>1. Frame(l, x, o, n)
    BY <1>2, <1>3, <1>5 DEF Frame, Pend
  <2> QED  BY <2>1, FrameTransitive
<1>7. ~Lives(x, o) /\ Alive(x, o)
  BY <1>4, <1>5 DEF Lives, Alive
<1>8. x.hash[n] = None /\ None # o
  <2>1. None # o
    BY DEF None, Objs
  <2> QED  BY <1>2, <1>3, <2>1
<1>9. ~Managed(x, n)
  <2>1. x.s.cache[n] = NoEntry
    BY <1>2, <1>3
  <2> QED  BY <2>1, Constants, TheKeys DEF Managed, NoEntry
<1>10. x.todo = m.todo /\ x.lock = m.lock
  BY <1>2
<1>11. x.obj[o].name = n /\ x.obj[o].for = "create" /\ x.obj[o].loaded
  BY <1>4, <1>5
<1> QED
  BY <1>2, <1>6, <1>7, <1>8, <1>9, <1>10, <1>11, Completed DEF x

(* The same for one that CreateAccount made, which is kept or removed       *)
(* again.                                                                   *)
LEMMA ArrivesCreated ==
  ASSUME NEW b, NEW m, NEW o \in Objs, NEW n \in Names, NEW e, Arrives(b, m, o, n, e),
         m.obj[o].for = "create"
  PROVE  LET r == OnManagerReady(m, o) IN
         r \in McType /\ Awake(r, mgr, e) /\ Synced(r.s, r.failed)
<1> DEFINE ok == ParametersOk(m.s, n)
           lob == [m.obj[o] EXCEPT !.loaded = TRUE, !.valid = ok]
           l == [m EXCEPT !.obj = [m.obj EXCEPT ![o] = lob]]
           s == IF m.obj[o].given = None THEN m.s ELSE SetParameter(m.s, n, m.obj[o].given)
           a == [l EXCEPT !.s = s]
           set == CheckValidity(a, o)
           added == AddAccount(set, o)
           x == IF mgr = "failed" THEN McdAccountDelete(l, o)
                ELSE IF ~set.obj[o].valid THEN McdAccountDelete(added, o) ELSE added
           r == OnManagerReady(m, o)
<1>1. m \in McType /\ m.obj[o].name = n /\ Alive(m, o) /\ ~m.obj[o].removed /\ Lives(m, o)
      /\ Managed(m, n) /\ m.hash[n] \in {None, o} /\ Sound(m.s, m.known, m.gone, e)
  BY DEF Arrives, Lives
<1>2. m.obj[o] \in ObjType /\ m.obj \in [Objs -> ObjType] /\ m.s \in StoreType
      /\ m.obj[o].given \in {None, 1} /\ m.hash \in [Names -> Objs \cup {None}]
  BY <1>1 DEF McType, ObjType
<1>3. ok \in BOOLEAN
  BY DEF ParametersOk
<1> HIDE DEF ok
<1>4. lob \in ObjType /\ lob.st = "live" /\ lob.name = n /\ lob.for = "create" /\ lob.loaded
      /\ ~lob.removed /\ lob.valid = ok /\ lob.enabled = m.obj[o].enabled
      /\ lob.given = m.obj[o].given
  BY <1>1, <1>2, <1>3 DEF ObjType, Alive
<1>5. r = [Write(x) EXCEPT !.obj[o].reg = TRUE]
  <2> DEFINE c == [[m EXCEPT !.obj[o].valid = ok] EXCEPT !.obj[o].loaded = TRUE]
  <2>1. c = l
    BY <1>2 DEF McType, ObjType
  <2>2. [m EXCEPT !.obj[o].valid = ok].obj[o].for = "create"
    BY <1>2 DEF McType, ObjType
  <2>3. r = [CompleteAccountCreation(c, o) EXCEPT !.obj[o].reg = TRUE]
    BY <1>1, <2>2, Zenon DEF OnManagerReady, AccountLoaded, ok
  <2> HIDE DEF c
  <2>4. l.obj[o].name = n /\ l.obj[o].given = m.obj[o].given /\ l.s = m.s
    <3> HIDE DEF lob
    <3> QED  BY <1>1, <1>2, <1>4 DEF McType
  <2> HIDE DEF l
  <2>5. CompleteAccountCreation(l, o) = Write(x)
    BY <2>4, Zenon DEF CompleteAccountCreation
  <2> QED  BY <2>1, <2>3, <2>5
<1> HIDE DEF lob
<1>6. /\ l \in McType /\ l.obj = [m.obj EXCEPT ![o] = lob]
      /\ l.s = m.s /\ l.hash = m.hash /\ l.lock = m.lock /\ l.todo = m.todo
      /\ l.gone = m.gone /\ l.known = m.known /\ l.failed = m.failed
  <2>1. [m.obj EXCEPT ![o] = lob] \in [Objs -> ObjType]
    BY <1>2, <1>4
  <2> QED  BY <1>1, <2>1 DEF McType
<1> HIDE DEF l
<1>7. l.obj[o] = lob /\ \A p \in Objs \ {o} : l.obj[p] = m.obj[p]
  BY <1>2, <1>6
<1>8. Frame(m, l, o, n)
  BY <1>6, <1>7 DEF Frame, Pend
<1>9. Alive(l, o) /\ l.obj[o].name = n /\ l.obj[o].for = "create" /\ l.obj[o].loaded
  BY <1>4, <1>7 DEF Alive
<1>10. /\ s \in StoreType /\ Sound(s, m.known, m.gone, e) /\ s.ag = m.s.ag
       /\ \A p \in Names \ {n} : s.cache[p] = m.s.cache[p]
       /\ \A k \in Keys \ {"param"} : s.cache[n].val[k] = m.s.cache[n].val[k]
  <2>1. CASE m.obj[o].given = None
    BY <1>1, <1>2, <2>1
  <2>2. CASE m.obj[o].given = 1
    <3> DEFINE t == SetParameter(m.s, n, 1)
    <3>1. Sets(m.s, t, n, "param", 1)
      BY <1>2, SetParameterIs
    <3> HIDE DEF t
    <3>2. n \in m.gone => Excused(m.known, n)
      BY <1>1, ManagedExcused DEF Managed
    <3>0. 1 \in 0..2 /\ "param" \in Keys /\ "param" # "manager" /\ "param" # "Enabled"
      BY TheKeys
    <3>3. t \in StoreType /\ Sound(t, m.known, m.gone, e)
      BY <3>0, <1>1, <1>2, <3>1, <3>2, SetsSound
    <3>4. /\ t.ag = m.s.ag
          /\ \A p \in Names \ {n} : t.cache[p] = m.s.cache[p]
          /\ \A k \in Keys \ {"param"} : t.cache[n].val[k] = m.s.cache[n].val[k]
      <4>1. m.s \in StoreType /\ "param" \in Keys
        BY <1>2, <3>0
      <4>2. t.ag = m.s.ag
        BY <3>1, <4>1, SetsIs
      <4>3. \A p \in Names \ {n} : t.cache[p] = m.s.cache[p]
        BY <3>1, <4>1, SetsIs
      <4>4. \A k \in Keys \ {"param"} : t.cache[n].val[k] = m.s.cache[n].val[k]
        BY <3>1, <4>1, SetsIs
      <4> QED  BY <4>2, <4>3, <4>4
    <3>5. s = t
      BY <2>2 DEF t, None
    <3> QED  BY <3>3, <3>4, <3>5
  <2> QED  BY <1>2, <2>1, <2>2
<1> HIDE DEF s
<1>11. /\ a \in McType /\ a.s = s /\ a.obj = l.obj /\ a.hash = m.hash /\ a.lock = m.lock
       /\ a.todo = m.todo /\ a.gone = m.gone /\ a.known = m.known
  BY <1>6, <1>10 DEF McType
<1> HIDE DEF a
<1> DEFINE ok2 == ParametersOk(s, n)
           sob == [lob EXCEPT !.valid = ok2, !.timer = lob.timer \/ ok2 # lob.valid]
<1>12. /\ set \in McType /\ set.obj = [l.obj EXCEPT ![o] = sob]
       /\ set.s = s /\ set.hash = m.hash /\ set.lock = m.lock
       /\ set.todo = m.todo /\ set.gone = m.gone /\ set.known = m.known
  <2>1. a.obj[o] = lob /\ a.obj[o].name = n
    BY <1>4, <1>7, <1>11
  <2> HIDE DEF set
  <2>2. LET t == CheckValidity(a, o)
            ok1 == ParametersOk(a.s, a.obj[o].name) IN
        /\ t \in McType
        /\ t.obj = [a.obj EXCEPT ![o] = [a.obj[o] EXCEPT !.valid = ok1,
                                             !.timer = a.obj[o].timer \/ ok1 # a.obj[o].valid]]
        /\ t.s = a.s /\ t.hash = a.hash /\ t.lock = a.lock /\ t.onBus = a.onBus
        /\ t.todo = a.todo /\ t.gone = a.gone /\ t.known = a.known /\ t.failed = a.failed
    BY <1>11, CheckValidityIs
  <2> QED  BY <1>11, <2>1, <2>2 DEF set
<1> HIDE DEF set
<1>13. ok2 \in BOOLEAN
  BY DEF ParametersOk
<1> HIDE DEF ok2
<1>14. sob.st = "live" /\ sob.name = n /\ sob.for = "create" /\ sob.loaded
       /\ ~sob.removed /\ sob.valid = ok2 /\ sob.enabled = m.obj[o].enabled
  BY <1>4, <1>13 DEF ObjType
<1> HIDE DEF sob
<1>15. set.obj[o] = sob /\ \A p \in Objs \ {o} : set.obj[p] = m.obj[p]
  BY <1>6, <1>7, <1>12 DEF McType
<1>16. added = [set EXCEPT !.hash = [m.hash EXCEPT ![n] = o]]
  BY <1>12, <1>14, <1>15 DEF AddAccount, McType
<1> HIDE DEF added
<1>17. /\ added \in McType /\ added.obj = set.obj
       /\ added.s = s /\ added.hash = [m.hash EXCEPT ![n] = o] /\ added.lock = m.lock
       /\ added.todo = m.todo /\ added.gone = m.gone /\ added.known = m.known
  <2>1. [m.hash EXCEPT ![n] = o] \in [Names -> Objs \cup {None}]
    BY <1>2
  <2> QED  BY <1>12, <1>16, <2>1 DEF McType
<1>18. added.hash[n] = o /\ \A p \in Names \ {n} : added.hash[p] = m.hash[p]
  BY <1>2, <1>17
<1>19. Frame(m, added, o, n)
  BY <1>10, <1>15, <1>17, <1>18 DEF Frame, Pend
<1>20. Alive(added, o) /\ added.obj[o].name = n /\ added.obj[o].for = "create"
       /\ added.obj[o].loaded /\ Lives(added, o) /\ Sound(added.s, added.known, added.gone, e)
  BY <1>10, <1>14, <1>15, <1>17 DEF Alive, Lives
<1>21. CASE mgr = "failed"
  <2>1. x = McdAccountDelete(l, o)
    BY <1>21
  <2>2. Sound(l.s, l.known, l.gone, e)
    BY <1>1, <1>6
  <2>3. l.hash[n] \in {None, o}
    BY <1>1, <1>6
  <2> HIDE DEF r, x
  <2> DEFINE z == [Write(McdAccountDelete(l, o)) EXCEPT !.obj[o].reg = TRUE]
  <2>8. r = z
    BY <1>5, <2>1
  <2>9. z \in McType /\ Awake(z, mgr, e) /\ Synced(z.s, z.failed)
    BY <1>6, <1>8, <1>9, <2>1, <2>2, <2>3, CompletedDeleting
  <2> QED  BY <2>8, <2>9 DEF r
<1>22. CASE mgr # "failed" /\ ~set.obj[o].valid
  <2>1. x = McdAccountDelete(added, o)
    BY <1>22
  <2>2. added.hash[n] \in {None, o}
    BY <1>18
  <2> HIDE DEF r, x
  <2> DEFINE z == [Write(McdAccountDelete(added, o)) EXCEPT !.obj[o].reg = TRUE]
  <2>8. r = z
    BY <1>5, <2>1
  <2>9. z \in McType /\ Awake(z, mgr, e) /\ Synced(z.s, z.failed)
    BY <1>17, <1>19, <1>20, <2>1, <2>2, CompletedDeleting
  <2> QED  BY <2>8, <2>9 DEF r
<1>23. CASE mgr # "failed" /\ set.obj[o].valid
  <2>1. x = added
    BY <1>23
  <2>2. Managed(added, n)
    BY <1>1, <1>10, <1>17, TheKeys DEF Managed
  <2>3. /\ added.obj[o].valid = ParametersOk(added.s, n)
        /\ added.obj[o].enabled = m.obj[o].enabled
        /\ added.s.cache[n].val["Enabled"] = m.s.cache[n].val["Enabled"]
    BY <1>10, <1>14, <1>15, <1>17, TheKeys DEF ok2
  <2>4. added.hash[n] = o <=> Lives(added, o)
    BY <1>18, <1>20
  <2> HIDE DEF r, x
  <2> DEFINE z == [Write(added) EXCEPT !.obj[o].reg = TRUE]
  <2>8. r = z
    BY <1>5, <2>1
  <2>9. z \in McType /\ Awake(z, mgr, e) /\ Synced(z.s, z.failed)
    BY <1>1, <1>17, <1>18, <1>19, <1>20, <2>1, <2>2, <2>3, <2>4, Completed
  <2> QED  BY <2>8, <2>9 DEF r
<1> QED  BY <1>21, <1>22, <1>23
-----------------------------------------------------------------------------
(* New accounts.                                                            *)

(* A nonempty set of naturals has a least element.                          *)
LEMMA LeastIs ==
  ASSUME NEW I, I \subseteq Nat, I # {}
  PROVE  Min(I) \in I /\ \A j \in I : Min(I) <= j
<1>1. PICK i \in I : \A j \in I : ~(<<j, i>> \in OpToRel(<, Nat))
  BY NatLessThanWellFounded, WFMin
<1>2. \A j \in I : ~(j < i)
  BY <1>1 DEF OpToRel
<1>3. \A j \in I : i <= j
  BY <1>2
<1> QED  BY <1>3 DEF Min

(* n is about to be an account in m; before, in b, it was not.              *)
Comes(b, m, n, e) ==
  /\ b \in McType /\ m \in McType /\ Awake(b, mgr, e)
  /\ m.obj = b.obj /\ m.hash = b.hash /\ m.lock = b.lock /\ m.onBus = b.onBus
  /\ m.todo = b.todo /\ m.known = b.known
  /\ Fresh(b) # {}
  /\ \A p \in Objs : Lives(b, p) \/ Lingers(b, p) => b.obj[p].name # n
  /\ \A p \in Names \ {n} : m.s.cache[p] = b.s.cache[p]
  /\ b.s.ag.state = "deleted" => m.s.ag.state = "deleted"
  /\ Managed(m, n)
  /\ Sound(m.s, m.known, m.gone \ {n}, e)

(* Its object o has been made, and written.                                 *)
Made(b, w, o, n, e) ==
  /\ o \in Objs /\ b.obj[o].st = "none" /\ w \in McType /\ Frame(b, w, o, n)
  /\ w.hash = b.hash /\ w.lock = b.lock /\ w.onBus = b.onBus /\ w.todo = b.todo
  /\ Alive(w, o) /\ w.obj[o].name = n /\ w.obj[o].for \in {"create", "created"}
  /\ ~w.obj[o].loaded /\ ~w.obj[o].reg /\ ~w.obj[o].removed
  /\ ~w.obj[o].timer /\ ~w.obj[o].reply
  /\ w.obj[o].enabled = (w.s.cache[n].val["Enabled"] = 2)
  /\ Managed(w, n) /\ Sound(w.s, w.known, w.gone, e) /\ Synced(w.s, w.failed)

(* The callbacks that it gets when the connection manager is not ready.     *)
Later(o, for) == IF for = "created" THEN <<Cre(o), Acc(o)>> ELSE <<Acc(o)>>

(* The rest of mcd_account_new and of the handler.                          *)
Continued(w, o, for) ==
  IF mgr = "unready" THEN [w EXCEPT !.todo = Later(o, for) \o w.todo]
  ELSE IF for = "created" THEN AsyncCreatedManagerCb(OnManagerReady(w, o), o)
  ELSE OnManagerReady(w, o)

(* mcd_account_new makes an object (Made), with which it goes on at once   *)
(* or later.                                                                *)
LEMMA NewAccountIs ==
  ASSUME NEW b, NEW m, NEW n \in Names, NEW e, Comes(b, m, n, e),
         NEW for \in {"create", "created"}, NEW given \in {None, 1}
  PROVE  \E o, w :
           /\ Made(b, w, o, n, e) /\ w.obj[o].for = for
           /\ NewAccount(m, n, for, given) = Continued(w, o, for)
<1> DEFINE o == Min(Fresh(m))
           ob == [NoObject EXCEPT !.st = "live", !.name = n, !.for = for, !.given = given,
                                  !.enabled = m.s.cache[n].val["Enabled"] = 2]
           obj == [m.obj EXCEPT ![o] = ob]
           s == ToSave(m.s, n)
           a == [m EXCEPT !.obj = obj, !.gone = m.gone \ {n}, !.s = s]
           w == Write(a)
<1>1. b \in McType /\ m \in McType /\ m.obj = b.obj /\ m.s \in StoreType /\ m.gone \in SUBSET Names
  BY DEF Comes, McType
<1>2. o \in Objs /\ b.obj[o].st = "none"
  <2>1. Fresh(m) # {} /\ Fresh(m) \subseteq Nat
    BY <1>1 DEF Comes, Fresh, Objs
  <2>2. o \in Fresh(m)
    BY <2>1, LeastIs
  <2> QED  BY <1>1, <2>2 DEF Fresh
<1>3. NewAccount(m, n, for, given) = Continued(w, o, for)
  <2>1. a = [m EXCEPT !.obj[o] = ob, !.gone = @ \ {n},
                      !.s = IF Owns(@, n) THEN [@ EXCEPT !.sso.save = TRUE]
                            ELSE [@ EXCEPT !.save = TRUE]]
    BY <1>1 DEF McType, ToSave
  <2> HIDE DEF a
  <2> QED  BY <2>1 DEF NewAccount, Continued, Later, Acc, Cre
<1> HIDE DEF o
<1> DEFINE on == m.s.cache[n].val["Enabled"] = 2
<1>4. on \in BOOLEAN
  OBVIOUS
<1>5. ob = [NoObject EXCEPT !.st = "live", !.name = n, !.for = for, !.given = given, !.enabled = on]
  OBVIOUS
<1> HIDE DEF ob, on
<1>6. /\ ob \in ObjType /\ ob.st = "live" /\ ob.name = n /\ ob.for = for /\ ob.enabled = on
      /\ ~ob.loaded /\ ~ob.reg /\ ~ob.removed /\ ~ob.timer /\ ~ob.reply
  BY <1>4, <1>5 DEF NoObject, ObjType
<1>7. obj \in [Objs -> ObjType] /\ obj[o] = ob /\ \A p \in Objs \ {o} : obj[p] = b.obj[p]
  BY <1>1, <1>2, <1>6 DEF McType
<1>8. s \in StoreType /\ Sound(s, m.known, m.gone \ {n}, e) /\ s.cache = m.s.cache
      /\ s.ag = m.s.ag
  BY <1>1, ToSaveSound DEF Comes
<1> HIDE DEF obj, s
<1>9. /\ a \in McType /\ a.obj = obj /\ a.s = s /\ a.gone = m.gone \ {n} /\ a.known = m.known
      /\ a.hash = m.hash /\ a.lock = m.lock /\ a.onBus = m.onBus /\ a.todo = m.todo
  BY <1>1, <1>7, <1>8 DEF McType
<1> HIDE DEF a
<1>10. /\ w \in McType /\ w.s = Commit(s, ~full) /\ w.failed = w.s.save
       /\ w.obj = obj /\ w.hash = m.hash /\ w.lock = m.lock /\ w.onBus = m.onBus
       /\ w.todo = m.todo /\ w.gone = m.gone \ {n} /\ w.known = m.known
       /\ w.s.cache = m.s.cache /\ w.s.ag = m.s.ag
  BY <1>8, <1>9, WriteIs
<1> HIDE DEF w
<1>11. Sound(w.s, w.known, w.gone, e) /\ Synced(w.s, w.failed)
  <2>1. (~full) \in BOOLEAN
    OBVIOUS
  <2>2. LET t == Commit(s, ~full) IN
        t \in StoreType /\ Sound(t, m.known, m.gone \ {n}, e) /\ Synced(t, t.save)
    BY <1>8, <2>1, CommitSound
  <2> QED  BY <1>10, <2>2
<1>12. Frame(b, w, o, n)
  BY <1>7, <1>10 DEF Frame, Comes, Pend
<1>13. w.obj[o].enabled = (w.s.cache[n].val["Enabled"] = 2)
  BY <1>6, <1>7, <1>10 DEF on
<1>14. Made(b, w, o, n, e)
  <2>1. w.hash = b.hash /\ w.lock = b.lock /\ w.onBus = b.onBus /\ w.todo = b.todo /\ Managed(w, n)
    BY <1>10 DEF Comes, Managed
  <2> QED  BY <1>2, <1>6, <1>7, <1>10, <1>11, <1>12, <1>13, <2>1 DEF Made, Alive
<1> QED  BY <1>3, <1>6, <1>7, <1>10, <1>14

(* The new object is the only one of its account, and nothing waits for it. *)
LEMMA MadeIs ==
  ASSUME NEW b, NEW m, NEW n \in Names, NEW e, NEW o, NEW w,
         Comes(b, m, n, e), Made(b, w, o, n, e)
  PROVE  /\ w.hash[n] = None /\ None # o /\ Alone(b, o, n) /\ ~Alive(b, o) /\ Lives(w, o)
         /\ Queue(w.todo) /\ (\A c \in Pend(w) : c.obj # o) /\ Pend(w) = Pend(b)
         /\ w.lock = Cardinality(Setups(w)) /\ w.lock <= Cardinality(Names)
         /\ Acc(o) \notin Pend(w) /\ Cre(o) \notin Pend(w)
<1>1. Objects(b, mgr) /\ b \in McType /\ o \in Objs /\ b.obj[o].st = "none"
  BY DEF Comes, Made, Awake
<1>2. b.hash[n] = None
  <2>1. b.hash[n] # None => /\ b.hash[n] \in Objs /\ Lives(b, b.hash[n])
                            /\ b.obj[b.hash[n]].name = n
    BY <1>1 DEF Objects, McType
  <2> QED  BY <2>1 DEF Comes
<1>3. Pend(w) = Pend(b) /\ \A c \in Pend(w) : c.obj # o
  BY <1>1 DEF Made, Objects, Pend
<1>4. Setups(w) = Setups(b)
  BY <1>1 DEF Made, Setups, Alive, Frame
<1>5. b.lock = Cardinality(Setups(b)) /\ b.lock <= Cardinality(Names) /\ Queue(b.todo)
  BY <1>1 DEF Objects, Lock
<1>6. w.hash = b.hash /\ w.lock = b.lock /\ w.todo = b.todo /\ Lives(w, o)
  BY DEF Made, Lives
<1>7. None # o
  BY <1>1 DEF None, Objs
<1>8. Alone(b, o, n) /\ ~Alive(b, o)
  BY <1>1 DEF Comes, Alone, Alive
<1> QED  BY <1>1, <1>2, <1>3, <1>4, <1>5, <1>6, <1>7, <1>8, Callbacks

(* When the connection manager is known it goes on at once.                 *)
LEMMA MadeArrives ==
  ASSUME NEW b, NEW m, NEW n \in Names, NEW e, NEW o, NEW w,
         Comes(b, m, n, e), Made(b, w, o, n, e), mgr # "unready"
  PROVE  Arrives(b, w, o, n, e)
<1>1. /\ w.hash[n] = None /\ None # o /\ Alone(b, o, n) /\ ~Alive(b, o) /\ Lives(w, o)
      /\ Queue(w.todo)
      /\ w.lock = Cardinality(Setups(w)) /\ w.lock <= Cardinality(Names)
      /\ Acc(o) \notin Pend(w) /\ Cre(o) \notin Pend(w)
  <2>1. w.hash[n] = None /\ None # o /\ Alone(b, o, n) /\ ~Alive(b, o) /\ Lives(w, o)
    BY MadeIs
  <2>2. Queue(w.todo) /\ w.lock = Cardinality(Setups(w)) /\ w.lock <= Cardinality(Names)
    BY MadeIs
  <2>3. Acc(o) \notin Pend(w) /\ Cre(o) \notin Pend(w)
    BY MadeIs
  <2> QED  BY <2>1, <2>2, <2>3
<1>2. b \in McType /\ w \in McType /\ Awake(b, mgr, e) /\ Frame(b, w, o, n)
  BY DEF Comes, Made
<1>3. \A p \in Objs \ {o} : Lingers(b, p) => b.obj[p].name # n
  BY DEF Comes
<1>4. /\ Alive(w, o) /\ w.obj[o].name = n /\ ~w.obj[o].loaded /\ ~w.obj[o].reply
      /\ ~w.obj[o].removed /\ Managed(w, n)
      /\ Sound(w.s, w.known, w.gone, e) /\ Synced(w.s, w.failed)
      /\ w.obj[o].enabled = (w.s.cache[n].val["Enabled"] = 2)
  BY DEF Made
<1> QED  BY <1>1, <1>2, <1>3, <1>4 DEF Arrives

(* When the connection manager is ready the account is loaded at once, and  *)
(* a plugin's goes into the table after that.                               *)
LEMMA NewReady ==
  ASSUME NEW b, NEW m, NEW n \in Names, NEW e, NEW o, NEW w,
         Comes(b, m, n, e), Made(b, w, o, n, e), mgr # "unready", w.obj[o].for = "created"
  PROVE  LET r == AsyncCreatedManagerCb(OnManagerReady(w, o), o) IN
         r \in McType /\ Awake(r, mgr, e) /\ Synced(r.s, r.failed)
<1> DEFINE l == OnManagerReady(w, o)
           lob == [w.obj[o] EXCEPT !.loaded = TRUE, !.reg = TRUE, !.valid = ParametersOk(w.s, n)]
           t == AddAccount(l, o)
           r == CheckValidity(t, o)
           ok == ParametersOk(w.s, n)
           ob == [lob EXCEPT !.valid = ok, !.timer = lob.timer \/ ok # lob.valid]
<1>1. /\ w.hash[n] = None /\ Lives(w, o) /\ Queue(w.todo)
      /\ w.lock = Cardinality(Setups(w))
      /\ Acc(o) \notin Pend(w) /\ Cre(o) \notin Pend(w)
  <2>1. w.hash[n] = None /\ Lives(w, o) /\ Queue(w.todo)
    BY MadeIs
  <2>2. w.lock = Cardinality(Setups(w))
    BY MadeIs
  <2>3. Acc(o) \notin Pend(w) /\ Cre(o) \notin Pend(w)
    BY MadeIs
  <2> QED  BY <2>1, <2>2, <2>3
<1>2. Arrives(b, w, o, n, e)
  BY MadeArrives
<1>3. /\ o \in Objs /\ w \in McType /\ w.obj[o].name = n /\ Alive(w, o) /\ ~w.obj[o].removed
      /\ Managed(w, n) /\ Sound(w.s, w.known, w.gone, e) /\ Synced(w.s, w.failed)
      /\ w.obj[o].enabled = (w.s.cache[n].val["Enabled"] = 2)
  BY DEF Made
<1>4. w.obj[o] \in ObjType /\ w.obj \in [Objs -> ObjType] /\ w.hash \in [Names -> Objs \cup {None}]
  BY <1>3 DEF McType
<1>5. /\ l \in McType /\ l.obj = [w.obj EXCEPT ![o] = lob] /\ l.lock = w.lock
      /\ l.s = w.s /\ l.hash = w.hash /\ l.todo = w.todo
      /\ l.gone = w.gone /\ l.known = w.known /\ l.failed = w.failed
  BY <1>3, LoadedAs
<1> HIDE DEF l
<1>6. ok \in BOOLEAN
  BY DEF ParametersOk
<1>7. lob.name = n /\ lob.loaded /\ lob.reg /\ lob.st = "live" /\ ~lob.removed /\ lob \in ObjType
      /\ lob.for = "created" /\ lob.enabled = w.obj[o].enabled
  <2> HIDE DEF ok
  <2> QED  BY <1>3, <1>4, <1>6 DEF ObjType, Alive, ok
<1> HIDE DEF lob
<1>8. l.obj[o] = lob /\ \A p \in Objs \ {o} : l.obj[p] = w.obj[p]
  BY <1>3, <1>4, <1>5
<1>9. /\ t \in McType /\ t.obj = l.obj /\ t.hash = [w.hash EXCEPT ![n] = o] /\ t.lock = w.lock
      /\ t.s = w.s /\ t.todo = w.todo /\ t.gone = w.gone /\ t.known = w.known
      /\ t.failed = w.failed
  <2>1. t = [l EXCEPT !.hash = [w.hash EXCEPT ![n] = o]]
    BY <1>5, <1>7, <1>8 DEF AddAccount, McType
  <2>2. [w.hash EXCEPT ![n] = o] \in [Names -> Objs \cup {None}]
    BY <1>3, <1>4
  <2> HIDE DEF t
  <2> QED  BY <1>5, <2>1, <2>2 DEF McType
<1> HIDE DEF t
<1>10. /\ r \in McType /\ r.obj = [l.obj EXCEPT ![o] = ob]
       /\ r.s = w.s /\ r.hash = t.hash /\ r.lock = w.lock
       /\ r.todo = w.todo /\ r.gone = w.gone /\ r.known = w.known /\ r.failed = w.failed
  <2>1. t.obj[o] = lob /\ t.s = w.s /\ lob.name = n
    BY <1>7, <1>8, <1>9
  <2>2. LET x == CheckValidity(t, o)
            ok1 == ParametersOk(t.s, t.obj[o].name) IN
        /\ x \in McType
        /\ x.obj = [t.obj EXCEPT ![o] = [t.obj[o] EXCEPT !.valid = ok1,
                                             !.timer = t.obj[o].timer \/ ok1 # t.obj[o].valid]]
        /\ x.s = t.s /\ x.hash = t.hash /\ x.lock = t.lock /\ x.onBus = t.onBus
        /\ x.todo = t.todo /\ x.gone = t.gone /\ x.known = t.known /\ x.failed = t.failed
    BY <1>3, <1>9, CheckValidityIs
  <2> HIDE DEF r
  <2> QED  BY <1>9, <2>1, <2>2 DEF r
<1> HIDE DEF r, ok
<1>11. ob.name = n /\ ob.loaded /\ ob.reg /\ ob.st = "live" /\ ~ob.removed /\ ob.for = "created"
       /\ ob.enabled = w.obj[o].enabled /\ ob.valid = ok
  BY <1>6, <1>7 DEF ObjType
<1> HIDE DEF ob
<1>12. r.obj[o] = ob /\ \A p \in Objs \ {o} : r.obj[p] = w.obj[p]
  BY <1>3, <1>4, <1>5, <1>7, <1>8, <1>10
<1>13. r.hash[n] = o /\ \A p \in Names \ {n} : r.hash[p] = w.hash[p]
  BY <1>4, <1>9, <1>10
<1>14. Frame(w, r, o, n)
  BY <1>10, <1>12, <1>13 DEF Frame, Pend
<1>15. /\ Queue(r.todo) /\ Acc(o) \notin Pend(r) /\ Cre(o) \notin Pend(r)
       /\ Alive(r, o) /\ Lives(r, o) /\ r.obj[o].name = n /\ r.obj[o].loaded /\ r.obj[o].reg
       /\ Managed(r, n) /\ Sound(r.s, r.known, r.gone, e) /\ Synced(r.s, r.failed)
  BY <1>1, <1>3, <1>10, <1>11, <1>12 DEF Pend, Alive, Lives, Managed
<1>16. r.lock = Cardinality(Setups(r)) /\ r.lock <= w.lock
  <2>1. Setups(r) = Setups(w)
    BY <1>11, <1>12, <1>4 DEF Setups, Alive, Made
  <2>2. w.lock \in Int
    BY <1>3 DEF McType
  <2> QED  BY <1>1, <1>10, <2>1, <2>2
<1>17. Current(r, mgr, o)
  BY <1>3, <1>10, <1>11, <1>12 DEF Current, ok, ParametersOk
<1>18. Awake(r, mgr, e)
  <2>1. r.hash[n] = o <=> Lives(r, o)
    BY <1>13, <1>15
  <2>2. r.hash[n] \in {None, o} /\ (Managed(r, n) <=> Lives(r, o)) /\ (Lives(r, o) => Lives(w, o))
    BY <1>1, <1>13, <1>15
  <2> QED  BY <1>2, <1>3, <1>10, <1>14, <1>15, <1>16, <1>17, <2>1, <2>2, Arrived
<1> QED  BY <1>10, <1>15, <1>18 DEF r, t, l, AsyncCreatedManagerCb

(* Otherwise its callbacks are queued, in this order.                       *)
LEMMA LaterIs ==
  ASSUME NEW o \in Objs, NEW for \in {"create", "created"}
  PROVE  LET x == Later(o, for) IN
         /\ x \in Seq(Callback) /\ Queue(x)
         /\ Elems(x) = {Acc(o)} \cup (IF for = "created" THEN {Cre(o)} ELSE {})
<1>1. Acc(o) \in Callback /\ Cre(o) \in Callback /\ Acc(o).cb = "account" /\ Cre(o).cb = "created"
  BY Callbacks
<1> DEFINE x == Later(o, for)
<1>2. CASE for = "created"
  <2>1. x = <<Cre(o), Acc(o)>>
    BY <1>2 DEF Later
  <2> HIDE DEF x
  <2>2. x \in Seq(Callback) /\ DOMAIN x = {1, 2} /\ x[1] = Cre(o) /\ x[2] = Acc(o)
    BY <1>1, <2>1
  <2>3. Queue(x)
    BY <1>1, <2>2 DEF Queue
  <2>4. Elems(x) = {Acc(o), Cre(o)}
    BY <2>2 DEF Elems
  <2>5. {Acc(o)} \cup (IF for = "created" THEN {Cre(o)} ELSE {}) = {Acc(o), Cre(o)}
    BY <1>2
  <2> QED  BY <2>2, <2>3, <2>4, <2>5 DEF x
<1>3. CASE for # "created"
  <2>1. x = <<Acc(o)>>
    BY <1>3 DEF Later
  <2> HIDE DEF x
  <2>2. x \in Seq(Callback) /\ DOMAIN x = {1} /\ x[1] = Acc(o)
    BY <1>1, <2>1
  <2>3. Queue(x)
    BY <1>1, <2>2 DEF Queue
  <2>4. Elems(x) = {Acc(o)}
    BY <2>2 DEF Elems
  <2>5. {Acc(o)} \cup (IF for = "created" THEN {Cre(o)} ELSE {}) = {Acc(o)}
    BY <1>3
  <2> QED  BY <2>2, <2>3, <2>4, <2>5 DEF x
<1> QED  BY <1>2, <1>3

(* When the connection manager is not ready the account has to wait.        *)
LEMMA NewUnready ==
  ASSUME NEW b, NEW m, NEW n \in Names, NEW e, NEW o, NEW w,
         Comes(b, m, n, e), Made(b, w, o, n, e), mgr = "unready"
  PROVE  LET r == [w EXCEPT !.todo = Later(o, w.obj[o].for) \o w.todo] IN
         r \in McType /\ Awake(r, mgr, e) /\ Synced(r.s, r.failed)
<1> DEFINE for == w.obj[o].for
           x == Later(o, for)
           todo == x \o w.todo
           r == [w EXCEPT !.todo = todo]
<1>1. w.hash[n] = None /\ None # o /\ Alone(b, o, n) /\ ~Alive(b, o) /\ Lives(w, o)
  BY MadeIs
<1>2. Queue(w.todo) /\ w.lock = Cardinality(Setups(w)) /\ w.lock <= Cardinality(Names)
  BY MadeIs
<1>3. \A c \in Pend(w) : c.obj # o
  BY MadeIs
<1>4. Pend(w) = Pend(b)
  BY MadeIs
<1>5. /\ o \in Objs /\ w \in McType /\ Frame(b, w, o, n) /\ w.lock = b.lock /\ w.onBus = b.onBus
      /\ Alive(w, o) /\ w.obj[o].name = n /\ for \in {"create", "created"}
      /\ ~w.obj[o].loaded /\ ~w.obj[o].reg /\ ~w.obj[o].removed
      /\ ~w.obj[o].timer /\ ~w.obj[o].reply /\ Managed(w, n)
      /\ w.obj[o].enabled = (w.s.cache[n].val["Enabled"] = 2)
      /\ Sound(w.s, w.known, w.gone, e) /\ Synced(w.s, w.failed)
  BY DEF Made
<1>6. b \in McType /\ Objects(b, mgr) /\ \A p \in Objs : Current(b, mgr, p)
  BY DEF Comes, Awake
<1>7. /\ x \in Seq(Callback) /\ Queue(x)
      /\ Elems(x) = {Acc(o)} \cup (IF for = "created" THEN {Cre(o)} ELSE {})
  BY <1>5, LaterIs
<1> HIDE DEF x
<1>8. /\ Acc(o).obj = o /\ Cre(o).obj = o
      /\ \A c \in Elems(x) : c.obj = o
  BY <1>5, <1>7, Callbacks
<1>9. todo \in Seq(Callback) /\ Queue(todo) /\ Elems(todo) = Elems(x) \cup Pend(w)
  <2>1. w.todo \in Seq(Callback) /\ Elems(w.todo) = Pend(w)
    BY <1>5, PendIs DEF McType
  <2>2. \A c \in Elems(x), d \in Elems(w.todo) : c.cb # "altered" => c.obj # d.obj
    BY <1>3, <1>8, <2>1
  <2> QED  BY <1>2, <1>7, <2>1, <2>2, QueuePush
<1> HIDE DEF todo
<1>10. /\ r \in McType /\ r.todo = todo /\ r.s = w.s /\ r.obj = w.obj /\ r.hash = w.hash
       /\ r.lock = w.lock /\ r.onBus = w.onBus /\ r.gone = w.gone /\ r.known = w.known
       /\ r.failed = w.failed
  BY <1>5, <1>9 DEF McType
<1> HIDE DEF r
<1>11. Pend(r) = Elems(x) \cup Pend(w)
  BY <1>9, <1>10, PendIs
<1>12. Frame(b, r, o, n)
  BY <1>4, <1>5, <1>8, <1>10, <1>11 DEF Frame
<1>13. Acc(o) \in Pend(r) /\ (Cre(o) \in Pend(r) <=> for = "created")
  <2>1. Acc(o) # Cre(o)
    BY <1>5, Callbacks
  <2>2. Cre(o) \notin Pend(w)
    BY <1>3, <1>8
  <2> QED  BY <1>7, <1>11, <2>1, <2>2
<1>14. Alive(r, o) /\ Lives(r, o) /\ r.obj[o].name = n /\ Managed(r, n) /\ r.hash[n] = None
  BY <1>1, <1>5, <1>10 DEF Alive, Lives, Managed
<1>15. Object(r, o)
  BY <1>1, <1>5, <1>10, <1>13, <1>14 DEF Object
<1>16. Lock(r, mgr)
  <2>1. Setups(r) = Setups(w)
    BY <1>10 DEF Setups, Alive
  <2>2. \A p \in Objs : ~r.obj[p].loaded
    BY <1>5, <1>6, <1>10 DEF Objects, Lock, Frame
  <2>3. r.onBus => r.lock = 0
    BY <1>5, <1>6, <1>10 DEF Objects, Lock
  <2>4. \A p \in Names : r.hash[p] # None => r.obj[r.hash[p]].for = "setup"
    <3> TAKE p \in Names
    <3> SUFFICES ASSUME r.hash[p] # None  PROVE r.obj[r.hash[p]].for = "setup"
      OBVIOUS
    <3>1. r.hash[p] = b.hash[p] /\ r.obj = w.obj
      BY <1>10 DEF Made
    <3>2. b.hash[p] \in Objs /\ Lives(b, b.hash[p]) /\ b.obj[b.hash[p]].for = "setup"
      BY <1>5, <1>6, <3>1 DEF Objects, Lock, McType
    <3>3. b.hash[p] # o
      BY <1>1, <3>2 DEF Lives
    <3> QED  BY <1>5, <3>1, <3>2, <3>3 DEF Frame
  <2> QED  BY <1>2, <1>10, <2>1, <2>2, <2>3, <2>4 DEF Lock
<1>17. Objects(r, mgr)
  <2>1. \A p \in Objs \ {o} : Lingers(b, p) => b.obj[p].name # n
    BY DEF Comes
  <2>2. Queue(r.todo) /\ (Managed(r, n) <=> Lives(r, o)) /\ r.hash[n] \in {None, o}
        /\ r.hash[n] # o
    BY <1>1, <1>9, <1>10, <1>14
  <2> QED  BY <1>1, <1>5, <1>6, <1>10, <1>12, <1>14, <1>15, <1>16, <2>1, <2>2, OneObject
<1>18. ASSUME NEW p \in Objs  PROVE Current(r, mgr, p)
  <2>1. CASE p = o
    BY <1>5, <1>10, <2>1 DEF Current
  <2>2. CASE p # o
    <3>1. Object(b, p) /\ Current(b, mgr, p)
      BY <1>6 DEF Objects
    <3> QED  BY <1>1, <1>5, <1>12, <2>2, <3>1, OthersCurrent
  <2> QED  BY <2>1, <2>2
<1> QED  BY <1>5, <1>10, <1>17, <1>18 DEF Awake, r, todo, x

(* In either case the invariant holds when it returns.                      *)
LEMMA NewAccountKeeps ==
  ASSUME NEW b, NEW m, NEW n \in Names, NEW e, Comes(b, m, n, e),
         NEW for \in {"create", "created"}, NEW given \in {None, 1}
  PROVE  LET r == NewAccount(m, n, for, given) IN
         r \in McType /\ Awake(r, mgr, e) /\ Synced(r.s, r.failed)
<1> DEFINE r == NewAccount(m, n, for, given)
<1>1. PICK o, w :
        /\ Made(b, w, o, n, e) /\ w.obj[o].for = for
        /\ r = Continued(w, o, for)
  BY NewAccountIs
<1>2. o \in Objs /\ w \in McType
  BY <1>1 DEF Made
<1>3. CASE mgr = "unready"
  <2> DEFINE y == [w EXCEPT !.todo = Later(o, w.obj[o].for) \o w.todo]
  <2>1. r = y
    BY <1>1, <1>3 DEF Continued
  <2>2. y \in McType /\ Awake(y, mgr, e) /\ Synced(y.s, y.failed)
    BY <1>1, <1>3, NewUnready
  <2> QED  BY <2>1, <2>2 DEF r
<1>4. CASE mgr # "unready" /\ for = "created"
  <2> DEFINE y == AsyncCreatedManagerCb(OnManagerReady(w, o), o)
  <2>1. r = y
    BY <1>1, <1>4 DEF Continued
  <2>2. y \in McType /\ Awake(y, mgr, e) /\ Synced(y.s, y.failed)
    BY <1>1, <1>4, NewReady
  <2> QED  BY <2>1, <2>2 DEF r
<1>5. CASE mgr # "unready" /\ for = "create"
  <2> DEFINE y == OnManagerReady(w, o)
  <2>1. r = y
    BY <1>1, <1>5 DEF Continued
  <2>2. Arrives(b, w, o, n, e)
    BY <1>1, <1>5, MadeArrives
  <2>3. y \in McType /\ Awake(y, mgr, e) /\ Synced(y.s, y.failed)
    BY <1>1, <1>2, <1>5, <2>2, ArrivesCreated
  <2> QED  BY <2>1, <2>3 DEF r
<1> QED  BY <1>3, <1>4, <1>5
-----------------------------------------------------------------------------
(* Names for new accounts.                                                  *)

Free(m, n) == ~Cached(m.s, n) /\ n \notin OnBusNames(m)

(* unique_name finds a name that is free, if there is one.             *)
LEMMA UniqueNameIs ==
  ASSUME NEW m, {n \in Names : Free(m, n)} # {}
  PROVE  UniqueName(m.s, OnBusNames(m)) \in Names /\ Free(m, UniqueName(m.s, OnBusNames(m)))
<1> DEFINE I == {n \in Names : Free(m, n)}
<1>1. UniqueName(m.s, OnBusNames(m)) = Min(I)
  BY DEF UniqueName, Free
<1>2. I \subseteq Nat /\ I # {}
  BY NotNone
<1> HIDE DEF I
<1>3. Min(I) \in I
  BY <1>2, LeastIs
<1> QED  BY <1>1, <1>3 DEF I

(* A name that is free is no object's, or that of one which is not loaded.  *)
LEMMA FreeIs ==
  ASSUME NEW m \in McType, NEW g, NEW e, NEW n \in Names, Awake(m, g, e), Free(m, n)
  PROVE  /\ m.s.cache[n] = NoEntry /\ ~Owns(m.s, n) /\ ~Managed(m, n)
         /\ \A p \in Objs : Lives(m, p) => m.obj[p].name # n
         /\ \A p \in Objs : Lingers(m, p) /\ m.obj[p].name = n =>
              /\ ~m.obj[p].loaded /\ p \in Setups(m) /\ Acc(p) \in Pend(m)
              /\ m.s.ag.state = "deleted"
<1>1. Entry(m.s, m.known, m.gone, e, n) /\ Objects(m, g)
  BY DEF Awake, Sound
<1>2. m.s.cache[n] = NoEntry
  BY <1>1 DEF Free, Entry, Cached
<1>3. m.s.cache[n].val["manager"] = None
  BY <1>2, TheKeys, Constants DEF NoEntry
<1>4. ~Owns(m.s, n) /\ ~Managed(m, n)
  BY <1>1, <1>3, Constants DEF Managed, Entry, InLibaccounts, None
<1>5. \A p \in Objs : Lives(m, p) => m.obj[p].name # n
  BY <1>1, <1>4 DEF Objects
<1>6. ASSUME NEW p \in Objs, Lingers(m, p), m.obj[p].name = n
      PROVE  /\ ~m.obj[p].loaded /\ p \in Setups(m) /\ Acc(p) \in Pend(m)
             /\ m.s.ag.state = "deleted"
  <2>1. ~m.obj[p].reg
    BY <1>6 DEF Free, OnBusNames
  <2>2. Alive(m, p) /\ m.obj[p].removed /\ ~m.obj[p].loaded
    BY <1>6, <2>1 DEF Lingers
  <2>3. Object(m, p)
    BY <1>1 DEF Objects
  <2> QED  BY <2>2, <2>3 DEF Object, Setups
<1> QED  BY <1>2, <1>4, <1>5, <1>6

(* The name changes one entry of the cache only.                            *)
LEMMA NamedIs ==
  ASSUME NEW s \in StoreType, NEW n \in Names
  PROVE  /\ Named(s, n).ag.state = s.ag.state
         /\ Named(s, n).cache[n].val["manager"] = 1
         /\ \A p \in Names \ {n} : Named(s, n).cache[p] = s.cache[p]
<1> DEFINE c == FromSso(s.cache[n], s.ag.val)
<1>1. /\ s.ag \in AgType /\ s.cache \in [Names -> EntryType] /\ s.ag.val \in [Settings -> 0..2]
  BY StoreTypes DEF AgType
<1>2. c.val["manager"] = 1
  BY <1>1, FromSsoIs
<1> HIDE DEF c
<1>3. /\ Named(s, n).cache = [s.cache EXCEPT ![n] = c]
      /\ Named(s, n).ag = [s.ag EXCEPT !.uid = n]
  BY <1>1, StoreTypes DEF Named, c
<1> QED  BY <1>1, <1>2, <1>3 DEF AgType

(* _sso_created, for an account that has no name yet or is known.           *)
LEMMA SsoCreatedKeeps ==
  ASSUME NEW m \in McType, NEW e, Awake(m, mgr, e), Synced(m.s, m.failed), ~Has(e, "created"),
         HasName(m.s, OnBusNames(m)) => Fresh(m) # {},
         m.s.sso.name = None /\ m.s.ag.state = "present" => m.s.ag.uid = None
  PROVE  LET r == SsoCreated(m) IN
         r \in McType /\ Awake(r, mgr, e) /\ Synced(r.s, r.failed)
<1> DEFINE r == SsoCreated(m)
<1>1. m.s \in StoreType /\ m.s.sso \in SsoType /\ m.s.ag \in AgType
  BY StoreTypes DEF McType
<1>2. CASE m.s.sso.name # None \/ m.s.ag.state # "present"
  <2>1. r = m
    BY <1>2 DEF SsoCreated
  <2> QED  BY <2>1
<1>3. CASE /\ m.s.sso.name = None /\ m.s.ag.state = "present"
           /\ ~(m.s.ag.complete /\ HasName(m.s, OnBusNames(m)))
  <2> DEFINE sso == [m.s.sso EXCEPT !.watch = TRUE]
             s == [m.s EXCEPT !.sso = sso]
             t == [m EXCEPT !.s = s]
  <2>1. r = t
    BY <1>1, <1>3 DEF SsoCreated, McType, StoreType
  <2>2. /\ sso \in SsoType /\ sso.name = m.s.sso.name /\ sso.view = m.s.sso.view /\ sso.watch
        /\ sso.dirty = m.s.sso.dirty /\ sso.save = m.s.sso.save /\ sso.timer = m.s.sso.timer
    BY <1>1 DEF SsoType
  <2> HIDE DEF sso
  <2>3. /\ s \in StoreType /\ s.sso = sso /\ s.cache = m.s.cache /\ s.keys = m.s.keys
        /\ s.ag = m.s.ag /\ s.disk = m.s.disk /\ s.save = m.s.save
    BY <1>1, <2>2, StoreTypes
  <2> HIDE DEF s
  <2>4. /\ t \in McType /\ t.s = s /\ t.obj = m.obj /\ t.hash = m.hash /\ t.lock = m.lock
        /\ t.onBus = m.onBus /\ t.todo = m.todo /\ t.known = m.known /\ t.gone = m.gone
        /\ t.failed = m.failed
    BY <2>3 DEF McType
  <2> HIDE DEF t
  <2>5. Sound(s, m.known, m.gone, e)
    <3>1. Sound(m.s, m.known, m.gone, e)
      BY DEF Awake
    <3>2. \A p \in Names : Entry(s, m.known, m.gone, e, p)
      BY <2>2, <2>3, <3>1, EntryDependsOn DEF Sound
    <3>3. Link(s, m.known, e)
      BY <1>3, <2>2, <2>3, <3>1 DEF Link, Sound, Common, Has
    <3>4. Common(s, m.known, e)
      BY <2>2, <2>3, <3>1, <3>3 DEF Sound, Common
    <3> QED  BY <3>2, <3>4 DEF Sound
  <2>6. Unmoved(m, t)
    <3>1. Queue(m.todo)
      BY DEF Awake, Objects
    <3> QED  BY <2>3, <2>4, <3>1 DEF Unmoved, Shape, Pend, Managed
  <2>7. Awake(t, mgr, e)
    BY <2>4, <2>5, <2>6, UnmovedKeeps DEF Awake
  <2> QED  BY <2>1, <2>2, <2>3, <2>4, <2>7 DEF Synced
<1>4. CASE /\ m.s.sso.name = None /\ m.s.ag.state = "present" /\ m.s.ag.uid = None
           /\ m.s.ag.complete /\ HasName(m.s, OnBusNames(m))
  <2> DEFINE n == UniqueName(m.s, OnBusNames(m))
             s == Named(m.s, n)
             named == [m EXCEPT !.s = s]
  <2>1. n \in Names /\ Free(m, n)
    <3>1. {p \in Names : Free(m, p)} # {}
      BY <1>4 DEF HasName, Free
    <3> QED  BY <3>1, UniqueNameIs
  <2> HIDE DEF n
  <2>2. r = NewAccount(named, n, "created", None)
    <3>1. named = [m EXCEPT !.s.ag.uid = n,
                            !.s.sso = [@ EXCEPT !.name = n, !.watch = TRUE, !.view = m.s.ag.val],
                            !.s.cache[n] = FromSso(@, m.s.ag.val)]
      BY <1>1, <2>1 DEF Named, McType, StoreType
    <3> HIDE DEF named
    <3> QED  BY <1>4, <3>1 DEF SsoCreated, n
  <2>3. /\ m.s.cache[n] = NoEntry /\ ~Owns(m.s, n)
        /\ \A p \in Objs : Lives(m, p) => m.obj[p].name # n
        /\ \A p \in Objs : ~(Lingers(m, p) /\ m.obj[p].name = n)
    BY <1>4, <2>1, FreeIs
  <2>4. /\ s \in StoreType /\ Sound(s, m.known, m.gone \ {n}, e) /\ s.ag.state = m.s.ag.state
        /\ s.cache[n].val["manager"] = 1 /\ \A p \in Names \ {n} : s.cache[p] = m.s.cache[p]
    <3>1. ~Cached(m.s, n) /\ Sound(m.s, m.known, m.gone, e)
      BY <2>3 DEF Cached, NoEntry, Awake
    <3> HIDE DEF s
    <3>2. Named(m.s, n) \in StoreType /\ Sound(Named(m.s, n), m.known, m.gone \ {n}, e)
      BY <1>1, <1>4, <2>1, <3>1, NamedSound, Zenon
    <3>3. /\ Named(m.s, n).ag.state = m.s.ag.state
          /\ Named(m.s, n).cache[n].val["manager"] = 1
          /\ \A p \in Names \ {n} : Named(m.s, n).cache[p] = m.s.cache[p]
      BY <1>1, <2>1, NamedIs
    <3> QED  BY <3>2, <3>3 DEF s
  <2> HIDE DEF s
  <2>5. /\ named \in McType /\ named.s = s /\ named.obj = m.obj /\ named.hash = m.hash
        /\ named.lock = m.lock /\ named.onBus = m.onBus /\ named.todo = m.todo
        /\ named.known = m.known /\ named.gone = m.gone
    BY <2>4 DEF McType
  <2> HIDE DEF named
  <2>6. Comes(m, named, n, e)
    <3>1. Fresh(m) # {}
      BY <1>4
    <3>2. Managed(named, n)
      BY <2>4, <2>5 DEF Managed, None
    <3> QED  BY <2>3, <2>4, <2>5, <3>1, <3>2 DEF Comes
  <2>7. r \in McType /\ Awake(r, mgr, e) /\ Synced(r.s, r.failed)
    <3> DEFINE x == NewAccount(named, n, "created", None)
    <3>1. "created" \in {"create", "created"} /\ None \in {None, 1}
      OBVIOUS
    <3>2. x \in McType /\ Awake(x, mgr, e) /\ Synced(x.s, x.failed)
      BY <2>1, <2>6, <3>1, NewAccountKeeps
    <3> HIDE DEF r, x
    <3> QED  BY <2>2, <3>2 DEF x
  <2> QED  BY <2>7
<1> QED  BY <1>2, <1>3, <1>4
-----------------------------------------------------------------------------
(* What nothing holds any more is freed.                                    *)

Handled(r, e) == r \in McType /\ Awake(r, mgr, e) /\ Synced(r.s, r.failed)

Lost(m) == {o \in Objs : m.obj[o].st = "live" /\ ~Held(m, o)}
Mourned(m) == {o \in Lost(m) : m.obj[o].for = "setup" /\ ~m.obj[o].loaded}

(* The objects that nobody refers to are freed, and release the lock of the *)
(* setup if they hold it.                                                   *)
LEMMA CollectIs ==
  ASSUME NEW m \in McType
  PROVE  LET r == Collect(m)
             k == Cardinality(Mourned(m)) IN
         /\ r \in McType /\ k \in Nat
         /\ r.obj = [o \in Objs |-> IF o \in Lost(m) THEN Freed ELSE m.obj[o]]
         /\ r.lock = m.lock - k /\ r.onBus = (m.onBus \/ (k > 0 /\ m.lock = k))
         /\ r.s = m.s /\ r.hash = m.hash /\ r.todo = m.todo
         /\ r.gone = m.gone /\ r.known = m.known /\ r.failed = m.failed
<1> DEFINE k == Cardinality(Mourned(m))
           obj == [o \in Objs |-> IF o \in Lost(m) THEN Freed ELSE m.obj[o]]
           onBus == m.onBus \/ (k > 0 /\ m.lock = k)
<1>1. k \in Nat
  <2>1. IsFiniteSet(Objs)
    BY BoundsAssumption, FS_Interval DEF Objs
  <2>2. Mourned(m) \in SUBSET Objs
    BY DEF Mourned, Lost
  <2> QED  BY <2>1, <2>2, FS_Subset, FS_CardinalityType
<1>2. Collect(m) = [m EXCEPT !.obj = obj, !.lock = m.lock - k, !.onBus = onBus]
  BY DEF Collect, Lost, Mourned, McType
<1>3. Freed \in ObjType
  BY DEF Freed, NoObject, ObjType, None
<1>4. obj \in [Objs -> ObjType] /\ onBus \in BOOLEAN
  BY <1>3 DEF McType
<1> HIDE DEF k, obj, onBus
<1>5. m.lock - k \in Int
  BY <1>1 DEF McType
<1> QED  BY <1>1, <1>2, <1>4, <1>5 DEF McType, k, obj, onBus

(* Such an object was removed and has nothing left to do.                   *)
LEMMA LostIs ==
  ASSUME NEW m \in McType, NEW g, NEW o \in Objs, Objects(m, g), o \in Lost(m)
  PROVE  ~Lives(m, o) /\ ~m.obj[o].timer /\ \A c \in Pend(m) : c.obj = o => c.cb = "account"
<1>1. ~Held(m, o) /\ Object(m, o) /\ Alive(m, o)
  BY DEF Lost, Objects, Alive
<1>2. \A c \in Pend(m) : c.obj = o => c.cb = "account" /\ m.obj[o].for # "create"
  BY <1>1 DEF Held, Pend
<1>3. /\ Acc(o).obj = o /\ Cre(o).obj = o /\ Cre(o).cb = "created"
  BY Callbacks
<1>4. Cre(o) \notin Pend(m)
  BY <1>2, <1>3
<1>5. ~(m.obj[o].for = "create" /\ ~m.obj[o].loaded)
  BY <1>1, <1>2, <1>3 DEF Object
<1>6. m.hash[m.obj[o].name] # o /\ ~m.obj[o].timer
  BY <1>1 DEF Held
<1>7. ~Lives(m, o)
  BY <1>1, <1>4, <1>5, <1>6 DEF Object
<1> QED  BY <1>2, <1>6, <1>7

(* Freeing them keeps the invariant.                                        *)
LEMMA CollectKeeps ==
  ASSUME NEW m, NEW e, Handled(m, e)
  PROVE  Handled(Collect(m), e)
<1> DEFINE r == Collect(m)
           k == Cardinality(Mourned(m))
<1>1. /\ m \in McType /\ Objects(m, mgr) /\ Sound(m.s, m.known, m.gone, e)
      /\ Synced(m.s, m.failed) /\ \A o \in Objs : Current(m, mgr, o)
  BY DEF Handled, Awake
<1>2. /\ r \in McType /\ k \in Nat
      /\ r.obj = [o \in Objs |-> IF o \in Lost(m) THEN Freed ELSE m.obj[o]]
      /\ r.lock = m.lock - k /\ r.onBus = (m.onBus \/ (k > 0 /\ m.lock = k))
      /\ r.s = m.s /\ r.hash = m.hash /\ r.todo = m.todo
      /\ r.gone = m.gone /\ r.known = m.known /\ r.failed = m.failed
  BY <1>1, CollectIs
<1> HIDE DEF r
<1>3. /\ \A o \in Lost(m) : o \in Objs /\ r.obj[o] = Freed
      /\ \A o \in Objs \ Lost(m) : r.obj[o] = m.obj[o]
  BY <1>2 DEF Lost
<1>4. /\ Freed.st = "freed" /\ ~Freed.loaded /\ ~Freed.reg /\ ~Freed.timer /\ ~Freed.reply
  BY DEF Freed, NoObject
<1>5. \A o \in Lost(m) : ~Lives(m, o) /\ ~Alive(r, o) /\ ~Lives(r, o) /\ ~Lingers(r, o)
  <2>1. \A o \in Lost(m) : ~Lives(m, o)
    BY <1>1, <1>3, LostIs
  <2> QED  BY <1>3, <1>4, <2>1 DEF Alive, Lives, Lingers
<1>6. \A o \in Objs \ Lost(m) : /\ Lives(r, o) <=> Lives(m, o)
                                /\ Alive(r, o) <=> Alive(m, o)
                                /\ Lingers(r, o) <=> Lingers(m, o)
  BY <1>3 DEF Alive, Lives, Lingers
<1>7. \A o \in Objs : Lives(m, o) => o \notin Lost(m)
  BY <1>5
<1>8. Pend(r) = Pend(m)
  BY <1>2 DEF Pend
<1>9. ASSUME NEW c \in Pend(r)
      PROVE  r.obj[c.obj].st # "none" /\ (c.cb # "account" => Alive(r, c.obj))
  <2>1. c.obj \in Objs /\ c \in Pend(m) /\ m.obj[c.obj].st # "none"
        /\ (c.cb # "account" => Alive(m, c.obj))
    <3>1. c \in Callback
      BY <1>1, <1>8, <1>9, PendIs, ElemsType DEF McType
    <3> QED  BY <1>1, <1>8, <1>9, <3>1, Callbacks DEF Objects
  <2>2. CASE c.obj \in Lost(m)
    <3>1. c.cb = "account"
      BY <1>1, <2>1, <2>2, LostIs
    <3> QED  BY <1>3, <1>4, <2>2, <3>1
  <2>3. CASE c.obj \notin Lost(m)
    BY <1>3, <1>6, <2>1, <2>3
  <2> QED  BY <2>2, <2>3
<1>10. ASSUME NEW o \in Objs  PROVE Object(r, o)
  <2>1. Object(m, o)
    BY <1>1 DEF Objects
  <2>2. CASE o \in Lost(m)
    <3>1. Cre(o) \notin Pend(r)
      <4>1. \A c \in Pend(m) : c.obj = o => c.cb = "account"
        BY <1>1, <2>2, LostIs
      <4> QED  BY <1>8, <4>1, Callbacks
    <3>2. ~Lives(r, o) /\ ~Alive(r, o)
      BY <1>5, <2>2
    <3>3. ~r.obj[o].reg /\ ~r.obj[o].reply /\ ~r.obj[o].loaded /\ ~r.obj[o].timer
      BY <1>3, <1>4, <2>2
    <3> QED  BY <3>1, <3>2, <3>3 DEF Object
  <2>3. CASE o \notin Lost(m)
    <3>1. r.obj[o] = m.obj[o] /\ (Lives(r, o) <=> Lives(m, o)) /\ (Alive(r, o) <=> Alive(m, o))
      BY <1>3, <1>6, <2>3
    <3> QED  BY <1>2, <1>8, <2>1, <3>1 DEF Object
  <2> QED  BY <2>2, <2>3
<1>11. ASSUME NEW n \in Names, r.hash[n] # None
       PROVE  Lives(r, r.hash[n]) /\ r.obj[r.hash[n]].name = n
  <2>1. r.hash[n] \in Objs /\ Lives(m, r.hash[n]) /\ m.obj[r.hash[n]].name = n
    BY <1>1, <1>2, <1>11 DEF Objects, McType
  <2> QED  BY <1>3, <1>6, <1>7, <2>1
<1>12. ASSUME NEW n \in Names
       PROVE  Managed(r, n) <=> \E o \in Objs : Lives(r, o) /\ r.obj[o].name = n
  <2>1. Managed(r, n) <=> \E o \in Objs : Lives(m, o) /\ m.obj[o].name = n
    BY <1>1, <1>2 DEF Managed, Objects
  <2>2. \A o \in Objs : Lives(r, o) /\ r.obj[o].name = n <=> Lives(m, o) /\ m.obj[o].name = n
    BY <1>3, <1>5, <1>6
  <2> QED  BY <2>1, <2>2
<1>13. Apiece(r)
  <2>1. Apiece(m)
    BY <1>1 DEF Objects
  <2>2. \A o \in Objs : /\ Lives(r, o) => Lives(m, o) /\ r.obj[o] = m.obj[o]
                        /\ Lingers(r, o) => Lingers(m, o) /\ r.obj[o] = m.obj[o]
    BY <1>3, <1>5, <1>6
  <2> QED  BY <2>1, <2>2 DEF Apiece
<1>14. Lock(r, mgr)
  <2>1. Setups(r) = Setups(m) \ Mourned(m) /\ Mourned(m) \subseteq Setups(m)
    BY <1>3, <1>5, <1>6 DEF Setups, Mourned, Alive, Lost
  <2>2. IsFiniteSet(Setups(m)) /\ Cardinality(Setups(m)) \in Nat
    BY SetupsFinite
  <2>3. Cardinality(Setups(r)) = Cardinality(Setups(m)) - k /\ k <= Cardinality(Setups(m))
    <3>1. Setups(m) \cap Mourned(m) = Mourned(m)
      BY <2>1
    <3>2. Cardinality(Setups(m) \ Mourned(m)) = Cardinality(Setups(m)) - Cardinality(Setups(m) \cap Mourned(m))
      BY <2>1, <2>2, FS_Difference, FS_Subset
    <3>3. k <= Cardinality(Setups(m))
      BY <2>1, <2>2, FS_Subset
    <3> QED  BY <2>1, <3>1, <3>2, <3>3
  <2>4. Lock(m, mgr)
    BY <1>1 DEF Objects
  <2>5. \A o \in Objs : r.obj[o].loaded => m.obj[o].loaded
    BY <1>3, <1>4
  <2>6. Cardinality(Names) \in Nat
    BY NotNone, FS_CardinalityType
  <2>7. r.lock = Cardinality(Setups(r)) /\ r.lock <= Cardinality(Names)
    BY <1>2, <2>2, <2>3, <2>4, <2>6 DEF Lock
  <2>8. mgr = "unready" => \A o \in Objs : ~r.obj[o].loaded
    BY <2>4, <2>5 DEF Lock
  <2>9. mgr = "unready" /\ r.onBus => r.lock = 0
    <3>1. m.lock = Cardinality(Setups(m)) /\ (mgr = "unready" /\ m.onBus => m.lock = 0)
      BY <2>4 DEF Lock
    <3>2. r.onBus => m.onBus \/ m.lock = k
      BY <1>2
    <3> HIDE DEF k
    <3> QED  BY <1>2, <2>2, <2>3, <3>1, <3>2
  <2>10. mgr = "unready" => \A n \in Names : r.hash[n] # None => r.obj[r.hash[n]].for = "setup"
    <3>1. \A n \in Names : m.hash[n] # None => m.hash[n] \in Objs /\ Lives(m, m.hash[n])
      BY <1>1 DEF Objects, McType
    <3>2. \A n \in Names : r.hash[n] # None => r.obj[r.hash[n]] = m.obj[m.hash[n]]
      BY <1>2, <1>3, <1>4, <1>5, <3>1
    <3> QED  BY <1>2, <2>4, <3>2 DEF Lock
  <2> QED  BY <2>7, <2>8, <2>9, <2>10 DEF Lock
<1>15. Objects(r, mgr)
  <2>1. Queue(r.todo)
    BY <1>1, <1>2 DEF Objects
  <2> QED  BY <1>9, <1>10, <1>11, <1>12, <1>13, <1>14, <2>1 DEF Objects
<1>16. ASSUME NEW o \in Objs  PROVE Current(r, mgr, o)
  <2>1. Lives(r, o) => Lives(m, o) /\ r.obj[o] = m.obj[o]
    BY <1>3, <1>5, <1>6
  <2> QED  BY <1>1, <1>2, <1>8, <2>1 DEF Current
<1> QED  BY <1>1, <1>2, <1>15, <1>16 DEF Handled, Awake, r
=============================================================================
