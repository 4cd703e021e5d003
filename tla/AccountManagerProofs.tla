------------------------ MODULE AccountManagerProofs ------------------------
(***************************************************************************)
(* For any number of accounts, calls, changes from outside and crashes:    *)
(* what AccountManager promises of the stores (RestartFindsTheSame,        *)
(* DeletedStaysDeleted) and of the objects (EntryHasAccount,               *)
(* AccountIsCurrent).  There is a lemma for each action, that it keeps the *)
(* invariant of AccountManagerLemmas, one for each property, that it       *)
(* follows, and then the theorems.                                         *)
(***************************************************************************)
EXTENDS AccountManagerLemmas

-----------------------------------------------------------------------------
(* The actions.                                                             *)

(* What the invariant says of a process that runs.                          *)
LEMMA Now ==
  ASSUME Inv, up
  PROVE  /\ Handled(mc, events) /\ mc \in McType /\ Sound(mc.s, mc.known, mc.gone, events)
         /\ Objects(mc, mgr) /\ (\A o \in Objs : Current(mc, mgr, o))
         /\ events \in Seq(Signal) /\ mgr \in {"unready", "ready", "failed"}
         /\ full \in BOOLEAN
  BY DEF Inv, Types, Handled, Awake

(* A handler that ends in a state like that keeps it.                       *)
LEMMA BecomesKeeps ==
  ASSUME Inv, up' = TRUE, mgr' = mgr, full' = full, events' \in Seq(Signal),
         NEW r, Handled(r, events'), Becomes(r)
  PROVE  Inv'
<1>1. Handled(Collect(r), events')
  BY CollectKeeps
<1>2. mc' = Collect(r)
  BY DEF Becomes
<1>3. Handled(mc', events')
  BY <1>1, <1>2
<1>4. /\ mc' \in McType /\ Awake(mc', mgr', events') /\ Synced((mc').s, (mc').failed)
  BY <1>3 DEF Handled
<1>5. Types'
  BY <1>4 DEF Types, Inv
<1> QED  BY <1>4, <1>5 DEF Inv

(* The entry that CreateAccount makes waits for its object.                 *)
LEMMA CreateComes ==
  ASSUME Inv, up, Idle, mc.onBus, NEW n \in Names, Free(mc, n), Fresh(mc) # {}
  PROVE  Comes(mc, [mc EXCEPT !.s = CreateAccount(mc.s, n)], n, events)
<1> DEFINE s == CreateAccount(mc.s, n)
           m == [mc EXCEPT !.s = s]
<1>1. /\ mc \in McType /\ Awake(mc, mgr, events) /\ Sound(mc.s, mc.known, mc.gone, events)
      /\ Objects(mc, mgr)
  BY Now DEF Handled
<1>2. mc.s \in StoreType
  BY <1>1 DEF McType
<1>3. /\ mc.s.cache[n] = NoEntry /\ ~Owns(mc.s, n)
      /\ \A p \in Objs : Lives(mc, p) => mc.obj[p].name # n
      /\ \A p \in Objs : Lingers(mc, p) /\ mc.obj[p].name = n =>
              p \in Setups(mc) /\ Acc(p) \in Pend(mc)
  BY <1>1, FreeIs
<1>4. ASSUME NEW p \in Objs, Lingers(mc, p), mc.obj[p].name = n  PROVE FALSE
  <2>1. p \in Setups(mc) /\ Acc(p) \in Pend(mc)
    BY <1>3, <1>4
  <2>2. CASE mgr = "unready"
    <3>1. Cardinality(Setups(mc)) = 0
      BY <1>1, <2>2 DEF Objects, Lock
    <3> QED  BY <2>1, <3>1, SetupsFinite, FS_EmptySet
  <2>3. CASE mc.todo = <<>>
    BY <2>1, <2>3 DEF Pend
  <2> QED  BY <2>2, <2>3 DEF Idle
<1>5. Sets(mc.s, s, n, "manager", 1)
  BY <1>2, TheKeys, SetAttributeIs DEF CreateAccount
<1> HIDE DEF s
<1>6. s \in StoreType /\ Sound(s, mc.known, mc.gone \ {n}, events)
  <2>1. mc.gone \ {n} \subseteq mc.gone
    OBVIOUS
  <2>2. Sound(mc.s, mc.known, mc.gone \ {n}, events)
    BY <1>1, <2>1, SoundGrows
  <2>3. n \in mc.gone \ {n} => Excused(mc.known, n)
    OBVIOUS
  <2>4. 1 \in 0..2 /\ "manager" \in Keys
    BY TheKeys
  <2> QED  BY <1>2, <1>3, <1>5, <2>2, <2>3, <2>4, SetsSound
<1>7. s.ag = mc.s.ag /\ \A p \in Names \ {n} : s.cache[p] = mc.s.cache[p]
  BY <1>5 DEF Sets, Apart
<1>8. s.cache[n].val["manager"] = 1
  <2>1. "manager" \in Keys
    BY TheKeys
  <2> QED  BY <1>2, <1>5, <2>1, SetsIs
<1>9. /\ m \in McType /\ m.s = s /\ m.obj = mc.obj /\ m.hash = mc.hash /\ m.lock = mc.lock
      /\ m.onBus = mc.onBus /\ m.todo = mc.todo /\ m.known = mc.known /\ m.gone = mc.gone
  BY <1>1, <1>6 DEF McType
<1> HIDE DEF m
<1>10. Managed(m, n)
  BY <1>8, <1>9 DEF Managed, None
<1>11. Comes(mc, m, n, events)
  BY <1>1, <1>3, <1>4, <1>6, <1>7, <1>9, <1>10 DEF Comes
<1> QED  BY <1>11 DEF m, s

(* account_manager_create_account.                                          *)
LEMMA CreateAccountKeeps ==
  ASSUME Inv, NEW given \in {None, 1}, AccountManagerCreateAccount(given)
  PROVE  Inv'
<1> DEFINE n == UniqueName(mc.s, OnBusNames(mc))
           m == [mc EXCEPT !.s = CreateAccount(mc.s, n)]
           r == NewAccount(m, n, "create", given)
<1>1. /\ up /\ Idle /\ mc.onBus /\ Room /\ Fresh(mc) # {}
      /\ UNCHANGED <<up, mgr, events, full>> /\ Becomes(r)
  BY DEF AccountManagerCreateAccount, Call, Idle
<1>2. n \in Names /\ Free(mc, n)
  <2> DEFINE I == {p \in Names : ~Cached(mc.s, p) /\ p \notin OnBusNames(mc)}
  <2>1. I # {}
    <3>1. Cardinality({}) = 0
      BY FS_EmptySet
    <3>2. Room => Cardinality(I) > 0
      <4> DEFINE c == Cardinality(I)
      <4>1. c \in Nat
        BY NotNone, FS_Subset, FS_CardinalityType
      <4>2. Room => c > 0 \/ c > 1
        BY DEF Room
      <4> HIDE DEF c
      <4>3. Room => c > 0
        BY <4>1, <4>2
      <4> QED  BY <4>3 DEF c
    <3> QED  BY <1>1, <3>1, <3>2
  <2>2. {p \in Names : Free(mc, p)} # {}
    BY <2>1 DEF Free
  <2> QED  BY <2>2, UniqueNameIs
<1> HIDE DEF n
<1>3. Comes(mc, m, n, events)
  BY <1>1, <1>2, CreateComes
<1> HIDE DEF m
<1>4. "create" \in {"create", "created"}
  OBVIOUS
<1>5. Handled(r, events)
  BY <1>2, <1>3, <1>4, NewAccountKeeps DEF Handled
<1> HIDE DEF r
<1>6. events' = events /\ events \in Seq(Signal) /\ up' = TRUE /\ mgr' = mgr /\ full' = full
  BY <1>1, Now DEF Inv, Types
<1> QED  BY <1>1, <1>5, <1>6, BecomesKeeps

(* The callbacks of the connection manager.                                 *)
Popped(c, m) ==
  /\ m \in McType /\ m.s = mc.s /\ m.obj = mc.obj /\ m.hash = mc.hash /\ m.lock = mc.lock
  /\ m.onBus = mc.onBus /\ m.gone = mc.gone /\ m.known = mc.known /\ m.failed = mc.failed
  /\ Queue(m.todo) /\ c \in Callback /\ Pend(mc) = Pend(m) \cup {c}
  /\ c.cb # "altered" => c \notin Pend(m)
  /\ c.cb = "account" => Cre(c.obj) \notin Pend(m)

(* The first callback of the queue is taken out.                            *)
LEMMA PopIs ==
  ASSUME Inv, up, mc.todo # <<>>
  PROVE  Popped(Head(mc.todo), [mc EXCEPT !.todo = Tail(@)])
<1> DEFINE q == Tail(mc.todo)
           m == [mc EXCEPT !.todo = q]
<1>1. mc \in McType /\ mc.todo \in Seq(Callback) /\ Queue(mc.todo)
  BY Now DEF McType, Objects
<1>2. /\ q \in Seq(Callback) /\ Head(mc.todo) \in Callback /\ Queue(q)
      /\ Elems(mc.todo) = Elems(q) \cup {Head(mc.todo)}
      /\ Head(mc.todo).cb # "altered" => Head(mc.todo) \notin Elems(q)
      /\ Head(mc.todo).cb = "account" => Cre(Head(mc.todo).obj) \notin Elems(q)
  BY <1>1, QueuePop
<1> HIDE DEF q
<1>3. /\ m \in McType /\ m.s = mc.s /\ m.obj = mc.obj /\ m.hash = mc.hash /\ m.lock = mc.lock
      /\ m.onBus = mc.onBus /\ m.gone = mc.gone /\ m.known = mc.known /\ m.failed = mc.failed
      /\ m.todo = q
  BY <1>1, <1>2 DEF McType
<1>4. m = [mc EXCEPT !.todo = Tail(@)]
  BY <1>1 DEF McType, q
<1> HIDE DEF m
<1>5. Pend(m) = Elems(q) /\ Pend(mc) = Elems(mc.todo)
  BY <1>3, PendIs
<1> QED  BY <1>2, <1>3, <1>4, <1>5 DEF Popped

(* It is for an account that has been freed.                                *)
LEMMA PopFreed ==
  ASSUME Inv, up, NEW c, NEW m, Popped(c, m), mc.obj[c.obj].st = "freed"
  PROVE  Handled(m, events)
<1> DEFINE o == c.obj
<1>1. /\ Handled(mc, events) /\ mc \in McType /\ Sound(mc.s, mc.known, mc.gone, events)
      /\ Objects(mc, mgr) /\ (\A p \in Objs : Current(mc, mgr, p))
  BY Now
<1>2. /\ m \in McType /\ m.s = mc.s /\ m.obj = mc.obj /\ m.hash = mc.hash /\ m.lock = mc.lock
      /\ m.onBus = mc.onBus /\ m.gone = mc.gone /\ m.known = mc.known /\ m.failed = mc.failed
      /\ Queue(m.todo) /\ c \in Callback /\ Pend(mc) = Pend(m) \cup {c}
  BY DEF Popped
<1>3. o \in Objs /\ ~Alive(mc, o) /\ c = Acc(o)
  <2>1. ~Alive(mc, o) /\ c \in Pend(mc)
    BY <1>2 DEF Alive
  <2>2. c.cb = "account"
    BY <1>1, <2>1 DEF Objects
  <2> QED  BY <1>2, <2>1, <2>2, Callbacks
<1> HIDE DEF o
<1>4. \A p \in Objs : /\ Lives(m, p) <=> Lives(mc, p)
                      /\ Alive(m, p) <=> Alive(mc, p)
                      /\ Lingers(m, p) <=> Lingers(mc, p)
  BY <1>2 DEF Alive, Lives, Lingers
<1>5. ASSUME NEW p \in Objs  PROVE Object(m, p)
  <2>1. Object(mc, p)
    BY <1>1 DEF Objects
  <2>2. Cre(p) \in Pend(m) => Cre(p) \in Pend(mc)
    BY <1>2
  <2>3. Cre(p) \in Pend(mc) => Cre(p) \in Pend(m)
    BY <1>2, <1>3, Callbacks
  <2>4. Alive(mc, p) => (Acc(p) \in Pend(m) <=> Acc(p) \in Pend(mc))
    BY <1>2, <1>3, Callbacks
  <2> QED  BY <1>2, <1>4, <2>1, <2>2, <2>3, <2>4 DEF Object
<1>6. Objects(m, mgr)
  <2>1. \A x \in Pend(m) : m.obj[x.obj].st # "none" /\ (x.cb # "account" => Alive(m, x.obj))
    BY <1>1, <1>2 DEF Objects, Alive
  <2>2. \A n \in Names : m.hash[n] # None => Lives(m, m.hash[n]) /\ m.obj[m.hash[n]].name = n
    BY <1>1, <1>2 DEF Objects, Lives, Alive
  <2>3. \A n \in Names : Managed(m, n) <=> \E p \in Objs : Lives(m, p) /\ m.obj[p].name = n
    BY <1>1, <1>2, <1>4 DEF Objects, Managed
  <2>4. Apiece(m)
    BY <1>1, <1>2, <1>4 DEF Objects, Apiece
  <2>5. Lock(m, mgr)
    <3>1. Setups(m) = Setups(mc)
      BY <1>2 DEF Setups, Alive
    <3> QED  BY <1>1, <1>2, <3>1 DEF Objects, Lock
  <2> QED  BY <1>2, <1>5, <2>1, <2>2, <2>3, <2>4, <2>5 DEF Objects
<1>7. ASSUME NEW p \in Objs  PROVE Current(m, mgr, p)
  <2>1. Alt(p, "Enabled") \in Pend(mc) => Alt(p, "Enabled") \in Pend(m)
    BY <1>2, <1>3, Callbacks
  <2> QED  BY <1>1, <1>2, <1>4, <2>1 DEF Current
<1> QED  BY <1>1, <1>2, <1>6, <1>7 DEF Handled, Awake

(* _mcd_account_set_enabled, when the value is stored already.              *)
LEMMA StoredIs ==
  ASSUME NEW m \in McType, NEW o \in Objs, NEW on \in BOOLEAN
  PROVE  LET x == SetEnabled(m, o, on, "stored") IN
         /\ x \in McType /\ x.s = m.s
         /\ x.obj = [m.obj EXCEPT ![o] = [m.obj[o] EXCEPT !.enabled = on,
                                   !.timer = m.obj[o].timer \/ m.obj[o].enabled # on]]
         /\ x.hash = m.hash /\ x.lock = m.lock /\ x.onBus = m.onBus
         /\ x.todo = m.todo /\ x.gone = m.gone /\ x.known = m.known /\ x.failed = m.failed
<1> DEFINE x == SetEnabled(m, o, on, "stored")
           obj == [m.obj EXCEPT ![o] = [m.obj[o] EXCEPT !.enabled = on,
                                   !.timer = m.obj[o].timer \/ m.obj[o].enabled # on]]
<1>1. m.obj[o] \in ObjType /\ m.obj \in [Objs -> ObjType]
  BY DEF McType
<1>2. obj \in [Objs -> ObjType]
  BY <1>1 DEF ObjType
<1>3. x = [m EXCEPT !.obj = obj]
  <2>1. CASE m.obj[o].enabled = on
    <3>1. [m.obj[o] EXCEPT !.enabled = on, !.timer = m.obj[o].timer \/ m.obj[o].enabled # on]
            = m.obj[o]
      BY <1>1, <2>1 DEF ObjType
    <3>2. obj = m.obj
      BY <1>1, <3>1
    <3> QED  BY <2>1, <3>2 DEF SetEnabled, McType
  <2>2. CASE m.obj[o].enabled # on
    BY <1>1, <2>2 DEF SetEnabled, McType, ObjType
  <2> QED  BY <2>1, <2>2
<1> HIDE DEF obj, x
<1> QED  BY <1>2, <1>3 DEF McType, obj, x

(* mcd_account_altered_by_plugin                                            *)
LEMMA AlteredIs ==
  ASSUME NEW m \in McType, NEW o \in Objs, NEW key \in {"Enabled", "param"},
         m.obj[o].name \in Names
  PROVE  LET r == AlteredByPlugin(m, o, key)
             v == m.s.cache[m.obj[o].name].val["Enabled"] IN
         /\ r \in McType
         /\ r.s = m.s /\ r.hash = m.hash /\ r.lock = m.lock /\ r.onBus = m.onBus
         /\ r.todo = m.todo /\ r.gone = m.gone /\ r.known = m.known /\ r.failed = m.failed
         /\ \A p \in Objs \ {o} : r.obj[p] = m.obj[p]
         /\ r.obj[o].st = m.obj[o].st /\ r.obj[o].name = m.obj[o].name
         /\ r.obj[o].for = m.obj[o].for /\ r.obj[o].loaded = m.obj[o].loaded
         /\ r.obj[o].reg = m.obj[o].reg /\ r.obj[o].removed = m.obj[o].removed
         /\ r.obj[o].reply = m.obj[o].reply /\ r.obj[o].valid = m.obj[o].valid
         /\ r.obj[o].enabled = IF key = "Enabled" /\ v # None THEN v = 2 ELSE m.obj[o].enabled
<1> DEFINE r == AlteredByPlugin(m, o, key)
           v == m.s.cache[m.obj[o].name].val["Enabled"]
<1>1. m.obj[o] \in ObjType /\ m.obj \in [Objs -> ObjType]
  BY DEF McType
<1>2. CASE key = "Enabled" /\ v # None
  <2>1. r = SetEnabled(m, o, v = 2, "stored")
    BY <1>2 DEF AlteredByPlugin
  <2>2. CASE v = 2
    <3>1. r = SetEnabled(m, o, TRUE, "stored")
      <4> HIDE DEF r
      <4> QED  BY <2>1, <2>2
    <3> HIDE DEF r
    <3>2. /\ r \in McType /\ r.s = m.s
          /\ r.obj = [m.obj EXCEPT ![o] = [m.obj[o] EXCEPT !.enabled = TRUE,
                                    !.timer = m.obj[o].timer \/ m.obj[o].enabled # TRUE]]
          /\ r.hash = m.hash /\ r.lock = m.lock /\ r.onBus = m.onBus
          /\ r.todo = m.todo /\ r.gone = m.gone /\ r.known = m.known /\ r.failed = m.failed
      BY <3>1, StoredIs
    <3> DEFINE ob == [m.obj[o] EXCEPT !.enabled = TRUE,
                                      !.timer = m.obj[o].timer \/ m.obj[o].enabled # TRUE]
    <3>3. /\ ob.st = m.obj[o].st /\ ob.name = m.obj[o].name
          /\ ob.for = m.obj[o].for /\ ob.loaded = m.obj[o].loaded
          /\ ob.reg = m.obj[o].reg /\ ob.removed = m.obj[o].removed
          /\ ob.reply = m.obj[o].reply /\ ob.valid = m.obj[o].valid /\ ob.enabled = TRUE
      BY <1>1 DEF ObjType
    <3>4. r.obj = [m.obj EXCEPT ![o] = ob]
      BY <3>2
    <3> HIDE DEF ob
    <3>5. r.obj[o] = ob /\ \A p \in Objs \ {o} : r.obj[p] = m.obj[p]
      BY <1>1, <3>4
    <3> QED  BY <1>2, <2>2, <3>2, <3>3, <3>5 DEF r
  <2>3. CASE v # 2
    <3>1. r = SetEnabled(m, o, FALSE, "stored")
      <4> HIDE DEF r
      <4> QED  BY <2>1, <2>3
    <3> HIDE DEF r
    <3>2. /\ r \in McType /\ r.s = m.s
          /\ r.obj = [m.obj EXCEPT ![o] = [m.obj[o] EXCEPT !.enabled = FALSE,
                                    !.timer = m.obj[o].timer \/ m.obj[o].enabled # FALSE]]
          /\ r.hash = m.hash /\ r.lock = m.lock /\ r.onBus = m.onBus
          /\ r.todo = m.todo /\ r.gone = m.gone /\ r.known = m.known /\ r.failed = m.failed
      BY <3>1, StoredIs
    <3> DEFINE ob == [m.obj[o] EXCEPT !.enabled = FALSE,
                                      !.timer = m.obj[o].timer \/ m.obj[o].enabled # FALSE]
    <3>3. /\ ob.st = m.obj[o].st /\ ob.name = m.obj[o].name
          /\ ob.for = m.obj[o].for /\ ob.loaded = m.obj[o].loaded
          /\ ob.reg = m.obj[o].reg /\ ob.removed = m.obj[o].removed
          /\ ob.reply = m.obj[o].reply /\ ob.valid = m.obj[o].valid /\ ob.enabled = FALSE
      BY <1>1 DEF ObjType
    <3>4. r.obj = [m.obj EXCEPT ![o] = ob]
      BY <3>2
    <3> HIDE DEF ob
    <3>5. r.obj[o] = ob /\ \A p \in Objs \ {o} : r.obj[p] = m.obj[p]
      BY <1>1, <3>4
    <3> QED  BY <1>2, <2>3, <3>2, <3>3, <3>5 DEF r
  <2> QED  BY <2>2, <2>3
<1>3. CASE key = "param"
  <2> DEFINE ob == [m.obj[o] EXCEPT !.timer = TRUE]
             obj == [m.obj EXCEPT ![o] = ob]
  <2>1. r = [m EXCEPT !.obj = obj]
    BY <1>1, <1>3 DEF AlteredByPlugin, McType
  <2>2. ob \in ObjType /\ obj \in [Objs -> ObjType]
    BY <1>1 DEF ObjType
  <2>3. obj[o] = ob /\ \A p \in Objs \ {o} : obj[p] = m.obj[p]
    BY <1>1
  <2> HIDE DEF r, obj
  <2>4. /\ r \in McType /\ r.obj = obj /\ r.s = m.s
        /\ r.hash = m.hash /\ r.lock = m.lock /\ r.onBus = m.onBus
        /\ r.todo = m.todo /\ r.gone = m.gone /\ r.known = m.known /\ r.failed = m.failed
    BY <2>1, <2>2 DEF McType
  <2> QED  BY <1>1, <1>3, <2>3, <2>4 DEF ObjType, r
<1>4. CASE key = "Enabled" /\ v = None
  <2>1. r = m
    BY <1>4 DEF AlteredByPlugin
  <2> QED  BY <1>4, <2>1
<1> QED  BY <1>2, <1>3, <1>4

(* on_manager_ready                                                         *)
LEMMA PopAccount ==
  ASSUME Inv, up, mgr # "unready", NEW c, NEW m, Popped(c, m), mc.obj[c.obj].st = "live",
         c.cb = "account"
  PROVE  Handled(OnManagerReady(m, c.obj), events)
<1> DEFINE o == c.obj
           n == mc.obj[o].name
           r == OnManagerReady(m, o)
<1>1. /\ Handled(mc, events) /\ mc \in McType /\ Sound(mc.s, mc.known, mc.gone, events)
      /\ Objects(mc, mgr) /\ Awake(mc, mgr, events) /\ Synced(mc.s, mc.failed)
      /\ (\A p \in Objs : Current(mc, mgr, p))
  BY Now DEF Handled
<1>2. /\ m \in McType /\ m.s = mc.s /\ m.obj = mc.obj /\ m.hash = mc.hash /\ m.lock = mc.lock
      /\ m.onBus = mc.onBus /\ m.gone = mc.gone /\ m.known = mc.known /\ m.failed = mc.failed
      /\ Queue(m.todo) /\ c \in Callback /\ Pend(mc) = Pend(m) \cup {c}
      /\ c \notin Pend(m) /\ Cre(o) \notin Pend(m)
  BY DEF Popped
<1>3. o \in Objs /\ c = Acc(o) /\ Alive(mc, o) /\ c \in Pend(mc)
  BY <1>2, Callbacks DEF Alive
<1> HIDE DEF o
<1>4. Object(mc, o)
  BY <1>1, <1>3 DEF Objects
<1>5. n \in Names /\ ~mc.obj[o].loaded /\ ~mc.obj[o].reply
  BY <1>3, <1>4 DEF Object
<1>6. Alone(mc, o, n)
  <2>1. Lives(mc, o) \/ Lingers(mc, o)
    BY <1>3, <1>5 DEF Lives, Lingers
  <2> QED  BY <1>1, <1>3, <2>1, AloneIs DEF Objects
<1>7. /\ Lives(m, o) <=> Lives(mc, o)
      /\ Alive(m, o) /\ m.obj[o].name = n
  BY <1>2, <1>3 DEF Lives, Alive
<1>8. m.hash[n] \in {None, o} /\ (m.hash[n] = o => Lives(m, o))
  <2>1. mc.hash[n] # None => /\ mc.hash[n] \in Objs /\ Lives(mc, mc.hash[n])
                             /\ mc.obj[mc.hash[n]].name = n
    BY <1>1, <1>5 DEF Objects, McType
  <2>2. mc.hash[n] \in {None, o}
    BY <1>6, <2>1 DEF Alone
  <2>3. None # o
    BY <1>3 DEF None, Objs
  <2> HIDE DEF n
  <2> QED  BY <1>2, <1>7, <2>1, <2>2, <2>3
<1>9. Managed(m, n) <=> Lives(m, o)
  <2>1. Managed(mc, n) <=> \E p \in Objs : Lives(mc, p) /\ mc.obj[p].name = n
    BY <1>1, <1>5 DEF Objects
  <2>2. \A p \in Objs : Lives(mc, p) /\ mc.obj[p].name = n => p = o
    BY <1>6 DEF Alone
  <2>3. Managed(m, n) <=> Managed(mc, n)
    BY <1>2 DEF Managed
  <2> QED  BY <1>3, <1>7, <2>1, <2>2, <2>3
<1>10. m.lock = Cardinality(Setups(m)) /\ m.lock <= Cardinality(Names)
  <2>1. Setups(m) = Setups(mc)
    BY <1>2 DEF Setups, Alive
  <2> QED  BY <1>1, <1>2, <2>1 DEF Objects, Lock
<1>11. Lives(m, o) => \/ m.obj[o].enabled = (m.s.cache[n].val["Enabled"] = 2)
                      \/ Knows(m.known, n, {"missed"})
                      \/ Alt(o, "Enabled") \in Pend(m) /\ m.s.cache[n].val["Enabled"] # None
  <2>1. Alt(o, "Enabled") # c
    BY <1>3, Callbacks
  <2>2. Current(mc, mgr, o)
    BY <1>1, <1>3
  <2> QED  BY <1>2, <1>7, <2>1, <2>2 DEF Current
<1>12. Frame(mc, m, o, n)
  <2>1. \A x \in Callback : x.obj # o => (x \in Pend(m) <=> x \in Pend(mc))
    BY <1>2, <1>3, Callbacks
  <2> QED  BY <1>2, <2>1 DEF Frame
<1>13. m.obj[o].removed => m.obj[o].for = "setup"
  BY <1>2, <1>3, <1>4, <1>5 DEF Object
<1>14. Arrives(mc, m, o, n, events)
  <2> HIDE DEF n
  <2>1. Acc(o) \notin Pend(m)
    BY <1>2, <1>3
  <2>2. Alive(mc, o) => mc.obj[o].name = n
    BY DEF n
  <2>3. Lives(m, o) /\ ~Lives(mc, o) => \A p \in Objs \ {o} : Lingers(mc, p) => mc.obj[p].name # n
    BY <1>7
  <2>4. ~m.obj[o].loaded /\ ~m.obj[o].reply
    BY <1>2, <1>5
  <2>5. Sound(m.s, m.known, m.gone, events) /\ Synced(m.s, m.failed)
    BY <1>1, <1>2
  <2> QED  BY <1>1, <1>2, <1>6, <1>7, <1>8, <1>9, <1>10, <1>11, <1>12, <1>13,
              <2>1, <2>2, <2>3, <2>4, <2>5 DEF Arrives
<1>15. CASE m.obj[o].for = "create"
  <2> HIDE DEF n, r
  <2> QED  BY <1>3, <1>5, <1>14, <1>15, ArrivesCreated DEF Handled, r, o
<1>16. CASE m.obj[o].for # "create"
  <2>1. m.hash[n] = o <=> Lives(m, o)
    <3>1. Cre(o) \notin Pend(mc)
      BY <1>2, <1>3, Callbacks
    <3>2. Lives(mc, o) => mc.hash[n] = o
      BY <1>2, <1>4, <1>16, <3>1 DEF Object
    <3> QED  BY <1>2, <1>7, <1>8, <3>2
  <2> HIDE DEF n, r
  <2> QED  BY <1>3, <1>5, <1>14, <1>16, <2>1, ArrivesReady DEF Handled, r, o
<1> QED  BY <1>15, <1>16

(* async_created_manager_cb                                                 *)
LEMMA PopCreated ==
  ASSUME Inv, up, mgr # "unready", NEW c, NEW m, Popped(c, m), mc.obj[c.obj].st = "live",
         c.cb = "created"
  PROVE  Handled(AsyncCreatedManagerCb(m, c.obj), events)
<1> DEFINE o == c.obj
           n == mc.obj[o].name
           t == AddAccount(m, o)
           r == CheckValidity(t, o)
           ok == ParametersOk(mc.s, n)
           ob == [mc.obj[o] EXCEPT !.valid = ok, !.timer = mc.obj[o].timer \/ ok # mc.obj[o].valid]
<1>1. /\ Handled(mc, events) /\ mc \in McType /\ Sound(mc.s, mc.known, mc.gone, events)
      /\ Objects(mc, mgr) /\ Synced(mc.s, mc.failed)
      /\ (\A p \in Objs : Current(mc, mgr, p))
  BY Now DEF Handled
<1>2. /\ m \in McType /\ m.s = mc.s /\ m.obj = mc.obj /\ m.hash = mc.hash /\ m.lock = mc.lock
      /\ m.onBus = mc.onBus /\ m.gone = mc.gone /\ m.known = mc.known /\ m.failed = mc.failed
      /\ Queue(m.todo) /\ c \in Callback /\ Pend(mc) = Pend(m) \cup {c}
      /\ c \notin Pend(m)
  BY DEF Popped
<1>3. o \in Objs /\ c = Cre(o) /\ Alive(mc, o) /\ c \in Pend(mc)
  BY <1>2, Callbacks DEF Alive
<1> HIDE DEF o
<1>4. Object(mc, o)
  BY <1>1, <1>3 DEF Objects
<1>5. n \in Names /\ ~mc.obj[o].loaded /\ ~mc.obj[o].reply /\ ~mc.obj[o].reg /\ Lives(mc, o)
      /\ mc.obj[o].for = "created"
  BY <1>3, <1>4 DEF Object
<1>6. Alone(mc, o, n) /\ Managed(mc, n)
  BY <1>1, <1>3, <1>5, AloneIs DEF Objects
<1>7. mc.obj[o] \in ObjType /\ mc.obj \in [Objs -> ObjType] /\ mc.hash \in [Names -> Objs \cup {None}]
  BY <1>1, <1>3 DEF McType
<1>8. /\ t \in McType /\ t.obj = mc.obj /\ t.hash = [mc.hash EXCEPT ![n] = o] /\ t.lock = mc.lock
      /\ t.onBus = mc.onBus /\ t.s = mc.s /\ t.todo = m.todo /\ t.gone = mc.gone
      /\ t.known = mc.known /\ t.failed = mc.failed
  <2>1. t = [m EXCEPT !.hash = [mc.hash EXCEPT ![n] = o]]
    BY <1>2 DEF AddAccount, McType
  <2>2. [mc.hash EXCEPT ![n] = o] \in [Names -> Objs \cup {None}]
    BY <1>3, <1>7
  <2> HIDE DEF t, n
  <2> QED  BY <1>2, <2>1, <2>2 DEF McType
<1> HIDE DEF t
<1>9. /\ r \in McType /\ r.obj = [mc.obj EXCEPT ![o] = ob]
      /\ r.s = mc.s /\ r.hash = t.hash /\ r.lock = mc.lock /\ r.onBus = mc.onBus
      /\ r.todo = m.todo /\ r.gone = mc.gone /\ r.known = mc.known /\ r.failed = mc.failed
  <2>1. LET x == CheckValidity(t, o)
            ok1 == ParametersOk(t.s, t.obj[o].name) IN
        /\ x \in McType
        /\ x.obj = [t.obj EXCEPT ![o] = [t.obj[o] EXCEPT !.valid = ok1,
                                             !.timer = t.obj[o].timer \/ ok1 # t.obj[o].valid]]
        /\ x.s = t.s /\ x.hash = t.hash /\ x.lock = t.lock /\ x.onBus = t.onBus
        /\ x.todo = t.todo /\ x.gone = t.gone /\ x.known = t.known /\ x.failed = t.failed
    BY <1>3, <1>8, CheckValidityIs
  <2> HIDE DEF r
  <2> QED  BY <1>8, <2>1 DEF r
<1> HIDE DEF r
<1>10. ok \in BOOLEAN
  BY DEF ParametersOk
<1> HIDE DEF ok
<1>11. ob.name = n /\ ~ob.loaded /\ ~ob.reg /\ ~ob.reply /\ ob.st = "live" /\ ~ob.removed
       /\ ob.for = "created" /\ ob.enabled = mc.obj[o].enabled
  BY <1>3, <1>5, <1>7, <1>10 DEF ObjType, Alive, Lives
<1> HIDE DEF ob
<1>12. r.obj[o] = ob /\ \A p \in Objs \ {o} : r.obj[p] = mc.obj[p]
  BY <1>3, <1>7, <1>9
<1>13. r.hash[n] = o /\ \A p \in Names \ {n} : r.hash[p] = mc.hash[p]
  BY <1>5, <1>7, <1>8, <1>9
<1>14. /\ Pend(r) = Pend(m) /\ Cre(o) \notin Pend(r) /\ Acc(o) \in Pend(r)
       /\ \A x \in Callback : x.obj # o => (x \in Pend(r) <=> x \in Pend(mc))
  <2>1. Pend(r) = Pend(m)
    BY <1>9 DEF Pend
  <2>2. Acc(o) \in Pend(mc) /\ Acc(o) # c
    BY <1>3, <1>4, <1>5, Callbacks DEF Object
  <2> QED  BY <1>2, <1>3, <2>1, <2>2, Callbacks
<1>15. Frame(mc, r, o, n)
  BY <1>9, <1>12, <1>13, <1>14 DEF Frame
<1>16. Alive(r, o) /\ Lives(r, o) /\ r.obj[o].name = n /\ Managed(r, n)
  BY <1>6, <1>9, <1>11, <1>12 DEF Alive, Lives, Managed
<1>17. Object(r, o)
  BY <1>5, <1>11, <1>12, <1>13, <1>14, <1>16 DEF Object
<1>18. Objects(r, mgr)
  <2>1. Lock(r, mgr)
    <3>1. Setups(r) = Setups(mc)
      BY <1>5, <1>11, <1>12 DEF Setups, Alive
    <3> QED  BY <1>1, <1>9, <3>1 DEF Objects, Lock
  <2>2. Queue(r.todo) /\ r.hash[n] \in {None, o} /\ (r.hash[n] = o => Lives(r, o))
    BY <1>2, <1>9, <1>13, <1>16
  <2>3. (Alive(mc, o) => mc.obj[o].name = n) /\ (Managed(r, n) <=> Lives(r, o))
    BY <1>16
  <2> HIDE DEF n
  <2> QED  BY <1>1, <1>3, <1>5, <1>6, <1>9, <1>15, <1>16, <1>17, <2>1, <2>2, <2>3, OneObject
<1>19. ASSUME NEW p \in Objs  PROVE Current(r, mgr, p)
  <2>1. CASE p = o
    <3>1. Alt(o, "Enabled") \in Pend(mc) => Alt(o, "Enabled") \in Pend(r)
      BY <1>2, <1>3, <1>14, Callbacks
    <3>2. Current(mc, mgr, o)
      BY <1>1, <1>3
    <3> QED  BY <1>5, <1>9, <1>11, <1>12, <2>1, <3>1, <3>2 DEF Current
  <2>2. CASE p # o
    <3>1. Object(mc, p) /\ Current(mc, mgr, p)
      BY <1>1 DEF Objects
    <3> HIDE DEF n
    <3> QED  BY <1>1, <1>3, <1>5, <1>6, <1>15, <2>2, <3>1, OthersCurrent
  <2> QED  BY <2>1, <2>2
<1>20. Handled(r, events)
  BY <1>1, <1>9, <1>18, <1>19 DEF Handled, Awake
<1> QED  BY <1>20 DEF r, t, o, AsyncCreatedManagerCb

(* mcd_account_altered_by_plugin, which had to wait.                        *)
LEMMA PopAltered ==
  ASSUME Inv, up, NEW c, NEW m, Popped(c, m), mc.obj[c.obj].st = "live", c.cb = "altered"
  PROVE  Handled(AlteredByPlugin(m, c.obj, c.key), events)
<1> DEFINE o == c.obj
           key == c.key
           n == mc.obj[o].name
           r == AlteredByPlugin(m, o, key)
           v == mc.s.cache[n].val["Enabled"]
<1>1. /\ Handled(mc, events) /\ mc \in McType /\ Sound(mc.s, mc.known, mc.gone, events)
      /\ Objects(mc, mgr) /\ Synced(mc.s, mc.failed)
      /\ (\A p \in Objs : Current(mc, mgr, p))
  BY Now DEF Handled
<1>2. /\ m \in McType /\ m.s = mc.s /\ m.obj = mc.obj /\ m.hash = mc.hash /\ m.lock = mc.lock
      /\ m.onBus = mc.onBus /\ m.gone = mc.gone /\ m.known = mc.known /\ m.failed = mc.failed
      /\ Queue(m.todo) /\ c \in Callback /\ Pend(mc) = Pend(m) \cup {c}
  BY DEF Popped
<1>3. o \in Objs /\ key \in {"Enabled", "param"} /\ c = Alt(o, key) /\ Alive(mc, o)
  BY <1>2, Callbacks DEF Alive
<1>4. n \in Names
  BY <1>1, <1>3 DEF Objects, Object
<1>5. /\ r \in McType
      /\ r.s = mc.s /\ r.hash = mc.hash /\ r.lock = mc.lock /\ r.onBus = mc.onBus
      /\ r.todo = m.todo /\ r.gone = mc.gone /\ r.known = mc.known /\ r.failed = mc.failed
      /\ \A p \in Objs \ {o} : r.obj[p] = mc.obj[p]
      /\ r.obj[o].st = mc.obj[o].st /\ r.obj[o].name = n
      /\ r.obj[o].for = mc.obj[o].for /\ r.obj[o].loaded = mc.obj[o].loaded
      /\ r.obj[o].reg = mc.obj[o].reg /\ r.obj[o].removed = mc.obj[o].removed
      /\ r.obj[o].reply = mc.obj[o].reply /\ r.obj[o].valid = mc.obj[o].valid
      /\ r.obj[o].enabled = IF key = "Enabled" /\ v # None THEN v = 2 ELSE mc.obj[o].enabled
  <2>1. m.obj[o].name = n /\ m.s.cache[n].val["Enabled"] = v
    BY <1>2
  <2>2. LET x == AlteredByPlugin(m, o, key)
            w == m.s.cache[m.obj[o].name].val["Enabled"] IN
         /\ x \in McType
         /\ x.s = m.s /\ x.hash = m.hash /\ x.lock = m.lock /\ x.onBus = m.onBus
         /\ x.todo = m.todo /\ x.gone = m.gone /\ x.known = m.known /\ x.failed = m.failed
         /\ \A p \in Objs \ {o} : x.obj[p] = m.obj[p]
         /\ x.obj[o].st = m.obj[o].st /\ x.obj[o].name = m.obj[o].name
         /\ x.obj[o].for = m.obj[o].for /\ x.obj[o].loaded = m.obj[o].loaded
         /\ x.obj[o].reg = m.obj[o].reg /\ x.obj[o].removed = m.obj[o].removed
         /\ x.obj[o].reply = m.obj[o].reply /\ x.obj[o].valid = m.obj[o].valid
         /\ x.obj[o].enabled = IF key = "Enabled" /\ w # None THEN w = 2 ELSE m.obj[o].enabled
    <3> HIDE DEF o, key, n
    <3> QED  BY <1>2, <1>3, <1>4, <2>1, AlteredIs
  <2> HIDE DEF r, o, key
  <2> QED  BY <1>2, <2>1, <2>2 DEF r
<1> HIDE DEF r, o, key
<1>6. /\ Pend(r) = Pend(m)
      /\ \A x \in Pend(mc) : x \in Pend(r) \/ x = c
  BY <1>2, <1>5 DEF Pend
<1>7. Shape(mc, r)
  <2>1. \A p \in Objs :
       /\ r.obj[p].st = mc.obj[p].st /\ r.obj[p].name = mc.obj[p].name
       /\ r.obj[p].for = mc.obj[p].for /\ r.obj[p].loaded = mc.obj[p].loaded
       /\ r.obj[p].reg = mc.obj[p].reg /\ r.obj[p].removed = mc.obj[p].removed
       /\ r.obj[p].reply => mc.obj[p].reply \/ mc.obj[p].loaded
       /\ r.obj[p].timer => mc.obj[p].timer \/ Alive(mc, p)
    BY <1>3, <1>5
  <2>2. \A x \in Pend(mc) : x \in Pend(r) \/ x.cb = "altered"
    BY <1>6
  <2>3. \A x \in Names : Managed(r, x) <=> Managed(mc, x)
    BY <1>5 DEF Managed
  <2>4. Queue(r.todo)
    BY <1>2, <1>5
  <2>5. \A x \in Pend(r) : x \in Pend(mc)
    BY <1>2, <1>6
  <2> QED  BY <1>5, <2>1, <2>2, <2>3, <2>4, <2>5 DEF Shape
<1>8. Objects(r, mgr)
  BY <1>1, <1>5, <1>7, ShapeKeeps
<1>9. ASSUME NEW p \in Objs  PROVE Current(r, mgr, p)
  <2>1. Current(mc, mgr, p)
    BY <1>1
  <2>2. CASE p # o
    <3>1. Alt(p, "Enabled") \in Pend(mc) => Alt(p, "Enabled") \in Pend(r)
      BY <1>3, <1>6, <2>2, Callbacks
    <3> QED  BY <1>5, <2>1, <2>2, <3>1 DEF Current, Lives, Alive
  <2>3. CASE p = o /\ key = "param"
    <3>1. Alt(o, "Enabled") \in Pend(mc) => Alt(o, "Enabled") \in Pend(r)
      BY <1>3, <1>6, <2>3, Callbacks
    <3> QED  BY <1>5, <2>1, <2>3, <3>1 DEF Current, Lives, Alive
  <2>4. CASE p = o /\ key = "Enabled"
    BY <1>5, <2>1, <2>4 DEF Current, Lives, Alive
  <2> QED  BY <1>3, <2>2, <2>3, <2>4
<1>10. Handled(r, events)
  BY <1>1, <1>5, <1>8, <1>9 DEF Handled, Awake
<1> QED  BY <1>10 DEF r, o, key

(* The process is gone.                                                     *)
LEMMA DieKeeps ==
  ASSUME Inv, up, Die, full' = full
  PROVE  Inv'
<1> DEFINE s == Stopped(mc.s)
           new == {<<n, "unwritten">> : n \in {x \in Names : mc.failed
                                        /\ mc.s.keys[x] # mc.s.disk.data[x]}}
           known == mc.known \cup new
           dead == [s |-> s, obj |-> [o \in Objs |-> NoObject],
                    hash |-> [n \in Names |-> None], lock |-> 0, onBus |-> FALSE,
                    todo |-> <<>>, gone |-> mc.gone, known |-> known, failed |-> FALSE]
<1>1. /\ mc \in McType /\ Sound(mc.s, mc.known, mc.gone, events) /\ Synced(mc.s, mc.failed)
      /\ full \in BOOLEAN
  BY Now DEF Handled
<1>2. mc' = dead /\ up' = FALSE /\ mgr' = "unready" /\ events' = <<>>
  BY DEF Die
<1>3. known \subseteq Names \X Why /\ mc.known \subseteq known
  <2>1. new \subseteq Names \X Why
    BY DEF Why
  <2> HIDE DEF new
  <2> QED  BY <1>1, <2>1 DEF McType
<1>4. s \in StoreType /\ Asleep(s, known, mc.gone)
  <2>1. mc.failed \in BOOLEAN /\ mc.s \in StoreType
    BY <1>1 DEF McType
  <2>2. \A n \in Names : mc.failed /\ mc.s.keys[n] # mc.s.disk.data[n]
                           => <<n, "unwritten">> \in known
    OBVIOUS
  <2>3. \A n \in Names : <<n, "ghost">> \in known => <<n, "ghost">> \in mc.known
    OBVIOUS
  <2> HIDE DEF known, new
  <2> QED  BY <1>1, <1>3, <2>1, <2>2, <2>3, StopSound
<1> HIDE DEF known, new, s
<1>5. dead \in McType
  <2>1. [o \in Objs |-> NoObject] \in [Objs -> ObjType]
    BY DEF NoObject, ObjType
  <2>2. [n \in Names |-> None] \in [Names -> Objs \cup {None}]
    OBVIOUS
  <2>3. mc.gone \subseteq Names /\ <<>> \in Seq(Callback)
    BY <1>1 DEF McType
  <2> QED  BY <1>3, <1>4, <2>1, <2>2, <2>3 DEF McType
<1>6. Dead(dead)
  BY <1>4 DEF Dead
<1> HIDE DEF dead
<1>7. Dead(mc') /\ (mc \in McType)'
  BY <1>2, <1>5, <1>6 DEF McType
<1>8. (Dead(mc))'
  BY <1>7 DEF Dead, Asleep
<1>9. (events \in Seq(Signal))'
  BY <1>2
<1> QED  BY <1>1, <1>2, <1>7, <1>8, <1>9 DEF Inv, Types

(* A callback that waited for the connection manager, of any kind.          *)
LEMMA RunCallbackKeeps ==
  ASSUME Inv, RunCallback
  PROVE  Inv'
<1> DEFINE c == Head(mc.todo)
           m == [mc EXCEPT !.todo = Tail(@)]
           r == CASE c.cb = "account" -> OnManagerReady(m, c.obj)
                  [] c.cb = "created" -> AsyncCreatedManagerCb(m, c.obj)
                  [] c.cb = "altered" -> AlteredByPlugin(m, c.obj, c.key)
<1>1. up /\ mgr # "unready" /\ mc.todo # <<>> /\ UNCHANGED <<full, spent>>
  BY DEF RunCallback
<1>2. Popped(c, m)
  BY <1>1, PopIs
<1>3. /\ Handled(mc, events) /\ events \in Seq(Signal)
      /\ up = TRUE
  BY <1>1, Now DEF Inv, Types
<1>4. \/ mc.obj[c.obj].st = "live" /\ Becomes(r) /\ UNCHANGED <<up, mgr, events>>
      \/ mc.obj[c.obj].st = "freed" /\ Becomes(m) /\ UNCHANGED <<up, mgr, events>>
      \/ Die
  BY DEF RunCallback
<1>5. c.cb \in {"account", "created", "altered"}
  BY <1>2, Callbacks DEF Popped
<1> HIDE DEF c, m
<1>6. CASE Die
  BY <1>1, <1>6, DieKeeps
<1>7. CASE mc.obj[c.obj].st = "freed" /\ Becomes(m) /\ UNCHANGED <<up, mgr, events>>
  <2>1. Handled(m, events)
    BY <1>1, <1>2, <1>7, PopFreed
  <2> QED  BY <1>1, <1>3, <1>7, <2>1, BecomesKeeps
<1>8. CASE mc.obj[c.obj].st = "live" /\ Becomes(r) /\ UNCHANGED <<up, mgr, events>>
  <2>1. CASE c.cb = "account"
    <3>1. Handled(OnManagerReady(m, c.obj), events)
      BY <1>1, <1>2, <1>8, <2>1, PopAccount
    <3>2. r = OnManagerReady(m, c.obj)
      BY <2>1
    <3> HIDE DEF r
    <3> QED  BY <1>1, <1>3, <1>8, <3>1, <3>2, BecomesKeeps
  <2>2. CASE c.cb = "created"
    <3>1. Handled(AsyncCreatedManagerCb(m, c.obj), events)
      BY <1>1, <1>2, <1>8, <2>2, PopCreated
    <3>2. r = AsyncCreatedManagerCb(m, c.obj)
      BY <2>2
    <3> HIDE DEF r
    <3> QED  BY <1>1, <1>3, <1>8, <3>1, <3>2, BecomesKeeps
  <2>3. CASE c.cb = "altered"
    <3>1. Handled(AlteredByPlugin(m, c.obj, c.key), events)
      BY <1>1, <1>2, <1>8, <2>3, PopAltered
    <3>2. r = AlteredByPlugin(m, c.obj, c.key)
      BY <2>3
    <3> HIDE DEF r
    <3> QED  BY <1>1, <1>3, <1>8, <3>1, <3>2, BecomesKeeps
  <2> QED  BY <1>5, <2>1, <2>2, <2>3
<1> QED  BY <1>4, <1>6, <1>7, <1>8

(* The process dies, at any moment.                                         *)
LEMMA CrashKeeps ==
  ASSUME Inv, Crash
  PROVE  Inv'
  BY DieKeeps DEF Crash, Idle

(* The connection manager becomes known, or fails: its callbacks become     *)
(* ready to run.                                                            *)
LEMMA MgrReadyKeeps ==
  ASSUME Inv, MgrReady
  PROVE  Inv'
<1>1. /\ up /\ mgr = "unready" /\ mgr' \in {"ready", "failed"}
      /\ UNCHANGED <<up, mc, events, full>>
  BY DEF MgrReady
<1>2. /\ Objects(mc, mgr) /\ \A o \in Objs : Current(mc, mgr, o)
      /\ Sound(mc.s, mc.known, mc.gone, events) /\ Synced(mc.s, mc.failed)
  BY <1>1, Now DEF Handled
<1>3. Lock(mc, "unready")
  BY <1>1, <1>2 DEF Objects
<1>4. Objects(mc, mgr')
  BY <1>1, <1>2, <1>3 DEF Objects, Lock
<1>5. ASSUME NEW o \in Objs  PROVE Current(mc, mgr', o)
  BY <1>1, <1>2, <1>3 DEF Current, Lock
<1>6. Awake(mc, mgr', events)
  BY <1>2, <1>4, <1>5 DEF Awake
<1>7. (Awake(mc, mgr, events))' /\ (Synced(mc.s, mc.failed))'
  BY <1>1, <1>2, <1>6
<1>8. Types'
  BY <1>1 DEF Inv, Types
<1> QED  BY <1>1, <1>7, <1>8 DEF Inv

(* mcd_account_delete, from b, for the object o; in m the table may have it *)
(* no more.                                                                 *)
LEMMA RemovedKeeps ==
  ASSUME NEW b \in McType, NEW m \in McType, NEW o \in Objs, NEW e,
         Objects(b, mgr), \A p \in Objs : Current(b, mgr, p),
         Lives(b, o) \/ Lingers(b, o), Cre(o) \notin Pend(b),
         ~b.obj[o].loaded => b.obj[o].for = "setup" /\ b.s.ag.state = "deleted",
         m.obj = b.obj, m.lock = b.lock, m.onBus = b.onBus, m.todo = b.todo, m.known = b.known,
         m.s.cache = b.s.cache, m.s.ag = b.s.ag,
         m.hash \in {b.hash, [b.hash EXCEPT ![b.obj[o].name] = None]},
         Common(m.s, m.known, e),
         \A p \in Names \ {b.obj[o].name} : Entry(m.s, m.known, m.gone, e, p)
  PROVE  Handled(McdAccountDelete(m, o), e)
<1> DEFINE n == b.obj[o].name
           ob == [b.obj[o] EXCEPT !.enabled = FALSE,
                       !.timer = b.obj[o].timer \/ b.obj[o].enabled # FALSE,
                       !.removed = TRUE, !.reg = FALSE]
           r == McdAccountDelete(m, o)
<1>1. /\ Alive(b, o) /\ n \in Names /\ Object(b, o) /\ Alone(b, o, n)
      /\ b.obj[o] \in ObjType /\ b.obj \in [Objs -> ObjType]
      /\ b.hash \in [Names -> Objs \cup {None}]
  BY AloneIs DEF Objects, Object, Lives, Lingers, McType
<1>2. /\ r \in McType
      /\ Sound(r.s, r.known, r.gone, e) /\ Synced(r.s, r.failed)
      /\ r.s.cache = [b.s.cache EXCEPT ![n] = NoEntry] /\ r.s.ag = b.s.ag
      /\ r.obj = [b.obj EXCEPT ![o] = ob]
      /\ r.hash = [m.hash EXCEPT ![n] = IF m.hash[n] = o THEN None ELSE m.hash[n]]
      /\ r.lock = b.lock /\ r.onBus = b.onBus /\ r.todo = b.todo
      /\ b.known \subseteq r.known
  <2>1. m.obj[o].name = n
    OBVIOUS
  <2>2. LET x == McdAccountDelete(m, o)
            k == m.obj[o].name IN
         /\ x \in McType
         /\ Sound(x.s, x.known, x.gone, e) /\ Synced(x.s, x.failed)
         /\ x.s.cache = [m.s.cache EXCEPT ![k] = NoEntry] /\ x.s.ag = m.s.ag
         /\ x.obj = [m.obj EXCEPT ![o] = [m.obj[o] EXCEPT !.enabled = FALSE,
                       !.timer = m.obj[o].timer \/ m.obj[o].enabled # FALSE,
                       !.removed = TRUE, !.reg = FALSE]]
         /\ x.hash = [m.hash EXCEPT ![k] = IF m.hash[k] = o THEN None ELSE m.hash[k]]
         /\ x.lock = m.lock /\ x.onBus = m.onBus /\ x.todo = m.todo
         /\ m.known \subseteq x.known
    BY <1>1, <2>1, McdAccountDeleteIs
  <2> HIDE DEF r, n
  <2> QED  BY <2>1, <2>2 DEF r
<1>3. /\ ob.st = "live" /\ ob.name = n /\ ob.removed /\ ~ob.reg /\ ob.loaded = b.obj[o].loaded
      /\ ob.for = b.obj[o].for /\ ob.reply = b.obj[o].reply
  BY <1>1 DEF ObjType, Alive
<1> HIDE DEF r, ob
<1>4. r.obj[o] = ob /\ \A p \in Objs \ {o} : r.obj[p] = b.obj[p]
  BY <1>1, <1>2
<1>5. /\ r.hash[n] = None
      /\ \A p \in Names \ {n} : r.hash[p] = b.hash[p]
  <2>1. b.hash[n] \in {None, o}
    <3>1. b.hash[n] # None => b.hash[n] \in Objs /\ Lives(b, b.hash[n])
                              /\ b.obj[b.hash[n]].name = n
      BY <1>1 DEF Objects
    <3> HIDE DEF n
    <3> QED  BY <1>1, <3>1 DEF Alone
  <2>2. m.hash \in [Names -> Objs \cup {None}]
    BY DEF McType
  <2> HIDE DEF n
  <2>3. m.hash \in {b.hash, [b.hash EXCEPT ![n] = None]}
    BY DEF n
  <2> QED  BY <1>1, <1>2, <2>1, <2>2, <2>3
<1>6. Pend(r) = Pend(b) /\ Queue(r.todo)
  BY <1>2 DEF Pend, Objects
<1>7. Alive(r, o) /\ ~Lives(r, o)
  BY <1>3, <1>4 DEF Alive, Lives
<1>8. ~Managed(r, n)
  <2>1. r.s.cache[n] = NoEntry
    <3>1. b.s.cache \in [Names -> EntryType]
      BY StoreTypes DEF McType
    <3> HIDE DEF n
    <3> QED  BY <1>1, <1>2, <3>1
  <2> QED  BY <2>1, Constants, TheKeys DEF Managed, NoEntry
<1>9. Frame(b, r, o, n)
  <2>1. \A p \in Names \ {n} : r.s.cache[p] = b.s.cache[p]
    <3>1. b.s.cache \in [Names -> EntryType]
      BY StoreTypes DEF McType
    <3> HIDE DEF n
    <3> QED  BY <1>1, <1>2, <3>1
  <2> QED  BY <1>2, <1>4, <1>5, <1>6, <2>1 DEF Frame
<1>10. Object(r, o)
  <2>1. b.obj[o].reply => b.obj[o].loaded
    BY <1>1 DEF Object
  <2>2. Acc(o) \in Pend(r) <=> ~ob.loaded
    BY <1>1, <1>3, <1>6 DEF Object
  <2>3. ob.removed /\ ~ob.loaded => ob.for = "setup" /\ r.s.ag.state = "deleted"
    BY <1>2, <1>3
  <2> QED  BY <1>1, <1>3, <1>4, <1>6, <1>7, <2>1, <2>2, <2>3 DEF Object
<1>11. Lock(r, mgr)
  <2>1. Setups(r) = Setups(b)
    BY <1>1, <1>3, <1>4, <1>7 DEF Setups, Alive
  <2>2. \A p \in Objs : r.obj[p].for = b.obj[p].for /\ r.obj[p].loaded = b.obj[p].loaded
    BY <1>3, <1>4
  <2>3. \A p \in Names : r.hash[p] # None => r.hash[p] = b.hash[p] /\ b.hash[p] \in Objs
    BY <1>1, <1>5
  <2>4. \A p \in Names : r.hash[p] # None => r.obj[r.hash[p]].for = b.obj[b.hash[p]].for
    <3> TAKE p \in Names
    <3>1. CASE r.hash[p] # None
      <4>1. r.hash[p] = b.hash[p] /\ b.hash[p] \in Objs
        BY <2>3, <3>1
      <4>2. r.obj[b.hash[p]].for = b.obj[b.hash[p]].for
        BY <2>2, <4>1
      <4> QED  BY <4>1, <4>2
    <3> QED  BY <3>1
  <2>5. Lock(b, mgr)
    BY DEF Objects
  <2>6. mgr = "unready" => \A p \in Names : r.hash[p] # None => r.obj[r.hash[p]].for = "setup"
    <3> SUFFICES ASSUME mgr = "unready", NEW p \in Names, r.hash[p] # None
                 PROVE  r.obj[r.hash[p]].for = "setup"
      OBVIOUS
    <3>1. b.obj[b.hash[p]].for = "setup"
      BY <2>3, <2>5 DEF Lock
    <3> QED  BY <2>4, <3>1
  <2>7. mgr = "unready" => \A p \in Objs : ~r.obj[p].loaded
    BY <2>2, <2>5 DEF Lock
  <2>8. r.lock = Cardinality(Setups(r)) /\ r.lock <= Cardinality(Names)
        /\ (mgr = "unready" /\ r.onBus => r.lock = 0)
    BY <1>2, <2>1, <2>5 DEF Lock
  <2> HIDE DEF n
  <2> QED  BY <2>6, <2>7, <2>8 DEF Lock
<1>12. Objects(r, mgr)
  <2>1. r.obj[o].name = n
    BY <1>3, <1>4
  <2>2. None # o
    BY DEF None, Objs
  <2> HIDE DEF n
  <2>3. Alive(b, o) => b.obj[o].name = n
    BY DEF n
  <2> QED  BY <1>1, <1>2, <1>5, <1>6, <1>7, <1>8, <1>9, <1>10, <1>11, <2>1, <2>2, <2>3, OneObject
<1>13. ASSUME NEW p \in Objs  PROVE Current(r, mgr, p)
  <2>1. CASE p = o
    BY <1>7, <2>1 DEF Current
  <2>2. CASE p # o
    <3>1. Object(b, p) /\ Current(b, mgr, p)
      BY DEF Objects
    <3> HIDE DEF n
    <3> QED  BY <1>1, <1>9, <2>2, <3>1, OthersCurrent
  <2> QED  BY <2>1, <2>2
<1> QED  BY <1>2, <1>12, <1>13 DEF Handled, Awake, r

(* account_remove.                                                          *)
LEMMA AccountRemoveKeeps ==
  ASSUME Inv, NEW o \in Objs, AccountRemove(o)
  PROVE  Inv'
<1>1. /\ up /\ Becomes(McdAccountDelete(mc, o)) /\ UNCHANGED <<up, mgr, events, full>>
      /\ Reachable(o)
  BY DEF AccountRemove, Call, Idle
<1>2. /\ mc \in McType /\ Sound(mc.s, mc.known, mc.gone, events) /\ Objects(mc, mgr)
      /\ (\A p \in Objs : Current(mc, mgr, p)) /\ events \in Seq(Signal) /\ up = TRUE
  BY <1>1, Now DEF Inv, Types
<1>3. Alive(mc, o) /\ mc.obj[o].reg /\ mc.obj[o].loaded
  BY <1>1, <1>2 DEF Objects, Object, Reachable, Alive
<1>4. Lives(mc, o) \/ Lingers(mc, o)
  BY <1>3 DEF Lives, Lingers
<1>5. Cre(o) \notin Pend(mc)
  BY <1>2, <1>3 DEF Objects, Object
<1>6. Common(mc.s, mc.known, events) /\ \A p \in Names : Entry(mc.s, mc.known, mc.gone, events, p)
  BY <1>2 DEF Sound
<1>7. Handled(McdAccountDelete(mc, o), events)
  BY <1>2, <1>3, <1>4, <1>5, <1>6, RemovedKeeps
<1> QED  BY <1>1, <1>2, <1>7, BecomesKeeps

(* What a call or a late reply finds: if the account has been removed, that *)
(* it will be written again is known.                                       *)
LEMMA TouchedIs ==
  ASSUME Inv, up, NEW o \in Objs, Alive(mc, o)
  PROVE  LET t == Touched(o)
             n == mc.obj[o].name IN
         /\ Handled(t, events) /\ n \in Names
         /\ t.s = mc.s /\ t.obj = mc.obj /\ t.hash = mc.hash /\ t.lock = mc.lock
         /\ t.onBus = mc.onBus /\ t.todo = mc.todo /\ t.gone = mc.gone /\ t.failed = mc.failed
         /\ mc.known \subseteq t.known
         /\ n \in t.gone => Excused(t.known, n)
<1> DEFINE t == Touched(o)
           n == mc.obj[o].name
           known == mc.known \cup {<<n, "zombie">>}
<1>1. /\ Handled(mc, events) /\ mc \in McType /\ Sound(mc.s, mc.known, mc.gone, events)
      /\ Objects(mc, mgr) /\ Synced(mc.s, mc.failed)
      /\ (\A p \in Objs : Current(mc, mgr, p)) /\ Object(mc, o) /\ n \in Names
  BY Now DEF Handled, Objects, Object
<1>2. CASE mc.obj[o].removed
  <2>1. known \subseteq Names \X Why /\ mc.known \subseteq known
    BY <1>1 DEF McType, Why
  <2>2. t = [mc EXCEPT !.known = known]
    BY <1>1, <1>2 DEF Touched, McType
  <2>3. \A x \in Names : <<x, "ghost">> \in known => <<x, "ghost">> \in mc.known
    OBVIOUS
  <2>4. <<n, "zombie">> \in known
    OBVIOUS
  <2> HIDE DEF known, t
  <2>5. /\ t \in McType /\ t.known = known
        /\ t.s = mc.s /\ t.obj = mc.obj /\ t.hash = mc.hash /\ t.lock = mc.lock
        /\ t.onBus = mc.onBus /\ t.todo = mc.todo /\ t.gone = mc.gone /\ t.failed = mc.failed
    BY <1>1, <2>1, <2>2 DEF McType
  <2>6. Sound(t.s, t.known, t.gone, events)
    BY <1>1, <2>1, <2>3, <2>5, SoundGrows
  <2>7. Unmoved(mc, t)
    BY <1>1, <2>1, <2>5 DEF Unmoved, Shape, Objects, Pend, Managed
  <2>8. Objects(t, mgr) /\ \A p \in Objs : Current(t, mgr, p)
    BY <1>1, <2>5, <2>7, UnmovedKeeps
  <2>9. Excused(t.known, n)
    BY <2>4, <2>5 DEF Excused, Knows
  <2> QED  BY <1>1, <2>1, <2>5, <2>6, <2>8, <2>9 DEF Handled, Awake, t
<1>3. CASE ~mc.obj[o].removed
  <2>1. t = mc
    BY <1>3 DEF Touched
  <2>2. Managed(mc, n)
    BY <1>1, <1>3 DEF Objects, Lives
  <2>3. n \in mc.gone => Excused(mc.known, n)
    BY <1>1, <2>2, ManagedExcused DEF Managed
  <2> QED  BY <1>1, <2>1, <2>3
<1> QED  BY <1>2, <1>3

(* A call has stored a setting of its account, and the object knows.        *)
LEMMA StoredKeeps ==
  ASSUME Inv, up, NEW o \in Objs, Reachable(o), NEW x \in McType,
         NEW k \in {"param", "Enabled"}, NEW v \in 0..2, k = "Enabled" => v # None,
         Sets(mc.s, x.s, mc.obj[o].name, k, v),
         x.hash = mc.hash, x.lock = mc.lock, x.onBus = mc.onBus, x.todo = mc.todo,
         x.gone = mc.gone, x.known = Touched(o).known,
         \A p \in Objs \ {o} : x.obj[p] = mc.obj[p],
         x.obj[o].st = mc.obj[o].st, x.obj[o].name = mc.obj[o].name,
         x.obj[o].for = mc.obj[o].for, x.obj[o].loaded = mc.obj[o].loaded,
         x.obj[o].reg = mc.obj[o].reg, x.obj[o].removed = mc.obj[o].removed,
         x.obj[o].reply = mc.obj[o].reply,
         x.obj[o].valid = IF k = "param" THEN mgr = "ready" /\ v # None ELSE mc.obj[o].valid,
         x.obj[o].enabled = IF k = "Enabled" THEN v = 2 ELSE mc.obj[o].enabled
  PROVE  Handled(Write(x), events)
<1> DEFINE n == mc.obj[o].name
<1>1. /\ Handled(mc, events) /\ mc \in McType /\ Sound(mc.s, mc.known, mc.gone, events)
      /\ Objects(mc, mgr) /\ Synced(mc.s, mc.failed)
      /\ (\A p \in Objs : Current(mc, mgr, p)) /\ Object(mc, o) /\ mc.s \in StoreType
  BY Now DEF Handled, Objects, McType
<1>2. Alive(mc, o) /\ mc.obj[o].reg
  BY DEF Reachable, Alive
<1>3. Alone(mc, o, n) /\ n \in Names
  <2>1. Lives(mc, o) \/ Lingers(mc, o)
    BY <1>2 DEF Lives, Lingers
  <2> QED  BY <1>1, <1>2, <2>1, AloneIs DEF Objects, Object
<1>4. /\ mc.known \subseteq x.known
      /\ Sound(mc.s, x.known, x.gone, events)
      /\ n \in x.gone => Excused(x.known, n)
  BY <1>2, TouchedIs DEF Handled, Awake
<1> HIDE DEF n
<1>5. k \in Keys /\ k # "manager" /\ (\A p \in Keys \ {k} : p \in Keys)
  BY TheKeys
<1>6. Sets(mc.s, x.s, n, k, v)
  BY DEF n
<1>7. Sound(x.s, x.known, x.gone, events)
  BY <1>1, <1>3, <1>4, <1>5, <1>6, SetsSound
<1>8. /\ x.s.ag = mc.s.ag
      /\ \A p \in Names \ {n} : x.s.cache[p] = mc.s.cache[p]
      /\ \A y \in Keys \ {k} : x.s.cache[n].val[y] = mc.s.cache[n].val[y]
      /\ x.s.cache[n].val[k] = v
  <2> DEFINE s == mc.s
             t == x.s
  <2>1. s \in StoreType /\ n \in Names /\ k \in Keys /\ Sets(s, t, n, k, v)
    BY <1>1, <1>3, <1>5, <1>6
  <2> HIDE DEF s, t
  <2>2. /\ t \in StoreType /\ t.ag = s.ag
        /\ \A p \in Names \ {n} : t.cache[p] = s.cache[p]
        /\ \A y \in Keys \ {k} : t.cache[n].val[y] = s.cache[n].val[y]
        /\ t.cache[n].val[k] = v
    BY <2>1, SetsIs
  <2> QED  BY <2>2 DEF s, t
<1>9. Pend(x) = Pend(mc) /\ Queue(x.todo)
  BY <1>1 DEF Pend, Objects
<1>10. Shape(mc, x)
  <2>1. \A p \in Names : Managed(x, p) <=> Managed(mc, p)
    BY <1>5, <1>8, TheKeys DEF Managed
  <2>2. \A p \in Objs :
       /\ x.obj[p].st = mc.obj[p].st /\ x.obj[p].name = mc.obj[p].name
       /\ x.obj[p].for = mc.obj[p].for /\ x.obj[p].loaded = mc.obj[p].loaded
       /\ x.obj[p].reg = mc.obj[p].reg /\ x.obj[p].removed = mc.obj[p].removed
       /\ x.obj[p].reply => mc.obj[p].reply \/ mc.obj[p].loaded
       /\ x.obj[p].timer => mc.obj[p].timer \/ Alive(mc, p)
    BY <1>2
  <2> QED  BY <1>8, <1>9, <2>1, <2>2 DEF Shape
<1>11. Objects(x, mgr)
  BY <1>1, <1>10, ShapeKeeps
<1>12. ASSUME NEW p \in Objs  PROVE Current(x, mgr, p)
  <2>1. CASE p # o
    <3>1. Frame(mc, x, o, n)
      BY <1>4, <1>8, <1>9 DEF Frame
    <3>2. Object(mc, p) /\ Current(mc, mgr, p)
      BY <1>1 DEF Objects
    <3> QED  BY <1>1, <1>3, <2>1, <3>1, <3>2, OthersCurrent
  <2>2. CASE p = o
    <3>1. \A whys : Knows(mc.known, n, whys) => Knows(x.known, n, whys)
      BY <1>4 DEF Knows
    <3>2. Lives(x, o) => Lives(mc, o)
      BY DEF Lives, Alive
    <3>3. x.obj[o].name = n /\ mc.obj[o].name = n
      BY DEF n
    <3>4. Current(mc, mgr, o)
      BY <1>1
    <3>5. CASE k = "param"
      <4>1. x.s.cache[n].val["Enabled"] = mc.s.cache[n].val["Enabled"]
        BY <1>8, <3>5, TheKeys
      <4> QED  BY <1>8, <1>9, <2>2, <3>1, <3>2, <3>3, <3>4, <3>5, <4>1 DEF Current
    <3>6. CASE k = "Enabled"
      <4>1. x.s.cache[n].val["param"] = mc.s.cache[n].val["param"]
        BY <1>8, <3>6, TheKeys
      <4>2. /\ x.obj[o].valid = mc.obj[o].valid /\ x.obj[o].enabled = (v = 2)
            /\ x.s.cache[n].val["Enabled"] = v
        BY <1>8, <3>6
      <4>3. Lives(x, o) /\ x.obj[o].loaded =>
              \/ x.obj[o].valid = (mgr = "ready" /\ x.s.cache[n].val["param"] # None)
              \/ Knows(x.known, n, {"altered"})
        BY <3>1, <3>2, <3>3, <3>4, <4>1, <4>2 DEF Current
      <4>4. x.obj[o].enabled = (x.s.cache[n].val["Enabled"] = 2)
        BY <4>2
      <4> QED  BY <2>2, <3>3, <4>3, <4>4 DEF Current
    <3> QED  BY <3>5, <3>6
  <2> QED  BY <2>1, <2>2
<1>13. Awake(x, mgr, events)
  BY <1>7, <1>11, <1>12 DEF Awake
<1> QED  BY <1>13, WriteAwake DEF Handled

(* account_update_parameters: with the validity that changes, and the       *)
(* write.                                                                   *)
LEMMA UpdateParametersKeeps ==
  ASSUME Inv, NEW o \in Objs, NEW v \in {None, 1}, AccountUpdateParameters(o, v)
  PROVE  Inv'
<1> DEFINE t == Touched(o)
           n == mc.obj[o].name
           set == [Touched(o) EXCEPT !.s = SetParameter(@, mc.obj[o].name, v)]
           c == CheckValidity(set, o)
           told == [c EXCEPT !.obj[o].timer = TRUE]
<1>1. /\ up /\ Becomes(IF mgr = "ready" THEN Write(told) ELSE mc)
      /\ UNCHANGED <<up, mgr, events, full>> /\ Reachable(o)
  BY DEF AccountUpdateParameters, Call, Idle
<1>2. /\ Handled(mc, events) /\ mc \in McType /\ mc.obj[o] \in ObjType
      /\ events \in Seq(Signal) /\ up = TRUE /\ mc.s \in StoreType
  BY <1>1, Now DEF Inv, Types, McType
<1>3. Alive(mc, o)
  BY <1>1 DEF Alive, Reachable
<1>4. CASE mgr # "ready"
  <2> HIDE DEF told
  <2> QED  BY <1>1, <1>2, <1>4, BecomesKeeps
<1>5. CASE mgr = "ready"
  <2>1. /\ t \in McType /\ n \in Names
        /\ t.s = mc.s /\ t.obj = mc.obj /\ t.hash = mc.hash /\ t.lock = mc.lock
        /\ t.onBus = mc.onBus /\ t.todo = mc.todo /\ t.gone = mc.gone
    BY <1>1, <1>3, TouchedIs DEF Handled
  <2> DEFINE s == SetParameter(mc.s, n, v)
  <2>2. Sets(mc.s, s, n, "param", v) /\ s \in StoreType /\ v \in 0..2
    <3>1. v \in 0..2
      BY Constants
    <3>2. Sets(mc.s, s, n, "param", v)
      BY <1>2, <2>1, <3>1, SetParameterIs
    <3> QED  BY <3>1, <3>2 DEF Sets, Apart
  <2>3. set = [t EXCEPT !.s = s]
    BY <2>1
  <2> HIDE DEF t, s, set
  <2>4. /\ set \in McType /\ set.s = s /\ set.obj = mc.obj /\ set.hash = mc.hash
        /\ set.lock = mc.lock /\ set.onBus = mc.onBus /\ set.todo = mc.todo
        /\ set.gone = mc.gone /\ set.known = t.known
    BY <2>1, <2>2, <2>3 DEF McType
  <2> DEFINE ok == ParametersOk(set.s, set.obj[o].name)
             ob == [set.obj[o] EXCEPT !.valid = ok,
                                      !.timer = set.obj[o].timer \/ ok # set.obj[o].valid]
             new == [ob EXCEPT !.timer = TRUE]
  <2>5. /\ c \in McType /\ c.obj = [set.obj EXCEPT ![o] = ob]
        /\ c.s = set.s /\ c.hash = set.hash /\ c.lock = set.lock /\ c.onBus = set.onBus
        /\ c.todo = set.todo /\ c.gone = set.gone /\ c.known = set.known
    BY <2>4, CheckValidityIs
  <2>6. ok = (mgr = "ready" /\ v # None)
    <3>1. s.cache[n].val["param"] = v
      <4>1. "param" \in Keys
        BY TheKeys
      <4> QED  BY <1>2, <2>1, <2>2, <4>1, SetsIs
    <3> QED  BY <2>4, <3>1 DEF ParametersOk
  <2>7. ok \in BOOLEAN
    BY <2>6
  <2> HIDE DEF ok, c
  <2>8. ob \in ObjType /\ new \in ObjType
        /\ new.st = mc.obj[o].st /\ new.name = n /\ new.for = mc.obj[o].for
        /\ new.loaded = mc.obj[o].loaded /\ new.reg = mc.obj[o].reg
        /\ new.removed = mc.obj[o].removed /\ new.reply = mc.obj[o].reply
        /\ new.enabled = mc.obj[o].enabled /\ new.valid = ok
    BY <1>2, <2>4, <2>7 DEF ObjType
  <2> HIDE DEF ob
  <2>9. c.obj \in [Objs -> ObjType] /\ c.obj[o] = ob /\ \A p \in Objs \ {o} : c.obj[p] = mc.obj[p]
    BY <1>2, <2>4, <2>5 DEF McType
  <2>10. told = [c EXCEPT !.obj = [c.obj EXCEPT ![o] = new]]
    BY <2>5, <2>9 DEF McType
  <2> HIDE DEF told, new
  <2>11. /\ told \in McType /\ told.s = s /\ told.hash = mc.hash /\ told.lock = mc.lock
         /\ told.onBus = mc.onBus /\ told.todo = mc.todo /\ told.gone = mc.gone
         /\ told.known = t.known /\ told.obj = [c.obj EXCEPT ![o] = new]
    BY <2>4, <2>5, <2>8, <2>9, <2>10 DEF McType
  <2>12. told.obj[o] = new /\ \A p \in Objs \ {o} : told.obj[p] = mc.obj[p]
    BY <2>9, <2>11
  <2>13. Handled(Write(told), events)
    <3>1. "param" \in {"param", "Enabled"}
      OBVIOUS
    <3>2. Sets(mc.s, told.s, mc.obj[o].name, "param", v)
      BY <2>2, <2>11
    <3>3. told.obj[o].valid = (mgr = "ready" /\ v # None) /\ told.obj[o].enabled = mc.obj[o].enabled
      BY <2>6, <2>8, <2>12
    <3> HIDE DEF n
    <3> QED  BY <1>1, <2>2, <2>8, <2>11, <2>12, <3>1, <3>2, <3>3, StoredKeeps DEF t, n
  <2> QED  BY <1>1, <1>2, <1>5, <2>13, BecomesKeeps
<1> QED  BY <1>4, <1>5

(* _mcd_account_set_enabled writes what the object has then.                *)
LEMMA EnabledStored ==
  ASSUME Inv, up, NEW o \in Objs, Reachable(o), NEW on \in BOOLEAN, NEW w \in 1..2,
         w = IF on THEN 2 ELSE 1
  PROVE  Handled(SetEnabled(Touched(o), o, on, "written"), events)
<1> DEFINE t == Touched(o)
           n == mc.obj[o].name
           x == SetEnabled(t, o, on, "cached")
           ob == [mc.obj[o] EXCEPT !.enabled = on,
                                   !.timer = mc.obj[o].timer \/ mc.obj[o].enabled # on]
<1>1. /\ mc \in McType /\ mc.obj[o] \in ObjType /\ mc.obj \in [Objs -> ObjType]
      /\ mc.s \in StoreType
  BY Now DEF Inv, Types, McType
<1>2. Alive(mc, o)
  BY DEF Alive, Reachable
<1>3. /\ t \in McType /\ n \in Names /\ Handled(t, events)
      /\ t.s = mc.s /\ t.obj = mc.obj /\ t.hash = mc.hash /\ t.lock = mc.lock
      /\ t.onBus = mc.onBus /\ t.todo = mc.todo /\ t.gone = mc.gone
  BY <1>2, TouchedIs DEF Handled
<1> HIDE DEF t
<1>4. CASE t.obj[o].enabled = on
  <2>1. SetEnabled(t, o, on, "written") = t
    BY <1>4 DEF SetEnabled
  <2> QED  BY <1>3, <2>1 DEF t
<1>5. CASE t.obj[o].enabled # on
  <2> DEFINE s == SetAttribute(mc.s, n, "Enabled", w)
  <2>1. Sets(mc.s, s, n, "Enabled", w) /\ w \in 0..2 /\ w # None /\ on = (w = 2)
    <3>1. w \in 0..2 /\ w # None /\ on = (w = 2)
      BY DEF None
    <3> QED  BY <1>1, <1>3, <3>1, TheKeys, SetAttributeIs
  <2>2. t.obj[o].name \in Names /\ "cached" \in {"stored", "cached"} /\ "cached" # "stored"
    BY <1>3
  <2>3. /\ x \in McType
        /\ x.obj = [t.obj EXCEPT ![o] = [t.obj[o] EXCEPT !.enabled = on,
                                   !.timer = t.obj[o].timer \/ t.obj[o].enabled # on]]
        /\ x.s = SetAttribute(t.s, t.obj[o].name, "Enabled", IF on THEN 2 ELSE 1)
        /\ x.hash = t.hash /\ x.lock = t.lock /\ x.onBus = t.onBus
        /\ x.todo = t.todo /\ x.gone = t.gone /\ x.known = t.known /\ x.failed = t.failed
    <3>1. CASE on = TRUE
      <4>1. x = SetEnabled(t, o, TRUE, "cached")
        BY <3>1
      <4> HIDE DEF x
      <4>2. LET y == SetEnabled(t, o, TRUE, "cached") IN
            /\ y \in McType
            /\ y.obj = [t.obj EXCEPT ![o] = [t.obj[o] EXCEPT !.enabled = TRUE,
                                   !.timer = t.obj[o].timer \/ t.obj[o].enabled # TRUE]]
            /\ y.s = IF "cached" = "stored" \/ t.obj[o].enabled = TRUE THEN t.s
                     ELSE SetAttribute(t.s, t.obj[o].name, "Enabled", IF TRUE THEN 2 ELSE 1)
            /\ y.hash = t.hash /\ y.lock = t.lock /\ y.onBus = t.onBus
            /\ y.todo = t.todo /\ y.gone = t.gone /\ y.known = t.known /\ y.failed = t.failed
        BY <1>3, <2>2, SetEnabledIs
      <4> QED  BY <1>5, <3>1, <4>1, <4>2
    <3>2. CASE on = FALSE
      <4>1. x = SetEnabled(t, o, FALSE, "cached")
        BY <3>2
      <4> HIDE DEF x
      <4>2. LET y == SetEnabled(t, o, FALSE, "cached") IN
            /\ y \in McType
            /\ y.obj = [t.obj EXCEPT ![o] = [t.obj[o] EXCEPT !.enabled = FALSE,
                                   !.timer = t.obj[o].timer \/ t.obj[o].enabled # FALSE]]
            /\ y.s = IF "cached" = "stored" \/ t.obj[o].enabled = FALSE THEN t.s
                     ELSE SetAttribute(t.s, t.obj[o].name, "Enabled", IF FALSE THEN 2 ELSE 1)
            /\ y.hash = t.hash /\ y.lock = t.lock /\ y.onBus = t.onBus
            /\ y.todo = t.todo /\ y.gone = t.gone /\ y.known = t.known /\ y.failed = t.failed
        BY <1>3, <2>2, SetEnabledIs
      <4> QED  BY <1>5, <3>2, <4>1, <4>2
    <3> QED  BY <3>1, <3>2
  <2> HIDE DEF x
  <2>4. x.s = s /\ x.obj = [mc.obj EXCEPT ![o] = ob]
    BY <1>3, <2>3
  <2>5. /\ ob.st = mc.obj[o].st /\ ob.name = n /\ ob.for = mc.obj[o].for
        /\ ob.loaded = mc.obj[o].loaded /\ ob.reg = mc.obj[o].reg
        /\ ob.removed = mc.obj[o].removed /\ ob.reply = mc.obj[o].reply
        /\ ob.enabled = on /\ ob.valid = mc.obj[o].valid
    BY <1>1 DEF ObjType
  <2> HIDE DEF ob, s
  <2>6. x.obj[o] = ob /\ \A p \in Objs \ {o} : x.obj[p] = mc.obj[p]
    BY <1>1, <2>4
  <2>7. Handled(Write(x), events)
    <3>1. "Enabled" \in {"param", "Enabled"}
      OBVIOUS
    <3>2. Sets(mc.s, x.s, mc.obj[o].name, "Enabled", w)
      BY <2>1, <2>4
    <3>3. x.obj[o].valid = mc.obj[o].valid /\ x.obj[o].enabled = (w = 2)
      BY <2>1, <2>5, <2>6
    <3>4. /\ x.hash = mc.hash /\ x.lock = mc.lock /\ x.onBus = mc.onBus /\ x.todo = mc.todo
          /\ x.gone = mc.gone /\ x.known = Touched(o).known
      BY <1>3, <2>3 DEF t
    <3> HIDE DEF n
    <3> QED  BY <2>1, <2>3, <2>5, <2>6, <3>1, <3>2, <3>3, <3>4, StoredKeeps DEF n
  <2>8. SetEnabled(t, o, on, "written") = Write(x)
    BY <1>3, <1>5, SetEnabledWrites DEF x
  <2> QED  BY <2>7, <2>8 DEF t
<1> QED  BY <1>4, <1>5

(* set_enabled.                                                             *)
LEMMA SetEnabledKeeps ==
  ASSUME Inv, NEW o \in Objs, NEW on \in BOOLEAN, AccountSetEnabled(o, on)
  PROVE  Inv'
<1>1. /\ up /\ Becomes(SetEnabled(Touched(o), o, on, "written"))
      /\ UNCHANGED <<up, mgr, events, full>> /\ Reachable(o)
  BY DEF AccountSetEnabled, Call, Idle
<1>2. events \in Seq(Signal) /\ up = TRUE
  BY <1>1, Now DEF Inv, Types
<1>3. Handled(SetEnabled(Touched(o), o, on, "written"), events)
  <2>1. 2 \in 1..2 /\ 1 \in 1..2 /\ TRUE \in BOOLEAN /\ FALSE \in BOOLEAN
    OBVIOUS
  <2>2. CASE on = TRUE
    <3>1. 2 = IF TRUE THEN 2 ELSE 1
      OBVIOUS
    <3>2. Handled(SetEnabled(Touched(o), o, TRUE, "written"), events)
      BY <1>1, <2>1, <3>1, EnabledStored
    <3> QED  BY <2>2, <3>2
  <2>3. CASE on = FALSE
    <3>1. 1 = IF FALSE THEN 2 ELSE 1
      OBVIOUS
    <3>2. Handled(SetEnabled(Touched(o), o, FALSE, "written"), events)
      BY <1>1, <2>1, <3>1, EnabledStored
    <3> QED  BY <2>3, <3>2
  <2> QED  BY <2>2, <2>3
<1> QED  BY <1>1, <1>2, <1>3, BecomesKeeps

(* The token of an account has been stored.                                 *)
LEMMA TokenKeeps ==
  ASSUME Inv, up, NEW o \in Objs, Alive(mc, o), NEW x \in McType, NEW v \in 0..2,
         Sets(mc.s, x.s, mc.obj[o].name, "token", v),
         x.hash = mc.hash, x.lock = mc.lock, x.onBus = mc.onBus, x.todo = mc.todo,
         x.gone = mc.gone, x.known = Touched(o).known,
         NEW b \in BOOLEAN, b => mc.obj[o].reply \/ mc.obj[o].loaded,
         x.obj = [mc.obj EXCEPT ![o] = [mc.obj[o] EXCEPT !.reply = b]]
  PROVE  Handled(Write(x), events)
<1> DEFINE n == mc.obj[o].name
           ob == [mc.obj[o] EXCEPT !.reply = b]
<1>1. /\ Handled(mc, events) /\ mc \in McType /\ mc.s \in StoreType
      /\ Objects(mc, mgr) /\ (\A p \in Objs : Current(mc, mgr, p))
      /\ mc.obj[o] \in ObjType /\ mc.obj \in [Objs -> ObjType]
  BY Now DEF McType
<1>2. /\ n \in Names /\ mc.known \subseteq x.known
      /\ Sound(mc.s, x.known, x.gone, events)
      /\ n \in x.gone => Excused(x.known, n)
  BY TouchedIs DEF Handled, Awake
<1>3. /\ ob.st = mc.obj[o].st /\ ob.name = n /\ ob.for = mc.obj[o].for
      /\ ob.loaded = mc.obj[o].loaded /\ ob.reg = mc.obj[o].reg
      /\ ob.removed = mc.obj[o].removed /\ ob.timer = mc.obj[o].timer
      /\ ob.enabled = mc.obj[o].enabled /\ ob.valid = mc.obj[o].valid /\ ob.reply = b
  BY <1>1 DEF ObjType
<1> HIDE DEF ob
<1>4. x.obj[o] = ob /\ \A p \in Objs \ {o} : x.obj[p] = mc.obj[p]
  BY <1>1 DEF ob
<1> DEFINE s == mc.s
           t == x.s
<1>5. s \in StoreType /\ Sets(s, t, n, "token", v) /\ "token" \in Keys
  BY <1>1, TheKeys
<1> HIDE DEF n, s, t
<1>6. /\ t \in StoreType /\ t.ag = s.ag
      /\ \A p \in Names \ {n} : t.cache[p] = s.cache[p]
      /\ \A y \in Keys \ {"token"} : t.cache[n].val[y] = s.cache[n].val[y]
  BY <1>2, <1>5, SetsIs
<1>7. Sound(t, x.known, x.gone, events)
  BY <1>2, <1>5, SetsSound DEF s
<1>8. \A p \in Names : \A y \in Keys \ {"token"} : t.cache[p].val[y] = s.cache[p].val[y]
  BY <1>6
<1>9. Shape(mc, x)
  <2>1. \A p \in Names : Managed(x, p) <=> Managed(mc, p)
    BY <1>8, TheKeys DEF Managed, s, t
  <2>2. \A p \in Objs :
       /\ x.obj[p].st = mc.obj[p].st /\ x.obj[p].name = mc.obj[p].name
       /\ x.obj[p].for = mc.obj[p].for /\ x.obj[p].loaded = mc.obj[p].loaded
       /\ x.obj[p].reg = mc.obj[p].reg /\ x.obj[p].removed = mc.obj[p].removed
       /\ x.obj[p].reply => mc.obj[p].reply \/ mc.obj[p].loaded
       /\ x.obj[p].timer => mc.obj[p].timer \/ Alive(mc, p)
    BY <1>3, <1>4 DEF n
  <2>3. Pend(x) = Pend(mc) /\ Queue(x.todo)
    BY <1>1 DEF Pend, Objects
  <2> QED  BY <1>6, <2>1, <2>2, <2>3 DEF Shape, s, t
<1>10. Unmoved(mc, x)
  <2>1. \A p \in Objs : x.obj[p].valid = mc.obj[p].valid /\ x.obj[p].enabled = mc.obj[p].enabled
    BY <1>3, <1>4
  <2> QED  BY <1>2, <1>8, <1>9, <2>1 DEF Unmoved, s, t
<1>11. Objects(x, mgr) /\ \A p \in Objs : Current(x, mgr, p)
  BY <1>1, <1>10, UnmovedKeeps
<1>12. Awake(x, mgr, events)
  BY <1>7, <1>11 DEF Awake, t
<1> QED  BY <1>12, WriteAwake DEF Handled

(* _mcd_account_set_avatar: the token is cleared, to be set by a reply.     *)
LEMMA SetAvatarKeeps ==
  ASSUME Inv, NEW o \in Objs, NEW connected \in BOOLEAN, AccountSetAvatar(o, connected)
  PROVE  Inv'
<1> DEFINE t == Touched(o)
           n == mc.obj[o].name
           s == SetAttribute(mc.s, n, "token", None)
           b == mc.obj[o].reply \/ connected
           x == [Touched(o) EXCEPT !.s = SetAttribute(@, mc.obj[o].name, "token", None),
                                   !.obj[o].reply = @ \/ connected]
           obj == [mc.obj EXCEPT ![o] = [mc.obj[o] EXCEPT !.reply = b]]
<1>1. /\ up /\ Becomes(Write(x)) /\ UNCHANGED <<up, mgr, events, full>> /\ Reachable(o)
  BY DEF AccountSetAvatar, Call, Idle
<1>2. /\ mc \in McType /\ events \in Seq(Signal) /\ up = TRUE /\ mc.obj[o] \in ObjType
      /\ mc.obj \in [Objs -> ObjType] /\ mc.s \in StoreType /\ Object(mc, o)
  BY <1>1, Now DEF Inv, Types, McType, Objects
<1>3. Alive(mc, o) /\ mc.obj[o].loaded
  BY <1>1, <1>2 DEF Alive, Reachable, Object
<1>4. /\ t \in McType /\ n \in Names
      /\ t.s = mc.s /\ t.obj = mc.obj /\ t.hash = mc.hash /\ t.lock = mc.lock
      /\ t.onBus = mc.onBus /\ t.todo = mc.todo /\ t.gone = mc.gone
  BY <1>1, <1>3, TouchedIs DEF Handled
<1>5. Sets(mc.s, s, n, "token", None) /\ s \in StoreType /\ None \in 0..2
  <2>1. Sets(mc.s, s, n, "token", None)
    BY <1>2, <1>4, Constants, TheKeys, SetAttributeIs
  <2> QED  BY <2>1, Constants DEF Sets, Apart
<1>6. b \in BOOLEAN /\ obj \in [Objs -> ObjType]
  BY <1>2 DEF ObjType
<1>7. x = [t EXCEPT !.s = s, !.obj = obj]
  BY <1>2, <1>4 DEF McType
<1> HIDE DEF t, s, x, obj
<1>8. /\ x \in McType /\ x.s = s /\ x.obj = obj /\ x.hash = mc.hash /\ x.lock = mc.lock
      /\ x.onBus = mc.onBus /\ x.todo = mc.todo /\ x.gone = mc.gone /\ x.known = t.known
  BY <1>4, <1>5, <1>6, <1>7 DEF McType
<1>9. Handled(Write(x), events)
  <2>1. Sets(mc.s, x.s, mc.obj[o].name, "token", None)
    BY <1>5, <1>8
  <2>2. x.obj = [mc.obj EXCEPT ![o] = [mc.obj[o] EXCEPT !.reply = b]]
    BY <1>8 DEF obj
  <2>3. x.known = Touched(o).known
    BY <1>8 DEF t
  <2> HIDE DEF b, n
  <2> QED  BY <1>1, <1>3, <1>5, <1>6, <1>8, <2>1, <2>2, <2>3, TokenKeeps
<1> QED  BY <1>1, <1>2, <1>9, BecomesKeeps

(* An object no longer waits for a reply, or for a timer.                   *)
LEMMA QuietKeeps ==
  ASSUME NEW m, NEW e, Handled(m, e), NEW o \in Objs, NEW ob \in ObjType,
         ob.st = m.obj[o].st, ob.name = m.obj[o].name, ob.for = m.obj[o].for,
         ob.loaded = m.obj[o].loaded, ob.reg = m.obj[o].reg,
         ob.removed = m.obj[o].removed, ob.enabled = m.obj[o].enabled,
         ob.valid = m.obj[o].valid,
         ob.reply => m.obj[o].reply, ob.timer => m.obj[o].timer
  PROVE  Handled([m EXCEPT !.obj[o] = ob], e)
<1> DEFINE r == [m EXCEPT !.obj[o] = ob]
<1>1. /\ m \in McType /\ Objects(m, mgr) /\ Sound(m.s, m.known, m.gone, e)
      /\ Synced(m.s, m.failed) /\ (\A p \in Objs : Current(m, mgr, p))
      /\ m.obj \in [Objs -> ObjType]
  BY DEF Handled, Awake, McType
<1>2. /\ r \in McType /\ r.obj = [m.obj EXCEPT ![o] = ob] /\ r.s = m.s /\ r.hash = m.hash
      /\ r.lock = m.lock /\ r.onBus = m.onBus /\ r.todo = m.todo /\ r.gone = m.gone
      /\ r.known = m.known /\ r.failed = m.failed
  BY <1>1 DEF McType
<1> HIDE DEF r
<1>3. r.obj[o] = ob /\ \A p \in Objs \ {o} : r.obj[p] = m.obj[p]
  BY <1>1, <1>2
<1>4. Shape(m, r)
  <2>1. \A p \in Objs :
       /\ r.obj[p].st = m.obj[p].st /\ r.obj[p].name = m.obj[p].name
       /\ r.obj[p].for = m.obj[p].for /\ r.obj[p].loaded = m.obj[p].loaded
       /\ r.obj[p].reg = m.obj[p].reg /\ r.obj[p].removed = m.obj[p].removed
       /\ r.obj[p].reply => m.obj[p].reply \/ m.obj[p].loaded
       /\ r.obj[p].timer => m.obj[p].timer \/ Alive(m, p)
    BY <1>3
  <2>2. Pend(r) = Pend(m) /\ Queue(r.todo)
    BY <1>1, <1>2 DEF Pend, Objects
  <2>3. \A n \in Names : Managed(r, n) <=> Managed(m, n)
    BY <1>2 DEF Managed
  <2> QED  BY <1>2, <2>1, <2>2, <2>3 DEF Shape
<1>5. Unmoved(m, r)
  <2>1. \A p \in Objs : r.obj[p].valid = m.obj[p].valid /\ r.obj[p].enabled = m.obj[p].enabled
    BY <1>3
  <2> QED  BY <1>2, <1>4, <2>1 DEF Unmoved
<1>6. Objects(r, mgr) /\ \A p \in Objs : Current(r, mgr, p)
  BY <1>1, <1>2, <1>5, UnmovedKeeps
<1> QED  BY <1>1, <1>2, <1>6 DEF Handled, Awake, r

(* avatars_set_avatar_cb, which may find the account removed.          *)
LEMMA AvatarReplyKeeps ==
  ASSUME Inv, NEW o \in Objs, AvatarReply(o)
  PROVE  Inv'
<1> DEFINE t == Touched(o)
           n == mc.obj[o].name
           s == SetAttribute(mc.s, n, "token", 1)
           ob == [mc.obj[o] EXCEPT !.reply = FALSE]
           heard == [Touched(o) EXCEPT !.obj[o].reply = FALSE]
           token == [heard EXCEPT !.s = SetAttribute(@, mc.obj[o].name, "token", 1)]
<1>1. /\ up
      /\ Becomes(heard) \/ Becomes(Write(token))
      /\ UNCHANGED <<up, mgr, events, full>> /\ mc.obj[o].reply
  BY DEF AvatarReply, Idle
<1>2. /\ mc \in McType /\ events \in Seq(Signal) /\ up = TRUE /\ mc.obj[o] \in ObjType
      /\ mc.obj \in [Objs -> ObjType] /\ mc.s \in StoreType /\ Object(mc, o)
  BY <1>1, Now DEF Inv, Types, McType, Objects
<1>3. Alive(mc, o)
  BY <1>1, <1>2 DEF Object
<1>4. /\ t \in McType /\ n \in Names /\ Handled(t, events)
      /\ t.s = mc.s /\ t.obj = mc.obj /\ t.hash = mc.hash /\ t.lock = mc.lock
      /\ t.onBus = mc.onBus /\ t.todo = mc.todo /\ t.gone = mc.gone
  BY <1>1, <1>3, TouchedIs DEF Handled
<1>5. heard = [t EXCEPT !.obj = [t.obj EXCEPT ![o] = ob]]
  BY <1>4
<1>6. /\ ob \in ObjType /\ ob.st = mc.obj[o].st /\ ob.name = mc.obj[o].name
      /\ ob.for = mc.obj[o].for /\ ob.loaded = mc.obj[o].loaded /\ ob.reg = mc.obj[o].reg
      /\ ob.removed = mc.obj[o].removed /\ ob.enabled = mc.obj[o].enabled
      /\ ob.valid = mc.obj[o].valid /\ ob.timer = mc.obj[o].timer /\ ~ob.reply
  BY <1>2 DEF ObjType
<1> HIDE DEF heard, t, s
<1>7. CASE Becomes(heard)
  <2>1. Handled([t EXCEPT !.obj[o] = ob], events)
    <3> HIDE DEF ob
    <3> QED  BY <1>4, <1>6, QuietKeeps
  <2>2. heard = [t EXCEPT !.obj[o] = ob]
    BY <1>5
  <2> QED  BY <1>1, <1>2, <1>7, <2>1, <2>2, BecomesKeeps
<1>8. CASE Becomes(Write(token))
  <2>1. Sets(mc.s, s, n, "token", 1) /\ s \in StoreType /\ 1 \in 0..2
    <3>1. 1 \in 0..2
      OBVIOUS
    <3>2. Sets(mc.s, s, n, "token", 1)
      BY <1>2, <1>4, <3>1, TheKeys, SetAttributeIs DEF s
    <3> QED  BY <3>1, <3>2 DEF Sets, Apart
  <2> DEFINE obj == [mc.obj EXCEPT ![o] = ob]
  <2>2. obj \in [Objs -> ObjType]
    BY <1>2, <1>6
  <2>3. token = [t EXCEPT !.s = s, !.obj = obj]
    BY <1>4, <1>5 DEF s, McType
  <2> HIDE DEF token, obj
  <2>4. /\ token \in McType /\ token.s = s /\ token.obj = obj /\ token.hash = mc.hash
        /\ token.lock = mc.lock /\ token.onBus = mc.onBus /\ token.todo = mc.todo
        /\ token.gone = mc.gone /\ token.known = t.known
    BY <1>4, <2>1, <2>2, <2>3 DEF McType
  <2>5. Handled(Write(token), events)
    <3>1. Sets(mc.s, token.s, mc.obj[o].name, "token", 1)
      BY <2>1, <2>4
    <3>2. token.obj = [mc.obj EXCEPT ![o] = [mc.obj[o] EXCEPT !.reply = FALSE]]
      BY <2>4 DEF obj
    <3>3. token.known = Touched(o).known /\ FALSE \in BOOLEAN
      BY <2>4 DEF t
    <3> HIDE DEF n, ob
    <3> QED  BY <1>1, <1>3, <2>1, <2>4, <3>1, <3>2, <3>3, TokenKeeps
  <2> QED  BY <1>1, <1>2, <1>8, <2>5, BecomesKeeps
<1> QED  BY <1>1, <1>7, <1>8

(* The timer that announces changed properties releases its object.         *)
LEMMA PropertiesTimeoutKeeps ==
  ASSUME Inv, NEW o \in Objs, PropertiesTimeout(o)
  PROVE  Inv'
<1> DEFINE ob == [mc.obj[o] EXCEPT !.timer = FALSE]
<1>1. /\ up /\ Becomes([mc EXCEPT !.obj[o].timer = FALSE])
      /\ UNCHANGED <<up, mgr, events, full>>
  BY DEF PropertiesTimeout, Idle
<1>2. /\ Handled(mc, events) /\ events \in Seq(Signal) /\ up = TRUE /\ mc.obj[o] \in ObjType
  BY <1>1, Now DEF Inv, Types, McType
<1>3. /\ ob \in ObjType /\ ob.st = mc.obj[o].st /\ ob.name = mc.obj[o].name
      /\ ob.for = mc.obj[o].for /\ ob.loaded = mc.obj[o].loaded /\ ob.reg = mc.obj[o].reg
      /\ ob.removed = mc.obj[o].removed /\ ob.enabled = mc.obj[o].enabled
      /\ ob.valid = mc.obj[o].valid /\ ob.reply = mc.obj[o].reply /\ ~ob.timer
  BY <1>2 DEF ObjType
<1>4. [mc EXCEPT !.obj[o].timer = FALSE] = [mc EXCEPT !.obj[o] = ob]
  OBVIOUS
<1> HIDE DEF ob
<1>5. Handled([mc EXCEPT !.obj[o] = ob], events)
  BY <1>2, <1>3, QuietKeeps
<1> QED  BY <1>1, <1>2, <1>4, <1>5, BecomesKeeps

(* The timer that stores what libaccounts was given.                        *)
LEMMA SsoCommitTimeoutKeeps ==
  ASSUME Inv, SsoCommitTimeout
  PROVE  Inv'
<1> DEFINE s == SsoCommitReal(mc.s)
           r == [mc EXCEPT !.s = s]
<1>1. /\ up /\ Becomes(r) /\ UNCHANGED <<up, mgr, events, full>>
  BY DEF SsoCommitTimeout, Idle
<1>2. /\ mc \in McType /\ events \in Seq(Signal) /\ up = TRUE /\ mc.s \in StoreType
      /\ Objects(mc, mgr) /\ Sound(mc.s, mc.known, mc.gone, events)
      /\ Synced(mc.s, mc.failed) /\ (\A p \in Objs : Current(mc, mgr, p))
  BY <1>1, Now DEF Handled, Inv, Types, McType
<1>3. /\ s \in StoreType /\ Sound(s, mc.known, mc.gone, events)
      /\ s.cache = mc.s.cache /\ s.save = mc.s.save /\ ~s.sso.save /\ s.ag.state = mc.s.ag.state
  BY <1>2, SsoCommitRealSound
<1> HIDE DEF s
<1>4. /\ r \in McType /\ r.s = s /\ r.obj = mc.obj /\ r.hash = mc.hash /\ r.lock = mc.lock
      /\ r.onBus = mc.onBus /\ r.todo = mc.todo /\ r.gone = mc.gone /\ r.known = mc.known
      /\ r.failed = mc.failed
  BY <1>2, <1>3 DEF McType
<1> HIDE DEF r
<1>5. Unmoved(mc, r)
  BY <1>2, <1>3, <1>4 DEF Unmoved, Shape, Objects, Pend, Managed
<1>6. Objects(r, mgr) /\ \A p \in Objs : Current(r, mgr, p)
  BY <1>2, <1>4, <1>5, UnmovedKeeps
<1>7. Synced(r.s, r.failed)
  BY <1>2, <1>3, <1>4 DEF Synced
<1>8. Handled(r, events)
  BY <1>3, <1>4, <1>6, <1>7 DEF Handled, Awake
<1> QED  BY <1>1, <1>2, <1>8, BecomesKeeps

(* While MC is dead other processes change libaccounts.                     *)
LEMMA AsleepOutside ==
  ASSUME NEW s \in StoreType, NEW K, NEW G, NEW ag \in AgType, Asleep(s, K, G),
         s.ag.state # "deleted", ag.state \in {"present", "deleted"}, ag.uid = s.ag.uid,
         ag.val["Enabled"] # None
  PROVE  Asleep([s EXCEPT !.ag = ag], K, G)
<1> DEFINE t == [s EXCEPT !.ag = ag]
<1>1. /\ t \in StoreType /\ t.ag = ag
      /\ t.cache = s.cache /\ t.keys = s.keys /\ t.save = s.save /\ t.disk = s.disk
      /\ t.sso = s.sso
  BY AgIs
<1>2. t = Stopped(t)
  <2>1. s = Stopped(s)
    BY DEF Asleep
  <2>2. /\ Stopped(s).cache = [n \in Names |-> NoEntry]
        /\ Stopped(s).keys = [n \in Names |-> Nothing] /\ Stopped(s).save = FALSE
        /\ Stopped(s).sso = [name |-> None, view |-> NoChange, dirty |-> {},
                             watch |-> FALSE, save |-> FALSE, timer |-> FALSE]
    BY DEF Stopped, StoreType
  <2>3. /\ t.cache = [n \in Names |-> NoEntry]
        /\ t.keys = [n \in Names |-> Nothing] /\ t.save = FALSE
        /\ t.sso = [name |-> None, view |-> NoChange, dirty |-> {},
                    watch |-> FALSE, save |-> FALSE, timer |-> FALSE]
    BY <1>1, <2>1, <2>2
  <2> HIDE DEF t
  <2> QED  BY <1>1, <2>3 DEF Stopped, StoreType
<1> HIDE DEF t
<1>3. ASSUME NEW n \in Names, InSso(t, n)  PROVE InSso(s, n)
  <2>1. ag.state = "present" /\ s.ag.uid = n /\ n # None
    BY <1>1, <1>3, NotNone DEF InSso
  <2>2. s.ag.state # "never"
    BY <2>1 DEF Asleep
  <2>3. s.ag.state \in {"never", "present", "deleted"}
    BY StoreTypes DEF AgType
  <2> QED  BY <2>1, <2>2, <2>3 DEF InSso
<1>4. \A n \in Names : <<n, "ghost">> \notin K
  BY DEF Asleep
<1>5. \A n \in Names : /\ InSso(t, n) => Knows(K, n, {"kept", "unwritten"})
                                         \/ t.disk.data[n] = Nothing
                       /\ n \in G => \/ Excused(K, n)
                                     \/ ~InSso(t, n) /\ t.disk.data[n] = Nothing
  BY <1>1, <1>3 DEF Asleep
<1>6. t.disk.kind \notin {"good", "system", "old"} => \A n \in Names : t.disk.data[n] = Nothing
  BY <1>1 DEF Asleep
<1> QED  BY <1>1, <1>2, <1>4, <1>5, <1>6 DEF Asleep, t

(* A change by another process keeps the invariant if it keeps the stores   *)
(* sound.                                                                   *)
LEMMA OutsideKeeps ==
  ASSUME Inv, NEW ag \in AgType, NEW x \in Seq(Signal), Outside(ag, x),
         mc.s.ag.state # "deleted", ag.state \in {"present", "deleted"},
         ag.uid = mc.s.ag.uid, ag.val["Enabled"] # None,
         up => Sound([mc.s EXCEPT !.ag = ag], mc.known, mc.gone, events \o x)
  PROVE  Inv'
<1> DEFINE t == [mc.s EXCEPT !.ag = ag]
           r == [mc EXCEPT !.s = t]
<1>1. /\ mc \in McType /\ mc.s \in StoreType /\ events \in Seq(Signal) /\ Types
  BY DEF Inv, Types, McType
<1>2. /\ t \in StoreType /\ t.ag = ag
      /\ t.cache = mc.s.cache /\ t.keys = mc.s.keys /\ t.save = mc.s.save /\ t.disk = mc.s.disk
      /\ t.sso = mc.s.sso
  BY <1>1, AgIs
<1>3. /\ mc' = [mc EXCEPT !.s.ag = ag] /\ events' = IF up THEN events \o x ELSE events
      /\ UNCHANGED <<up, mgr, full>>
  BY DEF Outside
<1>4. mc' = r
  BY <1>1, <1>3 DEF McType
<1> HIDE DEF t
<1>5. /\ r \in McType /\ r.s = t /\ r.obj = mc.obj /\ r.hash = mc.hash /\ r.lock = mc.lock
      /\ r.onBus = mc.onBus /\ r.todo = mc.todo /\ r.gone = mc.gone /\ r.known = mc.known
      /\ r.failed = mc.failed
  BY <1>1, <1>2 DEF McType
<1> HIDE DEF r
<1>6. (events \in Seq(Signal))'
  <2>1. events \o x \in Seq(Signal)
    BY <1>1
  <2> QED  BY <1>1, <1>3, <2>1
<1>7. (mc \in McType)'
  BY <1>4, <1>5 DEF McType
<1>8. Types'
  BY <1>1, <1>3, <1>6, <1>7 DEF Types
<1>9. CASE up
  <2>1. /\ Objects(mc, mgr) /\ (\A p \in Objs : Current(mc, mgr, p)) /\ Synced(mc.s, mc.failed)
    BY <1>9, Now DEF Handled
  <2>2. Unmoved(mc, r)
    BY <1>2, <1>5, <2>1 DEF Unmoved, Shape, Objects, Pend, Managed
  <2>3. Objects(r, mgr) /\ \A p \in Objs : Current(r, mgr, p)
    BY <1>1, <1>5, <2>1, <2>2, UnmovedKeeps
  <2>4. Sound(r.s, r.known, r.gone, events \o x)
    BY <1>5, <1>9 DEF t
  <2>5. Awake(r, mgr, events \o x) /\ Synced(r.s, r.failed)
    BY <1>2, <1>5, <2>1, <2>3, <2>4 DEF Awake, Synced
  <2>6. (Awake(mc, mgr, events) /\ Synced(mc.s, mc.failed))'
    BY <1>3, <1>4, <1>9, <2>5
  <2> QED  BY <1>3, <1>8, <1>9, <2>6 DEF Inv
<1>10. CASE ~up
  <2>1. Dead(mc) /\ mgr = "unready" /\ events = <<>>
    BY <1>10 DEF Inv
  <2>2. Asleep(t, mc.known, mc.gone)
    BY <1>1, <2>1, AsleepOutside DEF Dead, t
  <2>3. Dead(r)
    BY <1>5, <2>1, <2>2 DEF Dead
  <2>4. Dead(mc)'
    BY <1>4, <2>3 DEF Dead, Asleep
  <2> QED  BY <1>3, <1>8, <1>10, <2>1, <2>4 DEF Inv
<1> QED  BY <1>9, <1>10

(* An account is created in libaccounts.                                    *)
LEMMA OutsideCreateKeeps ==
  ASSUME Inv, NEW complete \in BOOLEAN, OutsideCreate(complete)
  PROVE  Inv'
<1> DEFINE val == [k \in Settings |-> CASE k = "Enabled" -> 2 [] k = "param" -> 1
                                        [] OTHER -> None]
           ag == [mc.s.ag EXCEPT !.state = "present", !.complete = complete, !.val = val]
           x == <<"created">>
<1>1. mc.s.ag.state = "never" /\ Outside(ag, x)
  BY DEF OutsideCreate
<1>2. mc.s \in StoreType /\ mc.s.ag \in AgType
  BY StoreTypes DEF Inv, Types, McType
<1>3. val \in [Settings -> 0..2] /\ val["Enabled"] = 2
  <2>1. ASSUME NEW k \in Settings  PROVE val[k] \in 0..2
    BY Constants
  <2>2. val["Enabled"] = 2
    BY TheKeys
  <2> HIDE DEF val
  <2>3. val = [k \in Settings |-> val[k]]
    BY DEF val
  <2> QED  BY <2>1, <2>2, <2>3
<1> HIDE DEF val
<1>4. ag \in AgType /\ ag.state = "present" /\ ag.uid = mc.s.ag.uid /\ ag.val["Enabled"] # None
  <2>1. mc.s.ag \in [state : {"never", "present", "deleted"}, complete : BOOLEAN,
                     uid : Names \cup {None}, val : [Settings -> 0..2]]
    BY <1>2 DEF AgType
  <2>2. ag \in [state : {"never", "present", "deleted"}, complete : BOOLEAN,
               uid : Names \cup {None}, val : [Settings -> 0..2]]
    BY <1>3, <2>1
  <2>3. ag.state = "present" /\ ag.uid = mc.s.ag.uid /\ ag.val = val
    BY <2>1
  <2> QED  BY <1>3, <2>2, <2>3 DEF AgType, None
<1> HIDE DEF ag
<1>5. x \in Seq(Signal)
  BY DEF Signal
<1>6. up => Sound([mc.s EXCEPT !.ag = ag], mc.known, mc.gone, events \o x)
  <2>1. CASE up
    <3>1. Sound(mc.s, mc.known, mc.gone, events)
      BY <2>1, Now
    <3> QED  BY <1>1, <1>2, <1>4, <3>1, CreatedOutside
  <2> QED  BY <2>1
<1> HIDE DEF x
<1> QED  BY <1>1, <1>4, <1>5, <1>6, OutsideKeeps

(* A setting is changed there.                                              *)
LEMMA OutsideSetKeeps ==
  ASSUME Inv, NEW k \in {"param", "Enabled"}, NEW v \in 0..2, k = "Enabled" => v # None,
         OutsideSet(k, v)
  PROVE  Inv'
<1> DEFINE val == [mc.s.ag.val EXCEPT ![k] = v]
           ag == [mc.s.ag EXCEPT !.complete = TRUE, !.val = val]
           x == IF k = "Enabled" THEN <<"updated", "toggled">> ELSE <<"updated">>
<1>1. mc.s.ag.state = "present" /\ Outside(ag, x)
  BY DEF OutsideSet
<1>2. /\ mc.s \in StoreType /\ mc.s.ag \in AgType /\ mc.s.ag.val \in [Settings -> 0..2]
      /\ events \in Seq(Signal)
  BY StoreTypes DEF Inv, Types, McType, AgType
<1>3. mc.s.ag.val["Enabled"] # None
  BY <1>1 DEF Inv, Dead, Asleep, Awake, Sound, Common, Link
<1>4. val \in [Settings -> 0..2] /\ val["Enabled"] # None
  BY <1>2, <1>3, TheKeys
<1> HIDE DEF val
<1>5. ag \in AgType /\ ag.state = "present" /\ ag.uid = mc.s.ag.uid /\ ag.val["Enabled"] # None
  BY <1>1, <1>2, <1>4 DEF AgType
<1> HIDE DEF ag
<1>6. x \in Seq(Signal) /\ Has(x, "updated") /\ ~Has(x, "created") /\ ~Has(x, "deleted")
  <2>1. CASE k = "Enabled"
    <3>1. x = <<"updated", "toggled">>
      BY <2>1
    <3> HIDE DEF x
    <3>2. x \in Seq(Signal) /\ DOMAIN x = {1, 2} /\ x[1] = "updated" /\ x[2] = "toggled"
      BY <3>1 DEF Signal
    <3> QED  BY <3>2 DEF Has
  <2>2. CASE k # "Enabled"
    <3>1. x = <<"updated">>
      BY <2>2
    <3> HIDE DEF x
    <3>2. x \in Seq(Signal) /\ DOMAIN x = {1} /\ x[1] = "updated"
      BY <3>1 DEF Signal
    <3> QED  BY <3>2 DEF Has
  <2> QED  BY <2>1, <2>2
<1> HIDE DEF x
<1>7. up => Sound([mc.s EXCEPT !.ag = ag], mc.known, mc.gone, events \o x)
  <2>1. CASE up
    <3>1. Sound(mc.s, mc.known, mc.gone, events)
      BY <2>1, Now
    <3> QED  BY <1>1, <1>2, <1>5, <1>6, <3>1, SetOutside
  <2> QED  BY <2>1
<1> QED  BY <1>1, <1>5, <1>6, <1>7, OutsideKeeps

(* The account is deleted there.                                            *)
LEMMA OutsideDeleteKeeps ==
  ASSUME Inv, OutsideDelete
  PROVE  Inv'
<1> DEFINE ag == [mc.s.ag EXCEPT !.state = "deleted"]
           x == <<"deleted">>
<1>1. mc.s.ag.state = "present" /\ Outside(ag, x)
  BY DEF OutsideDelete
<1>2. mc.s \in StoreType /\ mc.s.ag \in AgType /\ events \in Seq(Signal)
  BY StoreTypes DEF Inv, Types, McType
<1>3. mc.s.ag.val["Enabled"] # None
  BY <1>1 DEF Inv, Dead, Asleep, Awake, Sound, Common, Link
<1>4. ag \in AgType /\ ag.state = "deleted" /\ ag.uid = mc.s.ag.uid /\ ag.val["Enabled"] # None
  BY <1>2, <1>3 DEF AgType
<1>5. ag = [mc.s.ag EXCEPT !.state = "deleted"] /\ x \in Seq(Signal)
  BY DEF Signal
<1> HIDE DEF ag
<1>6. up => Sound([mc.s EXCEPT !.ag = ag], mc.known, mc.gone, events \o x)
  <2>1. CASE up
    <3>1. Sound(mc.s, mc.known, mc.gone, events)
      BY <2>1, Now
    <3> QED  BY <1>1, <1>2, <1>4, <1>5, <3>1, DeletedOutside
  <2> QED  BY <2>1
<1> HIDE DEF x
<1> QED  BY <1>1, <1>4, <1>5, <1>6, OutsideKeeps

(* The disk fills or is emptied.                                            *)
LEMMA DiskChangesKeeps ==
  ASSUME Inv, DiskChanges
  PROVE  Inv'
<1>1. full' = ~full /\ UNCHANGED <<up, mc, mgr, events>>
  BY DEF DiskChanges
<1>2. Types' /\ (full \in BOOLEAN)'
  BY <1>1 DEF Inv, Types
<1> QED  BY <1>1, <1>2 DEF Inv

-----------------------------------------------------------------------------
(* A signal of libaccounts arrives.                                         *)

Refreshed(m) == [m EXCEPT !.s = Fresher(m.s)]

(* What a signal handler finds: the AgAccount is up to date.                *)
LEMMA RefreshedIs ==
  ASSUME Inv, up
  PROVE  LET m == Refreshed(mc) IN
         /\ Handled(m, events) /\ m \in McType /\ m.s = Fresher(mc.s)
         /\ m.obj = mc.obj /\ m.hash = mc.hash /\ m.lock = mc.lock /\ m.onBus = mc.onBus
         /\ m.todo = mc.todo /\ m.gone = mc.gone /\ m.known = mc.known /\ m.failed = mc.failed
         /\ \A k \in Settings \ m.s.sso.dirty : m.s.sso.view[k] = m.s.ag.val[k]
<1> DEFINE s == Fresher(mc.s)
           m == Refreshed(mc)
<1>1. /\ mc \in McType /\ mc.s \in StoreType /\ Sound(mc.s, mc.known, mc.gone, events)
      /\ Objects(mc, mgr) /\ Synced(mc.s, mc.failed) /\ (\A p \in Objs : Current(mc, mgr, p))
  BY Now DEF Handled, McType
<1>2. /\ s \in StoreType /\ Sound(s, mc.known, mc.gone, events)
      /\ s.cache = mc.s.cache /\ s.ag = mc.s.ag /\ s.save = mc.s.save
      /\ s.sso.save = mc.s.sso.save /\ s.sso.timer = mc.s.sso.timer
      /\ \A k \in Settings \ s.sso.dirty : s.sso.view[k] = s.ag.val[k]
  BY <1>1, FresherSound
<1> HIDE DEF s
<1>3. m = [mc EXCEPT !.s = s]
  BY DEF Refreshed, s
<1> HIDE DEF m
<1>4. /\ m \in McType /\ m.s = s
      /\ m.obj = mc.obj /\ m.hash = mc.hash /\ m.lock = mc.lock /\ m.onBus = mc.onBus
      /\ m.todo = mc.todo /\ m.gone = mc.gone /\ m.known = mc.known /\ m.failed = mc.failed
  BY <1>1, <1>2, <1>3 DEF McType
<1>5. Unmoved(mc, m)
  BY <1>1, <1>2, <1>4 DEF Unmoved, Shape, Objects, Pend, Managed
<1>6. Objects(m, mgr) /\ \A p \in Objs : Current(m, mgr, p)
  BY <1>1, <1>4, <1>5, UnmovedKeeps
<1>7. Synced(m.s, m.failed)
  BY <1>1, <1>2, <1>4 DEF Synced
<1>8. Handled(m, events)
  BY <1>2, <1>4, <1>6, <1>7 DEF Handled, Awake
<1> QED  BY <1>2, <1>4, <1>8 DEF m, s

(* From b to y the entry of n is another, and its object has been told.     *)
LEMMA ToldKeeps ==
  ASSUME NEW b \in McType, NEW y \in McType, NEW n \in Names, NEW f,
         Objects(b, mgr), \A p \in Objs : Current(b, mgr, p), Shape(b, y),
         \A p \in Objs : /\ y.obj[p].valid = b.obj[p].valid
                         /\ b.obj[p].name # n => y.obj[p].enabled = b.obj[p].enabled
                         /\ Alt(p, "Enabled") \in Pend(b) => Alt(p, "Enabled") \in Pend(y),
         b.known \subseteq y.known,
         \A q \in Names \ {n} : y.s.cache[q] = b.s.cache[q],
         y.s.cache[n].val["param"] = b.s.cache[n].val["param"] \/ Knows(y.known, n, {"altered"}),
         \A p \in Objs : Lives(y, p) /\ y.obj[p].name = n =>
           \/ y.obj[p].enabled = (y.s.cache[n].val["Enabled"] = 2)
           \/ Knows(y.known, n, {"missed"})
           \/ Alt(p, "Enabled") \in Pend(y) /\ y.s.cache[n].val["Enabled"] # None,
         Sound(y.s, y.known, y.gone, f), Synced(y.s, y.failed)
  PROVE  Handled(y, f)
<1>1. Objects(y, mgr)
  BY ShapeKeeps
<1>2. ASSUME NEW p \in Objs  PROVE Current(y, mgr, p)
  <2> SUFFICES ASSUME Lives(y, p)  PROVE Current(y, mgr, p)
    BY DEF Current
  <2>1. /\ Lives(b, p) /\ y.obj[p].name = b.obj[p].name /\ y.obj[p].loaded = b.obj[p].loaded
        /\ b.obj[p].name \in Names /\ Current(b, mgr, p)
    BY DEF Shape, Lives, Alive, Objects, Object
  <2> DEFINE q == b.obj[p].name
  <2>2. \A whys : Knows(b.known, q, whys) => Knows(y.known, q, whys)
    BY DEF Knows
  <2>3. CASE q = n
    BY <2>1, <2>2, <2>3 DEF Current
  <2>4. CASE q # n
    <3>1. y.s.cache[q] = b.s.cache[q]
      BY <2>1, <2>4
    <3> QED  BY <2>1, <2>2, <2>4, <3>1 DEF Current
  <2> QED  BY <2>3, <2>4
<1> QED  BY <1>1, <1>2 DEF Handled, Awake

(* altered_one_cb for the parameters.                                       *)
LEMMA ParamTold ==
  ASSUME NEW m, NEW f, Handled(m, f), NEW n \in Names
  PROVE  Handled(AlteredOne(m, n, "param"), f)
<1> DEFINE o == m.hash[n]
           r == AlteredOne(m, n, "param")
           known == m.known \cup {<<n, "missed">>}
           todo == <<Alt(o, "param")>> \o m.todo
<1>1. /\ m \in McType /\ Objects(m, mgr) /\ Sound(m.s, m.known, m.gone, f)
      /\ Synced(m.s, m.failed) /\ (\A p \in Objs : Current(m, mgr, p))
  BY DEF Handled, Awake
<1>2. CASE o = None
  <2>1. known \subseteq Names \X Why /\ m.known \subseteq known
    BY <1>1 DEF McType, Why
  <2>2. \A x \in Names : <<x, "ghost">> \in known => <<x, "ghost">> \in m.known
    OBVIOUS
  <2>3. r = [m EXCEPT !.known = known]
    BY <1>1, <1>2 DEF AlteredOne, Missed, McType
  <2> HIDE DEF known, r
  <2>4. /\ r \in McType /\ r.s = m.s /\ r.obj = m.obj /\ r.hash = m.hash /\ r.lock = m.lock
        /\ r.onBus = m.onBus /\ r.todo = m.todo /\ r.gone = m.gone /\ r.known = known
        /\ r.failed = m.failed
    BY <1>1, <2>1, <2>3 DEF McType
  <2>5. Unmoved(m, r)
    BY <1>1, <2>1, <2>4 DEF Unmoved, Shape, Objects, Pend, Managed
  <2>6. Objects(r, mgr) /\ \A p \in Objs : Current(r, mgr, p)
    BY <1>1, <2>4, <2>5, UnmovedKeeps
  <2>7. Sound(r.s, r.known, r.gone, f)
    BY <1>1, <2>1, <2>2, <2>4, SoundGrows
  <2> QED  BY <1>1, <2>4, <2>6, <2>7 DEF Handled, Awake, r
<1>3. ASSUME o # None  PROVE o \in Objs /\ Lives(m, o) /\ Alive(m, o) /\ m.obj[o].name = n
  <2>1. o \in Objs
    BY <1>1, <1>3 DEF McType
  <2> QED  BY <1>1, <1>3, <2>1 DEF Objects, Lives
<1>4. CASE o # None /\ mgr = "unready"
  <2>1. r = [m EXCEPT !.todo = todo]
    BY <1>1, <1>4 DEF AlteredOne, Alt, McType
  <2>2. /\ todo \in Seq(Callback) /\ Queue(todo) /\ Elems(todo) = {Alt(o, "param")} \cup Elems(m.todo)
    <3> DEFINE x == <<Alt(o, "param")>>
    <3>1. Alt(o, "param") \in Callback /\ Alt(o, "param").cb = "altered"
      BY <1>3, <1>4, Callbacks
    <3>2. x \in Seq(Callback) /\ DOMAIN x = {1} /\ x[1] = Alt(o, "param")
      BY <3>1
    <3> HIDE DEF x
    <3>3. Queue(x) /\ Elems(x) = {Alt(o, "param")}
      BY <3>1, <3>2 DEF Queue, Elems
    <3>4. m.todo \in Seq(Callback) /\ Queue(m.todo)
      BY <1>1 DEF McType, Objects
    <3>5. x \o m.todo \in Seq(Callback) /\ Queue(x \o m.todo)
          /\ Elems(x \o m.todo) = Elems(x) \cup Elems(m.todo)
      BY <3>1, <3>2, <3>3, <3>4, QueuePush
    <3> QED  BY <3>3, <3>5 DEF x
  <2> HIDE DEF todo, r
  <2>3. /\ r \in McType /\ r.s = m.s /\ r.obj = m.obj /\ r.hash = m.hash /\ r.lock = m.lock
        /\ r.onBus = m.onBus /\ r.todo = todo /\ r.gone = m.gone /\ r.known = m.known
        /\ r.failed = m.failed
    BY <1>1, <2>1, <2>2 DEF McType
  <2>4. Pend(r) = Pend(m) \cup {Alt(o, "param")}
    BY <2>2, <2>3, PendIs
  <2>5. Shape(m, r)
    <3>1. \A x \in Pend(r) : x \in Pend(m) \/ (x.cb = "altered" /\ Alive(m, x.obj))
      BY <1>3, <1>4, <2>4, Callbacks
    <3> QED  BY <2>2, <2>3, <2>4, <3>1 DEF Shape, Managed
  <2>6. Objects(r, mgr)
    BY <1>1, <2>3, <2>5, ShapeKeeps
  <2>7. \A p \in Objs : Current(r, mgr, p)
    BY <1>1, <2>3, <2>4 DEF Current, Lives, Alive
  <2> QED  BY <1>1, <2>3, <2>6, <2>7 DEF Handled, Awake, r
<1>5. CASE o # None /\ mgr # "unready"
  <2> DEFINE ob == [m.obj[o] EXCEPT !.timer = TRUE]
  <2>1. r = [m EXCEPT !.obj[o] = ob]
    BY <1>5 DEF AlteredOne, AlteredByPlugin
  <2>2. m.obj[o] \in ObjType /\ m.obj \in [Objs -> ObjType]
    BY <1>1, <1>3, <1>5 DEF McType
  <2>3. ob \in ObjType /\ ob = [m.obj[o] EXCEPT !.timer = TRUE]
        /\ ob.st = m.obj[o].st /\ ob.name = m.obj[o].name
        /\ ob.for = m.obj[o].for /\ ob.loaded = m.obj[o].loaded
        /\ ob.reg = m.obj[o].reg /\ ob.removed = m.obj[o].removed
        /\ ob.reply = m.obj[o].reply /\ ob.valid = m.obj[o].valid
        /\ ob.enabled = m.obj[o].enabled
    BY <2>2 DEF ObjType
  <2> HIDE DEF ob, r
  <2>4. /\ r \in McType /\ r.s = m.s /\ r.obj = [m.obj EXCEPT ![o] = ob] /\ r.hash = m.hash
        /\ r.lock = m.lock /\ r.onBus = m.onBus /\ r.todo = m.todo /\ r.gone = m.gone
        /\ r.known = m.known /\ r.failed = m.failed
    BY <1>1, <2>1, <2>2, <2>3 DEF McType
  <2>5. /\ o \in Objs /\ r.obj[o] = ob
        /\ \A p \in Objs \ {o} : r.obj[p] = m.obj[p]
    BY <1>3, <1>5, <2>2, <2>4
  <2>6. \A p \in Objs :
       /\ r.obj[p].st = m.obj[p].st /\ r.obj[p].name = m.obj[p].name
       /\ r.obj[p].for = m.obj[p].for /\ r.obj[p].loaded = m.obj[p].loaded
       /\ r.obj[p].reg = m.obj[p].reg /\ r.obj[p].removed = m.obj[p].removed
       /\ r.obj[p].reply => m.obj[p].reply \/ m.obj[p].loaded
       /\ r.obj[p].timer => m.obj[p].timer \/ Alive(m, p)
    BY <1>3, <1>5, <2>3, <2>5
  <2>7. \A p \in Objs : r.obj[p].valid = m.obj[p].valid /\ r.obj[p].enabled = m.obj[p].enabled
    BY <2>3, <2>5
  <2>8. Unmoved(m, r)
    <3>1. Pend(r) = Pend(m) /\ Queue(r.todo) /\ \A x \in Names : Managed(r, x) <=> Managed(m, x)
      BY <1>1, <2>4 DEF Pend, Objects, Managed
    <3> QED  BY <2>4, <2>6, <2>7, <3>1 DEF Unmoved, Shape
  <2>9. Objects(r, mgr) /\ \A p \in Objs : Current(r, mgr, p)
    BY <1>1, <2>4, <2>8, UnmovedKeeps
  <2> QED  BY <1>1, <2>4, <2>9 DEF Handled, Awake, r
<1> QED  BY <1>2, <1>4, <1>5

(* From b to x a plugin has pushed settings of n, of which Enabled is one.  *)
Pushed(b, x, n, f) ==
  /\ b \in McType /\ x \in McType /\ Objects(b, mgr) /\ \A p \in Objs : Current(b, mgr, p)
  /\ x.obj = b.obj /\ x.hash = b.hash /\ x.lock = b.lock /\ x.onBus = b.onBus
  /\ x.todo = b.todo /\ b.known \subseteq x.known
  /\ \A q \in Names \ {n} : x.s.cache[q] = b.s.cache[q]
  /\ x.s.ag.state = b.s.ag.state
  /\ x.s.cache[n].val["manager"] = b.s.cache[n].val["manager"]
  /\ x.s.cache[n].val["param"] = b.s.cache[n].val["param"] \/ Knows(x.known, n, {"altered"})
  /\ x.s.cache[n].val["Enabled"] # None
  /\ Sound(x.s, x.known, x.gone, f) /\ Synced(x.s, x.failed)

(* What a signal pushes into the cache moves no object.                     *)
LEMMA PushedIs ==
  ASSUME NEW b, NEW x, NEW n \in Names, NEW f, Pushed(b, x, n, f)
  PROVE  /\ Shape(b, x) /\ Pend(x) = Pend(b)
         /\ \A o \in Objs : Lives(x, o) <=> Lives(b, o)
         /\ \A q \in Names : Managed(x, q) <=> Managed(b, q)
<1>1. Pend(x) = Pend(b) /\ Queue(x.todo)
  BY DEF Pushed, Pend, Objects
<1>2. \A q \in Names : Managed(x, q) <=> Managed(b, q)
  <2> TAKE q \in Names
  <2>1. CASE q = n
    BY <2>1 DEF Pushed, Managed
  <2>2. CASE q # n
    BY <2>2 DEF Pushed, Managed
  <2> QED  BY <2>1, <2>2
<1>3. \A o \in Objs : Lives(x, o) <=> Lives(b, o)
  BY DEF Pushed, Lives, Alive
<1> QED  BY <1>1, <1>2, <1>3 DEF Pushed, Shape

(* If it leaves Enabled alone all objects stay current.                     *)
LEMMA UnalteredKeeps ==
  ASSUME NEW b, NEW x, NEW n \in Names, NEW f, Pushed(b, x, n, f),
         x.s.cache[n].val["Enabled"] = b.s.cache[n].val["Enabled"]
  PROVE  Handled(x, f)
<1>1. Shape(b, x) /\ Pend(x) = Pend(b) /\ \A o \in Objs : Lives(x, o) <=> Lives(b, o)
  BY PushedIs
<1>2. \A whys : Knows(b.known, n, whys) => Knows(x.known, n, whys)
  BY DEF Pushed, Knows
<1>3. \A p \in Objs : Lives(x, p) /\ x.obj[p].name = n =>
           \/ x.obj[p].enabled = (x.s.cache[n].val["Enabled"] = 2)
           \/ Knows(x.known, n, {"missed"})
           \/ Alt(p, "Enabled") \in Pend(x) /\ x.s.cache[n].val["Enabled"] # None
  <2> TAKE p \in Objs
  <2>1. Current(b, mgr, p) /\ x.obj = b.obj
    BY DEF Pushed
  <2> QED  BY <1>1, <1>2, <2>1 DEF Current
<1>4. \A p \in Objs : /\ x.obj[p].valid = b.obj[p].valid
                      /\ b.obj[p].name # n => x.obj[p].enabled = b.obj[p].enabled
                      /\ Alt(p, "Enabled") \in Pend(b) => Alt(p, "Enabled") \in Pend(x)
  BY <1>1 DEF Pushed
<1> QED  BY <1>1, <1>3, <1>4, ToldKeeps DEF Pushed

(* mcd_account_altered_by_plugin, for what a plugin has pushed.             *)
LEMMA AlteredKeeps ==
  ASSUME NEW b, NEW x, NEW n \in Names, NEW f, Pushed(b, x, n, f), x.hash[n] # None
  PROVE  Handled(AlteredByPlugin(x, x.hash[n], "Enabled"), f)
<1> DEFINE o == x.hash[n]
           v == x.s.cache[n].val["Enabled"]
           r == AlteredByPlugin(x, o, "Enabled")
<1>1. /\ b \in McType /\ x \in McType /\ Objects(b, mgr) /\ (\A p \in Objs : Current(b, mgr, p))
      /\ x.obj = b.obj /\ x.hash = b.hash /\ x.lock = b.lock /\ x.onBus = b.onBus
      /\ x.todo = b.todo /\ b.known \subseteq x.known
      /\ Sound(x.s, x.known, x.gone, f) /\ Synced(x.s, x.failed) /\ v # None
      /\ \A q \in Names \ {n} : x.s.cache[q] = b.s.cache[q]
      /\ x.s.cache[n].val["param"] = b.s.cache[n].val["param"] \/ Knows(x.known, n, {"altered"})
  BY DEF Pushed
<1>2. Shape(b, x) /\ Pend(x) = Pend(b) /\ \A p \in Objs : Lives(x, p) <=> Lives(b, p)
  BY PushedIs
<1>3. /\ o \in Objs /\ Lives(b, o) /\ b.obj[o].name = n
      /\ \A p \in Objs : Lives(b, p) /\ b.obj[p].name = n => p = o
  <2>1. o \in Objs
    BY <1>1 DEF McType
  <2>2. Lives(b, o) /\ b.obj[o].name = n
    BY <1>1, <2>1 DEF Objects
  <2> HIDE DEF o
  <2> QED  BY <1>1, <2>1, <2>2 DEF Objects, Lives, Apiece
<1> HIDE DEF o, r
<1>4. /\ r \in McType
      /\ r.s = x.s /\ r.hash = x.hash /\ r.lock = x.lock /\ r.onBus = x.onBus
      /\ r.todo = x.todo /\ r.gone = x.gone /\ r.known = x.known /\ r.failed = x.failed
      /\ \A p \in Objs \ {o} : r.obj[p] = x.obj[p]
      /\ r.obj[o].st = x.obj[o].st /\ r.obj[o].name = x.obj[o].name
      /\ r.obj[o].for = x.obj[o].for /\ r.obj[o].loaded = x.obj[o].loaded
      /\ r.obj[o].reg = x.obj[o].reg /\ r.obj[o].removed = x.obj[o].removed
      /\ r.obj[o].reply = x.obj[o].reply /\ r.obj[o].valid = x.obj[o].valid
      /\ r.obj[o].enabled = (v = 2)
  <2>1. "Enabled" \in {"Enabled", "param"} /\ x.obj[o].name \in Names
        /\ v = x.s.cache[x.obj[o].name].val["Enabled"]
    BY <1>1, <1>3
  <2> HIDE DEF v
  <2>2. LET y == AlteredByPlugin(x, o, "Enabled")
            w == x.s.cache[x.obj[o].name].val["Enabled"] IN
       /\ y \in McType
       /\ y.s = x.s /\ y.hash = x.hash /\ y.lock = x.lock /\ y.onBus = x.onBus
       /\ y.todo = x.todo /\ y.gone = x.gone /\ y.known = x.known /\ y.failed = x.failed
       /\ \A p \in Objs \ {o} : y.obj[p] = x.obj[p]
       /\ y.obj[o].st = x.obj[o].st /\ y.obj[o].name = x.obj[o].name
       /\ y.obj[o].for = x.obj[o].for /\ y.obj[o].loaded = x.obj[o].loaded
       /\ y.obj[o].reg = x.obj[o].reg /\ y.obj[o].removed = x.obj[o].removed
       /\ y.obj[o].reply = x.obj[o].reply /\ y.obj[o].valid = x.obj[o].valid
       /\ y.obj[o].enabled = IF "Enabled" = "Enabled" /\ w # None THEN w = 2
                             ELSE x.obj[o].enabled
    BY <1>1, <1>3, <2>1, AlteredIs
  <2> QED  BY <1>1, <1>3, <2>1, <2>2 DEF r
<1>5. Pend(r) = Pend(b)
  BY <1>2, <1>4 DEF Pend
<1>6. \A p \in Objs :
     /\ r.obj[p].st = b.obj[p].st /\ r.obj[p].name = b.obj[p].name
     /\ r.obj[p].for = b.obj[p].for /\ r.obj[p].loaded = b.obj[p].loaded
     /\ r.obj[p].reg = b.obj[p].reg /\ r.obj[p].removed = b.obj[p].removed
     /\ r.obj[p].reply => b.obj[p].reply \/ b.obj[p].loaded
     /\ r.obj[p].timer => b.obj[p].timer \/ Alive(b, p)
  BY <1>1, <1>3, <1>4 DEF Lives
<1>7. Shape(b, r)
  <2>1. \A q \in Names : Managed(r, q) <=> Managed(b, q)
    <3>1. \A q \in Names : Managed(x, q) <=> Managed(b, q)
      BY PushedIs
    <3> QED  BY <1>4, <3>1 DEF Managed
  <2> QED  BY <1>1, <1>2, <1>4, <1>5, <1>6, <2>1 DEF Shape
<1>8. \A p \in Objs : Lives(r, p) /\ r.obj[p].name = n =>
        r.obj[p].enabled = (r.s.cache[n].val["Enabled"] = 2)
  <2>1. \A p \in Objs : Lives(r, p) => Lives(b, p)
    BY <1>6 DEF Lives, Alive
  <2> QED  BY <1>3, <1>4, <1>6, <2>1
<1> HIDE DEF v
<1>9. \A p \in Objs : /\ r.obj[p].valid = b.obj[p].valid
                      /\ b.obj[p].name # n => r.obj[p].enabled = b.obj[p].enabled
                      /\ Alt(p, "Enabled") \in Pend(b) => Alt(p, "Enabled") \in Pend(r)
  BY <1>1, <1>3, <1>4, <1>5
<1>10. Handled(r, f)
  BY <1>1, <1>4, <1>7, <1>8, <1>9, ToldKeeps
<1> QED  BY <1>10 DEF r, o

(* altered_one_cb for Enabled.                                              *)
LEMMA EnabledTold ==
  ASSUME NEW b, NEW x, NEW n \in Names, NEW f, Pushed(b, x, n, f)
  PROVE  Handled(AlteredOne(x, n, "Enabled"), f)
<1> DEFINE o == x.hash[n]
           v == x.s.cache[n].val["Enabled"]
           r == AlteredOne(x, n, "Enabled")
           known == x.known \cup {<<n, "missed">>}
           todo == <<Alt(o, "Enabled")>> \o x.todo
<1>1. /\ b \in McType /\ x \in McType /\ Objects(b, mgr) /\ (\A p \in Objs : Current(b, mgr, p))
      /\ x.obj = b.obj /\ x.hash = b.hash /\ x.lock = b.lock /\ x.onBus = b.onBus
      /\ x.todo = b.todo /\ b.known \subseteq x.known
      /\ Sound(x.s, x.known, x.gone, f) /\ Synced(x.s, x.failed) /\ v # None
      /\ \A q \in Names \ {n} : x.s.cache[q] = b.s.cache[q]
      /\ x.s.cache[n].val["param"] = b.s.cache[n].val["param"] \/ Knows(x.known, n, {"altered"})
  BY DEF Pushed
<1>2. Shape(b, x) /\ Pend(x) = Pend(b) /\ \A p \in Objs : Lives(x, p) <=> Lives(b, p)
  BY PushedIs
<1>3. CASE o = None
  <2>1. known \subseteq Names \X Why /\ x.known \subseteq known /\ Knows(known, n, {"missed"})
    BY <1>1 DEF McType, Why, Knows
  <2>2. \A y \in Names : <<y, "ghost">> \in known => <<y, "ghost">> \in x.known
    OBVIOUS
  <2>3. r = [x EXCEPT !.known = known]
    BY <1>1, <1>3 DEF AlteredOne, Missed, McType
  <2> HIDE DEF known, r, v
  <2>4. /\ r \in McType /\ r.s = x.s /\ r.obj = x.obj /\ r.hash = x.hash /\ r.lock = x.lock
        /\ r.onBus = x.onBus /\ r.todo = x.todo /\ r.gone = x.gone /\ r.known = known
        /\ r.failed = x.failed
    BY <1>1, <2>1, <2>3 DEF McType
  <2>5. Sound(r.s, r.known, r.gone, f)
    BY <1>1, <2>1, <2>2, <2>4, SoundGrows
  <2>6. Shape(b, r) /\ Pend(r) = Pend(b)
    <3>1. Pend(r) = Pend(b)
      BY <1>2, <2>4 DEF Pend
    <3> QED  BY <1>2, <2>4, <3>1 DEF Shape, Managed
  <2>7. r.s.cache[n].val["param"] = b.s.cache[n].val["param"] \/ Knows(r.known, n, {"altered"})
    BY <1>1, <2>1, <2>4 DEF Knows
  <2>8. Handled(r, f)
    BY <1>1, <2>1, <2>4, <2>5, <2>6, <2>7, ToldKeeps
  <2> QED  BY <2>8 DEF r
<1>4. ASSUME o # None
      PROVE  /\ o \in Objs /\ Lives(b, o) /\ Alive(b, o) /\ b.obj[o].name = n
             /\ \A p \in Objs : Lives(b, p) /\ b.obj[p].name = n => p = o
  <2>1. o \in Objs
    BY <1>1, <1>4 DEF McType
  <2>2. Lives(b, o) /\ b.obj[o].name = n
    BY <1>1, <1>4, <2>1 DEF Objects
  <2> HIDE DEF o
  <2> QED  BY <1>1, <2>1, <2>2 DEF Objects, Lives, Apiece
<1>5. CASE o # None /\ mgr = "unready"
  <2>1. r = [x EXCEPT !.todo = todo]
    BY <1>1, <1>5 DEF AlteredOne, Alt, McType
  <2>2. /\ todo \in Seq(Callback) /\ Queue(todo)
        /\ Elems(todo) = {Alt(o, "Enabled")} \cup Elems(x.todo)
    <3> DEFINE y == <<Alt(o, "Enabled")>>
    <3>1. Alt(o, "Enabled") \in Callback /\ Alt(o, "Enabled").cb = "altered"
      BY <1>4, <1>5, Callbacks
    <3>2. y \in Seq(Callback) /\ DOMAIN y = {1} /\ y[1] = Alt(o, "Enabled")
      BY <3>1
    <3> HIDE DEF y
    <3>3. Queue(y) /\ Elems(y) = {Alt(o, "Enabled")}
      BY <3>1, <3>2 DEF Queue, Elems
    <3>4. x.todo \in Seq(Callback) /\ Queue(x.todo)
      BY <1>1 DEF McType, Objects
    <3>5. y \o x.todo \in Seq(Callback) /\ Queue(y \o x.todo)
          /\ Elems(y \o x.todo) = Elems(y) \cup Elems(x.todo)
      BY <3>1, <3>2, <3>3, <3>4, QueuePush
    <3> QED  BY <3>3, <3>5 DEF y
  <2> HIDE DEF todo, r, v
  <2>3. /\ r \in McType /\ r.s = x.s /\ r.obj = x.obj /\ r.hash = x.hash /\ r.lock = x.lock
        /\ r.onBus = x.onBus /\ r.todo = todo /\ r.gone = x.gone /\ r.known = x.known
        /\ r.failed = x.failed
    BY <1>1, <2>1, <2>2 DEF McType
  <2>4. Pend(r) = Pend(b) \cup {Alt(o, "Enabled")}
    BY <1>2, <2>2, <2>3, PendIs
  <2>5. Shape(b, r)
    <3>1. \A y \in Pend(r) : y \in Pend(b) \/ (y.cb = "altered" /\ Alive(b, y.obj))
      BY <1>4, <1>5, <2>4, Callbacks
    <3> QED  BY <1>2, <2>2, <2>3, <2>4, <3>1 DEF Shape, Managed
  <2>6. \A p \in Objs : Lives(r, p) /\ r.obj[p].name = n =>
          Alt(p, "Enabled") \in Pend(r) /\ r.s.cache[n].val["Enabled"] # None
    BY <1>1, <1>4, <1>5, <2>3, <2>4 DEF Lives, Alive, v
  <2>7. Handled(r, f)
    <3>1. \A p \in Objs : /\ r.obj[p].valid = b.obj[p].valid
                          /\ r.obj[p].enabled = b.obj[p].enabled
                          /\ Alt(p, "Enabled") \in Pend(b) => Alt(p, "Enabled") \in Pend(r)
      BY <1>1, <2>3, <2>4
    <3> QED  BY <1>1, <2>3, <2>5, <2>6, <3>1, ToldKeeps
  <2> QED  BY <2>7 DEF r
<1>6. CASE o # None /\ mgr # "unready"
  <2>1. r = AlteredByPlugin(x, o, "Enabled")
    BY <1>6 DEF AlteredOne
  <2>2. Handled(AlteredByPlugin(x, x.hash[n], "Enabled"), f)
    BY <1>6, AlteredKeeps
  <2> QED  BY <2>1, <2>2 DEF r, o
<1> QED  BY <1>3, <1>5, <1>6

(* A signal is taken that changes nothing.                                  *)
LEMMA RestKeeps ==
  ASSUME NEW m, NEW e \in Seq(Signal), e # <<>>, Handled(m, e),
         Head(e) \notin {"updated", "deleted"} \/ m.s.sso.name = None
  PROVE  Handled(m, Tail(e))
  BY SoundRest DEF Handled, Awake

(* _sso_created keeps the invariant.                                        *)
LEMMA CreatedTaken ==
  ASSUME Inv, up, events # <<>>, Fresh(mc) # {},
         Head(events) \notin {"updated", "deleted"} \/ Refreshed(mc).s.sso.name = None,
         LET s == Refreshed(mc).s IN
           s.sso.name = None /\ s.ag.state = "present" => s.ag.uid = None
  PROVE  Handled(SsoCreated(Refreshed(mc)), Tail(events))
<1> DEFINE m == Refreshed(mc)
           f == Tail(events)
<1>1. Handled(m, events) /\ m \in McType /\ m.obj = mc.obj /\ events \in Seq(Signal)
  BY RefreshedIs, Now
<1>2. Handled(m, f)
  <2> HIDE DEF f
  <2>1. Head(events) \notin {"updated", "deleted"} \/ m.s.sso.name = None
    OBVIOUS
  <2> HIDE DEF m
  <2> QED  BY <1>1, <2>1, RestKeeps DEF f
<1>3. ~Has(f, "created")
  <2>1. Link(m.s, m.known, events)
    BY <1>1 DEF Handled, Awake, Sound, Common
  <2> HIDE DEF m
  <2> QED  BY <1>1, <2>1, LinkRest
<1>4. Fresh(m) # {}
  BY <1>1 DEF Fresh
<1>5. m.s.sso.name = None /\ m.s.ag.state = "present" => m.s.ag.uid = None
  OBVIOUS
<1> HIDE DEF m, f
<1>6. LET r == SsoCreated(m) IN r \in McType /\ Awake(r, mgr, f) /\ Synced(r.s, r.failed)
  BY <1>2, <1>3, <1>4, <1>5, SsoCreatedKeeps DEF Handled
<1> QED  BY <1>6 DEF Handled, m, f

(* The account m.s.sso.name has been read: what differs is in told.         *)
Told(m) ==
  LET view == m.s.sso.view
      c == m.s.cache[m.s.sso.name]
  IN  {k \in Settings : view[k] # None /\ view[k] # c.val[k]}
      \cup {k \in Settings \cap ListKeys(c) : view[k] = None}
ReadEntry(m) ==
  LET view == m.s.sso.view
      c == m.s.cache[m.s.sso.name]
  IN  [c EXCEPT !.val = [k \in Keys |-> IF k \in Told(m) THEN view[k] ELSE c.val[k]],
                !.escaped = IF "param" \in Told(m) THEN view["param"] # None ELSE @]
ReadKnown(m) ==
  LET n == m.s.sso.name
  IN  m.known \cup (IF "param" \in Told(m) THEN {<<n, "altered">>} ELSE {})
              \cup (IF m.s.sso.view["param"] = None /\ m.s.cache[n].escaped
                    THEN {<<n, "unset">>} ELSE {})
ReadBack(m) ==
  [m EXCEPT !.s.cache[m.s.sso.name] = ReadEntry(m), !.known = ReadKnown(m)]

(* What _sso_updated reads back into the cache, and what it does not        *)
(* notice.                                                                  *)
LEMMA ReadIs ==
  ASSUME Inv, up, Owns(Refreshed(mc).s, Refreshed(mc).s.sso.name),
         Refreshed(mc).s.sso.name # None
  PROVE  LET m == Refreshed(mc)
             n == m.s.sso.name
             c == ReadEntry(m)
             L == ReadKnown(m) IN
         /\ n \in Names /\ c \in EntryType /\ c.in
         /\ c.val["manager"] = m.s.cache[n].val["manager"] /\ c.val["manager"] = 1
         /\ c.val["Enabled"] # None
         /\ \A k \in Settings : k \notin Told(m) => c.val[k] = m.s.cache[n].val[k]
         /\ \/ Knows(L, n, {"kept", "unset", "unwritten"})
            \/ \A k \in Settings : c.val[k] = m.s.sso.view[k]
         /\ m.known \subseteq L /\ L \subseteq Names \X Why
         /\ \A p \in Names : <<p, "ghost">> \in L => <<p, "ghost">> \in m.known
         /\ "param" \in Told(m) => Knows(L, n, {"altered"})
<1> DEFINE m == Refreshed(mc)
           n == m.s.sso.name
           c == ReadEntry(m)
           L == ReadKnown(m)
           view == m.s.sso.view
           old == m.s.cache[n]
<1>1. /\ Handled(m, events) /\ m \in McType /\ m.s \in StoreType
  BY RefreshedIs DEF McType
<1>2. /\ n \in Names /\ old \in EntryType /\ view \in [Settings -> 0..2]
      /\ m.known \subseteq Names \X Why
  BY <1>1, StoreTypes DEF McType, SsoType
<1>3. /\ old.val["manager"] = 1 /\ old.val["Enabled"] # None /\ view["Enabled"] # None
      /\ ~old.in => old = NoEntry
  <2>1. Entry(m.s, m.known, m.gone, events, n)
    BY <1>1, <1>2 DEF Handled, Awake, Sound
  <2> HIDE DEF m
  <2> QED  BY <2>1 DEF Entry, InLibaccounts, Owns
<1>4. old.in
  BY <1>3, Constants, TheKeys DEF NoEntry
<1> HIDE DEF m
<1>5. Told(m) = {k \in Settings : view[k] # None /\ view[k] # old.val[k]}
                \cup {k \in Settings \cap ListKeys(old) : view[k] = None}
  BY DEF Told
<1> DEFINE val == [k \in Keys |-> IF k \in Told(m) THEN view[k] ELSE old.val[k]]
           escaped == IF "param" \in Told(m) THEN view["param"] # None ELSE old.escaped
<1>6. c = [old EXCEPT !.val = val, !.escaped = escaped]
  BY DEF ReadEntry
<1>7. val \in Settled /\ escaped \in BOOLEAN
  <2>1. \A k \in Told(m) : k \in Settings
    BY <1>5
  <2>2. \A k \in Keys : old.val[k] \in 0..2
    BY <1>2 DEF EntryType, Settled
  <2>3. \A k \in Settings : view[k] \in 0..2
    BY <1>2
  <2>4. old.escaped \in BOOLEAN
    BY <1>2 DEF EntryType
  <2> HIDE DEF view, old
  <2> QED  BY <2>1, <2>2, <2>3, <2>4 DEF Settled
<1>8. /\ val["manager"] = old.val["manager"]
      /\ \A k \in Settings : val[k] = IF k \in Told(m) THEN view[k] ELSE old.val[k]
  <2>1. "manager" \notin Told(m)
    BY <1>5, TheKeys
  <2> HIDE DEF view, old
  <2> QED  BY <2>1, TheKeys
<1> HIDE DEF val, escaped, c
<1>9. c \in EntryType /\ c.in /\ c.val = val
  BY <1>2, <1>4, <1>6, <1>7 DEF EntryType
<1>10. val["Enabled"] # None
  BY <1>3, <1>8, TheKeys
<1>11. \/ Knows(L, n, {"unset"})
       \/ \A k \in Settings : val[k] = view[k]
  <2>1. CASE view["param"] = None /\ old.escaped
    <3>1. <<n, "unset">> \in L
      BY <2>1 DEF ReadKnown
    <3> HIDE DEF L
    <3> QED  BY <3>1 DEF Knows
  <2>2. CASE ~(view["param"] = None /\ old.escaped)
    <3>1. ASSUME NEW k \in Settings, k \notin Told(m)  PROVE old.val[k] = view[k]
      <4>1. CASE view[k] # None
        BY <1>5, <3>1, <4>1
      <4>2. CASE view[k] = None
        <5>1. k \notin ListKeys(old)
          BY <1>5, <3>1, <4>2
        <5>2. k \in Keys /\ (k = "param" => ~old.escaped)
          BY <2>2, <4>2, TheKeys
        <5> HIDE DEF old, view
        <5> QED  BY <4>2, <5>1, <5>2 DEF ListKeys
      <4> QED  BY <4>1, <4>2
    <3> HIDE DEF old, view
    <3> QED  BY <1>8, <3>1
  <2> QED  BY <2>1, <2>2
<1>12. Knows(L, n, {"unset"}) => Knows(L, n, {"kept", "unset", "unwritten"})
  BY DEF Knows
<1>13. /\ m.known \subseteq L /\ L \subseteq Names \X Why
       /\ \A p \in Names : <<p, "ghost">> \in L => <<p, "ghost">> \in m.known
  <2>1. <<n, "altered">> \in Names \X Why /\ <<n, "unset">> \in Names \X Why
    BY <1>2 DEF Why
  <2>2. L \subseteq m.known \cup {<<n, "altered">>, <<n, "unset">>} /\ m.known \subseteq L
    BY DEF ReadKnown
  <2> HIDE DEF L
  <2> QED  BY <1>2, <2>1, <2>2
<1>14. "param" \in Told(m) => Knows(L, n, {"altered"})
  BY DEF ReadKnown, Knows
<1> HIDE DEF L, n, old, view
<1> QED  BY <1>2, <1>3, <1>8, <1>9, <1>10, <1>11, <1>12, <1>13, <1>14 DEF n, L, c, m, old, view

TellOne(x, n, key, told) == IF key \in told THEN AlteredOne(x, n, key) ELSE x

(* _sso_updated reads the entry and tells the object of each key that       *)
(* changed.                                                                 *)
LEMMA SsoUpdatedIs ==
  ASSUME NEW m
  PROVE  LET n == m.s.sso.name IN
         SsoUpdated(m) =
           IF ~m.s.sso.watch THEN m
           ELSE IF n = None THEN SsoCreated(m)
           ELSE TellOne(TellOne(ReadBack(m), n, "Enabled", Told(m)), n, "param", Told(m))
  BY DEF SsoUpdated, ReadBack, ReadEntry, ReadKnown, Told, TellOne

(* What it reads is only pushed, so that the objects are still to be told.  *)
LEMMA ReadBackPushed ==
  ASSUME Inv, up, events # <<>>, Head(events) = "updated", Refreshed(mc).s.sso.name # None
  PROVE  LET m == Refreshed(mc) IN Pushed(m, ReadBack(m), m.s.sso.name, Tail(events))
<1> DEFINE m == Refreshed(mc)
           n == m.s.sso.name
           c == ReadEntry(m)
           L == ReadKnown(m)
           f == Tail(events)
           s == m.s
           t == [s EXCEPT !.cache[n] = c]
           x == ReadBack(m)
<1>1. /\ Handled(m, events) /\ m \in McType /\ s \in StoreType /\ events \in Seq(Signal)
      /\ Objects(m, mgr) /\ (\A p \in Objs : Current(m, mgr, p))
      /\ Sound(s, m.known, m.gone, events) /\ Synced(s, m.failed)
      /\ \A k \in Settings \ s.sso.dirty : s.sso.view[k] = s.ag.val[k]
  BY RefreshedIs, Now DEF Handled, Awake, McType
<1>2. /\ n \in Names /\ c \in EntryType /\ c.in
      /\ c.val["manager"] = s.cache[n].val["manager"] /\ c.val["manager"] = 1
      /\ c.val["Enabled"] # None
      /\ \A k \in Settings : k \notin Told(m) => c.val[k] = s.cache[n].val[k]
      /\ \/ Knows(L, n, {"kept", "unset", "unwritten"})
         \/ \A k \in Settings : c.val[k] = s.sso.view[k]
      /\ m.known \subseteq L /\ L \subseteq Names \X Why
      /\ \A p \in Names : <<p, "ghost">> \in L => <<p, "ghost">> \in m.known
      /\ "param" \in Told(m) => Knows(L, n, {"altered"})
  <2>1. Owns(m.s, m.s.sso.name)
    BY DEF Owns
  <2> QED  BY <2>1, ReadIs
<1>3. x = [m EXCEPT !.s = t, !.known = L]
  BY DEF ReadBack
<1> HIDE DEF c, L, x, m
<1>4. /\ Common(s, m.known, events) /\ \A p \in Names : Entry(s, m.known, m.gone, events, p)
  BY <1>1 DEF Sound
<1>5. Common(s, m.known, f)
  <2>1. Link(s, m.known, f)
    <3>1. Link(s, m.known, events)
      BY <1>4 DEF Common
    <3> HIDE DEF s, f
    <3>2. Head(events) # "deleted"
      OBVIOUS
    <3> QED  BY <1>1, <3>1, <3>2, LinkRest DEF f
  <2> QED  BY <1>4, <2>1 DEF Common
<1>6. Owns(s, n)
  BY DEF Owns
<1>7. f = Tail(events)
  OBVIOUS
<1> HIDE DEF n, f, s
<1>8. LET y == [s EXCEPT !.cache[n] = c] IN y \in StoreType /\ Sound(y, L, m.gone, f)
  <2>1. /\ s \in StoreType /\ n \in Names /\ c \in EntryType /\ c.in /\ m.known \subseteq L
        /\ c.val["manager"] = 1 /\ c.val["Enabled"] # None
        /\ events \in Seq(Signal) /\ events # <<>> /\ f = Tail(events)
    BY <1>1, <1>2, <1>7
  <2>2. \A p \in Names : <<p, "ghost">> \in L => <<p, "ghost">> \in m.known
    BY <1>2
  <2>3. ~Has(f, "updated") /\ s.ag.state = "present" =>
          /\ \A k \in Settings \ s.sso.dirty : s.sso.view[k] = s.ag.val[k]
          /\ \/ Knows(L, n, {"kept", "unset", "unwritten"})
             \/ \A k \in Settings : c.val[k] = s.sso.view[k]
    BY <1>1, <1>2
  <2>4. \A p \in Names : Entry(s, m.known, m.gone, events, p)
    BY <1>4
  <2> DEFINE e == events
             K == m.known
             G == m.gone
  <2>5. /\ Common(s, K, f) /\ \A p \in Names : Entry(s, K, G, e, p)
        /\ K \subseteq L /\ \A p \in Names : <<p, "ghost">> \in L => <<p, "ghost">> \in K
        /\ e \in Seq(Signal) /\ e # <<>> /\ f = Tail(e)
    BY <1>5, <2>1, <2>2, <2>4
  <2> HIDE DEF e, K, G
  <2>6. LET y == [s EXCEPT !.cache[n] = c] IN y \in StoreType /\ Sound(y, L, G, f)
    BY <1>6, <2>1, <2>3, <2>5, PushSound
  <2> QED  BY <2>6 DEF G
<1>9. /\ t.cache[n] = c /\ \A p \in Names \ {n} : t.cache[p] = s.cache[p]
      /\ t.ag = s.ag /\ t.sso = s.sso /\ t.save = s.save
  <2>1. s \in StoreType /\ n \in Names /\ c \in EntryType
    BY <1>1, <1>2
  <2> HIDE DEF t
  <2>2. /\ t.cache = [s.cache EXCEPT ![n] = c]
        /\ t.ag = s.ag /\ t.sso = s.sso /\ t.save = s.save
    BY <2>1, CacheIs DEF t
  <2>3. s.cache \in [Names -> EntryType]
    BY <2>1, StoreTypes
  <2> QED  BY <2>1, <2>2, <2>3
<1> HIDE DEF t
<1>10. t \in StoreType /\ Sound(t, L, m.gone, f)
  BY <1>8 DEF t
<1>11. /\ x \in McType /\ x.s = t /\ x.obj = m.obj /\ x.hash = m.hash /\ x.lock = m.lock
       /\ x.onBus = m.onBus /\ x.todo = m.todo /\ x.gone = m.gone /\ x.known = L
       /\ x.failed = m.failed
  BY <1>1, <1>2, <1>3, <1>10 DEF McType
<1>12. c.val["param"] = s.cache[n].val["param"] \/ Knows(L, n, {"altered"})
  BY <1>2, TheKeys
<1>13. Synced(x.s, x.failed)
  BY <1>1, <1>9, <1>11 DEF Synced
<1>14. Pushed(m, x, n, f)
  <2>1. /\ \A q \in Names \ {n} : x.s.cache[q] = m.s.cache[q]
        /\ x.s.ag.state = m.s.ag.state
        /\ x.s.cache[n].val["manager"] = m.s.cache[n].val["manager"]
        /\ x.s.cache[n].val["param"] = m.s.cache[n].val["param"] \/ Knows(x.known, n, {"altered"})
        /\ x.s.cache[n].val["Enabled"] # None
    BY <1>2, <1>9, <1>11, <1>12 DEF s
  <2> QED  BY <1>1, <1>2, <1>10, <1>11, <1>13, <2>1 DEF Pushed
<1> QED  BY <1>14 DEF n, f, x, m, s

(* _sso_updated                                                             *)
LEMMA UpdatedTaken ==
  ASSUME Inv, up, events # <<>>, Fresh(mc) # {}, Head(events) = "updated"
  PROVE  Handled(SsoUpdated(Refreshed(mc)), Tail(events))
<1> DEFINE m == Refreshed(mc)
           n == m.s.sso.name
           x == ReadBack(m)
           f == Tail(events)
           y == TellOne(x, n, "Enabled", Told(m))
           z == TellOne(y, n, "param", Told(m))
<1>1. /\ Handled(m, events) /\ m \in McType /\ events \in Seq(Signal)
      /\ Link(m.s, m.known, events)
  BY RefreshedIs, Now DEF Handled, Awake, Sound, Common
<1>2. SsoUpdated(m) = IF ~m.s.sso.watch THEN m ELSE IF n = None THEN SsoCreated(m) ELSE z
  BY SsoUpdatedIs
<1>3. CASE ~m.s.sso.watch
  <2>1. m.s.sso.name = None
    BY <1>1, <1>3 DEF Link
  <2>2. Handled(m, Tail(events))
    <3> HIDE DEF m
    <3> QED  BY <1>1, <2>1, RestKeeps
  <2> HIDE DEF m, z
  <2> QED  BY <1>2, <1>3, <2>2 DEF m
<1>4. CASE m.s.sso.watch /\ n = None
  <2>1. m.s.sso.name = None /\ m.s.ag.state = "present" => m.s.ag.uid = None
    BY <1>1, <1>4 DEF Link
  <2>2. Handled(SsoCreated(Refreshed(mc)), Tail(events))
    BY <1>4, <2>1, CreatedTaken
  <2> HIDE DEF z
  <2> QED  BY <1>2, <1>4, <2>2
<1>5. CASE m.s.sso.watch /\ n # None
  <2>1. Pushed(m, x, n, f)
    BY <1>5, ReadBackPushed
  <2>2. Owns(m.s, n) /\ n \in Names
    <3>1. Owns(Refreshed(mc).s, Refreshed(mc).s.sso.name)
      BY DEF Owns
    <3> QED  BY <1>5, <3>1, ReadIs
  <2>3. "Enabled" \notin Told(m) => x.s.cache[n].val["Enabled"] = m.s.cache[n].val["Enabled"]
    <3>1. \A k \in Settings : k \notin Told(m) => ReadEntry(m).val[k] = m.s.cache[n].val[k]
      BY <1>5, <2>2, ReadIs
    <3>2. x.s.cache[n] = ReadEntry(m)
      <4>1. m.s \in StoreType /\ m.s.cache \in [Names -> EntryType]
        BY <1>1, StoreTypes DEF McType
      <4> HIDE DEF m
      <4>2. x.s = [m.s EXCEPT !.cache[n] = ReadEntry(m)]
        BY <1>1 DEF ReadBack, McType
      <4> HIDE DEF x, n
      <4> QED  BY <2>2, <4>1, <4>2, StoreTypes
    <3> QED  BY <3>1, <3>2, TheKeys
  <2>4. Handled(y, f)
    <3> HIDE DEF x, n, f, m
    <3>1. CASE "Enabled" \in Told(m)
      BY <2>1, <2>2, <3>1, EnabledTold DEF TellOne
    <3>2. CASE "Enabled" \notin Told(m)
      BY <2>1, <2>2, <2>3, <3>2, UnalteredKeeps DEF TellOne
    <3> QED  BY <3>1, <3>2
  <2>5. Handled(z, f)
    <3> HIDE DEF y, n, f, m
    <3> QED  BY <2>2, <2>4, ParamTold DEF TellOne
  <2> HIDE DEF z, f
  <2> QED  BY <1>2, <1>5, <2>5 DEF f
<1> QED  BY <1>3, <1>4, <1>5

(* PushSound, for a push that is given by its name.                         *)
Pushes(s, K, L, G, e, f, n, c) ==
  /\ s \in StoreType /\ n \in Names /\ Owns(s, n) /\ c \in EntryType /\ c.in
  /\ K \subseteq L /\ Common(s, K, f)
  /\ \A p \in Names : Entry(s, K, G, e, p)
  /\ \A p \in Names : <<p, "ghost">> \in L => <<p, "ghost">> \in K
  /\ e = f \/ (e \in Seq(Signal) /\ e # <<>> /\ f = Tail(e))
  /\ c.val["manager"] = 1 /\ c.val["Enabled"] # None
  /\ ~Has(f, "updated") /\ s.ag.state = "present" =>
       /\ \A k \in Settings \ s.sso.dirty : s.sso.view[k] = s.ag.val[k]
       /\ \/ Knows(L, n, {"kept", "unset", "unwritten"})
          \/ \A k \in Settings : c.val[k] = s.sso.view[k]

(* An entry that is pushed into the cache keeps the stores sound if its own *)
(* part is.                                                                 *)
LEMMA PushesSound ==
  ASSUME NEW s, NEW K, NEW L, NEW G, NEW e, NEW f, NEW n, NEW c, Pushes(s, K, L, G, e, f, n, c)
  PROVE  LET t == [s EXCEPT !.cache[n] = c] IN t \in StoreType /\ Sound(t, L, G, f)
<1>1. s \in StoreType /\ n \in Names /\ c \in EntryType
  BY DEF Pushes
<1> QED  BY <1>1, PushSound DEF Pushes

(* What _sso_toggled stores, and then tells.                                *)
Toggled(m) ==
  LET n == m.s.sso.name
      w == IF m.s.sso.view["Enabled"] = 2 THEN 2 ELSE 1
  IN  [m EXCEPT !.s.cache[n] = SetValue(m.s.cache[n], "Enabled", w)]

(* A value that is set in an entry.                                         *)
LEMMA SetValueIs ==
  ASSUME NEW c \in EntryType, NEW w \in 0..2
  PROVE  LET d == SetValue(c, "Enabled", w) IN
         /\ d \in EntryType /\ d.in /\ d.val["Enabled"] = w
         /\ \A k \in Keys \ {"Enabled"} : d.val[k] = c.val[k]
<1> DEFINE val == [c.val EXCEPT !["Enabled"] = w]
           d == SetValue(c, "Enabled", w)
<1>1. c.val \in Settled /\ "Enabled" \in Keys
  BY TheKeys DEF EntryType
<1>2. val \in Settled /\ val["Enabled"] = w /\ \A k \in Keys \ {"Enabled"} : val[k] = c.val[k]
  BY <1>1 DEF Settled
<1>3. d = [c EXCEPT !.in = TRUE, !.val = val]
  BY DEF SetValue, EntryType
<1> HIDE DEF val, d
<1>4. d \in EntryType /\ d.in /\ d.val = val
  BY <1>2, <1>3 DEF EntryType
<1> QED  BY <1>2, <1>4 DEF d

(* So is the value of Enabled that _sso_toggled reads.                      *)
LEMMA ToggledPushed ==
  ASSUME Inv, up, events # <<>>, Head(events) = "toggled", Refreshed(mc).s.sso.name # None
  PROVE  LET m == Refreshed(mc)
             n == m.s.sso.name
             x == Toggled(m) IN
         /\ Pushed(m, x, n, Tail(events)) /\ n \in Names
         /\ m.s.sso.view["Enabled"] \in 1..2
         /\ x.s.cache[n].in /\ x.s.cache[n].val["Enabled"] = m.s.sso.view["Enabled"]
<1> DEFINE m == Refreshed(mc)
           s == m.s
           n == s.sso.name
           w == s.sso.view["Enabled"]
           c == SetValue(s.cache[n], "Enabled", w)
           f == Tail(events)
           t == [s EXCEPT !.cache[n] = c]
           x == Toggled(m)
<1>1. /\ Handled(m, events) /\ m \in McType /\ s \in StoreType /\ events \in Seq(Signal)
      /\ Objects(m, mgr) /\ (\A p \in Objs : Current(m, mgr, p))
      /\ Sound(s, m.known, m.gone, events) /\ Synced(s, m.failed)
      /\ \A k \in Settings \ s.sso.dirty : s.sso.view[k] = s.ag.val[k]
  BY RefreshedIs, Now DEF Handled, Awake, McType
<1>2. Owns(s, n)
  BY DEF Owns
<1>3. f = Tail(events) /\ x = [m EXCEPT !.s.cache[n] = SetValue(s.cache[n], "Enabled",
                                                           IF w = 2 THEN 2 ELSE 1)]
  BY DEF Toggled
<1>4. n # None
  OBVIOUS
<1> HIDE DEF m, x, f
<1>5. /\ n \in Names /\ s.cache[n] \in EntryType /\ s.sso.view \in [Settings -> 0..2]
  BY <1>1, <1>4, StoreTypes DEF SsoType
<1>6. /\ Common(s, m.known, events) /\ (\A p \in Names : Entry(s, m.known, m.gone, events, p))
      /\ InLibaccounts(s, m.known, events, n)
  BY <1>1, <1>2, <1>5 DEF Sound, Entry
<1>7. w \in 1..2 /\ w \in 0..2
  BY <1>5, <1>6, Constants, TheKeys DEF InLibaccounts
<1>8. /\ c \in EntryType /\ c.in /\ c.val["Enabled"] = w
      /\ \A k \in Keys \ {"Enabled"} : c.val[k] = s.cache[n].val[k]
  <2> DEFINE old == s.cache[n]
  <2>1. old \in EntryType /\ w \in 0..2
    BY <1>5, <1>7
  <2> HIDE DEF old, w
  <2>2. LET d == SetValue(old, "Enabled", w) IN
         /\ d \in EntryType /\ d.in /\ d.val["Enabled"] = w
         /\ \A k \in Keys \ {"Enabled"} : d.val[k] = old.val[k]
    BY <2>1, SetValueIs
  <2> QED  BY <2>2 DEF old
<1>9. /\ c.val["manager"] = 1 /\ c.val["Enabled"] # None
      /\ c.val["manager"] = s.cache[n].val["manager"] /\ c.val["param"] = s.cache[n].val["param"]
  BY <1>6, <1>7, <1>8, Constants, TheKeys DEF InLibaccounts
<1>10. x = [m EXCEPT !.s = t]
  <2>1. w = IF w = 2 THEN 2 ELSE 1
    BY <1>7
  <2> QED  BY <1>1, <1>3, <2>1 DEF McType
<1> HIDE DEF c, w
<1>11. Common(s, m.known, f)
  <2>1. Link(s, m.known, events)
    BY <1>6 DEF Common
  <2> HIDE DEF s
  <2>2. Head(events) # "deleted"
    OBVIOUS
  <2>3. Link(s, m.known, f)
    BY <1>1, <1>3, <2>1, <2>2, LinkRest
  <2> QED  BY <1>6, <2>3 DEF Common
<1>12. ~Has(f, "updated") /\ s.ag.state = "present" =>
         /\ \A k \in Settings \ s.sso.dirty : s.sso.view[k] = s.ag.val[k]
         /\ \/ Knows(m.known, n, {"kept", "unset", "unwritten"})
            \/ \A k \in Settings : c.val[k] = s.sso.view[k]
  <2> SUFFICES ASSUME ~Has(f, "updated"), s.ag.state = "present"
               PROVE  \/ Knows(m.known, n, {"kept", "unset", "unwritten"})
                      \/ \A k \in Settings : c.val[k] = s.sso.view[k]
    BY <1>1
  <2>1. ~Has(events, "updated")
    BY <1>1, <1>3, HasRest
  <2>2. Mirrors(s, m.known, n)
    BY <1>6, <2>1 DEF InLibaccounts
  <2>3. ASSUME \A k \in Settings : s.cache[n].val[k] = s.sso.view[k]
        PROVE  \A k \in Settings : c.val[k] = s.sso.view[k]
    BY <1>8, <2>3, TheKeys DEF w
  <2> QED  BY <2>2, <2>3 DEF Mirrors
<1> HIDE DEF n, s
<1>13. LET y == [s EXCEPT !.cache[n] = c] IN y \in StoreType /\ Sound(y, m.known, m.gone, f)
  <2> DEFINE K == m.known
  <2>1. Pushes(s, K, K, m.gone, events, f, n, c)
    BY <1>1, <1>2, <1>3, <1>5, <1>6, <1>8, <1>9, <1>11, <1>12 DEF Pushes
  <2> QED  BY <2>1, PushesSound
<1>14. /\ t.cache[n] = c /\ (\A p \in Names \ {n} : t.cache[p] = s.cache[p])
       /\ t.ag = s.ag /\ t.sso = s.sso /\ t.save = s.save
  <2>1. s \in StoreType /\ n \in Names /\ c \in EntryType
    BY <1>1, <1>5, <1>8
  <2> HIDE DEF t
  <2>2. /\ t.cache = [s.cache EXCEPT ![n] = c]
        /\ t.ag = s.ag /\ t.sso = s.sso /\ t.save = s.save
    BY <2>1, CacheIs DEF t
  <2>3. s.cache \in [Names -> EntryType]
    BY <2>1, StoreTypes
  <2> QED  BY <2>1, <2>2, <2>3
<1> HIDE DEF t
<1>15. t \in StoreType /\ Sound(t, m.known, m.gone, f)
  BY <1>13 DEF t
<1>16. /\ x \in McType /\ x.s = t /\ x.obj = m.obj /\ x.hash = m.hash /\ x.lock = m.lock
       /\ x.onBus = m.onBus /\ x.todo = m.todo /\ x.gone = m.gone /\ x.known = m.known
       /\ x.failed = m.failed
  BY <1>1, <1>10, <1>15 DEF McType
<1>17. Synced(x.s, x.failed)
  BY <1>1, <1>14, <1>16 DEF Synced
<1>18. Pushed(m, x, n, f)
  <2>1. /\ \A q \in Names \ {n} : x.s.cache[q] = m.s.cache[q]
        /\ x.s.ag.state = m.s.ag.state
        /\ x.s.cache[n].val["manager"] = m.s.cache[n].val["manager"]
        /\ x.s.cache[n].val["param"] = m.s.cache[n].val["param"]
        /\ x.s.cache[n].val["Enabled"] # None
    BY <1>9, <1>14, <1>16 DEF s
  <2> QED  BY <1>1, <1>15, <1>16, <1>17, <2>1 DEF Pushed
<1> QED  BY <1>5, <1>7, <1>8, <1>14, <1>16, <1>18 DEF n, f, x, m, s, w

(* _sso_toggled pushes it and tells the object, if there is one.            *)
LEMMA SsoToggledIs ==
  ASSUME NEW m
  PROVE  LET n == m.s.sso.name
             on == m.s.sso.view["Enabled"] = 2
             x == Toggled(m) IN
         SsoToggled(m) = IF n = None THEN m
                         ELSE IF m.hash[n] = None THEN Missed(x, n)
                         ELSE SetEnabled(x, m.hash[n], on, "cached")
  BY DEF SsoToggled, Toggled

(* The value is in the cache, so that the object is all that changes.       *)
LEMMA CachedAlready ==
  ASSUME NEW x \in McType, NEW o \in Objs, x.obj[o].name \in Names,
         x.s.cache[x.obj[o].name].in,
         x.s.cache[x.obj[o].name].val["Enabled"] \in 1..2
  PROVE  SetEnabled(x, o, x.s.cache[x.obj[o].name].val["Enabled"] = 2, "cached")
           = AlteredByPlugin(x, o, "Enabled")
<1> DEFINE n == x.obj[o].name
           v == x.s.cache[n].val["Enabled"]
           s == x.s
           e == [x EXCEPT !.obj[o].enabled = (v = 2), !.obj[o].timer = TRUE]
<1>1. AlteredByPlugin(x, o, "Enabled") = SetEnabled(x, o, v = 2, "stored")
  <2>1. v # None
    BY Constants
  <2> HIDE DEF v
  <2>2. x.s.cache[x.obj[o].name].val["Enabled"] = v
    BY DEF v
  <2> QED  BY <2>1, <2>2 DEF AlteredByPlugin
<1>2. SetAttribute(s, n, "Enabled", v) = s
  <2> DEFINE c == s.cache[n]
  <2>1. s \in StoreType /\ s.cache \in [Names -> EntryType] /\ c \in EntryType
    BY StoreTypes DEF McType
  <2>2. c = [c EXCEPT !.in = TRUE]
    <3>1. c.in
      OBVIOUS
    <3> HIDE DEF c
    <3> QED  BY <2>1, <3>1 DEF EntryType
  <2>3. SetAttribute(s, n, "Enabled", v) = [s EXCEPT !.cache[n].in = TRUE]
    BY DEF SetAttribute
  <2> DEFINE k == [s.cache EXCEPT ![n] = [c EXCEPT !.in = TRUE]]
  <2>4. k = s.cache
    BY <2>1, <2>2
  <2>5. [s EXCEPT !.cache[n].in = TRUE] = [s EXCEPT !.cache = k]
    OBVIOUS
  <2> HIDE DEF k, c, n
  <2>6. [s EXCEPT !.cache = s.cache] = s
    BY <2>1 DEF StoreType
  <2> QED  BY <2>3, <2>4, <2>5, <2>6
<1>3. v = IF v = 2 THEN 2 ELSE 1
  OBVIOUS
<1>4. e.s = s
  BY DEF McType
<1>5. [e EXCEPT !.s = SetAttribute(e.s, n, "Enabled", IF v = 2 THEN 2 ELSE 1)] = e
  <2>1. SetAttribute(e.s, n, "Enabled", IF v = 2 THEN 2 ELSE 1) = e.s
    BY <1>2, <1>3, <1>4
  <2>2. [e EXCEPT !.s = e.s] = e
    BY DEF McType
  <2> HIDE DEF e
  <2> QED  BY <2>1, <2>2
<1>6. SetEnabled(x, o, v = 2, "cached") = SetEnabled(x, o, v = 2, "stored")
  BY <1>5 DEF SetEnabled
<1> QED  BY <1>1, <1>6

(* _sso_toggled and toggled_cb                                              *)
LEMMA ToggledTaken ==
  ASSUME Inv, up, events # <<>>, Head(events) = "toggled"
  PROVE  Handled(SsoToggled(Refreshed(mc)), Tail(events))
<1> DEFINE m == Refreshed(mc)
           n == m.s.sso.name
           x == Toggled(m)
           f == Tail(events)
           r == SsoToggled(m)
<1>1. Handled(m, events) /\ events \in Seq(Signal)
  BY RefreshedIs, Now
<1>2. r = IF n = None THEN m
          ELSE IF m.hash[n] = None THEN Missed(x, n)
          ELSE SetEnabled(x, m.hash[n], m.s.sso.view["Enabled"] = 2, "cached")
  BY SsoToggledIs
<1>3. CASE n = None
  <2>1. r = m
    BY <1>2, <1>3
  <2>2. Handled(m, f)
    <3> HIDE DEF m
    <3> QED  BY <1>1, RestKeeps
  <2> QED  BY <2>1, <2>2
<1>4. CASE n # None
  <2>1. /\ Pushed(m, x, n, f) /\ n \in Names /\ m.s.sso.view["Enabled"] \in 1..2
        /\ x.s.cache[n].in /\ x.s.cache[n].val["Enabled"] = m.s.sso.view["Enabled"]
    BY <1>4, ToggledPushed
  <2> HIDE DEF m, n, x, f, r
  <2>2. x \in McType /\ x.hash = m.hash /\ x.obj = m.obj /\ Objects(m, mgr) /\ m \in McType
    BY <1>1, <2>1 DEF Pushed, Handled
  <2>3. CASE m.hash[n] = None
    <3>1. r = Missed(x, n) /\ Missed(x, n) = AlteredOne(x, n, "Enabled")
      BY <1>2, <1>4, <2>2, <2>3 DEF AlteredOne
    <3> QED  BY <2>1, <3>1, EnabledTold DEF r, f, m
  <2>4. CASE m.hash[n] # None
    <3> DEFINE o == x.hash[n]
    <3>1. o \in Objs /\ x.obj[o].name = n
      <4>1. m.hash[n] \in Objs
        BY <2>1, <2>2, <2>4 DEF McType
      <4> QED  BY <2>1, <2>2, <2>4, <4>1 DEF Objects
    <3>2. r = SetEnabled(x, o, x.s.cache[n].val["Enabled"] = 2, "cached")
      BY <1>2, <1>4, <2>1, <2>2, <2>4
    <3>3. x.hash[n] # None
      BY <2>2, <2>4
    <3>4. Handled(AlteredByPlugin(x, x.hash[n], "Enabled"), f)
      BY <2>1, <3>3, AlteredKeeps
    <3> HIDE DEF o
    <3>5. r = AlteredByPlugin(x, o, "Enabled")
      BY <2>1, <2>2, <3>1, <3>2, CachedAlready
    <3> QED  BY <3>4, <3>5 DEF o, r, f, m
  <2> QED  BY <2>3, <2>4
<1> QED  BY <1>3, <1>4

(* _sso_deleted and deleted_cb                                              *)
LEMMA DeletedTaken ==
  ASSUME Inv, up, Idle, events # <<>>, Head(events) = "deleted"
  PROVE  Handled(SsoDeleted(Refreshed(mc)), Tail(events))
<1> DEFINE m == Refreshed(mc)
           s == m.s
           n == s.sso.name
           o == m.hash[n]
           f == Tail(events)
           t == Forgot(s)
           r == SsoDeleted(m)
<1>1. /\ Handled(m, events) /\ m \in McType /\ s \in StoreType /\ events \in Seq(Signal)
      /\ Objects(m, mgr) /\ (\A p \in Objs : Current(m, mgr, p))
      /\ Sound(s, m.known, m.gone, events) /\ Synced(s, m.failed)
      /\ Link(s, m.known, events) /\ m.todo = mc.todo
  BY RefreshedIs, Now DEF Handled, Awake, McType, Sound, Common
<1>2. s.ag.state = "deleted" /\ f \in Seq(Signal) /\ f = Tail(events)
  <2> HIDE DEF s
  <2>1. s.ag.state = "deleted"
    BY <1>1, LinkRest
  <2> QED  BY <1>1, <2>1, FirstAndRest
<1>3. r = IF n = None THEN [m EXCEPT !.s.sso.watch = FALSE]
          ELSE IF o = None THEN [m EXCEPT !.s = t, !.known = m.known \cup {<<n, "ghost">>}]
          ELSE McdAccountDelete([m EXCEPT !.s = t, !.hash[n] = None], o)
  BY DEF SsoDeleted, Forgot
<1> HIDE DEF m, f, r, t
<1>4. CASE n = None
  <2> DEFINE u == [s EXCEPT !.sso.watch = FALSE]
  <2>1. r = [m EXCEPT !.s = u]
    BY <1>1, <1>3, <1>4 DEF McType
  <2>2. Sound(s, m.known, m.gone, f)
    <3> HIDE DEF s
    <3> QED  BY <1>1, <1>2, <1>4, SoundRest DEF n
  <2> HIDE DEF n, s
  <2>3. /\ u \in StoreType /\ u.cache = s.cache /\ u.keys = s.keys /\ u.save = s.save
        /\ u.disk = s.disk /\ u.ag = s.ag
        /\ u.sso.name = s.sso.name /\ u.sso.view = s.sso.view /\ u.sso.dirty = s.sso.dirty
        /\ u.sso.save = s.sso.save /\ u.sso.timer = s.sso.timer /\ ~u.sso.watch
    BY <1>1, StoreTypes DEF SsoType
  <2> HIDE DEF u
  <2>4. Sound(u, m.known, m.gone, f)
    <3>1. /\ Common(s, m.known, f) /\ \A p \in Names : Entry(s, m.known, m.gone, f, p)
      BY <2>2 DEF Sound
    <3>2. Link(u, m.known, f)
      BY <1>2, <1>4, <2>3, <3>1 DEF Common, Link, n
    <3>3. Common(u, m.known, f)
      BY <2>3, <3>1, <3>2 DEF Common
    <3>4. \A p \in Names : Entry(u, m.known, m.gone, f, p)
      BY <2>3, <3>1, EntryDependsOn
    <3> QED  BY <3>3, <3>4 DEF Sound
  <2>5. /\ r \in McType /\ r.s = u /\ r.obj = m.obj /\ r.hash = m.hash /\ r.lock = m.lock
        /\ r.onBus = m.onBus /\ r.todo = m.todo /\ r.gone = m.gone /\ r.known = m.known
        /\ r.failed = m.failed
    BY <1>1, <2>1, <2>3 DEF McType
  <2>6. Unmoved(m, r)
    BY <1>1, <2>3, <2>5 DEF Unmoved, Shape, Objects, Pend, Managed, s
  <2>7. Objects(r, mgr) /\ \A p \in Objs : Current(r, mgr, p)
    BY <1>1, <2>5, <2>6, UnmovedKeeps
  <2>8. Synced(r.s, r.failed)
    BY <1>1, <2>3, <2>5 DEF Synced
  <2> QED  BY <2>4, <2>5, <2>7, <2>8 DEF Handled, Awake, r, f, m
<1>5. ASSUME n # None
      PROVE  /\ t \in StoreType /\ n \in Names /\ ~Owns(t, n)
             /\ Common(t, m.known, f) /\ (\A p \in Names \ {n} : Entry(t, m.known, m.gone, f, p))
             /\ Sound(t, m.known \cup {<<n, "ghost">>}, m.gone, f)
             /\ t.cache = s.cache /\ t.ag = s.ag /\ t.save = s.save
             /\ t.sso.save = s.sso.save /\ t.sso.timer = s.sso.timer
  <2> HIDE DEF s
  <2> QED  BY <1>1, <1>2, <1>5, ForgotIs DEF t, n
<1>6. CASE n # None /\ o = None
  <2> DEFINE L == m.known \cup {<<n, "ghost">>}
  <2>1. r = [m EXCEPT !.s = t, !.known = L]
    BY <1>3, <1>6
  <2> HIDE DEF n, s
  <2>2. L \subseteq Names \X Why /\ m.known \subseteq L
    BY <1>1, <1>5, <1>6 DEF McType, Why
  <2>3. Sound(t, L, m.gone, f)
    BY <1>5, <1>6
  <2> HIDE DEF L
  <2>4. /\ r \in McType /\ r.s = t /\ r.obj = m.obj /\ r.hash = m.hash /\ r.lock = m.lock
        /\ r.onBus = m.onBus /\ r.todo = m.todo /\ r.gone = m.gone /\ r.known = L
        /\ r.failed = m.failed
    BY <1>1, <1>5, <1>6, <2>1, <2>2 DEF McType
  <2>5. Unmoved(m, r)
    BY <1>1, <1>5, <1>6, <2>2, <2>4 DEF Unmoved, Shape, Objects, Pend, Managed, s
  <2>6. Objects(r, mgr) /\ \A p \in Objs : Current(r, mgr, p)
    BY <1>1, <2>4, <2>5, UnmovedKeeps
  <2>7. Synced(r.s, r.failed)
    BY <1>1, <1>5, <1>6, <2>4 DEF Synced
  <2> QED  BY <2>3, <2>4, <2>6, <2>7 DEF Handled, Awake, r, f, m
<1>7. CASE n # None /\ o # None
  <2> DEFINE x == [m EXCEPT !.s = t, !.hash[n] = None]
  <2>1. r = McdAccountDelete(x, o)
    BY <1>3, <1>7
  <2> HIDE DEF n, s, o
  <2>2. /\ x \in McType /\ x.s = t /\ x.obj = m.obj /\ x.hash = [m.hash EXCEPT ![n] = None]
        /\ x.lock = m.lock /\ x.onBus = m.onBus /\ x.todo = m.todo /\ x.gone = m.gone
        /\ x.known = m.known
    BY <1>1, <1>5, <1>7 DEF McType
  <2> HIDE DEF x
  <2>3. o \in Objs /\ Lives(m, o) /\ m.obj[o].name = n
    <3>1. o \in Objs
      BY <1>1, <1>5, <1>7 DEF McType, o
    <3> QED  BY <1>1, <1>5, <1>7, <3>1 DEF Objects, o
  <2>4. Cre(o) \notin Pend(m)
    BY <1>1, <2>3 DEF Objects, Object, o
  <2>5. ~m.obj[o].loaded => m.obj[o].for = "setup"
    <3>1. CASE mgr = "unready"
      BY <1>1, <1>5, <1>7, <3>1 DEF Objects, Lock, o
    <3>2. CASE mgr # "unready"
      <4>1. m.todo = <<>>
        BY <1>1, <3>2 DEF Idle
      <4>2. Pend(m) = {}
        BY <4>1 DEF Pend
      <4> QED  BY <1>1, <2>3, <4>2 DEF Objects, Object, Lives
    <3> QED  BY <3>1, <3>2
  <2>6. Handled(McdAccountDelete(x, o), f)
    BY <1>1, <1>2, <1>5, <1>7, <2>2, <2>3, <2>4, <2>5, RemovedKeeps DEF s
  <2> QED  BY <2>1, <2>6 DEF r, f, m
<1> QED  BY <1>4, <1>6, <1>7

(* The first of the signals is handled, whichever it is.                    *)
LEMMA DeliverKeeps ==
  ASSUME Inv, Deliver
  PROVE  Inv'
<1> DEFINE m == Refreshed(mc)
           f == Tail(events)
           r == CASE Head(events) = "created" -> SsoCreated(m)
                  [] Head(events) = "updated" -> SsoUpdated(m)
                  [] Head(events) = "toggled" -> SsoToggled(m)
                  [] Head(events) = "deleted" -> SsoDeleted(m)
<1>1. /\ Idle /\ up /\ events # <<>> /\ events' = f /\ Fresh(mc) # {}
      /\ up' = up /\ mgr' = mgr /\ full' = full
  BY DEF Deliver, Idle
<1>2. /\ events \in Seq(Signal) /\ f \in Seq(Signal) /\ Head(events) \in Signal /\ mc \in McType
  BY <1>1, Now, FirstAndRest
<1>3. m = [mc EXCEPT !.s.sso.view = [k \in Settings |->
                   IF k \in mc.s.sso.dirty THEN mc.s.sso.view[k] ELSE mc.s.ag.val[k]]]
  BY <1>2 DEF Refreshed, Fresher, McType
<1>4. Becomes(r)
  <2> HIDE DEF m
  <2>1. LET s == mc.s
            y == [mc EXCEPT !.s.sso.view = [k \in Settings |->
                   IF k \in s.sso.dirty THEN s.sso.view[k] ELSE s.ag.val[k]]]
        IN  Becomes(CASE Head(events) = "created" -> SsoCreated(y)
                      [] Head(events) = "updated" -> SsoUpdated(y)
                      [] Head(events) = "toggled" -> SsoToggled(y)
                      [] Head(events) = "deleted" -> SsoDeleted(y))
    BY DEF Deliver
  <2> QED  BY <1>3, <2>1
<1>5. CASE Head(events) = "created"
  <2>1. Link(m.s, m.known, events)
    BY <1>1, RefreshedIs DEF Handled, Awake, Sound, Common
  <2>2. m.s.ag.uid = None
    <3> HIDE DEF m
    <3> QED  BY <1>1, <1>2, <1>5, <2>1, LinkRest
  <2>3. Handled(SsoCreated(m), f)
    BY <1>1, <1>5, <2>2, CreatedTaken
  <2> QED  BY <1>1, <1>2, <1>4, <1>5, <2>3, BecomesKeeps
<1>6. CASE Head(events) = "updated"
  <2>1. Handled(SsoUpdated(m), f)
    BY <1>1, <1>6, UpdatedTaken
  <2> QED  BY <1>1, <1>2, <1>4, <1>6, <2>1, BecomesKeeps
<1>7. CASE Head(events) = "toggled"
  <2>1. Handled(SsoToggled(m), f)
    BY <1>1, <1>7, ToggledTaken
  <2> QED  BY <1>1, <1>2, <1>4, <1>7, <2>1, BecomesKeeps
<1>8. CASE Head(events) = "deleted"
  <2>1. Handled(SsoDeleted(m), f)
    BY <1>1, <1>8, DeletedTaken
  <2> QED  BY <1>1, <1>2, <1>4, <1>8, <2>1, BecomesKeeps
<1> QED  BY <1>2, <1>5, <1>6, <1>7, <1>8 DEF Signal

-----------------------------------------------------------------------------
(* The process starts: _mcd_account_manager_setup.                          *)

(* What a name counts as: its object.                                       *)
Rank(s, n) == Cardinality({p \in Plausible(s) : p <= n})

(* The accounts of the cache that the setup takes, of which there are no    *)
(* more than names.                                                         *)
LEMMA PlausibleIs ==
  ASSUME NEW s
  PROVE  /\ Plausible(s) = {n \in Names : s.cache[n].val["manager"] # None}
         /\ Plausible(s) \subseteq Names
         /\ IsFiniteSet(Plausible(s)) /\ Cardinality(Plausible(s)) \in Nat
         /\ Cardinality(Plausible(s)) <= Cardinality(Names) /\ Cardinality(Names) \in Nat
         /\ Cardinality(Plausible(s)) = Cardinality(Names) => Plausible(s) = Names
<1>1. "manager" \in Attributes
  BY DEF Attributes, Keys
<1>2. Plausible(s) = {n \in Names : s.cache[n].val["manager"] # None}
  BY <1>1 DEF Plausible, Accounts
<1>3. Plausible(s) \in SUBSET Names /\ IsFiniteSet(Names)
  BY <1>2, NotNone
<1> QED  BY <1>2, <1>3, FS_Subset, FS_CardinalityType

(* Each has a number of its own, in the order of the setup.                 *)
LEMMA RankIs ==
  ASSUME NEW s
  PROVE  LET N == Plausible(s)
             k == Cardinality(N) IN
         /\ \A n \in N : Rank(s, n) \in 1..k
         /\ \A n, q \in N : Rank(s, n) = Rank(s, q) => n = q
         /\ \A o \in 1..k : \E p \in N : Rank(s, p) = o
<1> DEFINE N == Plausible(s)
           k == Cardinality(N)
           Upto(n) == {p \in N : p <= n}
<1>1. IsFiniteSet(N) /\ k \in Nat /\ \A n \in N : n \in Nat
  BY PlausibleIs, NotNone
<1>2. \A n : Rank(s, n) = Cardinality(Upto(n))
  BY DEF Rank
<1> HIDE DEF N
<1>3. \A n : Upto(n) \in SUBSET N /\ IsFiniteSet(Upto(n)) /\ Cardinality(Upto(n)) \in Nat
  <2> TAKE n
  <2>1. Upto(n) \in SUBSET N
    OBVIOUS
  <2> QED  BY <1>1, <2>1, FS_Subset, FS_CardinalityType
<1>4. ASSUME NEW n \in N  PROVE Rank(s, n) \in 1..k
  <2>1. n \in Upto(n)
    BY <1>1
  <2>2. Upto(n) \in SUBSET N /\ IsFiniteSet(Upto(n)) /\ Cardinality(Upto(n)) \in Nat
    BY <1>3
  <2> HIDE DEF Upto
  <2>3. Cardinality(Upto(n)) # 0
    BY <2>1, <2>2, FS_EmptySet
  <2>4. Cardinality(Upto(n)) <= k
    BY <1>1, <2>2, FS_Subset
  <2> QED  BY <1>1, <1>2, <2>2, <2>3, <2>4
<1>5. ASSUME NEW n \in N, NEW q \in N, n < q  PROVE Rank(s, n) # Rank(s, q)
  <2>1. Upto(n) \subseteq Upto(q) /\ q \in Upto(q) /\ q \notin Upto(n)
    BY <1>1, <1>5
  <2>2. IsFiniteSet(Upto(q)) /\ IsFiniteSet(Upto(n))
    BY <1>3
  <2> HIDE DEF Upto
  <2>3. Upto(n) \in SUBSET Upto(q) /\ Upto(n) # Upto(q)
    BY <2>1
  <2>4. Cardinality(Upto(q)) # Cardinality(Upto(n))
    BY <2>2, <2>3, FS_Subset
  <2> QED  BY <1>2, <2>4
<1>6. ASSUME NEW n \in N, NEW q \in N, Rank(s, n) = Rank(s, q)  PROVE n = q
  <2>1. n \in Nat /\ q \in Nat
    BY <1>1
  <2>2. ~(n < q) /\ ~(q < n)
    BY <1>5, <1>6
  <2> QED  BY <2>1, <2>2
<1>7. ASSUME NEW o \in 1..k  PROVE \E p \in N : Rank(s, p) = o
  <2> DEFINE rank == [n \in N |-> Rank(s, n)]
  <2>1. rank \in Injection(N, 1..k)
    BY <1>4, <1>6 DEF Injection, IsInjective
  <2>2. IsFiniteSet(1..k) /\ Cardinality(1..k) = k
    BY <1>1, FS_Interval
  <2> HIDE DEF rank, k
  <2>3. rank \in Surjection(N, 1..k)
    BY <2>1, <2>2, FS_Injection DEF k
  <2>4. \E p \in N : rank[p] = o
    BY <2>3 DEF Surjection
  <2> QED  BY <2>4 DEF rank
<1> QED  BY <1>4, <1>6, <1>7 DEF N

(* The objects that it makes: one for each of the accounts.                 *)
SetUp(s) ==
  LET N == Plausible(s)
      k == Cardinality(N)
  IN  [s |-> s,
       obj |-> [o \in Objs |->
                  LET n == CHOOSE p \in Names : p \in N /\ Rank(s, p) = o
                  IN  IF o > k THEN NoObject
                      ELSE [NoObject EXCEPT !.st = "live", !.name = n,
                                            !.enabled = s.cache[n].val["Enabled"] = 2]],
       hash |-> [n \in Names |-> IF n \in N THEN Rank(s, n) ELSE None],
       lock |-> 1 + k, onBus |-> FALSE,
       todo |-> [i \in 1..k |-> Acc(i)],
       gone |-> mc.gone, known |-> mc.known, failed |-> s.save]

(* The setup is its loop, a write, the account of libaccounts that has no   *)
(* name yet, and the release of its own lock.                               *)
LEMMA SetupIs ==
  ASSUME NEW s
  PROVE  Setup(s) = ReleaseLoadAccountsLock(IF s.ag.uid = None THEN SsoCreated(Write(SetUp(s)))
                                            ELSE Write(SetUp(s)))
  BY DEF Setup, SetUp, Rank, Acc

(* After its loop each account has an object in the queue, and a lock.      *)
LEMMA SetUpIs ==
  ASSUME Types, NEW s \in StoreType
  PROVE  LET m == SetUp(s)
             N == Plausible(s)
             k == Cardinality(N) IN
         /\ m \in McType /\ m.s = s /\ m.lock = 1 + k /\ ~m.onBus
         /\ m.gone = mc.gone /\ m.known = mc.known
         /\ k \in Nat /\ k <= Cardinality(Names) /\ k <= MaxObjects
         /\ m.todo = [i \in 1..k |-> Acc(i)]
         /\ \A o \in Objs : o > k => m.obj[o] = NoObject
         /\ \A o \in Objs : o <= k =>
              /\ m.obj[o].name \in N /\ Rank(s, m.obj[o].name) = o
              /\ m.obj[o].st = "live" /\ m.obj[o].for = "setup"
              /\ m.obj[o].enabled = (s.cache[m.obj[o].name].val["Enabled"] = 2)
              /\ ~m.obj[o].loaded /\ ~m.obj[o].reg /\ ~m.obj[o].removed
              /\ ~m.obj[o].timer /\ ~m.obj[o].reply
         /\ \A n \in N : /\ m.hash[n] = Rank(s, n) /\ Rank(s, n) \in Objs
                         /\ Rank(s, n) <= k /\ m.obj[Rank(s, n)].name = n
         /\ \A n \in Names \ N : m.hash[n] = None
<1> DEFINE N == Plausible(s)
           k == Cardinality(N)
           nm == [o \in Objs |-> CHOOSE p \in Names : p \in N /\ Rank(s, p) = o]
           ob == [o \in Objs |->
                    IF o > k THEN NoObject
                    ELSE [NoObject EXCEPT !.st = "live", !.name = nm[o],
                                          !.enabled = s.cache[nm[o]].val["Enabled"] = 2]]
           hash == [n \in Names |-> IF n \in N THEN Rank(s, n) ELSE None]
           todo == [i \in 1..k |-> Acc(i)]
<1>1. /\ N \subseteq Names /\ k \in Nat /\ k <= Cardinality(Names) /\ Cardinality(Names) \in Nat
      /\ k <= MaxObjects /\ MaxObjects \in Nat
  BY PlausibleIs, BoundsAssumption
<1>2. /\ \A n \in N : Rank(s, n) \in 1..k
      /\ \A n, q \in N : Rank(s, n) = Rank(s, q) => n = q
      /\ \A o \in 1..k : \E p \in N : Rank(s, p) = o
  BY RankIs
<1>3. SetUp(s) = [s |-> s, obj |-> ob, hash |-> hash, lock |-> 1 + k, onBus |-> FALSE,
                  todo |-> todo, gone |-> mc.gone, known |-> mc.known, failed |-> s.save]
  <2> DEFINE ok == [o \in Objs |->
                      LET n == CHOOSE p \in Names : p \in N /\ Rank(s, p) = o
                      IN  IF o > k THEN NoObject
                          ELSE [NoObject EXCEPT !.st = "live", !.name = n,
                                                !.enabled = s.cache[n].val["Enabled"] = 2]]
  <2>1. \A o \in Objs : nm[o] = CHOOSE p \in Names : p \in N /\ Rank(s, p) = o
    OBVIOUS
  <2>2. ok = ob
    <3> HIDE DEF nm, k, N
    <3> QED  BY <2>1
  <2>3. SetUp(s) = [s |-> s, obj |-> ok, hash |-> hash, lock |-> 1 + k, onBus |-> FALSE,
                    todo |-> todo, gone |-> mc.gone, known |-> mc.known, failed |-> s.save]
    BY DEF SetUp
  <2> HIDE DEF ok, ob, hash, todo, k
  <2> QED  BY <2>2, <2>3
<1> HIDE DEF N, k
<1>4. \A o \in Objs : o <= k => nm[o] \in N /\ Rank(s, nm[o]) = o
  <2> SUFFICES ASSUME NEW o \in Objs, o <= k  PROVE nm[o] \in N /\ Rank(s, nm[o]) = o
    OBVIOUS
  <2>1. o \in 1..k
    BY <1>1 DEF Objs
  <2>2. \E p \in Names : p \in N /\ Rank(s, p) = o
    BY <1>1, <1>2, <2>1
  <2> QED  BY <2>2
<1> HIDE DEF nm
<1>5. \A o \in Objs : o <= k => /\ ob[o] \in ObjType
              /\ ob[o].name = nm[o] /\ ob[o].st = "live" /\ ob[o].for = "setup"
              /\ ob[o].enabled = (s.cache[nm[o]].val["Enabled"] = 2)
              /\ ~ob[o].loaded /\ ~ob[o].reg /\ ~ob[o].removed
              /\ ~ob[o].timer /\ ~ob[o].reply
  <2> SUFFICES ASSUME NEW o \in Objs, o <= k
               PROVE  /\ ob[o] \in ObjType
                      /\ ob[o].name = nm[o] /\ ob[o].st = "live" /\ ob[o].for = "setup"
                      /\ ob[o].enabled = (s.cache[nm[o]].val["Enabled"] = 2)
                      /\ ~ob[o].loaded /\ ~ob[o].reg /\ ~ob[o].removed
                      /\ ~ob[o].timer /\ ~ob[o].reply
    OBVIOUS
  <2> DEFINE n == nm[o]
             on == s.cache[n].val["Enabled"] = 2
             x == [NoObject EXCEPT !.st = "live", !.name = n, !.enabled = on]
  <2>1. ob[o] = x
    BY <1>1 DEF Objs
  <2>2. n \in Names /\ on \in BOOLEAN
    BY <1>1, <1>4
  <2> HIDE DEF n, on, ob
  <2>3. /\ x \in ObjType /\ x.name = n /\ x.st = "live" /\ x.for = "setup" /\ x.enabled = on
        /\ ~x.loaded /\ ~x.reg /\ ~x.removed /\ ~x.timer /\ ~x.reply
    BY <2>2 DEF NoObject, ObjType, None
  <2> QED  BY <2>1, <2>3 DEF on, n
<1>6. \A o \in Objs : o > k => ob[o] = NoObject
  OBVIOUS
<1>7. NoObject \in ObjType
  BY DEF NoObject, ObjType, None
<1>8. ob \in [Objs -> ObjType]
  <2>1. \A o \in Objs : o <= k \/ o > k
    BY <1>1 DEF Objs
  <2>2. \A o \in Objs : ob[o] \in ObjType
    BY <1>5, <1>6, <1>7, <2>1
  <2>3. ob = [o \in Objs |-> ob[o]]
    OBVIOUS
  <2> HIDE DEF ob
  <2> QED  BY <2>2, <2>3
<1> HIDE DEF ob
<1>9. \A n \in N : Rank(s, n) \in Objs /\ Rank(s, n) <= k /\ ob[Rank(s, n)].name = n
  <2> TAKE n \in N
  <2>1. Rank(s, n) \in Objs /\ Rank(s, n) <= k
    BY <1>1, <1>2 DEF Objs
  <2> QED  BY <1>2, <1>4, <1>5, <2>1
<1>10. hash \in [Names -> Objs \cup {None}]
  BY <1>9
<1>11. todo \in Seq(Callback)
  <2>1. \A i \in 1..k : Acc(i) \in Callback
    BY <1>1, Callbacks DEF Objs
  <2> QED  BY <1>1, <2>1
<1>12. mc.gone \in SUBSET Names /\ mc.known \in SUBSET (Names \X Why)
       /\ s.save \in BOOLEAN /\ 1 + k \in Int
  BY <1>1, StoreTypes DEF Types, McType
<1> HIDE DEF todo, hash
<1>13. /\ SetUp(s) \in McType /\ SetUp(s).s = s /\ SetUp(s).obj = ob /\ SetUp(s).hash = hash
       /\ SetUp(s).lock = 1 + k /\ ~SetUp(s).onBus /\ SetUp(s).todo = todo
       /\ SetUp(s).gone = mc.gone /\ SetUp(s).known = mc.known
  BY <1>3, <1>8, <1>10, <1>11, <1>12 DEF McType
<1>14. \A n \in N : hash[n] = Rank(s, n)
  BY <1>1 DEF hash
<1>15. \A n \in Names \ N : hash[n] = None
  BY DEF hash
<1>16. todo = [i \in 1..k |-> Acc(i)]
  BY DEF todo
<1> QED  BY <1>1, <1>4, <1>5, <1>6, <1>9, <1>13, <1>14, <1>15, <1>16 DEF N, k

(* release_load_accounts_lock, field by field.                              *)
LEMMA ReleasedIs ==
  ASSUME NEW m \in McType
  PROVE  LET r == ReleaseLoadAccountsLock(m) IN
         /\ r \in McType /\ r.lock = m.lock - 1 /\ r.onBus = (m.onBus \/ m.lock = 1)
         /\ r.s = m.s /\ r.obj = m.obj /\ r.hash = m.hash /\ r.todo = m.todo
         /\ r.gone = m.gone /\ r.known = m.known /\ r.failed = m.failed
<1> DEFINE on == m.onBus \/ m.lock = 1
<1>1. on \in BOOLEAN /\ m.lock - 1 \in Int
  BY DEF McType
<1>2. ReleaseLoadAccountsLock(m) = [m EXCEPT !.lock = m.lock - 1, !.onBus = on]
  BY DEF ReleaseLoadAccountsLock, McType
<1> HIDE DEF on
<1> QED  BY <1>1, <1>2 DEF McType, on

(* Its objects are in order, before anything else happens to them.          *)
LEMMA SetUpKeeps ==
  ASSUME Types, mgr = "unready", NEW s \in StoreType, Sound(s, mc.known, mc.gone, <<>>)
  PROVE  LET m == ReleaseLoadAccountsLock(Write(SetUp(s))) IN
         Handled(m, <<>>) /\ Fresh(m) = {o \in Objs : o > Cardinality(Plausible(s))}
<1> DEFINE a == SetUp(s)
           w == Write(a)
           m == ReleaseLoadAccountsLock(w)
           N == Plausible(s)
           k == Cardinality(N)
<1>1. /\ a \in McType /\ a.s = s /\ a.lock = 1 + k /\ ~a.onBus
      /\ a.gone = mc.gone /\ a.known = mc.known
      /\ k \in Nat /\ k <= Cardinality(Names) /\ k <= MaxObjects
      /\ a.todo = [i \in 1..k |-> Acc(i)]
      /\ \A o \in Objs : o > k => a.obj[o] = NoObject
      /\ \A o \in Objs : o <= k =>
           /\ a.obj[o].name \in N /\ Rank(s, a.obj[o].name) = o
           /\ a.obj[o].st = "live" /\ a.obj[o].for = "setup"
           /\ a.obj[o].enabled = (s.cache[a.obj[o].name].val["Enabled"] = 2)
           /\ ~a.obj[o].loaded /\ ~a.obj[o].reg /\ ~a.obj[o].removed
           /\ ~a.obj[o].timer /\ ~a.obj[o].reply
      /\ \A n \in N : /\ a.hash[n] = Rank(s, n) /\ Rank(s, n) \in Objs
                      /\ Rank(s, n) <= k /\ a.obj[Rank(s, n)].name = n
      /\ \A n \in Names \ N : a.hash[n] = None
  BY SetUpIs
<1> HIDE DEF a
<1>2. N = {n \in Names : s.cache[n].val["manager"] # None}
  BY PlausibleIs
<1>3. MaxObjects \in Nat /\ \A o \in Objs : o \in Nat /\ o # None
  BY BoundsAssumption DEF Objs, None
<1> HIDE DEF k, N
<1>4. /\ w \in McType /\ w.s = Commit(s, ~full) /\ w.failed = w.s.save
      /\ w.obj = a.obj /\ w.hash = a.hash /\ w.lock = 1 + k /\ ~w.onBus
      /\ w.todo = a.todo /\ w.gone = mc.gone /\ w.known = mc.known
      /\ w.s.cache = s.cache
  BY <1>1, WriteIs
<1>5. Sound(w.s, mc.known, mc.gone, <<>>) /\ Synced(w.s, w.failed)
  <2>1. (~full) \in BOOLEAN
    OBVIOUS
  <2>2. LET t == Commit(s, ~full) IN
        t \in StoreType /\ Sound(t, mc.known, mc.gone, <<>>) /\ Synced(t, t.save)
    BY <2>1, CommitSound
  <2> QED  BY <1>4, <2>2
<1> HIDE DEF w
<1>6. /\ m \in McType /\ m.lock = k /\ m.onBus = (k = 0)
      /\ m.s = w.s /\ m.obj = a.obj /\ m.hash = a.hash /\ m.todo = a.todo
      /\ m.gone = mc.gone /\ m.known = mc.known /\ m.failed = w.failed
  BY <1>1, <1>4, ReleasedIs
<1> HIDE DEF m
<1>7. m.todo = [i \in 1..k |-> Acc(i)] /\ DOMAIN m.todo = 1..k /\ \A i \in 1..k : m.todo[i] = Acc(i)
  BY <1>1, <1>6
<1>8. Pend(m) = {Acc(i) : i \in 1..k}
  BY <1>7 DEF Pend
<1>9. \A i, j : (Acc(i) = Acc(j) => i = j) /\ Acc(i) # Cre(j) /\ Acc(i).cb = "account"
  BY DEF Acc, Cre
<1>10. \A o \in Objs : /\ o > k => m.obj[o] = NoObject
                       /\ o <= k => /\ m.obj[o].name \in N /\ Rank(s, m.obj[o].name) = o
                                    /\ m.obj[o].st = "live" /\ m.obj[o].for = "setup"
                                    /\ ~m.obj[o].loaded /\ ~m.obj[o].reg /\ ~m.obj[o].removed
                                    /\ ~m.obj[o].timer /\ ~m.obj[o].reply
                       /\ o <= k \/ o > k
  BY <1>1, <1>3, <1>6
<1>11. NoObject.st = "none" /\ ~NoObject.loaded /\ ~NoObject.reg /\ ~NoObject.reply /\ ~NoObject.timer
  BY DEF NoObject
<1>12. \A o \in Objs : /\ Alive(m, o) <=> o <= k
                       /\ Lives(m, o) <=> o <= k
                       /\ ~Lingers(m, o) /\ ~m.obj[o].loaded
  <2> TAKE o \in Objs
  <2>1. CASE o > k
    BY <1>1, <1>3, <1>10, <1>11, <2>1 DEF Alive, Lives, Lingers
  <2>2. CASE o <= k
    BY <1>10, <2>2 DEF Alive, Lives, Lingers
  <2> QED  BY <1>10, <2>1, <2>2
<1>13. \A o \in Objs : Acc(o) \in Pend(m) <=> o <= k
  <2>1. \A o \in Objs : o \in 1..k <=> o <= k
    BY <1>1, <1>3 DEF Objs
  <2>2. \A o : Acc(o) \in Pend(m) <=> \E i \in 1..k : Acc(o) = Acc(i)
    BY <1>8
  <2>3. \A o : Acc(o) \in Pend(m) <=> o \in 1..k
    BY <1>9, <2>2
  <2> QED  BY <2>1, <2>3
<1>14. \A o : Cre(o) \notin Pend(m)
  BY <1>8, <1>9
<1>15. \A n \in Names : IF n \in N
                        THEN /\ m.hash[n] = Rank(s, n) /\ m.hash[n] \in Objs /\ m.hash[n] <= k
                             /\ m.obj[m.hash[n]].name = n
                        ELSE m.hash[n] = None
  BY <1>1, <1>6
<1>16. ASSUME NEW o \in Objs  PROVE Object(m, o)
  <2>1. CASE o > k
    BY <1>1, <1>3, <1>10, <1>11, <1>12, <1>14, <2>1 DEF Object
  <2>2. CASE o <= k
    <3>1. m.obj[o].name \in Names /\ m.hash[m.obj[o].name] = o
      BY <1>2, <1>10, <1>15, <2>2
    <3> QED  BY <1>10, <1>12, <1>13, <1>14, <2>2, <3>1 DEF Object
  <2> QED  BY <1>10, <2>1, <2>2
<1>17. \A n \in Names : Managed(m, n) <=> n \in N
  BY <1>2, <1>4, <1>6 DEF Managed
<1>18. Objects(m, mgr)
  <2>1. Queue(m.todo)
    BY <1>7, <1>9 DEF Queue
  <2>2. \A c \in Pend(m) : m.obj[c.obj].st # "none" /\ (c.cb # "account" => Alive(m, c.obj))
    <3> SUFFICES ASSUME NEW i \in 1..k
                 PROVE  m.obj[Acc(i).obj].st # "none"
      BY <1>8, <1>9
    <3>1. i \in Objs /\ i <= k /\ Acc(i).obj = i
      BY <1>1, <1>3, Callbacks DEF Objs
    <3> QED  BY <1>10, <3>1
  <2>3. \A n \in Names : m.hash[n] # None => Lives(m, m.hash[n]) /\ m.obj[m.hash[n]].name = n
    BY <1>12, <1>15
  <2>4. \A n \in Names : Managed(m, n) <=> \E o \in Objs : Lives(m, o) /\ m.obj[o].name = n
    BY <1>10, <1>12, <1>15, <1>17
  <2>5. Apiece(m)
    <3>1. \A o, p \in Objs : Lives(m, o) /\ Lives(m, p) /\ m.obj[o].name = m.obj[p].name => o = p
      BY <1>10, <1>12
    <3> QED  BY <1>12, <3>1 DEF Apiece
  <2>6. Lock(m, mgr)
    <3>1. Setups(m) = 1..k
      <4>1. \A o : o \in 1..k <=> o \in Objs /\ o <= k
        BY <1>1, <1>3 DEF Objs
      <4>2. \A o : o \in Setups(m) <=> o \in Objs /\ o <= k
        BY <1>10, <1>12 DEF Setups
      <4> QED  BY <4>1, <4>2
    <3>2. Cardinality(1..k) = k
      BY <1>1, FS_Interval
    <3>3. m.lock = Cardinality(Setups(m)) /\ m.lock <= Cardinality(Names) /\ (m.onBus => m.lock = 0)
      BY <1>1, <1>6, <3>1, <3>2
    <3>4. \A n \in Names : m.hash[n] # None => m.obj[m.hash[n]].for = "setup"
      BY <1>10, <1>15
    <3> QED  BY <1>12, <3>3, <3>4 DEF Lock
  <2> QED  BY <1>16, <2>1, <2>2, <2>3, <2>4, <2>5, <2>6 DEF Objects
<1>19. ASSUME NEW o \in Objs  PROVE Current(m, mgr, o)
  <2> SUFFICES ASSUME o <= k  PROVE Current(m, mgr, o)
    BY <1>12 DEF Current
  <2>1. m.obj[o].enabled = (m.s.cache[m.obj[o].name].val["Enabled"] = 2) /\ ~m.obj[o].loaded
    BY <1>1, <1>4, <1>6
  <2> QED  BY <2>1 DEF Current
<1>20. Handled(m, <<>>)
  BY <1>5, <1>6, <1>18, <1>19 DEF Handled, Awake
<1>21. Fresh(m) = {o \in Objs : o > k}
  <2>1. \A o \in Objs : m.obj[o].st = "none" <=> o > k
    BY <1>1, <1>3, <1>10, <1>11
  <2> QED  BY <2>1 DEF Fresh
<1> QED  BY <1>20, <1>21 DEF m, w, a, k, N

(* The lock of the setup is released at the end of it, after _sso_created.  *)
LEMMA NewAccountReleases ==
  ASSUME NEW m \in McType, NEW n \in Names, mgr = "unready"
  PROVE  NewAccount(ReleaseLoadAccountsLock(m), n, "created", None)
           = ReleaseLoadAccountsLock(NewAccount(m, n, "created", None))
<1> DEFINE x == ReleaseLoadAccountsLock(m)
           o == Min(Fresh(m))
           ob == [NoObject EXCEPT !.st = "live", !.name = n, !.for = "created", !.given = None,
                                  !.enabled = m.s.cache[n].val["Enabled"] = 2]
           obj == [m.obj EXCEPT ![o] = ob]
           gone == m.gone \ {n}
           s == IF Owns(m.s, n) THEN [m.s EXCEPT !.sso.save = TRUE] ELSE [m.s EXCEPT !.save = TRUE]
           t == Commit(s, ~full)
           todo == Later(o, "created") \o m.todo
           on == m.onBus \/ m.lock = 1
<1>1. x \in McType /\ x = [m EXCEPT !.lock = m.lock - 1, !.onBus = on]
  <2>1. x \in McType
    BY ReleasedIs
  <2> QED  BY <2>1 DEF ReleaseLoadAccountsLock, McType
<1>2. \A y \in McType : y.s = m.s /\ y.obj = m.obj /\ y.gone = m.gone /\ y.todo = m.todo =>
        NewAccount(y, n, "created", None) =
          [y EXCEPT !.obj = obj, !.gone = gone, !.s = t, !.failed = t.save, !.todo = todo]
  <2> SUFFICES ASSUME NEW y \in McType,
                      y.s = m.s, y.obj = m.obj, y.gone = m.gone, y.todo = m.todo
               PROVE  NewAccount(y, n, "created", None) =
                        [y EXCEPT !.obj = obj, !.gone = gone, !.s = t, !.failed = t.save,
                                  !.todo = todo]
    OBVIOUS
  <2> DEFINE a == [y EXCEPT !.obj[o] = ob, !.gone = @ \ {n},
                            !.s = IF Owns(@, n) THEN [@ EXCEPT !.sso.save = TRUE]
                                  ELSE [@ EXCEPT !.save = TRUE]]
             w == Write(a)
  <2>1. Fresh(y) = Fresh(m)
    BY DEF Fresh
  <2>2. NewAccount(y, n, "created", None) = [w EXCEPT !.todo = Later(o, "created") \o @]
    BY <2>1 DEF NewAccount, Later, Cre, Acc
  <2>3. a = [y EXCEPT !.obj = obj, !.gone = gone, !.s = s]
    BY DEF McType
  <2> HIDE DEF a, obj, gone, s
  <2>4. a.s = s
    BY <2>3 DEF McType
  <2>5. w = [a EXCEPT !.s = t, !.failed = t.save]
    BY <2>4 DEF Write
  <2> HIDE DEF w, t
  <2>6. w.todo = m.todo
    BY <2>3, <2>5 DEF McType
  <2>7. [w EXCEPT !.todo = Later(o, "created") \o @] = [w EXCEPT !.todo = todo]
    BY <2>6
  <2> HIDE DEF todo, o
  <2> QED  BY <2>2, <2>3, <2>5, <2>7 DEF McType
<1> HIDE DEF obj, gone, t, todo, on
<1>3. /\ x.s = m.s /\ x.obj = m.obj /\ x.gone = m.gone /\ x.todo = m.todo
  BY <1>1 DEF McType
<1> DEFINE r == NewAccount(m, n, "created", None)
<1>4. r = [m EXCEPT !.obj = obj, !.gone = gone, !.s = t, !.failed = t.save, !.todo = todo]
  BY <1>2
<1>5. NewAccount(x, n, "created", None)
        = [x EXCEPT !.obj = obj, !.gone = gone, !.s = t, !.failed = t.save, !.todo = todo]
  BY <1>1, <1>2, <1>3
<1> HIDE DEF r, x
<1>6. r.lock = m.lock /\ r.onBus = m.onBus
  BY <1>4 DEF McType
<1>7. ReleaseLoadAccountsLock(r) = [r EXCEPT !.lock = m.lock - 1, !.onBus = on]
  <2>1. DOMAIN r = DOMAIN m
    BY <1>4
  <2> QED  BY <1>6, <2>1 DEF ReleaseLoadAccountsLock, McType, on
<1>8. ReleaseLoadAccountsLock(r) = NewAccount(x, n, "created", None)
  BY <1>1, <1>4, <1>5, <1>7 DEF McType
<1> QED  BY <1>8 DEF r, x

(* The own lock can as well be released first.                              *)
LEMMA SsoCreatedReleases ==
  ASSUME NEW m \in McType, mgr = "unready", m.s.ag.uid = None
  PROVE  SsoCreated(ReleaseLoadAccountsLock(m)) = ReleaseLoadAccountsLock(SsoCreated(m))
<1> DEFINE x == ReleaseLoadAccountsLock(m)
           on == m.onBus \/ m.lock = 1
<1>1. x \in McType /\ x = [m EXCEPT !.lock = m.lock - 1, !.onBus = on]
      /\ x.s = m.s /\ x.obj = m.obj
  <2>1. x \in McType /\ x.s = m.s /\ x.obj = m.obj
    BY ReleasedIs
  <2> QED  BY <2>1 DEF ReleaseLoadAccountsLock, McType
<1>2. OnBusNames(x) = OnBusNames(m)
  BY <1>1 DEF OnBusNames
<1> DEFINE s == m.s
           ag == s.ag
           free == ag.complete /\ HasName(s, OnBusNames(m))
<1> HIDE DEF x, on
<1>3. CASE s.sso.name # None \/ ag.state # "present"
  <2>1. SsoCreated(x) = x /\ SsoCreated(m) = m
    BY <1>1, <1>3 DEF SsoCreated
  <2> QED  BY <2>1 DEF x
<1>4. CASE s.sso.name = None /\ ag.state = "present" /\ ~free
  <2> DEFINE u == [s EXCEPT !.sso.watch = TRUE]
             w == [m EXCEPT !.s = u]
  <2>1. SsoCreated(x) = [x EXCEPT !.s = u] /\ SsoCreated(m) = w
    BY <1>1, <1>2, <1>4 DEF SsoCreated, McType
  <2> HIDE DEF u
  <2>2. ReleaseLoadAccountsLock(w) = [w EXCEPT !.lock = m.lock - 1, !.onBus = on]
    BY DEF ReleaseLoadAccountsLock, McType, on
  <2>3. ReleaseLoadAccountsLock(w) = [x EXCEPT !.s = u]
    BY <1>1, <2>2 DEF McType
  <2> QED  BY <2>1, <2>3 DEF x
<1>5. CASE s.sso.name = None /\ ag.state = "present" /\ free
  <2> DEFINE n == UniqueName(s, OnBusNames(m))
             u == Named(s, n)
             w == [m EXCEPT !.s = u]
             y == [x EXCEPT !.s = u]
  <2>1. n \in Names
    <3>1. {p \in Names : Free(m, p)} # {}
      BY <1>5 DEF HasName, Free
    <3> QED  BY <3>1, UniqueNameIs
  <2>2. s \in StoreType /\ ag \in AgType /\ s.sso \in SsoType /\ ag.uid = None
    BY StoreTypes DEF McType
  <2> HIDE DEF n
  <2>3. SsoCreated(m) = NewAccount(w, n, "created", None)
    <3>1. w = [m EXCEPT !.s.ag.uid = n,
                        !.s.sso = [@ EXCEPT !.name = n, !.watch = TRUE, !.view = m.s.ag.val],
                        !.s.cache[n] = FromSso(@, m.s.ag.val)]
      BY <2>1, <2>2 DEF Named, McType, StoreType
    <3> HIDE DEF w
    <3> QED  BY <1>5, <2>2, <3>1 DEF SsoCreated, n
  <2>4. SsoCreated(x) = NewAccount(y, n, "created", None)
    <3>1. y = [x EXCEPT !.s.ag.uid = n,
                        !.s.sso = [@ EXCEPT !.name = n, !.watch = TRUE, !.view = x.s.ag.val],
                        !.s.cache[n] = FromSso(@, x.s.ag.val)]
      BY <1>1, <2>1, <2>2 DEF Named, McType, StoreType
    <3>2. x.s = s /\ UniqueName(x.s, OnBusNames(x)) = n /\ HasName(x.s, OnBusNames(x))
      BY <1>1, <1>2, <1>5 DEF n
    <3> HIDE DEF y
    <3> QED  BY <1>5, <2>2, <3>1, <3>2 DEF SsoCreated
  <2>5. u \in StoreType
    <3> DEFINE c == FromSso(s.cache[n], ag.val)
               a == [ag EXCEPT !.uid = n]
               o == [s.sso EXCEPT !.name = n, !.watch = TRUE, !.view = ag.val]
    <3>1. c \in EntryType
      <4>1. s.cache[n] \in EntryType /\ ag.val \in [Settings -> 0..2]
        BY <2>1, <2>2, StoreTypes DEF AgType
      <4> QED  BY <4>1, FromSsoIs
    <3>2. a \in AgType
      BY <2>1, <2>2 DEF AgType
    <3>3. o \in SsoType
      BY <2>1, <2>2 DEF AgType, SsoType
    <3>4. u = [s EXCEPT !.ag = a, !.sso = o, !.cache = [s.cache EXCEPT ![n] = c]]
      BY <2>2 DEF Named, StoreType
    <3> HIDE DEF a, o, c, u
    <3> QED  BY <2>1, <2>2, <3>1, <3>2, <3>3, <3>4, StoreTypes
  <2> HIDE DEF u
  <2>6. w \in McType
    BY <2>5 DEF McType
  <2>7. ReleaseLoadAccountsLock(w) = y
    <3>1. ReleaseLoadAccountsLock(w) = [w EXCEPT !.lock = m.lock - 1, !.onBus = on]
      BY DEF ReleaseLoadAccountsLock, McType, on
    <3> QED  BY <1>1, <3>1 DEF McType
  <2> HIDE DEF w, y
  <2>8. NewAccount(ReleaseLoadAccountsLock(w), n, "created", None)
          = ReleaseLoadAccountsLock(NewAccount(w, n, "created", None))
    BY <2>1, <2>6, NewAccountReleases
  <2> QED  BY <2>3, <2>4, <2>7, <2>8 DEF x
<1> QED  BY <1>3, <1>4, <1>5

(* The process is there again.                                              *)
LEMMA StartKeeps ==
  ASSUME Inv, Start
  PROVE  Inv'
<1> DEFINE s == Load(mc.s, ~full)
           w == Write(SetUp(s))
           d == ReleaseLoadAccountsLock(w)
           r == IF s.ag.uid = None THEN SsoCreated(d) ELSE d
           N == Plausible(s)
<1>1. /\ ~up /\ up' = TRUE /\ mgr' = mgr /\ events' = events /\ full' = full
      /\ Becomes(Setup(s))
  BY DEF Start
<1>2. /\ Types /\ Asleep(mc.s, mc.known, mc.gone) /\ mgr = "unready" /\ events = <<>>
      /\ mc.s \in StoreType
  BY <1>1 DEF Inv, Dead, Types, McType
<1>3. /\ s \in StoreType /\ Sound(s, mc.known, mc.gone, <<>>) /\ s.ag = mc.s.ag
      /\ s.sso.name = IF s.ag.state = "present" THEN s.ag.uid ELSE None
  <2>1. (~full) \in BOOLEAN
    OBVIOUS
  <2>2. LET t == Load(mc.s, ~full) IN
         /\ t \in StoreType /\ Sound(t, mc.known, mc.gone, <<>>) /\ t.ag = mc.s.ag
         /\ t.sso.name = IF mc.s.ag.state = "present" THEN mc.s.ag.uid ELSE None
    BY <1>2, <2>1, LoadSound
  <2> QED  BY <2>2
<1> HIDE DEF s
<1>4. SetUp(s) \in McType /\ SetUp(s).s = s
  BY <1>2, <1>3, SetUpIs
<1>5. w \in McType /\ w.s.cache = s.cache /\ w.s.ag = s.ag
  BY <1>4, WriteIs
<1>6. w.s.sso.name = s.sso.name
  <2> DEFINE ok == ~full
  <2>1. ok \in BOOLEAN /\ w.s = Commit(s, ok)
    BY <1>4, WriteIs
  <2> HIDE DEF w, ok
  <2>2. Commit(s, ok).sso.name = s.sso.name
    BY <1>3, <2>1, CommitIs
  <2> QED  BY <2>1, <2>2
<1>7. Handled(d, <<>>) /\ Fresh(d) = {o \in Objs : o > Cardinality(N)}
  BY <1>2, <1>3, SetUpKeeps
<1> HIDE DEF w, N
<1>8. d \in McType /\ d.s = w.s
  BY <1>5, ReleasedIs
<1>9. Setup(s) = r
  <2>1. Setup(s) = ReleaseLoadAccountsLock(IF s.ag.uid = None THEN SsoCreated(w) ELSE w)
    BY SetupIs DEF w
  <2>2. s.ag.uid = None => SsoCreated(d) = ReleaseLoadAccountsLock(SsoCreated(w))
    BY <1>2, <1>5, SsoCreatedReleases
  <2> HIDE DEF d
  <2> QED  BY <2>1, <2>2 DEF d
<1> HIDE DEF d
<1>10. Handled(r, <<>>)
  <2>1. CASE s.ag.uid # None
    BY <1>7, <2>1
  <2>2. CASE s.ag.uid = None
    <3>1. d.s.sso.name = None /\ d.s.ag.state = "present" => d.s.ag.uid = None
      BY <1>5, <1>8, <2>2
    <3>2. HasName(d.s, OnBusNames(d)) => Fresh(d) # {}
      <4> SUFFICES ASSUME NEW n \in Names, ~Cached(d.s, n)  PROVE Fresh(d) # {}
        BY DEF HasName
      <4>1. s.cache[n] = NoEntry
        BY <1>3, <1>5, <1>8 DEF Cached, Sound, Entry
      <4>2. n \notin N
        BY <4>1, PlausibleIs, TheKeys, Constants DEF N, NoEntry
      <4>3. Cardinality(N) < Cardinality(Names) /\ Cardinality(N) \in Nat /\ Cardinality(Names) \in Nat
        <5>1. N # Names
          BY <4>2
        <5>2. /\ Cardinality(N) \in Nat /\ Cardinality(Names) \in Nat
              /\ Cardinality(N) <= Cardinality(Names)
              /\ Cardinality(N) = Cardinality(Names) => N = Names
          BY PlausibleIs DEF N
        <5> QED  BY <5>1, <5>2
      <4>4. Cardinality(N) + 1 \in Objs
        BY <4>3, BoundsAssumption DEF Objs
      <4> QED  BY <1>7, <4>3, <4>4
    <3>3. ~Has(<<>>, "created")
      BY DEF Has
    <3>4. LET x == SsoCreated(d) IN x \in McType /\ Awake(x, mgr, <<>>) /\ Synced(x.s, x.failed)
      BY <1>7, <1>8, <3>1, <3>2, <3>3, SsoCreatedKeeps DEF Handled
    <3> QED  BY <2>2, <3>4 DEF Handled
  <2> QED  BY <2>1, <2>2
<1>11. events' \in Seq(Signal) /\ Handled(r, events') /\ Becomes(r)
  BY <1>1, <1>2, <1>9, <1>10
<1> HIDE DEF r
<1> QED  BY <1>1, <1>11, BecomesKeeps

-----------------------------------------------------------------------------
(* The invariant.                                                           *)

(* The invariant holds of the state before MC starts.                       *)
LEMMA InitKeeps == Init => Inv
<1> SUFFICES ASSUME Init  PROVE Inv
  OBVIOUS
<1>1. PICK disk \in StartingDisks :
          mc = [s |-> Stopped([cache |-> <<>>, keys |-> <<>>, save |-> FALSE,
                               disk |-> disk,
                               ag |-> [state |-> "never", complete |-> FALSE,
                                       uid |-> None, val |-> NoChange],
                               sso |-> <<>>]),
                obj |-> [o \in Objs |-> NoObject],
                hash |-> [n \in Names |-> None], lock |-> 0,
                onBus |-> FALSE, todo |-> <<>>, gone |-> {}, known |-> {},
                failed |-> FALSE]
  BY DEF Init
<1> DEFINE ag == [state |-> "never", complete |-> FALSE, uid |-> None, val |-> NoChange]
           sso == [name |-> None, view |-> NoChange, dirty |-> {}, watch |-> FALSE,
                   save |-> FALSE, timer |-> FALSE]
           s == [cache |-> [n \in Names |-> NoEntry], keys |-> [n \in Names |-> Nothing],
                 save |-> FALSE, disk |-> disk, ag |-> ag, sso |-> sso]
<1>2. /\ disk \in DiskType
      /\ disk.kind \notin {"good", "system", "old"} => \A n \in Names : disk.data[n] = Nothing
  <2> DEFINE one == [n \in Names |-> IF n = Min(Names)
                       THEN [Nothing EXCEPT !["manager"] = 1, !["param"] = 1]
                       ELSE Nothing]
             empty == [n \in Names |-> Nothing]
  <2>1. disk \in {[kind |-> "good", data |-> one], [kind |-> "old", data |-> one],
                  [kind |-> "missing", data |-> empty], [kind |-> "corrupt", data |-> empty]}
    BY DEF StartingDisks
  <2>2. [Nothing EXCEPT !["manager"] = 1, !["param"] = 1] \in Settled
    <3> DEFINE g == [Nothing EXCEPT !["manager"] = 1]
    <3>1. g \in Settled
      BY Constants, TheKeys DEF Settled
    <3> HIDE DEF g
    <3>2. 1 \in 0..2 /\ "param" \in Keys
      BY TheKeys
    <3>3. [g EXCEPT !["param"] = 1] \in Settled
      BY <3>1, <3>2 DEF Settled
    <3> QED  BY <3>3 DEF g
  <2>3. one \in [Names -> Settled] /\ empty \in [Names -> Settled]
    BY <2>2, Constants
  <2>4. \A n \in Names : empty[n] = Nothing
    OBVIOUS
  <2> HIDE DEF one, empty
  <2> QED  BY <2>1, <2>3, <2>4 DEF DiskType
<1>3. NoEntry \in EntryType /\ NoChange \in [Settings -> 0..2] /\ Nothing \in Settled
  BY Constants DEF NoEntry, EntryType, NoChange
<1>4. mc.s = s
  BY <1>1 DEF Stopped
<1>5. s \in StoreType /\ s = Stopped(s)
  <2>1. ag \in AgType /\ sso \in SsoType
    BY <1>3 DEF AgType, SsoType
  <2> HIDE DEF ag, sso
  <2>2. s \in StoreType
    BY <1>2, <1>3, <2>1, StoreTypes
  <2>3. /\ s.cache = [n \in Names |-> NoEntry] /\ s.keys = [n \in Names |-> Nothing]
        /\ s.save = FALSE /\ s.sso = sso
    OBVIOUS
  <2>4. sso = [name |-> None, view |-> NoChange, dirty |-> {}, watch |-> FALSE,
               save |-> FALSE, timer |-> FALSE]
    BY DEF sso
  <2>5. s = [s EXCEPT !.cache = s.cache, !.keys = s.keys, !.save = s.save, !.sso = s.sso]
    <3> HIDE DEF s
    <3> QED  BY <2>2 DEF StoreType
  <2> HIDE DEF s
  <2>6. s = Stopped(s)
    BY <2>3, <2>4, <2>5 DEF Stopped
  <2> QED  BY <2>2, <2>6
<1>6. /\ s.disk = disk /\ s.ag.state = "never" /\ s.ag.uid = None
  OBVIOUS
<1>7. \A n \in Names : ~InSso(s, n)
  BY <1>6 DEF InSso
<1> HIDE DEF s
<1>8. NoObject \in ObjType /\ [o \in Objs |-> NoObject] \in [Objs -> ObjType]
  BY DEF NoObject, ObjType, None
<1>9. mc \in McType
  BY <1>1, <1>4, <1>5, <1>8 DEF McType
<1>10. Asleep(mc.s, mc.known, mc.gone)
  BY <1>1, <1>2, <1>4, <1>5, <1>6, <1>7 DEF Asleep
<1>11. Dead(mc)
  BY <1>1, <1>10 DEF Dead
<1>12. up = FALSE /\ mgr = "unready" /\ full = FALSE /\ events = <<>>
  BY DEF Init
<1>13. /\ ~up /\ up \in BOOLEAN /\ full \in BOOLEAN /\ events \in Seq(Signal)
  <2>1. ~up /\ up \in BOOLEAN /\ full \in BOOLEAN
    BY <1>12, Zenon
  <2>2. <<>> \in Seq(Signal)
    OBVIOUS
  <2> QED  BY <1>12, <2>1, <2>2, Zenon
<1> QED  BY <1>9, <1>11, <1>12, <1>13 DEF Inv, Types

(* Every step keeps it.                                                     *)
LEMMA NextKeeps == Inv /\ [Next]_vars => Inv'
<1> SUFFICES ASSUME Inv, [Next]_vars  PROVE Inv'
  OBVIOUS
<1>1. CASE Start
  BY <1>1, StartKeeps
<1>2. CASE Crash
  BY <1>2, CrashKeeps
<1>3. CASE MgrReady
  BY <1>3, MgrReadyKeeps
<1>4. CASE RunCallback
  BY <1>4, RunCallbackKeeps
<1>5. ASSUME NEW given \in {None, 1}, AccountManagerCreateAccount(given)  PROVE Inv'
  BY <1>5, CreateAccountKeeps
<1>6. ASSUME NEW o \in Objs, AccountCall(o)  PROVE Inv'
  <2>1. CASE AccountRemove(o)
    BY <2>1, AccountRemoveKeeps
  <2>2. ASSUME NEW v \in {None, 1}, AccountUpdateParameters(o, v)  PROVE Inv'
    BY <2>2, UpdateParametersKeeps
  <2>3. ASSUME NEW b \in BOOLEAN, AccountSetEnabled(o, b)  PROVE Inv'
    BY <2>3, SetEnabledKeeps
  <2>4. ASSUME NEW b \in BOOLEAN, AccountSetAvatar(o, b)  PROVE Inv'
    BY <2>4, SetAvatarKeeps
  <2> QED  BY <1>6, <2>1, <2>2, <2>3, <2>4 DEF AccountCall
<1>7. ASSUME NEW o \in Objs, AvatarReply(o)  PROVE Inv'
  BY <1>7, AvatarReplyKeeps
<1>8. ASSUME NEW o \in Objs, PropertiesTimeout(o)  PROVE Inv'
  BY <1>8, PropertiesTimeoutKeeps
<1>9. CASE SsoCommitTimeout
  BY <1>9, SsoCommitTimeoutKeeps
<1>10. CASE Deliver
  BY <1>10, DeliverKeeps
<1>11. CASE OutsideStep
  <2>1. ASSUME NEW b \in BOOLEAN, OutsideCreate(b)  PROVE Inv'
    BY <2>1, OutsideCreateKeeps
  <2>2. ASSUME NEW v \in {None, 2}, OutsideSet("param", v)  PROVE Inv'
    <3>1. v \in 0..2 /\ "param" \in {"param", "Enabled"} /\ "param" # "Enabled"
      BY Constants
    <3> QED  BY <2>2, <3>1, OutsideSetKeeps
  <2>3. ASSUME NEW v \in {1, 2}, OutsideSet("Enabled", v)  PROVE Inv'
    <3>1. v \in 0..2 /\ v # None /\ "Enabled" \in {"param", "Enabled"}
      BY Constants
    <3> QED  BY <2>3, <3>1, OutsideSetKeeps
  <2>4. CASE OutsideDelete
    BY <2>4, OutsideDeleteKeeps
  <2> QED  BY <1>11, <2>1, <2>2, <2>3, <2>4 DEF OutsideStep
<1>12. CASE DiskChanges
  BY <1>12, DiskChangesKeeps
<1>13. CASE UNCHANGED vars
  BY <1>13 DEF vars, Inv, Types
<1> QED  BY <1>1, <1>2, <1>3, <1>4, <1>5, <1>6, <1>7, <1>8, <1>9, <1>10, <1>11, <1>12, <1>13
         DEF Next

(* The invariant holds throughout.                                          *)
THEOREM Invariance == Spec => []Inv
  BY InitKeeps, NextKeeps, PTL DEF Spec

-----------------------------------------------------------------------------
(* What follows from it.                                                    *)

(* The type invariant follows.                                              *)
LEMMA TypesFollow == Inv => TypeOK
<1> SUFFICES ASSUME Inv  PROVE TypeOK
  OBVIOUS
<1>1. Types /\ mc \in McType
  BY DEF Inv, Types
<1>2. mc.lock \in 0..Cardinality(Names)
  <2>1. Cardinality(Names) \in Nat
    BY NotNone, FS_CardinalityType
  <2>2. CASE up
    <3>1. mc.lock = Cardinality(Setups(mc)) /\ mc.lock <= Cardinality(Names)
      BY <2>2, Now DEF Objects, Lock
    <3>2. Cardinality(Setups(mc)) \in Nat
      BY SetupsFinite
    <3> QED  BY <2>1, <3>1, <3>2
  <2>3. CASE ~up
    BY <2>1, <2>3 DEF Inv, Dead
  <2> QED  BY <2>2, <2>3
<1>3. \A i \in DOMAIN mc.todo : mc.todo[i].obj \in Objs
  <2>1. \A i \in DOMAIN mc.todo : mc.todo[i] \in Callback
    BY <1>1 DEF McType
  <2> QED  BY <2>1, Callbacks
<1>4. \A i \in DOMAIN events : events[i] \in {"created", "updated", "toggled", "deleted"}
  BY <1>1 DEF Types, Signal
<1> QED  BY <1>1, <1>2, <1>3, <1>4 DEF TypeOK, Types, McType, ObjType

(* A flushed storage has written everything, to where it will be read.      *)
LEMMA FlushedIs ==
  ASSUME Inv, Flushed
  PROVE  LET s == mc.s IN
         /\ up /\ s \in StoreType /\ events = <<>>
         /\ Common(s, mc.known, <<>>) /\ \A n \in Names : Entry(s, mc.known, mc.gone, <<>>, n)
         /\ s.keys = s.disk.data /\ s.sso.dirty = {}
         /\ \A n \in Names : InSso(s, n) => Owns(s, n) \/ Knows(mc.known, n, {"kept"})
         /\ \A n \in Names : Owns(s, n) => InSso(s, n)
<1>1. up /\ events = <<>> /\ ~mc.failed /\ ~mc.s.sso.timer
  BY DEF Flushed, Idle
<1>2. /\ mc \in McType /\ Sound(mc.s, mc.known, mc.gone, <<>>) /\ Synced(mc.s, mc.failed)
  BY <1>1, Now DEF Handled
<1> DEFINE s == mc.s
<1>3. s \in StoreType
  BY <1>2 DEF McType
<1>4. /\ Common(s, mc.known, <<>>) /\ \A n \in Names : Entry(s, mc.known, mc.gone, <<>>, n)
  BY <1>2 DEF Sound
<1>5. ~s.save /\ ~s.sso.save
  BY <1>1, <1>2 DEF Synced
<1>6. s.keys = s.disk.data /\ s.sso.dirty = {} /\ Link(s, mc.known, <<>>)
  BY <1>4, <1>5 DEF Common
<1>7. s.ag.state \in {"never", "present", "deleted"} /\ ~Has(<<>>, "deleted")
  BY <1>3, StoreTypes DEF AgType, Has
<1>8. \A n \in Names : InSso(s, n) => Owns(s, n) \/ Knows(mc.known, n, {"kept"})
  BY <1>6, NotNone DEF Link, InSso, Owns
<1>9. \A n \in Names : Owns(s, n) => InSso(s, n)
  BY <1>6, <1>7, NotNone DEF Link, InSso, Owns
<1> QED  BY <1>1, <1>3, <1>4, <1>6, <1>8, <1>9

(* When nothing is in flight MC would load what it has.                     *)
LEMMA RestartFollows == Inv => RestartFindsTheSame
<1> SUFFICES ASSUME Inv  PROVE RestartFindsTheSame
  OBVIOUS
<1> DEFINE s == mc.s
           r == ReadKeyfile(s)
<1>1. ASSUME Flushed, NEW n \in Names
      PROVE  \/ Known(n, {"kept", "ghost", "unset", "unwritten"})
             \/ LoadedCache(r)[n].val = s.cache[n].val
  <2>1. /\ up /\ s \in StoreType
        /\ Common(s, mc.known, <<>>) /\ Entry(s, mc.known, mc.gone, <<>>, n)
        /\ s.keys = s.disk.data /\ s.sso.dirty = {}
        /\ InSso(s, n) => Owns(s, n) \/ Knows(mc.known, n, {"kept"})
        /\ Owns(s, n) => InSso(s, n)
    BY <1>1, FlushedIs
  <2>2. r.keys = s.disk.data /\ r.ag = s.ag
    <3>1. s.disk.kind \notin {"good", "system", "old"} => \A p \in Names : s.disk.data[p] = Nothing
      BY <2>1 DEF Common
    <3> HIDE DEF s
    <3> QED  BY <2>1, <3>1, ReadKeyfileIs
  <2> DEFINE group == s.keys[n]
             c == FromKeyfile(group)
             old == s.cache[n]
  <2>3. group \in Settled /\ old \in EntryType /\ s.ag.val \in [Settings -> 0..2]
    BY <2>1, StoreTypes DEF AgType
  <2>4. LoadedCache(r)[n] = IF InSso(s, n) THEN FromSso(c, s.ag.val) ELSE c
    BY <2>1, <2>2 DEF LoadedCache, InSso
  <2>5. c \in EntryType /\ c.val = group
    BY <2>3, FromKeyfileIs
  <2>6. CASE ~Owns(s, n)
    BY <2>1, <2>4, <2>5, <2>6 DEF Entry, InKeyfile, Knows, Known
  <2>7. CASE Owns(s, n)
    <3>1. InLibaccounts(s, mc.known, <<>>, n) /\ InSso(s, n) /\ s.ag.state = "present"
      BY <2>1, <2>7 DEF Entry, InSso
    <3>2. Mirrors(s, mc.known, n)
      BY <3>1 DEF InLibaccounts, Has
    <3> SUFFICES ASSUME ~Knows(mc.known, n, {"kept", "ghost", "unset", "unwritten"})
                 PROVE  LoadedCache(r)[n].val = old.val
      BY DEF Knows, Known
    <3>3. group = Nothing /\ \A k \in Settings : old.val[k] = s.ag.val[k]
      BY <2>1, <3>1, <3>2 DEF InLibaccounts, Mirrors, Knows
    <3> DEFINE f == FromSso(c, s.ag.val)
    <3>4. /\ f \in EntryType /\ f.val["manager"] = 1
          /\ \A k \in Settings : f.val[k] = IF s.ag.val[k] # None THEN s.ag.val[k] ELSE c.val[k]
      <4> DEFINE val == s.ag.val
      <4>1. c \in EntryType /\ val \in [Settings -> 0..2]
        BY <2>3, <2>5
      <4> HIDE DEF val, c
      <4> QED  BY <4>1, FromSsoIs DEF val
    <3> HIDE DEF f, c
    <3>5. \A k \in Settings : f.val[k] = old.val[k]
      BY <2>5, <3>3, <3>4, Constants, TheKeys
    <3>6. old.val["manager"] = 1
      BY <3>1 DEF InLibaccounts
    <3>7. f.val \in Settled /\ old.val \in Settled
      BY <2>3, <3>4 DEF EntryType
    <3>8. f.val = old.val
      <4>1. \A k \in Keys : f.val[k] = old.val[k]
        BY <3>4, <3>5, <3>6, TheKeys
      <4> QED  BY <3>7, <4>1 DEF Settled
    <3> QED  BY <2>4, <3>1, <3>8 DEF f
  <2> QED  BY <2>6, <2>7
<1>2. ASSUME NEW n \in Names, Owns(s, n)
      PROVE  Known(n, {"kept", "unwritten"}) \/ s.keys[n] = Nothing
  <2>1. CASE up
    <3>1. Entry(s, mc.known, mc.gone, events, n)
      BY <2>1, Now DEF Sound
    <3> QED  BY <1>2, <3>1 DEF Entry, InLibaccounts, Knows, Known
  <2>2. CASE ~up
    <3>1. s = Stopped(s) /\ s \in StoreType
      BY <2>2 DEF Inv, Dead, Asleep, Types, McType
    <3> HIDE DEF s
    <3>2. Stopped(s).keys = [p \in Names |-> Nothing]
      BY <3>1 DEF Stopped, StoreType
    <3> QED  BY <3>1, <3>2
  <2> QED  BY <2>1, <2>2
<1>3. Flushed => LET again == LoadedCache(ReadKeyfile(mc.s))
                 IN  \A n \in Names :
                        \/ Known(n, {"kept", "ghost", "unset", "unwritten"})
                        \/ again[n].val = mc.s.cache[n].val
  BY <1>1
<1> QED  BY <1>2, <1>3 DEF RestartFindsTheSame

(* What was removed is forgotten.                                           *)
LEMMA DeletedFollows == Inv => DeletedStaysDeleted
<1> SUFFICES ASSUME Inv, Flushed, NEW n \in mc.gone
             PROVE  \/ Known(n, {"kept", "zombie", "unwritten"})
                    \/ /\ ~InSso(mc.s, n) /\ mc.s.disk.data[n] = Nothing
                       /\ n \notin Accounts(mc.s)
  BY DEF DeletedStaysDeleted
<1>1. n \in Names
  BY DEF Inv, Types, McType
<1>2. /\ Entry(mc.s, mc.known, mc.gone, <<>>, n) /\ mc.s.keys = mc.s.disk.data
  BY <1>1, FlushedIs
<1>3. Excused(mc.known, n) \/ Forgotten(mc.s, n)
  BY <1>2 DEF Entry
<1>4. CASE Excused(mc.known, n)
  BY <1>4 DEF Excused, Knows, Known
<1>5. CASE Forgotten(mc.s, n)
  <2>1. mc.s.cache[n].val = Nothing /\ ~InSso(mc.s, n) /\ mc.s.keys[n] = Nothing
    BY <1>5 DEF Forgotten
  <2>2. n \notin Accounts(mc.s)
    BY <2>1, Constants DEF Accounts, Attributes
  <2> QED  BY <1>2, <2>1, <2>2
<1> QED  BY <1>3, <1>4, <1>5

(* Each account of the cache has one object that is not removed.            *)
LEMMA EntryFollows == Inv => EntryHasAccount
<1> SUFFICES ASSUME Inv, Idle, NEW n \in Names
             PROVE  Cardinality(Living(n)) = IF n \in Plausible(mc.s) THEN 1 ELSE 0
  BY TypesFollow DEF EntryHasAccount
<1>1. up /\ Objects(mc, mgr)
  BY Now DEF Idle
<1>2. Living(n) = {o \in Objs : Lives(mc, o) /\ mc.obj[o].name = n}
  BY DEF Living, Lives, Alive
<1>3. n \in Plausible(mc.s) <=> \E o \in Objs : Lives(mc, o) /\ mc.obj[o].name = n
  BY <1>1, PlausibleIs DEF Objects, Managed
<1>4. CASE n \in Plausible(mc.s)
  <2>1. PICK o \in Objs : Lives(mc, o) /\ mc.obj[o].name = n
    BY <1>3, <1>4
  <2>2. Living(n) = {o}
    BY <1>1, <1>2, <2>1 DEF Objects, Apiece
  <2> QED  BY <1>4, <2>2, FS_Singleton
<1>5. CASE n \notin Plausible(mc.s)
  BY <1>2, <1>3, <1>5, FS_EmptySet
<1> QED  BY <1>4, <1>5

(* The object of the table is the one that lives, and current.              *)
LEMMA CurrentFollows == Inv => AccountIsCurrent
<1> SUFFICES ASSUME Inv, Idle, NEW n \in Names, mc.hash[n] # None
             PROVE  LET account == mc.obj[mc.hash[n]]
                    IN  /\ mgr # "unready" =>
                              /\ account.loaded /\ account.reg
                              /\ account.valid = ParametersOk(mc.s, n)
                                 \/ Known(n, {"altered"})
                        /\ \/ \E i \in DOMAIN mc.todo : mc.todo[i].cb = "altered"
                           \/ Known(n, {"missed"})
                           \/ account.enabled = (mc.s.cache[n].val["Enabled"] = 2)
  BY DEF AccountIsCurrent
<1> DEFINE o == mc.hash[n]
<1>1. up /\ mc \in McType /\ Objects(mc, mgr) /\ \A p \in Objs : Current(mc, mgr, p)
  BY Now DEF Idle
<1>2. o \in Objs /\ Lives(mc, o) /\ Alive(mc, o) /\ mc.obj[o].name = n
  BY <1>1 DEF Objects, McType, Lives
<1> HIDE DEF o
<1>3. /\ mc.obj[o].loaded => \/ mc.obj[o].valid = ParametersOk(mc.s, n)
                             \/ Known(n, {"altered"})
      /\ \/ mc.obj[o].enabled = (mc.s.cache[n].val["Enabled"] = 2)
         \/ Known(n, {"missed"})
         \/ Alt(o, "Enabled") \in Pend(mc)
  BY <1>1, <1>2 DEF Current, ParametersOk, Knows, Known
<1>4. Alt(o, "Enabled") \in Pend(mc) => \E i \in DOMAIN mc.todo : mc.todo[i].cb = "altered"
  BY Callbacks DEF Pend
<1>5. ASSUME mgr # "unready"  PROVE mc.obj[o].loaded /\ mc.obj[o].reg
  <2>1. Pend(mc) = {}
    BY <1>5 DEF Idle, Pend
  <2> QED  BY <1>1, <1>2, <2>1 DEF Objects, Object
<1> QED  BY <1>3, <1>4, <1>5 DEF o

-----------------------------------------------------------------------------
(* The theorems.                                                            *)

(* Every variable has its type throughout.  In particular the lock of       *)
(* _mcd_account_manager_setup never goes below zero and never exceeds the   *)
(* number of accounts, however accounts arrive, fail and are freed.         *)
THEOREM TypeCorrectness == Spec => []TypeOK
  BY Invariance, TypesFollow, PTL

(* mcd-storage.c and the two plugins: once nothing is in flight a restart   *)
(* would load exactly the settings that the cache has, and no account of    *)
(* libaccounts has a group in the keyfile, but for the named defects.       *)
THEOREM Restarts == Spec => []RestartFindsTheSame
  BY Invariance, RestartFollows, PTL

(* mcd_account_delete and _sso_deleted: an account that was removed, from   *)
(* either side, is in neither store nor in the cache any more, also after   *)
(* crashes and restarts, but for the named defects.                         *)
THEOREM Deletions == Spec => []DeletedStaysDeleted
  BY Invariance, DeletedFollows, PTL

(* mcd_account_new, complete_account_creation, created_cb, deleted_cb and   *)
(* mcd_account_delete: a complete entry of the cache has exactly one        *)
(* McdAccount, whatever fails half-way and whatever waits for the           *)
(* connection manager.                                                      *)
THEOREM Entries == Spec => []EntryHasAccount
  BY Invariance, EntryFollows, PTL

(* on_manager_ready, _mcd_account_set_enabled, altered_one_cb and           *)
(* toggled_cb: the accounts of the table are loaded and on the bus once the *)
(* connection manager is known, and what they hold of Valid and Enabled is  *)
(* what is stored, but for the named defects.                               *)
THEOREM AccountsAreCurrent == Spec => []AccountIsCurrent
  BY Invariance, CurrentFollows, PTL
=============================================================================
