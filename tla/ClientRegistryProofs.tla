------------------------ MODULE ClientRegistryProofs ------------------------
(***************************************************************************)
(* For any set of clients, with any interfaces, files and faults: both     *)
(* locks of the registry are exact (LocksExact).  The startup lock counts  *)
(* the clients that are not ready, whether one is ready depends on its     *)
(* ready lock, and that one on the calls in flight, so that the invariant  *)
(* (RegistryInv) is about all of them and the types together.  It does not *)
(* hold inside a callback, which runs with a lock of its proxy that no     *)
(* call stands for; InCallback is what holds there, and each C function    *)
(* has a lemma that it preserves one or the other.                         *)
(*                                                                         *)
(* From it follow, with a second invariant (Settled) about each client     *)
(* alone, what connections are told (CapsTold) and what is known of the    *)
(* channels that are handled already (HandledBeforeDispatching).           *)
(***************************************************************************)
EXTENDS ClientRegistry, FiniteSetTheorems, TLAPS

(* The locks, the list and all of the proxies are left alone.               *)
Same(s, t) ==
  /\ t.proxy = s.proxy /\ t.startup_lock = s.startup_lock
  /\ t.startup_completed = s.startup_completed /\ t.list = s.list

(* What is told to a connection is no business of the locks.                *)
LEMMA CapabilitiesChangedFrame ==
  ASSUME NEW s \in WorldType, NEW c \in Client
  PROVE  CapabilitiesChanged(s, c) \in WorldType /\ Same(s, CapabilitiesChanged(s, c))
  BY DEF CapabilitiesChanged, WorldType, Same, ProxyType

(* Nor is what is told to it of all clients.                                *)
LEMMA TellAllCapsFrame ==
  ASSUME NEW s \in WorldType
  PROVE  TellAllCaps(s) \in WorldType /\ Same(s, TellAllCaps(s))
  BY DEF TellAllCaps, WorldType, Same, ProxyType

(* Recovery calls the Observer and leaves its proxy alone.                  *)
LEMMA RecoverFrame ==
  ASSUME NEW s \in WorldType, NEW c \in Client
  PROVE  NeedRecovery(s, c) \in WorldType /\ Same(s, NeedRecovery(s, c))
  BY DEF NeedRecovery, RecoverObserver, WorldType, Same, ProxyType

(* A channel that a client handles already is recorded in the handler map   *)
(* only.                                                                    *)
LEMMA HandlingFrame ==
  ASSUME NEW s \in WorldType, NEW c \in Client
  PROVE  IsHandlingChannel(s, c) \in WorldType /\ Same(s, IsHandlingChannel(s, c))
<1>0. s.proxy[c].unique_name \in Process \cup {Nobody, Unknown}
  BY DEF WorldType, ProxyType
<1>1. s.proxy[c].unique_name > Nobody => s.proxy[c].unique_name \in Process
  BY <1>0 DEF Nobody, Unknown
<1>2. CASE s.proxy[c].unique_name > Nobody
  BY <1>1, <1>2 DEF IsHandlingChannel, WorldType, Same
<1>3. CASE ~(s.proxy[c].unique_name > Nobody)
  BY <1>3 DEF IsHandlingChannel, Same
<1> QED  BY <1>2, <1>3

(* The clients that hold a startup lock.                                    *)
NotReady(s) == {c \in Client : s.proxy[c].known /\ ~s.proxy[c].ready}

(* A condition, counted.                                                    *)
One(b) == IF b THEN 1 ELSE 0

(* A call to the client is in flight.                                       *)
Asked(p, call) == p.calls[call] # Unknown

(* The calls in flight.                                                     *)
Pending(p) ==
  One(Asked(p, "Interfaces")) + One(Asked(p, "Approver"))
    + One(Asked(p, "Handler")) + One(Asked(p, "Observer"))

(* The ready lock of a proxy counts its calls in flight, the introspection  *)
(* that is still to start, and the locks that the callback that runs holds. *)
ProxyLocksInv(p, held) ==
  /\ ~p.known => \A call \in Call : ~Asked(p, call)
  /\ p.known =>
       /\ p.ready_lock = Pending(p) + (IF p.introspect_started THEN 0 ELSE 1) + held
       /\ p.ready <=> p.ready_lock = 0
       /\ ~p.introspect_started => \A call \in Call : ~Asked(p, call)
       /\ Asked(p, "Interfaces") => \A call \in Call \ {"Interfaces"} : ~Asked(p, call)

(* The startup lock counts the clients that are not ready, and the          *)
(* enumeration.                                                             *)
StartupInv(s) ==
  ~s.startup_completed => s.startup_lock = Cardinality(NotReady(s)) + One(s.list # "done")

(* The proxies but that of c.                                               *)
Others(s, c) == \A d \in Client \ {c} : ProxyLocksInv(s.proxy[d], 0)

(* The inductive invariant.                                                 *)
RegistryInv(s) ==
  s \in WorldType /\ StartupInv(s) /\ \A c \in Client : ProxyLocksInv(s.proxy[c], 0)

(* The invariant is about what Same keeps, and the types.                   *)
LEMMA SameKeepsInv ==
  ASSUME NEW s, RegistryInv(s), NEW t \in WorldType, Same(s, t)
  PROVE  RegistryInv(t)
  BY DEF RegistryInv, Same, StartupInv, NotReady

(* Clients can be counted.                                                  *)
LEMMA NotReadyIsFinite ==
  ASSUME NEW s
  PROVE  IsFiniteSet(NotReady(s)) /\ Cardinality(NotReady(s)) \in Nat
  BY ClientsAssumption, FS_Subset, FS_CardinalityType DEF NotReady

(* DecStartupLock, when the lock counts one more than n clients and the     *)
(* enumeration.                                                             *)
LEMMA DecStartup ==
  ASSUME NEW s \in WorldType, NEW n \in Nat,
         ~s.startup_completed => s.startup_lock = n + One(s.list # "done") + 1
  PROVE  /\ DecStartupLock(s) \in WorldType
         /\ DecStartupLock(s).proxy = s.proxy /\ DecStartupLock(s).list = s.list
         /\ ~DecStartupLock(s).startup_completed =>
              DecStartupLock(s).startup_lock = n + One(s.list # "done")
<1> DEFINE t == [s EXCEPT !.startup_lock = 0, !.startup_completed = TRUE]
<1>1. CASE s.startup_completed
  BY <1>1 DEF DecStartupLock
<1>2. CASE ~s.startup_completed /\ s.startup_lock = 1
  <2>1. t \in WorldType /\ t.proxy = s.proxy /\ t.list = s.list /\ t.startup_completed
    BY DEF WorldType
  <2>2. DecStartupLock(s) = RegistryReady(t)
    BY <1>2 DEF DecStartupLock
  <2>3. RegistryReady(t) \in WorldType /\ Same(t, RegistryReady(t))
    BY <2>1, TellAllCapsFrame DEF RegistryReady, Same
  <2> QED  BY <2>1, <2>2, <2>3 DEF Same
<1>3. CASE ~s.startup_completed /\ s.startup_lock # 1
  <2> DEFINE u == [s EXCEPT !.startup_lock = @ - 1]
  <2>1. DecStartupLock(s) = u
    BY <1>3 DEF DecStartupLock
  <2>2. s.startup_lock - 1 = n + One(s.list # "done") /\ s.startup_lock - 1 \in Nat
    BY <1>3 DEF One
  <2>3. u \in WorldType /\ u.proxy = s.proxy /\ u.list = s.list /\ u.startup_lock = s.startup_lock - 1
    BY <2>2 DEF WorldType
  <2> QED  BY <2>1, <2>2, <2>3
<1> QED  BY <1>1, <1>2, <1>3

(* The proxy after a callback that held one lock.                           *)
Released(p) ==
  IF p.ready_lock > 1 THEN [p EXCEPT !.ready_lock = @ - 1]
  ELSE [p EXCEPT !.ready_lock = 0, !.ready = TRUE]

(* Releasing the lock that the callback holds makes the lock exact, and the *)
(* proxy ready if that was the last one.                                    *)
LEMMA ReleasedInv ==
  ASSUME NEW p \in ProxyType, ProxyLocksInv(p, 1), p.known, p.introspect_started
  PROVE  /\ Released(p) \in ProxyType /\ ProxyLocksInv(Released(p), 0)
         /\ Released(p).known /\ ~p.ready
         /\ Released(p).ready <=> p.ready_lock <= 1
<1>1. p.ready_lock = Pending(p) + 1 /\ Pending(p) \in Nat /\ ~p.ready
  BY DEF ProxyLocksInv, Pending, One
<1>2. CASE p.ready_lock > 1
  <2>1. Released(p) = [p EXCEPT !.ready_lock = @ - 1]
    BY <1>2 DEF Released
  <2>2. Released(p).calls = p.calls
    BY <2>1 DEF ProxyType
  <2>3. Pending(Released(p)) = Pending(p)
    BY <2>2 DEF Pending, Asked
  <2>4. /\ Released(p).ready_lock = p.ready_lock - 1 /\ Released(p).ready = p.ready
        /\ Released(p).known /\ Released(p).introspect_started
    BY <2>1 DEF ProxyType
  <2>5. p.ready_lock - 1 \in Nat
    BY <1>1, <1>2
  <2>6. Released(p) \in ProxyType
    BY <2>1, <2>5 DEF ProxyType
  <2>7. Released(p).ready_lock = Pending(Released(p)) + (IF Released(p).introspect_started THEN 0 ELSE 1) + 0
    BY <1>1, <2>3, <2>4 DEF One
  <2>8. ProxyLocksInv(Released(p), 0)
    BY <1>1, <1>2, <2>2, <2>4, <2>7 DEF ProxyLocksInv, Asked
  <2>9. ~Released(p).ready
    BY <1>1, <2>4
  <2> QED  BY <1>1, <1>2, <2>4, <2>6, <2>8, <2>9
<1>3. CASE ~(p.ready_lock > 1)
  <2>1. Released(p) = [p EXCEPT !.ready_lock = 0, !.ready = TRUE]
    BY <1>3 DEF Released
  <2>2. Released(p).calls = p.calls
    BY <2>1 DEF ProxyType
  <2>3. Pending(Released(p)) = Pending(p)
    BY <2>2 DEF Pending, Asked
  <2>4. Pending(p) = 0 /\ p.ready_lock = 1
    BY <1>1, <1>3
  <2>5. /\ Released(p).ready_lock = 0 /\ Released(p).ready
        /\ Released(p).known /\ Released(p).introspect_started
    BY <2>1 DEF ProxyType
  <2>a. [p EXCEPT !.ready_lock = 0] \in ProxyType
    BY DEF ProxyType
  <2>6. Released(p) \in ProxyType
    BY <2>1, <2>a DEF ProxyType
  <2>7. Released(p).ready_lock = Pending(Released(p)) + (IF Released(p).introspect_started THEN 0 ELSE 1) + 0
    BY <2>3, <2>4, <2>5 DEF One
  <2>8. ProxyLocksInv(Released(p), 0)
    BY <1>1, <1>3, <2>2, <2>5, <2>7 DEF ProxyLocksInv, Asked
  <2> QED  BY <1>1, <1>3, <2>4, <2>5, <2>6, <2>8
<1> QED  BY <1>2, <1>3

(* The proxy of c is replaced.                                              *)
SetProxy(s, c, q) == [s EXCEPT !.proxy[c] = q]

(* That changes this proxy and nothing else, nor any type.                  *)
LEMMA SetProxyWorld ==
  ASSUME NEW s \in WorldType, NEW c \in Client, NEW q \in ProxyType
  PROVE  /\ SetProxy(s, c, q) \in WorldType
         /\ SetProxy(s, c, q).proxy[c] = q
         /\ \A d \in Client \ {c} : SetProxy(s, c, q).proxy[d] = s.proxy[d]
         /\ SetProxy(s, c, q).startup_lock = s.startup_lock
         /\ SetProxy(s, c, q).startup_completed = s.startup_completed
         /\ SetProxy(s, c, q).list = s.list
         /\ SetProxy(s, c, q).owner = s.owner
  BY DEF SetProxy, WorldType

(* The types of what the lemmas look at most; an owner is always known.     *)
LEMMA WorldFacts ==
  ASSUME NEW s \in WorldType, NEW c \in Client
  PROVE  /\ s.proxy[c] \in ProxyType /\ s.startup_lock \in Nat
         /\ s.owner[c] \in Process \cup {Nobody} /\ s.owner[c] # Unknown
         /\ s.owner[c] \in Process \cup {Nobody, Unknown}
<1>1. s.proxy[c] \in ProxyType /\ s.startup_lock \in Nat /\ s.owner[c] \in Process \cup {Nobody}
  BY DEF WorldType
<1>2. Unknown \notin Process \cup {Nobody}
  BY ClientsAssumption DEF Process, Nobody, Unknown
<1> QED  BY <1>1, <1>2

(* What holds while a callback of c runs: it holds one ready lock.          *)
InCallback(s, c) ==
  /\ s \in WorldType /\ StartupInv(s) /\ Others(s, c)
  /\ ProxyLocksInv(s.proxy[c], 1) /\ s.proxy[c].known /\ s.proxy[c].introspect_started

(* The two ways in which a callback ends: it gives its lock of the proxy    *)
(* back, and if it was the last one the client is ready.                    *)
LEMMA DecReadyForm ==
  ASSUME NEW s, NEW c \in Client, InCallback(s, c)
  PROVE  IF s.proxy[c].ready_lock > 1
         THEN DecReadyLock(s, c) = SetProxy(s, c, Released(s.proxy[c]))
         ELSE DecReadyLock(s, c) \in
                {DecStartupLock(SetProxy(s, c, Released(s.proxy[c]))),
                 NeedRecovery(DecStartupLock(SetProxy(s, c, Released(s.proxy[c]))), c)}
<1> DEFINE p == s.proxy[c]
           q == Released(p)
           t == SetProxy(s, c, q)
<1>1. p \in ProxyType /\ s \in WorldType
  BY WorldFacts DEF InCallback
<1>2. q \in ProxyType /\ ~p.ready
  BY ReleasedInv, <1>1 DEF InCallback
<1> HIDE DEF t, q
<1>7. CASE p.ready_lock > 1
  <2>1. DecReadyLock(s, c) = t
    BY <1>1, <1>2, <1>7 DEF DecReadyLock, t, q, SetProxy, Released, WorldType, ProxyType
  <2> QED  BY <1>7, <2>1 DEF t, q
<1>8. CASE ~(p.ready_lock > 1)
  <2>1. t = [s EXCEPT !.proxy[c].ready_lock = 0, !.proxy[c].ready = TRUE]
    <3> DEFINE v == [s EXCEPT !.proxy[c].ready_lock = 0]
    <3>1. v = SetProxy(s, c, [p EXCEPT !.ready_lock = 0])
      BY <1>1 DEF SetProxy, WorldType, ProxyType
    <3>2. [p EXCEPT !.ready_lock = 0] \in ProxyType
      BY <1>1 DEF ProxyType
    <3> HIDE DEF v
    <3>3. v \in WorldType /\ v.proxy[c] = [p EXCEPT !.ready_lock = 0]
      BY <1>1, <3>1, <3>2, SetProxyWorld
    <3>4. [v EXCEPT !.proxy[c].ready = TRUE] = [v EXCEPT !.proxy[c] = q]
      BY <1>1, <1>8, <3>3 DEF WorldType, q, Released, ProxyType
    <3>5. [v EXCEPT !.proxy[c] = q] = t
      BY <1>1, <1>2, <3>1 DEF t, SetProxy, WorldType
    <3>6. [s EXCEPT !.proxy[c].ready_lock = 0, !.proxy[c].ready = TRUE] = [v EXCEPT !.proxy[c].ready = TRUE]
      BY DEF v
    <3> QED  BY <3>4, <3>5, <3>6
  <2>2. DecReadyLock(s, c) \in {DecStartupLock(t), NeedRecovery(DecStartupLock(t), c)}
    BY <1>2, <1>8, <2>1 DEF DecReadyLock
  <2> QED  BY <1>8, <2>2 DEF t, q
<1> QED  BY <1>7, <1>8

(* The end of every callback: DecReadyLock gives that lock back, and with   *)
(* the last one the startup lock of the client.                             *)
LEMMA DecReadyInv ==
  ASSUME NEW s, NEW c \in Client, InCallback(s, c)
  PROVE  RegistryInv(DecReadyLock(s, c))
<1> DEFINE p == s.proxy[c]
           q == Released(p)
           t == SetProxy(s, c, q)
<1>1. p \in ProxyType /\ s \in WorldType /\ StartupInv(s) /\ p.known /\ s.startup_lock \in Nat
  BY WorldFacts DEF InCallback
<1>2. q \in ProxyType /\ ProxyLocksInv(q, 0) /\ q.known /\ ~p.ready /\ (q.ready <=> p.ready_lock <= 1)
  BY ReleasedInv, <1>1 DEF InCallback
<1>3. p.ready_lock \in Nat
  BY <1>1 DEF ProxyType
<1>4. /\ t \in WorldType /\ t.proxy[c] = q /\ \A d \in Client \ {c} : t.proxy[d] = s.proxy[d]
      /\ t.startup_lock = s.startup_lock /\ t.startup_completed = s.startup_completed /\ t.list = s.list
  BY <1>1, <1>2, SetProxyWorld
<1>5. \A d \in Client : ProxyLocksInv(t.proxy[d], 0)
  BY <1>2, <1>4 DEF InCallback, Others
<1>6. c \in NotReady(s)
  BY <1>1, <1>2 DEF NotReady
<1> HIDE DEF t, q
<1>7. CASE p.ready_lock > 1
  <2>1. DecReadyLock(s, c) = t
    BY <1>7, DecReadyForm DEF t, q
  <2>2. NotReady(t) = NotReady(s)
    BY <1>1, <1>2, <1>3, <1>4, <1>7 DEF NotReady
  <2> QED  BY <1>1, <1>4, <1>5, <2>1, <2>2 DEF RegistryInv, StartupInv
<1>8. CASE ~(p.ready_lock > 1)
  <2> DEFINE u == DecStartupLock(t)
  <2>2. NotReady(t) = NotReady(s) \ {c}
    BY <1>2, <1>3, <1>4, <1>8 DEF NotReady
  <2>3. Cardinality(NotReady(s)) = Cardinality(NotReady(t)) + 1
    <3>1. Cardinality(NotReady(s) \ {c}) = Cardinality(NotReady(s)) - 1
      BY <1>6, NotReadyIsFinite, FS_RemoveElement
    <3> QED  BY <2>2, <3>1, NotReadyIsFinite
  <2>4. ~t.startup_completed =>
          t.startup_lock = Cardinality(NotReady(t)) + One(t.list # "done") + 1
    BY <1>1, <1>4, <2>3, NotReadyIsFinite DEF StartupInv, One
  <2>5. u \in WorldType /\ u.proxy = t.proxy /\ u.list = t.list /\ StartupInv(u)
    <3> DEFINE n == Cardinality(NotReady(t))
    <3>1. n \in Nat
      BY NotReadyIsFinite
    <3>2. u.proxy = t.proxy => NotReady(u) = NotReady(t)
      BY DEF NotReady
    <3> HIDE DEF u
    <3>3. /\ u \in WorldType /\ u.proxy = t.proxy /\ u.list = t.list
          /\ ~u.startup_completed => u.startup_lock = n + One(t.list # "done")
      <4> HIDE DEF n
      <4> QED  BY <1>4, <2>4, <3>1, DecStartup DEF n, u
    <3> QED  BY <3>2, <3>3 DEF StartupInv
  <2>6. RegistryInv(u)
    BY <1>5, <2>5 DEF RegistryInv
  <2>7. RegistryInv(NeedRecovery(u, c))
    BY <2>5, <2>6, RecoverFrame, SameKeepsInv
  <2>8. DecReadyLock(s, c) = u \/ DecReadyLock(s, c) = NeedRecovery(u, c)
    BY <1>8, DecReadyForm DEF t, q
  <2> QED  BY <2>6, <2>7, <2>8
<1> QED  BY <1>7, <1>8

(* What Same keeps is also enough inside a callback.                        *)
LEMMA SameKeepsCallback ==
  ASSUME NEW s, NEW c \in Client, InCallback(s, c), NEW t \in WorldType, Same(s, t)
  PROVE  InCallback(t, c)
  BY DEF InCallback, Same, StartupInv, NotReady, Others

(* A proxy whose locks are exact may replace another one inside a callback. *)
LEMMA UpdateProxy ==
  ASSUME NEW s \in WorldType, NEW c \in Client, StartupInv(s), Others(s, c),
         s.proxy[c].known, ~s.proxy[c].ready,
         NEW q \in ProxyType, ProxyLocksInv(q, 1), q.known, q.introspect_started
  PROVE  InCallback(SetProxy(s, c, q), c)
<1> DEFINE t == SetProxy(s, c, q)
<1>1. /\ t \in WorldType /\ t.proxy[c] = q /\ \A d \in Client \ {c} : t.proxy[d] = s.proxy[d]
      /\ t.startup_lock = s.startup_lock /\ t.startup_completed = s.startup_completed /\ t.list = s.list
  BY SetProxyWorld
<1> HIDE DEF t
<1>2. ~q.ready
  BY DEF ProxyLocksInv, Pending, One
<1>3. NotReady(t) = NotReady(s)
  BY <1>1, <1>2 DEF NotReady
<1>4. StartupInv(t)
  BY <1>1, <1>3 DEF StartupInv
<1>5. Others(t, c)
  BY <1>1 DEF Others
<1>6. InCallback(t, c)
  BY <1>1, <1>4, <1>5 DEF InCallback
<1> QED  BY <1>6 DEF t

(* The proxy with one call more.                                            *)
Calling(p, call, o) == [p EXCEPT !.ready_lock = @ + 1, !.calls[call] = o]

(* A call that was not in flight takes one lock more.                       *)
LEMMA CallingInv ==
  ASSUME NEW p \in ProxyType, ProxyLocksInv(p, 1), p.known, p.introspect_started,
         NEW call \in Call, NEW o \in Process \cup {Nobody}, o # Unknown,
         ~Asked(p, "Interfaces"), ~Asked(p, call),
         call = "Interfaces" => \A other \in Call : ~Asked(p, other)
  PROVE  /\ Calling(p, call, o) \in ProxyType /\ ProxyLocksInv(Calling(p, call, o), 1)
         /\ Calling(p, call, o).known /\ Calling(p, call, o).introspect_started
         /\ Calling(p, call, o).calls = [p.calls EXCEPT ![call] = o]
<1> DEFINE q == Calling(p, call, o)
<1>1. /\ q.known /\ q.introspect_started /\ q.calls = [p.calls EXCEPT ![call] = o]
      /\ q.ready_lock = p.ready_lock + 1 /\ q.ready = p.ready
  BY DEF Calling, ProxyType
<1>2. q \in ProxyType
  <2>1. p.ready_lock + 1 \in Nat /\ [p.calls EXCEPT ![call] = o] \in [Call -> Process \cup {Nobody, Unknown}]
    BY DEF ProxyType
  <2>2. [p EXCEPT !.ready_lock = @ + 1] \in ProxyType
    BY <2>1 DEF ProxyType
  <2>3. q = [[p EXCEPT !.ready_lock = @ + 1] EXCEPT !.calls = [p.calls EXCEPT ![call] = o]]
    BY DEF Calling, ProxyType
  <2> QED  BY <2>1, <2>2, <2>3 DEF ProxyType
<1>3. p.ready_lock = Pending(p) + 1 /\ Pending(p) \in Nat /\ ~p.ready
  BY DEF ProxyLocksInv, Pending, One
<1> HIDE DEF q
<1>4. \A other \in Call : Asked(q, other) <=> other = call \/ Asked(p, other)
  BY <1>1 DEF Asked, ProxyType
<1>5. Pending(q) = Pending(p) + 1
  BY <1>4 DEF Pending, One, Call
<1>6. Asked(q, "Interfaces") => \A other \in Call \ {"Interfaces"} : ~Asked(q, other)
  BY <1>4 DEF Call
<1>7. q.ready_lock = Pending(q) + 1 /\ ~q.ready
  BY <1>1, <1>3, <1>5
<1>8. Pending(q) \in Nat
  BY <1>3, <1>5
<1>9. ProxyLocksInv(q, 1)
  BY <1>1, <1>6, <1>7, <1>8 DEF ProxyLocksInv
<1> QED  BY <1>1, <1>2, <1>9 DEF q

(* CallClient changes the proxy, which is not ready while a callback runs.  *)
LEMMA CallClientForm ==
  ASSUME NEW s, NEW c \in Client, InCallback(s, c), NEW call \in Call
  PROVE  CallClient(s, c, call) = SetProxy(s, c, Calling(s.proxy[c], call, s.owner[c]))
<1> DEFINE p == s.proxy[c]
           q == Calling(p, call, s.owner[c])
           t == SetProxy(s, c, q)
<1>1. s \in WorldType /\ p \in ProxyType /\ p.known /\ ProxyLocksInv(p, 1)
      /\ p.introspect_started /\ s.owner[c] \in Process \cup {Nobody}
  BY WorldFacts DEF InCallback
<1>2. ~p.ready
  BY <1>1 DEF ProxyLocksInv, Pending, One
<1>3. q \in ProxyType
  <2> DEFINE lock == p.ready_lock + 1
             calls == [p.calls EXCEPT ![call] = s.owner[c]]
  <2>1. lock \in Nat /\ calls \in [Call -> Process \cup {Nobody, Unknown}]
    BY <1>1 DEF ProxyType
  <2>2. q = [p EXCEPT !.ready_lock = lock, !.calls = calls]
    BY <1>1 DEF Calling, ProxyType
  <2> HIDE DEF lock, calls, q
  <2> QED  BY <1>1, <2>1, <2>2 DEF ProxyType
<1>4. CallClient(s, c, call) = t
  <2> DEFINE v == [s EXCEPT !.proxy[c].ready_lock = @ + 1]
  <2>1. IncReadyLock(s, c) = v
    BY <1>2 DEF IncReadyLock
  <2>2. v = SetProxy(s, c, [p EXCEPT !.ready_lock = @ + 1])
    BY <1>1 DEF SetProxy, WorldType, ProxyType
  <2>3. v.proxy[c] = [p EXCEPT !.ready_lock = @ + 1] /\ v \in WorldType
    <3>1. [p EXCEPT !.ready_lock = @ + 1] \in ProxyType
      BY <1>1 DEF ProxyType
    <3> HIDE DEF v
    <3> QED  BY <1>1, <2>2, <3>1, SetProxyWorld
  <2> HIDE DEF v
  <2>4. CallClient(s, c, call) = [v EXCEPT !.proxy[c].calls[call] = s.owner[c]]
    BY <2>1 DEF CallClient
  <2>5. [v EXCEPT !.proxy[c].calls[call] = s.owner[c]] = [v EXCEPT !.proxy[c] = q]
    BY <1>1, <2>3 DEF WorldType, Calling, ProxyType
  <2>6. [v EXCEPT !.proxy[c] = q] = t
    BY <1>1, <1>3, <2>2 DEF SetProxy, WorldType
  <2> QED  BY <2>4, <2>5, <2>6
<1> QED  BY <1>4

(* CallClient, which is only called inside a callback.                      *)
LEMMA CallClientInv ==
  ASSUME NEW s, NEW c \in Client, InCallback(s, c), NEW call \in Call,
         ~Asked(s.proxy[c], "Interfaces"), ~Asked(s.proxy[c], call),
         call = "Interfaces" => \A other \in Call : ~Asked(s.proxy[c], other)
  PROVE  /\ InCallback(CallClient(s, c, call), c)
         /\ \A other \in Call \ {call} :
               Asked(CallClient(s, c, call).proxy[c], other) <=> Asked(s.proxy[c], other)
<1> DEFINE p == s.proxy[c]
           q == Calling(p, call, s.owner[c])
           t == SetProxy(s, c, q)
<1>1. s \in WorldType /\ StartupInv(s) /\ Others(s, c) /\ p \in ProxyType /\ p.known
      /\ p.introspect_started /\ ProxyLocksInv(p, 1)
      /\ s.owner[c] \in Process \cup {Nobody} /\ s.owner[c] # Unknown
  BY WorldFacts DEF InCallback
<1>2. ~p.ready
  BY <1>1 DEF ProxyLocksInv, Pending, One
<1>3. /\ q \in ProxyType /\ ProxyLocksInv(q, 1) /\ q.known /\ q.introspect_started
      /\ q.calls = [p.calls EXCEPT ![call] = s.owner[c]]
  BY <1>1, CallingInv
<1>4. t.proxy[c] = q
  BY <1>1, <1>3, SetProxyWorld
<1>5. CallClient(s, c, call) = t
  BY CallClientForm
<1> HIDE DEF q, t
<1>6. InCallback(t, c)
  BY <1>1, <1>2, <1>3, UpdateProxy DEF t
<1>7. \A other \in Call \ {call} : Asked(q, other) <=> Asked(p, other)
  BY <1>1, <1>3 DEF Asked, ProxyType
<1> QED  BY <1>4, <1>5, <1>6, <1>7

(* A change of what a proxy knows that is no business of the locks.         *)
SameLocks(p, q) ==
  /\ q.known = p.known /\ q.introspect_started = p.introspect_started
  /\ q.ready_lock = p.ready_lock /\ q.ready = p.ready
  /\ \A call \in Call : q.calls[call] = Unknown <=> p.calls[call] = Unknown

(* Such a change keeps the locks of the proxy exact.                        *)
LEMMA SameLocksInv ==
  ASSUME NEW p, NEW q, SameLocks(p, q), NEW held \in {0, 1}, ProxyLocksInv(p, held)
  PROVE  ProxyLocksInv(q, held)
<1>1. \A call \in Call : Asked(q, call) <=> Asked(p, call)
  BY DEF SameLocks, Asked
<1>2. Pending(q) = Pending(p)
  BY <1>1 DEF Pending, One, Call
<1> QED  BY <1>1, <1>2 DEF SameLocks, ProxyLocksInv, Call

(* So it keeps the invariant,                                               *)
LEMMA SetProxyInv ==
  ASSUME NEW s, NEW c \in Client, RegistryInv(s), NEW q \in ProxyType, SameLocks(s.proxy[c], q)
  PROVE  RegistryInv(SetProxy(s, c, q))
<1> DEFINE t == SetProxy(s, c, q)
<1>1. /\ t \in WorldType /\ t.proxy[c] = q /\ \A d \in Client \ {c} : t.proxy[d] = s.proxy[d]
      /\ t.startup_lock = s.startup_lock /\ t.startup_completed = s.startup_completed /\ t.list = s.list
  BY SetProxyWorld DEF RegistryInv
<1> HIDE DEF t
<1>2. NotReady(t) = NotReady(s)
  BY <1>1 DEF NotReady, SameLocks
<1>3. ProxyLocksInv(q, 0)
  BY SameLocksInv DEF RegistryInv
<1>4. RegistryInv(t)
  BY <1>1, <1>2, <1>3 DEF RegistryInv, StartupInv
<1> QED  BY <1>4 DEF t

(* and what holds inside a callback.                                        *)
LEMMA SetProxyCallback ==
  ASSUME NEW s, NEW c \in Client, InCallback(s, c), NEW q \in ProxyType, SameLocks(s.proxy[c], q)
  PROVE  InCallback(SetProxy(s, c, q), c)
<1>1. ProxyLocksInv(q, 1)
  BY SameLocksInv DEF InCallback
<1>2. ~s.proxy[c].ready
  BY DEF InCallback, ProxyLocksInv, Pending, One
<1> QED  BY <1>1, <1>2, UpdateProxy DEF InCallback, SameLocks

(* The proxy once its introspection has started, and once its .client file  *)
(* was read.                                                                *)
Started(p) == [p EXCEPT !.introspect_started = TRUE]
FileRead(p, c) ==
  [Started(p) EXCEPT !.caps = IF c \in Handlers THEN FileCaps ELSE NoCaps,
                     !.recover = c \in Observers]

(* What the introspection does before it gives its lock back.               *)
Introspected(s, c) ==
  LET t == SetProxy(s, c, Started(s.proxy[c]))
      parsed == SetProxy(s, c, FileRead(s.proxy[c], c)) IN
  IF c \notin HasFile THEN CallClient(t, c, "Interfaces")
  ELSE IF c \notin Handlers THEN parsed
  ELSE IF s.proxy[c].unique_name > Nobody THEN CallClient(parsed, c, "Handler")
  ELSE CapabilitiesChanged(parsed, c)

(* It starts once, and runs with a lock of the proxy that no call stands    *)
(* for.                                                                     *)
LEMMA IntrospectForm ==
  ASSUME NEW s, NEW c \in Client, RegistryInv(s), s.proxy[c].known,
         ~s.proxy[c].introspect_started
  PROVE  /\ Introspect(s, c) = DecReadyLock(Introspected(s, c), c)
         /\ InCallback(Introspected(s, c), c)
         /\ InCallback(SetProxy(s, c, Started(s.proxy[c])), c)
         /\ InCallback(SetProxy(s, c, FileRead(s.proxy[c], c)), c)
         /\ Started(s.proxy[c]) \in ProxyType /\ FileRead(s.proxy[c], c) \in ProxyType
         /\ \A call \in Call : ~Asked(s.proxy[c], call)
<1> DEFINE p == s.proxy[c]
           started == Started(p)
           t == SetProxy(s, c, started)
           file == FileRead(p, c)
           parsed == SetProxy(s, c, file)
<1>1. s \in WorldType /\ p \in ProxyType /\ StartupInv(s) /\ ProxyLocksInv(p, 0) /\ Others(s, c)
  BY WorldFacts DEF RegistryInv, Others
<1>2. p.ready_lock = Pending(p) + 1 /\ Pending(p) \in Nat /\ ~p.ready
      /\ \A call \in Call : ~Asked(p, call)
  BY <1>1 DEF ProxyLocksInv, Pending, One
<1>3. started \in ProxyType /\ file \in ProxyType
  <2> DEFINE caps == IF c \in Handlers THEN FileCaps ELSE NoCaps
  <2>1. caps \in Caps
    BY ClientsAssumption DEF NoCaps, FileCaps, Caps
  <2> HIDE DEF caps
  <2>2. started \in ProxyType
    BY <1>1 DEF Started, ProxyType
  <2>3. [started EXCEPT !.caps = caps] \in ProxyType
    BY <2>1, <2>2 DEF ProxyType
  <2> DEFINE observes == c \in Observers
  <2>4. file = [[started EXCEPT !.caps = caps] EXCEPT !.recover = observes]
    BY DEF FileRead, caps
  <2>5. observes \in BOOLEAN
    OBVIOUS
  <2> HIDE DEF started, file, observes
  <2>6. file \in ProxyType
    BY <2>3, <2>4, <2>5 DEF ProxyType
  <2> QED  BY <2>2, <2>6
<1>4. /\ started.known /\ started.introspect_started /\ started.ready = p.ready
      /\ started.ready_lock = p.ready_lock /\ started.calls = p.calls
  BY <1>1 DEF Started, ProxyType
<1>5. SameLocks(started, file)
  BY <1>3 DEF SameLocks, FileRead, ProxyType
<1> HIDE DEF started, file
<1>6. ProxyLocksInv(started, 1)
  BY <1>1, <1>2, <1>4 DEF ProxyLocksInv, Asked, Pending
<1>7. InCallback(t, c)
  BY <1>1, <1>2, <1>3, <1>4, <1>6, UpdateProxy
<1>8. ProxyLocksInv(file, 1) /\ file.known /\ file.introspect_started
  BY <1>4, <1>5, <1>6, SameLocksInv DEF SameLocks
<1>9. InCallback(parsed, c)
  BY <1>1, <1>2, <1>3, <1>8, UpdateProxy
<1>10. t.proxy[c] = started /\ parsed.proxy[c] = file
  BY <1>1, <1>3, SetProxyWorld
<1>11. \A call \in Call : ~Asked(t.proxy[c], call) /\ ~Asked(parsed.proxy[c], call)
  BY <1>2, <1>4, <1>5, <1>10 DEF SameLocks, Asked
<1> HIDE DEF t, parsed
<1>12. InCallback(CallClient(t, c, "Interfaces"), c) /\ InCallback(CallClient(parsed, c, "Handler"), c)
  <2>1. "Interfaces" \in Call /\ "Handler" \in Call
    BY DEF Call
  <2>2. InCallback(CallClient(t, c, "Interfaces"), c)
    BY <1>7, <1>11, <2>1, CallClientInv
  <2>3. InCallback(CallClient(parsed, c, "Handler"), c)
    BY <1>9, <1>11, <2>1, CallClientInv
  <2> QED  BY <2>2, <2>3
<1>13. InCallback(CapabilitiesChanged(parsed, c), c)
  BY <1>9, CapabilitiesChangedFrame, SameKeepsCallback DEF InCallback
<1>14. t = [s EXCEPT !.proxy[c].introspect_started = TRUE]
  BY <1>1 DEF t, SetProxy, started, Started, WorldType, ProxyType
<1>15. ParseClientFile(t, c) = parsed
  <2> DEFINE caps == IF c \in Handlers THEN FileCaps ELSE NoCaps
             v == [t EXCEPT !.proxy[c].caps = caps]
  <2> HIDE DEF caps
  <2>1. ParseClientFile(t, c) = [v EXCEPT !.proxy[c].recover = c \in Observers]
    BY DEF ParseClientFile, caps
  <2>2. t \in WorldType /\ started \in ProxyType
    BY <1>3, <1>7 DEF InCallback
  <2>3. [started EXCEPT !.caps = caps] \in ProxyType
    <3>1. caps \in Caps
      BY ClientsAssumption DEF NoCaps, FileCaps, Caps, caps
    <3> QED  BY <1>3, <3>1 DEF ProxyType
  <2>4. v = SetProxy(t, c, [started EXCEPT !.caps = caps])
    BY <1>10, <2>2 DEF SetProxy, WorldType, ProxyType
  <2> HIDE DEF v
  <2>5. v \in WorldType /\ v.proxy[c] = [started EXCEPT !.caps = caps]
    BY <2>2, <2>3, <2>4, SetProxyWorld
  <2>6. [v EXCEPT !.proxy[c].recover = c \in Observers] = [v EXCEPT !.proxy[c] = file]
    BY <2>2, <2>5 DEF WorldType, file, FileRead, started, ProxyType, caps
  <2>7. [v EXCEPT !.proxy[c] = file] = parsed
    BY <1>1, <1>3, <2>2, <2>4 DEF parsed, SetProxy, WorldType, t
  <2> QED  BY <2>1, <2>6, <2>7
<1>16. Introspect(s, c) = DecReadyLock(Introspected(s, c), c) /\ InCallback(Introspected(s, c), c)
  BY <1>9, <1>12, <1>13, <1>14, <1>15 DEF Introspect, Introspected, t, parsed, started, file
<1> QED  BY <1>2, <1>3, <1>7, <1>9, <1>16 DEF t, parsed, started, file

(* The introspection starts once, and gives back the lock that the proxy    *)
(* was created with.                                                        *)
LEMMA IntrospectInv ==
  ASSUME NEW s, NEW c \in Client, RegistryInv(s), s.proxy[c].known
  PROVE  RegistryInv(Introspect(s, c))
<1>1. CASE s.proxy[c].introspect_started
  BY <1>1 DEF Introspect
<1>2. CASE ~s.proxy[c].introspect_started
  BY <1>2, IntrospectForm, DecReadyInv
<1> QED  BY <1>1, <1>2

(* The call of one interface, if the client has it.                         *)
LEMMA AskInv ==
  ASSUME NEW s, NEW c \in Client, InCallback(s, c), NEW call \in Call \ {"Interfaces"},
         ~Asked(s.proxy[c], "Interfaces"), ~Asked(s.proxy[c], call), NEW clients,
         NEW t, t = IF c \in clients THEN CallClient(s, c, call) ELSE s
  PROVE  /\ InCallback(t, c)
         /\ \A other \in Call \ {call} : Asked(t.proxy[c], other) <=> Asked(s.proxy[c], other)
  BY CallClientInv

(* The interfaces of a client are asked for one after the other, none of    *)
(* them twice.                                                              *)
LEMMA GetInterfacesCbInv ==
  ASSUME NEW s, NEW c \in Client, InCallback(s, c),
         \A call \in Call : ~Asked(s.proxy[c], call)
  PROVE  InCallback(GetInterfacesCb(s, c), c)
<1> DEFINE t == IF c \in Approvers THEN CallClient(s, c, "Approver") ELSE s
           u == IF c \in Handlers THEN CallClient(t, c, "Handler") ELSE t
           v == IF c \in Observers THEN CallClient(u, c, "Observer") ELSE u
<1>1. GetInterfacesCb(s, c) = v
  BY DEF GetInterfacesCb
<1> HIDE DEF t, u, v
<1>2. InCallback(t, c) /\ \A call \in Call \ {"Approver"} : ~Asked(t.proxy[c], call)
  BY AskInv DEF t, Call
<1>3. InCallback(u, c) /\ \A call \in Call \ {"Approver", "Handler"} : ~Asked(u.proxy[c], call)
  BY <1>2, AskInv DEF u, Call
<1>4. InCallback(v, c)
  BY <1>3, AskInv DEF v, Call
<1> QED  BY <1>1, <1>4

(* The reply of a Handler changes what is known of it, not its locks.       *)
LEMMA HandlerGetAllCbInv ==
  ASSUME NEW s, NEW c \in Client, InCallback(s, c), NEW from \in Process
  PROVE  InCallback(HandlerGetAllCb(s, c, from), c)
<1> DEFINE p == s.proxy[c]
           q == [p EXCEPT !.caps = from]
           t == SetProxy(s, c, q)
           u == IF p.unique_name # Nobody \/ p.activatable THEN CapabilitiesChanged(t, c) ELSE t
<1>1. s \in WorldType /\ p \in ProxyType
  BY WorldFacts DEF InCallback
<1>2. q \in ProxyType /\ SameLocks(p, q)
  <2>1. from \in Caps
    BY ClientsAssumption DEF Process, Caps, FileCaps
  <2> QED  BY <1>1, <2>1 DEF ProxyType, SameLocks
<1>3. InCallback(t, c)
  BY <1>2, SetProxyCallback
<1>4. t = [s EXCEPT !.proxy[c].caps = from]
  BY <1>1 DEF SetProxy, WorldType, ProxyType
<1>5. HandlerGetAllCb(s, c, from) = u \/ HandlerGetAllCb(s, c, from) = IsHandlingChannel(u, c)
  BY <1>4 DEF HandlerGetAllCb
<1> HIDE DEF t
<1>6. InCallback(u, c)
  BY <1>3, CapabilitiesChangedFrame, SameKeepsCallback DEF InCallback
<1> HIDE DEF u
<1>7. InCallback(IsHandlingChannel(u, c), c)
  BY <1>6, HandlingFrame, SameKeepsCallback DEF InCallback
<1> QED  BY <1>5, <1>6, <1>7

(* The world once a call has returned, and once the reply was dealt with.   *)
BackFrom(c, call, ok) ==
  [SetProxy(world, c, [world.proxy[c] EXCEPT !.calls[call] = Unknown])
     EXCEPT !.failed = IF ok THEN world.failed ELSE world.failed \cup {c}]
Heard(c, call, ok) ==
  LET s == BackFrom(c, call, ok) IN
  IF ~ok THEN s
  ELSE CASE call = "Interfaces" -> GetInterfacesCb(s, c)
         [] call = "Handler"    -> HandlerGetAllCb(s, c, world.proxy[c].calls[call])
         [] call = "Observer"   -> [s EXCEPT !.proxy[c].recover = TRUE]
         [] OTHER               -> s

(* A call that returns is no longer in flight while its lock is still held: *)
(* the callback.                                                            *)
LEMMA CallReturnsForm ==
  ASSUME RegistryInv(world), NEW c \in Client, NEW call \in Call, NEW ok \in BOOLEAN, CallReturns(c, call, ok)
  PROVE  /\ world' = DecReadyLock(Heard(c, call, ok), c) /\ InCallback(Heard(c, call, ok), c)
         /\ InCallback(BackFrom(c, call, ok), c)
         /\ BackFrom(c, call, ok).proxy[c] = [world.proxy[c] EXCEPT !.calls[call] = Unknown]
         /\ Asked(world.proxy[c], call) /\ (ok => world.proxy[c].calls[call] \in Process)
         /\ world.proxy[c].known /\ world.proxy[c].introspect_started
         /\ call = "Interfaces" =>
              \A other \in Call : ~Asked(BackFrom(c, call, ok).proxy[c], other)
<1> DEFINE p == world.proxy[c]
           from == p.calls[call]
           failed == IF ok THEN world.failed ELSE world.failed \cup {c}
           q == [p EXCEPT !.calls[call] = Unknown]
           s == BackFrom(c, call, ok)
           t == SetProxy(world, c, q)
<1>1. world \in WorldType /\ p \in ProxyType /\ StartupInv(world) /\ ProxyLocksInv(p, 0) /\ Others(world, c)
  BY WorldFacts DEF RegistryInv, Others
<1>2. Asked(p, call) /\ (ok => from # Nobody)
  BY DEF CallReturns, Asked
<1>3. p.known /\ p.introspect_started /\ Pending(p) \in Nat /\ ~p.ready
      /\ p.ready_lock = Pending(p) /\ Pending(p) >= 1
  BY <1>1, <1>2 DEF ProxyLocksInv, Pending, One, Call
<1>4. /\ q \in ProxyType /\ q.calls = [p.calls EXCEPT ![call] = Unknown]
      /\ q.known /\ q.introspect_started /\ q.ready = p.ready /\ q.ready_lock = p.ready_lock
  BY <1>1, <1>3 DEF ProxyType
<1>5. \A other \in Call : Asked(q, other) <=> other # call /\ Asked(p, other)
  BY <1>1, <1>4 DEF ProxyType, Asked
<1>6. Pending(q) = Pending(p) - 1
  BY <1>2, <1>5 DEF Pending, One, Call
<1> HIDE DEF q
<1>7. ProxyLocksInv(q, 1)
  <2>1. q.ready_lock = Pending(q) + 0 + 1 /\ (q.ready <=> q.ready_lock = 0)
    BY <1>3, <1>4, <1>6
  <2>2. Asked(q, "Interfaces") => \A other \in Call \ {"Interfaces"} : ~Asked(q, other)
    BY <1>1, <1>3, <1>5 DEF ProxyLocksInv, Call
  <2> QED  BY <1>4, <2>1, <2>2 DEF ProxyLocksInv
<1>8. InCallback(t, c) /\ t.proxy[c] = q
  BY <1>1, <1>3, <1>4, <1>7, UpdateProxy, SetProxyWorld
<1>9. s = [t EXCEPT !.failed = failed]
  BY DEF BackFrom, q, t, failed
<1> HIDE DEF s, t, failed
<1>10. s \in WorldType /\ Same(t, s)
  <2>1. failed \in SUBSET Client
    BY <1>1 DEF failed, WorldType
  <2> QED  BY <1>8, <1>9, <2>1 DEF InCallback, WorldType, Same
<1>11. InCallback(s, c) /\ s.proxy[c] = q
  BY <1>8, <1>10, SameKeepsCallback DEF Same
<1>12. call = "Interfaces" => \A other \in Call : ~Asked(q, other)
  BY <1>1, <1>2, <1>3, <1>5 DEF ProxyLocksInv
<1>13. call = "Interfaces" => InCallback(GetInterfacesCb(s, c), c)
  BY <1>11, <1>12, GetInterfacesCbInv
<1>14. ok => from \in Process
  BY <1>1, <1>2 DEF ProxyType, Asked
<1>15. ok => InCallback(HandlerGetAllCb(s, c, from), c)
  BY <1>11, <1>14, HandlerGetAllCbInv
<1>16. InCallback([s EXCEPT !.proxy[c].recover = TRUE], c)
  <2> DEFINE r == [q EXCEPT !.recover = TRUE]
  <2>1. r \in ProxyType /\ SameLocks(q, r)
    BY <1>4 DEF ProxyType, SameLocks
  <2>2. [s EXCEPT !.proxy[c].recover = TRUE] = SetProxy(s, c, r)
    BY <1>10, <1>11 DEF SetProxy, WorldType, ProxyType
  <2> QED  BY <1>11, <2>1, <2>2, SetProxyCallback
<1> DEFINE u == Heard(c, call, ok)
<1>17. world' = DecReadyLock(u, c)
  <2> DEFINE v == [world EXCEPT !.proxy[c].calls[call] = Unknown,
                                !.failed = IF ok THEN @ ELSE @ \cup {c}]
  <2>1. v = s
    BY <1>1 DEF s, BackFrom, SetProxy, q, WorldType, ProxyType
  <2>2. world' = DecReadyLock(IF ~ok THEN v
                  ELSE CASE call = "Interfaces" -> GetInterfacesCb(v, c)
                         [] call = "Handler"    -> HandlerGetAllCb(v, c, from)
                         [] call = "Observer"   -> [v EXCEPT !.proxy[c].recover = TRUE]
                         [] OTHER               -> v, c)
    BY DEF CallReturns, Becomes
  <2> HIDE DEF v
  <2> QED  BY <2>1, <2>2 DEF Heard, s
<1>18. InCallback(u, c)
  BY <1>11, <1>13, <1>15, <1>16 DEF Call, Heard, s
<1> HIDE DEF u
<1> QED  BY <1>2, <1>3, <1>11, <1>17, <1>18, <1>12, <1>14 DEF s, q, u

(* The callback of a reply, whatever the reply says.                        *)
LEMMA CallReturnsInv ==
  ASSUME RegistryInv(world), NEW c \in Client, NEW call \in Call, NEW ok \in BOOLEAN, CallReturns(c, call, ok)
  PROVE  RegistryInv(world')
<1> DEFINE u == Heard(c, call, ok)
<1>1. world' = DecReadyLock(u, c) /\ InCallback(u, c)
  BY CallReturnsForm
<1> HIDE DEF u
<1> QED  BY <1>1, DecReadyInv

(* IncStartupLock adds to the startup lock until startup is completed.      *)
LEMMA IncStartup ==
  ASSUME NEW s \in WorldType, NEW n \in Nat
  PROVE  /\ IncStartupLock(s, n) \in WorldType
         /\ IncStartupLock(s, n).proxy = s.proxy /\ IncStartupLock(s, n).list = s.list
         /\ IncStartupLock(s, n).startup_completed = s.startup_completed
         /\ ~s.startup_completed => IncStartupLock(s, n).startup_lock = s.startup_lock + n
<1> DEFINE t == [s EXCEPT !.startup_lock = @ + n]
<1>1. CASE s.startup_completed
  BY <1>1 DEF IncStartupLock
<1>2. CASE ~s.startup_completed
  <2>1. s.startup_lock + n \in Nat
    BY DEF WorldType
  <2>2. t \in WorldType /\ t.startup_lock = s.startup_lock + n
    BY <2>1 DEF WorldType
  <2>3. t.proxy = s.proxy /\ t.list = s.list /\ t.startup_completed = s.startup_completed
    BY DEF WorldType
  <2>4. IncStartupLock(s, n) = t
    BY <1>2 DEF IncStartupLock
  <2> QED  BY <2>2, <2>3, <2>4
<1> QED  BY <1>1, <1>2

(* A new proxy has one lock, for the introspection that is to start.        *)
LEMMA NewProxyInv ==
  ASSUME NEW name \in Process \cup {Nobody, Unknown}, NEW activatable \in BOOLEAN
  PROVE  /\ NoProxy \in ProxyType /\ ~NoProxy.known /\ ProxyLocksInv(NoProxy, 0)
         /\ NewProxy(name, activatable) \in ProxyType
         /\ NewProxy(name, activatable).known /\ ~NewProxy(name, activatable).ready
         /\ ProxyLocksInv(NewProxy(name, activatable), 0)
<1> DEFINE p == NewProxy(name, activatable)
<1>1. NoCaps \in Caps
  BY ClientsAssumption DEF NoCaps, Caps, FileCaps
<1>2. NoProxy \in ProxyType /\ ~NoProxy.known /\ NoProxy.calls = NoCalls
  BY <1>1 DEF NoProxy, ProxyType, NoCalls
<1>3. /\ p.known /\ ~p.introspect_started /\ ~p.ready /\ p.ready_lock = 1 /\ p.calls = NoCalls
  BY DEF NewProxy, NoProxy
<1>4. p \in ProxyType
  <2>1. [NoProxy EXCEPT !.known = TRUE, !.unique_name = name] \in ProxyType
    BY <1>2 DEF ProxyType
  <2>2. [NoProxy EXCEPT !.known = TRUE, !.unique_name = name, !.activatable = activatable] \in ProxyType
    BY <2>1 DEF ProxyType
  <2> QED  BY <2>2 DEF NewProxy, ProxyType
<1>5. \A call \in Call : ~Asked(NoProxy, call) /\ ~Asked(p, call)
  BY <1>2, <1>3 DEF Asked, NoCalls
<1>6. Pending(p) = 0
  BY <1>5 DEF Pending, One, Call
<1>7. ProxyLocksInv(p, 0)
  BY <1>3, <1>5, <1>6 DEF ProxyLocksInv
<1>8. ProxyLocksInv(NoProxy, 0)
  BY <1>2, <1>5 DEF ProxyLocksInv
<1> QED  BY <1>2, <1>3, <1>4, <1>7, <1>8

(* A client that the registry does not know has no lock.                    *)
LEMMA NoProxyInv ==
  NoProxy \in ProxyType /\ ~NoProxy.known /\ ProxyLocksInv(NoProxy, 0)
<1>1. Unknown \in Process \cup {Nobody, Unknown}
  OBVIOUS
<1> QED  BY <1>1, NewProxyInv

(* A client that is new takes a startup lock, one that is known does not.   *)
LEMMA FoundNameInv ==
  ASSUME NEW s, NEW c \in Client, RegistryInv(s), NEW name \in Process
  PROVE  RegistryInv(FoundName(s, c, name))
<1>0. s \in WorldType /\ s.proxy[c] \in ProxyType
  BY WorldFacts DEF RegistryInv
<1>1. CASE s.proxy[c].known
  <2> DEFINE q == [s.proxy[c] EXCEPT !.unique_name = name]
  <2>1. q \in ProxyType /\ SameLocks(s.proxy[c], q)
    BY <1>0 DEF ProxyType, SameLocks
  <2>2. FoundName(s, c, name) = SetProxy(s, c, q)
    BY <1>0, <1>1 DEF FoundName, SetProxy, WorldType
  <2> QED  BY <2>1, <2>2, SetProxyInv
<1>2. CASE ~s.proxy[c].known
  <2> DEFINE q == NewProxy(name, FALSE)
             t == SetProxy(s, c, q)
             u == IncStartupLock(t, 1)
  <2>1. q \in ProxyType /\ q.known /\ ~q.ready /\ ProxyLocksInv(q, 0)
    BY NewProxyInv
  <2> HIDE DEF q
  <2>2. /\ t \in WorldType /\ t.proxy[c] = q /\ \A d \in Client \ {c} : t.proxy[d] = s.proxy[d]
        /\ t.startup_lock = s.startup_lock /\ t.startup_completed = s.startup_completed
        /\ t.list = s.list
    BY <1>0, <2>1, SetProxyWorld
  <2>3. FoundName(s, c, name) = u
    BY <1>2 DEF FoundName, SetProxy, q
  <2> HIDE DEF t
  <2>4. /\ u \in WorldType /\ u.proxy = t.proxy /\ u.list = s.list
        /\ u.startup_completed = s.startup_completed
        /\ ~s.startup_completed => u.startup_lock = s.startup_lock + 1
    BY <2>2, IncStartup
  <2> HIDE DEF u
  <2>5. NotReady(u) = NotReady(s) \cup {c} /\ c \notin NotReady(s)
    BY <1>2, <2>1, <2>2, <2>4 DEF NotReady
  <2>6. Cardinality(NotReady(s) \cup {c}) = Cardinality(NotReady(s)) + 1
    BY <2>5, NotReadyIsFinite, FS_AddElement
  <2>7. StartupInv(u)
    BY <2>4, <2>5, <2>6, NotReadyIsFinite DEF StartupInv, RegistryInv, One
  <2>8. \A d \in Client : ProxyLocksInv(u.proxy[d], 0)
    BY <2>1, <2>2, <2>4 DEF RegistryInv
  <2>9. RegistryInv(u)
    BY <2>4, <2>7, <2>8 DEF RegistryInv
  <2> QED  BY <2>3, <2>9
<1> QED  BY <1>1, <1>2

(* The invariant with n for the locks of the enumeration.                   *)
Enumerated(s, n) ==
  /\ s \in WorldType /\ \A c \in Client : ProxyLocksInv(s.proxy[c], 0)
  /\ ~s.startup_completed => s.startup_lock = Cardinality(NotReady(s)) + n

(* A list takes one startup lock for each name that is new.                 *)
LEMMA FoundNamesInv ==
  ASSUME NEW s, NEW n \in Nat, Enumerated(s, n),
         NEW names \in SUBSET Client, NEW activatable \in BOOLEAN
  PROVE  /\ Enumerated(FoundNames(s, names, activatable), n)
         /\ FoundNames(s, names, activatable).list = s.list
<1> DEFINE t == FoundNames(s, names, activatable)
<1>0. /\ s \in WorldType /\ \A c \in Client : ProxyLocksInv(s.proxy[c], 0)
      /\ ~s.startup_completed => s.startup_lock = Cardinality(NotReady(s)) + n
  BY DEF Enumerated
<1> DEFINE new == {c \in names : ~s.proxy[c].known}
           proxy == [c \in Client |->
             IF c \in new THEN NewProxy(Unknown, activatable)
             ELSE IF c \in names /\ activatable THEN [s.proxy[c] EXCEPT !.activatable = TRUE]
             ELSE s.proxy[c]]
           inbox == [c \in Client |-> IF c \in new THEN Append(s.inbox[c], s.owner[c]) ELSE s.inbox[c]]
           u == [s EXCEPT !.proxy = proxy, !.inbox = inbox]
<1>1. t = IncStartupLock(u, Cardinality(new))
  BY DEF FoundNames
<1>2. IsFiniteSet(new) /\ Cardinality(new) \in Nat
  BY ClientsAssumption, FS_Subset, FS_CardinalityType
<1>3. ASSUME NEW c \in Client
      PROVE  /\ proxy[c] \in ProxyType /\ ProxyLocksInv(proxy[c], 0)
             /\ (proxy[c].known /\ ~proxy[c].ready)
                 <=> (c \in new \/ (s.proxy[c].known /\ ~s.proxy[c].ready))
  <2>1. s.proxy[c] \in ProxyType /\ ProxyLocksInv(s.proxy[c], 0)
    BY <1>0, WorldFacts
  <2>2. CASE c \in new
    BY <2>2, NewProxyInv
  <2>3. CASE c \notin new /\ c \in names /\ activatable
    <3> DEFINE q == [s.proxy[c] EXCEPT !.activatable = TRUE]
    <3>1. q \in ProxyType /\ SameLocks(s.proxy[c], q)
      BY <2>1 DEF ProxyType, SameLocks
    <3>2. proxy[c] = q
      BY <2>3
    <3> HIDE DEF q, proxy
    <3>3. ProxyLocksInv(q, 0)
      BY <2>1, <3>1, SameLocksInv
    <3> QED  BY <2>3, <3>1, <3>2, <3>3 DEF SameLocks
  <2>4. CASE c \notin new /\ ~(c \in names /\ activatable)
    BY <2>1, <2>4
  <2> QED  BY <2>2, <2>3, <2>4
<1>4. inbox \in [Client -> Seq(Process \cup {Nobody})]
  BY <1>0 DEF WorldType
<1> HIDE DEF new, t
<1>5. proxy \in [Client -> ProxyType]
  BY <1>3
<1> HIDE DEF proxy, inbox
<1>6. /\ u \in WorldType /\ u.proxy = proxy /\ u.list = s.list
      /\ u.startup_completed = s.startup_completed /\ u.startup_lock = s.startup_lock
  BY <1>0, <1>4, <1>5 DEF WorldType
<1> HIDE DEF u
<1>7. /\ t \in WorldType /\ t.proxy = proxy /\ t.list = s.list
      /\ t.startup_completed = s.startup_completed
      /\ ~s.startup_completed => t.startup_lock = s.startup_lock + Cardinality(new)
  <2> DEFINE k == Cardinality(new)
  <2> HIDE DEF k
  <2>1. k \in Nat /\ t = IncStartupLock(u, k)
    BY <1>1, <1>2 DEF k
  <2>2. /\ t \in WorldType /\ t.proxy = u.proxy /\ t.list = u.list
        /\ t.startup_completed = u.startup_completed
        /\ ~u.startup_completed => t.startup_lock = u.startup_lock + k
    BY <1>6, <2>1, IncStartup
  <2> QED  BY <1>6, <2>2 DEF k
<1>8. NotReady(t) = NotReady(s) \cup new /\ NotReady(s) \cap new = {}
  BY <1>3, <1>7 DEF NotReady, new
<1>9. Cardinality(NotReady(t)) = Cardinality(NotReady(s)) + Cardinality(new)
  <2>1. Cardinality(NotReady(s) \cup new) =
          Cardinality(NotReady(s)) + Cardinality(new) - Cardinality(NotReady(s) \cap new)
    BY <1>2, NotReadyIsFinite, FS_Union
  <2>2. Cardinality(NotReady(s) \cap new) = 0
    BY <1>8, FS_EmptySet
  <2> QED  BY <1>2, <1>8, <2>1, <2>2, NotReadyIsFinite
<1>10. ~t.startup_completed => t.startup_lock = Cardinality(NotReady(t)) + n
  BY <1>0, <1>2, <1>7, <1>9, NotReadyIsFinite
<1>11. Enumerated(t, n) /\ t.list = s.list
  BY <1>3, <1>7, <1>10 DEF Enumerated
<1> QED  BY <1>11 DEF t

(* A client that is removed gives back its startup lock, unless it was      *)
(* ready and has done so.                                                   *)
LEMMA RemoveInv ==
  ASSUME NEW s, NEW c \in Client, RegistryInv(s), s.proxy[c].known
  PROVE  RegistryInv(Remove(s, c))
<1> DEFINE u == IF s.proxy[c].ready THEN s ELSE DecStartupLock(s)
           t == SetProxy(u, c, NoProxy)
           n == Cardinality(NotReady(s) \ {c})
<1>1. s \in WorldType /\ StartupInv(s)
  BY DEF RegistryInv
<1>2. /\ n \in Nat /\ Cardinality(NotReady(s)) \in Nat
      /\ Cardinality(NotReady(s)) = IF s.proxy[c].ready THEN n ELSE n + 1
  <2>1. c \in NotReady(s) <=> ~s.proxy[c].ready
    BY DEF NotReady
  <2>2. n = IF c \in NotReady(s) THEN Cardinality(NotReady(s)) - 1 ELSE Cardinality(NotReady(s))
    BY NotReadyIsFinite, FS_RemoveElement
  <2>3. n \in Nat
    BY NotReadyIsFinite, FS_RemoveElement, FS_CardinalityType
  <2> QED  BY <2>1, <2>2, <2>3, NotReadyIsFinite
<1> HIDE DEF n
<1>3. /\ u \in WorldType /\ u.proxy = s.proxy /\ u.list = s.list
      /\ ~u.startup_completed => u.startup_lock = n + One(u.list # "done")
  <2>1. CASE s.proxy[c].ready
    BY <1>1, <1>2, <2>1 DEF StartupInv
  <2>2. CASE ~s.proxy[c].ready
    <3>1. ~s.startup_completed => s.startup_lock = n + One(s.list # "done") + 1
      BY <1>1, <1>2, <2>2 DEF StartupInv, One
    <3>2. u = DecStartupLock(s)
      BY <2>2
    <3> HIDE DEF u
    <3> QED  BY <1>1, <1>2, <3>1, <3>2, DecStartup
  <2> QED  BY <2>1, <2>2
<1>4. Remove(s, c) = t
  BY DEF Remove, SetProxy
<1> HIDE DEF u
<1>5. /\ t \in WorldType /\ t.proxy[c] = NoProxy
      /\ \A d \in Client \ {c} : t.proxy[d] = s.proxy[d]
      /\ t.startup_lock = u.startup_lock /\ t.startup_completed = u.startup_completed
      /\ t.list = u.list
  <2>1. NoProxy \in ProxyType /\ u \in WorldType /\ u.proxy = s.proxy
    BY <1>3, NoProxyInv
  <2> HIDE DEF NoProxy
  <2> QED  BY <2>1, SetProxyWorld
<1> HIDE DEF t
<1>6. NotReady(t) = NotReady(s) \ {c}
  BY <1>5, NoProxyInv DEF NotReady
<1>7. StartupInv(t)
  BY <1>3, <1>5, <1>6 DEF StartupInv, n
<1>8. \A d \in Client : ProxyLocksInv(t.proxy[d], 0)
  BY <1>5, NoProxyInv DEF RegistryInv
<1>9. RegistryInv(t)
  BY <1>5, <1>7, <1>8 DEF RegistryInv
<1> QED  BY <1>4, <1>9

(* A client that becomes incapable keeps its locks.                         *)
LEMMA BecomeIncapableInv ==
  ASSUME NEW s, NEW c \in Client, RegistryInv(s)
  PROVE  /\ RegistryInv(BecomeIncapable(s, c))
         /\ BecomeIncapable(s, c).proxy[c].known <=> s.proxy[c].known
<1> DEFINE q == [s.proxy[c] EXCEPT !.caps = NoCaps]
           t == SetProxy(s, c, q)
<1>1. s \in WorldType /\ s.proxy[c] \in ProxyType
  BY WorldFacts DEF RegistryInv
<1>2. q \in ProxyType /\ SameLocks(s.proxy[c], q)
  <2>1. NoCaps \in Caps
    BY ClientsAssumption DEF NoCaps, Caps, FileCaps
  <2> QED  BY <1>1, <2>1 DEF ProxyType, SameLocks
<1>3. t = [s EXCEPT !.proxy[c].caps = NoCaps]
  BY <1>1 DEF SetProxy, WorldType, ProxyType
<1> HIDE DEF q
<1>4. RegistryInv(t) /\ t.proxy[c] = q
  BY <1>1, <1>2, SetProxyInv, SetProxyWorld
<1> HIDE DEF t
<1>5. CapabilitiesChanged(t, c) \in WorldType /\ Same(t, CapabilitiesChanged(t, c))
  BY <1>4, CapabilitiesChangedFrame DEF RegistryInv
<1>6. RegistryInv(CapabilitiesChanged(t, c))
  BY <1>4, <1>5, SameKeepsInv
<1>7. BecomeIncapable(s, c) = t \/ BecomeIncapable(s, c) = CapabilitiesChanged(t, c)
  BY <1>3 DEF BecomeIncapable
<1>8. t.proxy[c].known = s.proxy[c].known /\ CapabilitiesChanged(t, c).proxy[c].known = s.proxy[c].known
  <2>1. q.known = s.proxy[c].known
    BY <1>2 DEF SameLocks
  <2>2. CapabilitiesChanged(t, c).proxy = t.proxy
    BY <1>5 DEF Same
  <2> QED  BY <1>4, <2>1, <2>2, Zenon
<1> QED  BY <1>4, <1>6, <1>7, <1>8

(* A client that leaves is removed, or stays with its locks.                *)
LEMMA SetInactiveInv ==
  ASSUME NEW s, NEW c \in Client, RegistryInv(s), s.proxy[c].known
  PROVE  RegistryInv(SetInactive(s, c))
<1> DEFINE q == [s.proxy[c] EXCEPT !.unique_name = Nobody]
           t == SetProxy(s, c, q)
<1>1. s \in WorldType /\ s.proxy[c] \in ProxyType
  BY WorldFacts DEF RegistryInv
<1>2. q \in ProxyType /\ SameLocks(s.proxy[c], q)
  BY <1>1 DEF ProxyType, SameLocks
<1>3. t = [s EXCEPT !.proxy[c].unique_name = Nobody]
  BY <1>1 DEF SetProxy, WorldType, ProxyType
<1> HIDE DEF q
<1>4. RegistryInv(t) /\ t.proxy[c].known
  <2>1. t.proxy[c] = q
    BY <1>1, <1>2, SetProxyWorld
  <2>2. q.known
    BY <1>2 DEF SameLocks
  <2>3. RegistryInv(t)
    BY <1>2, SetProxyInv
  <2> HIDE DEF t
  <2> QED  BY <2>1, <2>2, <2>3
<1> HIDE DEF t
<1>5. RegistryInv(Remove(BecomeIncapable(t, c), c))
  BY <1>4, BecomeIncapableInv, RemoveInv
<1> QED  BY <1>3, <1>4, <1>5 DEF SetInactive

(* The rest of the callback of a changed owner, for a proxy that may have   *)
(* been removed in it.                                                      *)
LEMMA AfterUniqueNameInv ==
  ASSUME NEW s, NEW c \in Client, RegistryInv(s), NEW should_recover \in BOOLEAN
  PROVE  RegistryInv(AfterUniqueName(s, c, should_recover))
<1> DEFINE t == IF s.proxy[c].known THEN Introspect(s, c) ELSE s
<1>1. RegistryInv(t)
  BY IntrospectInv
<1> HIDE DEF t
<1>2. RegistryInv(NeedRecovery(t, c))
  BY <1>1, RecoverFrame, SameKeepsInv DEF RegistryInv
<1> QED  BY <1>1, <1>2 DEF AfterUniqueName, t

(* The callback of a changed owner.                                         *)
LEMMA UniqueNameCbInv ==
  ASSUME NEW s, NEW c \in Client, RegistryInv(s), s.proxy[c].known, NEW name \in Process \cup {Nobody}
  PROVE  RegistryInv(UniqueNameCb(s, c, name))
<1> DEFINE q == [s.proxy[c] EXCEPT !.unique_name = name]
           t == SetProxy(s, c, q)
           recover == s.proxy[c].recover /\ s.proxy[c].activatable
<1>1. s \in WorldType /\ s.proxy[c] \in ProxyType
  BY WorldFacts DEF RegistryInv
<1>2. q \in ProxyType /\ SameLocks(s.proxy[c], q)
  BY <1>1 DEF ProxyType, SameLocks
<1>3. t = [s EXCEPT !.proxy[c].unique_name = name]
  BY <1>1 DEF SetProxy, WorldType, ProxyType
<1> HIDE DEF q
<1>4. RegistryInv(t)
  BY <1>2, SetProxyInv
<1> HIDE DEF t
<1>5. recover \in BOOLEAN
  <2>1. s.proxy[c].recover \in BOOLEAN /\ s.proxy[c].activatable \in BOOLEAN
    BY <1>1 DEF ProxyType
  <2> QED  BY <2>1, Zenon
<1>6. UniqueNameCb(s, c, name) =
        IF name = Nobody THEN AfterUniqueName(SetInactive(s, c), c, recover)
        ELSE AfterUniqueName(t, c, FALSE)
  BY <1>3 DEF UniqueNameCb
<1> HIDE DEF recover
<1>7. RegistryInv(AfterUniqueName(SetInactive(s, c), c, recover))
  BY <1>5, SetInactiveInv, AfterUniqueNameInv
<1>8. RegistryInv(AfterUniqueName(t, c, FALSE))
  BY <1>4, AfterUniqueNameInv
<1> QED  BY <1>6, <1>7, <1>8

(* The watch calls it, or does nothing.                                     *)
LEMMA WatchInv ==
  ASSUME NEW s, NEW c \in Client, RegistryInv(s), NEW owner \in Process \cup {Nobody}
  PROVE  RegistryInv(Watch(s, c, owner))
<1> DEFINE q == [s.proxy[c] EXCEPT !.last_owner = owner]
           t == SetProxy(s, c, q)
<1>1. s \in WorldType /\ s.proxy[c] \in ProxyType
  BY WorldFacts DEF RegistryInv
<1>2. q \in ProxyType /\ SameLocks(s.proxy[c], q)
  BY <1>1 DEF ProxyType, SameLocks
<1>3. t = [s EXCEPT !.proxy[c].last_owner = owner]
  BY <1>1 DEF SetProxy, WorldType, ProxyType
<1> HIDE DEF q
<1>4. RegistryInv(t) /\ (t.proxy[c].known <=> s.proxy[c].known)
  BY <1>1, <1>2, SetProxyInv, SetProxyWorld DEF SameLocks
<1> HIDE DEF t
<1> QED  BY <1>3, <1>4, UniqueNameCbInv DEF Watch

(* NameOwnerChanged: the name may be new, its owner may be gone.            *)
LEMMA NameOwnerChangedInv ==
  ASSUME RegistryInv(world), NEW c \in Client, NameOwnerChanged(c)
  PROVE  RegistryInv(world')
<1> DEFINE owner == Head(world.inbox[c])
           s == [world EXCEPT !.inbox[c] = Tail(@)]
           t == IF owner # Nobody THEN FoundName(s, c, owner) ELSE s
<1>1. world \in WorldType /\ world.inbox[c] \in Seq(Process \cup {Nobody}) /\ world.inbox[c] # <<>>
  BY DEF RegistryInv, WorldType, NameOwnerChanged
<1>2. owner \in Process \cup {Nobody} /\ Tail(world.inbox[c]) \in Seq(Process \cup {Nobody})
  BY <1>1
<1>3. s \in WorldType /\ Same(world, s)
  BY <1>1, <1>2 DEF WorldType, Same
<1>4. world' = Watch(t, c, owner)
  BY DEF NameOwnerChanged, Becomes
<1> HIDE DEF s, owner
<1>5. RegistryInv(s)
  BY <1>3, SameKeepsInv
<1>6. RegistryInv(t)
  BY <1>2, <1>5, FoundNameInv
<1> HIDE DEF t
<1> QED  BY <1>2, <1>4, <1>6, WatchInv

(* The reply with the running clients, or with an error.                    *)
LEMMA ListNamesInv ==
  ASSUME RegistryInv(world), NEW error \in BOOLEAN, ListNames(error)
  PROVE  RegistryInv(world')
<1> DEFINE running == {c \in Client : world.owner[c] # Nobody}
           missed == running \ {c \in Client : world.proxy[c].known}
           s == [world EXCEPT !.list = "activatable"]
<1>1. world \in WorldType /\ StartupInv(world) /\ world.list = "names"
  BY DEF RegistryInv, ListNames
<1>2. running \in SUBSET Client /\ missed \in SUBSET Client
  OBVIOUS
<1> HIDE DEF running, missed
<1>3. CASE error
  <2> DEFINE t == [s EXCEPT !.missed = missed]
  <2>1. /\ t \in WorldType /\ t.proxy = world.proxy /\ t.list = "activatable"
        /\ t.startup_lock = world.startup_lock /\ t.startup_completed = world.startup_completed
    BY <1>1, <1>2 DEF WorldType
  <2>2. world' = t
    BY <1>3 DEF ListNames, Becomes, running, missed
  <2> HIDE DEF t
  <2>3. NotReady(t) = NotReady(world)
    BY <2>1 DEF NotReady
  <2>4. RegistryInv(t)
    BY <1>1, <2>1, <2>3 DEF RegistryInv, StartupInv, One
  <2> QED  BY <2>2, <2>4
<1>4. CASE ~error
  <2> DEFINE t == [s EXCEPT !.initial = running]
             u == FoundNames(t, running, FALSE)
  <2>1. /\ t \in WorldType /\ t.proxy = world.proxy /\ t.list = "activatable"
        /\ t.startup_lock = world.startup_lock /\ t.startup_completed = world.startup_completed
    BY <1>1, <1>2 DEF WorldType
  <2>2. world' = u
    BY <1>4 DEF ListNames, Becomes, running
  <2> HIDE DEF t
  <2>3. NotReady(t) = NotReady(world)
    BY <2>1 DEF NotReady
  <2>4. ~t.startup_completed => t.startup_lock = Cardinality(NotReady(t)) + 1
    BY <1>1, <2>1, <2>3 DEF StartupInv, One
  <2>5. \A c \in Client : ProxyLocksInv(t.proxy[c], 0)
    BY <2>1 DEF RegistryInv
  <2> HIDE DEF u
  <2>6. Enumerated(u, 1) /\ u.list = t.list
    <3>1. Enumerated(t, 1) /\ FALSE \in BOOLEAN /\ 1 \in Nat
      BY <2>1, <2>4, <2>5 DEF Enumerated
    <3> QED  BY <1>2, <3>1, FoundNamesInv DEF u
  <2>7. RegistryInv(u)
    BY <2>1, <2>6 DEF Enumerated, RegistryInv, StartupInv, One
  <2> QED  BY <2>2, <2>7
<1> QED  BY <1>3, <1>4

(* The world when the activatable clients have been found.                  *)
Activatable(error) ==
  FoundNames([world EXCEPT !.list = "done"], IF error THEN {} ELSE BusActivatable, TRUE)

(* The lock of the enumeration is still held there.                         *)
LEMMA ListActivatableNamesForm ==
  ASSUME RegistryInv(world), NEW error \in BOOLEAN, ListActivatableNames(error)
  PROVE  LET u == Activatable(error) IN
         /\ world' = DecStartupLock(u)
         /\ u \in WorldType /\ u.list = "done" /\ \A c \in Client : ProxyLocksInv(u.proxy[c], 0)
         /\ ~u.startup_completed =>
              u.startup_lock = Cardinality(NotReady(u)) + One(u.list # "done") + 1
<1> DEFINE t == [world EXCEPT !.list = "done"]
           names == IF error THEN {} ELSE BusActivatable
           u == FoundNames(t, names, TRUE)
<1>1. world \in WorldType /\ StartupInv(world) /\ world.list = "activatable"
  BY DEF RegistryInv, ListActivatableNames
<1>2. names \in SUBSET Client
  BY ClientsAssumption
<1>3. /\ t \in WorldType /\ t.proxy = world.proxy /\ t.list = "done"
      /\ t.startup_lock = world.startup_lock /\ t.startup_completed = world.startup_completed
  BY <1>1 DEF WorldType
<1>4. world' = DecStartupLock(u) /\ Activatable(error) = u
  BY DEF ListActivatableNames, Becomes, Activatable
<1> HIDE DEF t, names
<1>5. NotReady(t) = NotReady(world)
  BY <1>3 DEF NotReady
<1>6. ~t.startup_completed => t.startup_lock = Cardinality(NotReady(t)) + 1
  BY <1>1, <1>3, <1>5 DEF StartupInv, One
<1>7. \A c \in Client : ProxyLocksInv(t.proxy[c], 0)
  BY <1>3 DEF RegistryInv
<1> HIDE DEF u
<1>8. /\ u \in WorldType /\ \A c \in Client : ProxyLocksInv(u.proxy[c], 0)
      /\ u.list = t.list
      /\ ~u.startup_completed => u.startup_lock = Cardinality(NotReady(u)) + 1
  <2>1. Enumerated(t, 1) /\ TRUE \in BOOLEAN /\ 1 \in Nat
    BY <1>3, <1>6, <1>7 DEF Enumerated
  <2>2. Enumerated(u, 1) /\ u.list = t.list
    BY <1>2, <2>1, FoundNamesInv DEF u
  <2> QED  BY <2>2 DEF Enumerated
<1> DEFINE n == Cardinality(NotReady(u))
<1>9. n \in Nat
  BY NotReadyIsFinite
<1>10. ~u.startup_completed => u.startup_lock = n + One(u.list # "done") + 1
  BY <1>3, <1>8, <1>9 DEF One
<1> QED  BY <1>3, <1>4, <1>8, <1>10

(* The reply with the activatable clients ends the enumeration and gives    *)
(* back its lock.                                                           *)
LEMMA ListActivatableNamesInv ==
  ASSUME RegistryInv(world), NEW error \in BOOLEAN, ListActivatableNames(error)
  PROVE  RegistryInv(world')
<1> DEFINE u == Activatable(error)
           v == DecStartupLock(u)
           n == Cardinality(NotReady(u))
<1>1. /\ world' = v /\ u \in WorldType /\ \A c \in Client : ProxyLocksInv(u.proxy[c], 0)
      /\ ~u.startup_completed => u.startup_lock = n + One(u.list # "done") + 1
  BY ListActivatableNamesForm
<1>2. n \in Nat
  BY NotReadyIsFinite
<1> HIDE DEF u, v
<1>3. v.proxy = u.proxy => NotReady(v) = NotReady(u)
  BY DEF NotReady
<1>4. /\ v \in WorldType /\ v.proxy = u.proxy /\ v.list = u.list
      /\ ~v.startup_completed => v.startup_lock = n + One(u.list # "done")
  <2> HIDE DEF n
  <2> QED  BY <1>1, <1>2, DecStartup DEF v
<1>5. RegistryInv(v)
  BY <1>1, <1>3, <1>4 DEF RegistryInv, StartupInv
<1> QED  BY <1>1, <1>5

(* A process that starts takes over calls that waited for it: they stay in  *)
(* flight.                                                                  *)
LEMMA StartInv ==
  ASSUME RegistryInv(world), NEW c \in Client, Start(c)
  PROVE  RegistryInv(world')
<1> DEFINE p == world.starts[c] + 1
           calls == [call \in Call |->
             IF world.proxy[c].calls[call] = Nobody /\ c \in BusActivatable THEN p
             ELSE world.proxy[c].calls[call]]
           q == [world.proxy[c] EXCEPT !.calls = calls]
           s == SetProxy(world, c, q)
           owner == [world.owner EXCEPT ![c] = p]
           inbox == [world.inbox EXCEPT ![c] = Append(@, p)]
           starts == [world.starts EXCEPT ![c] = p]
           queued == [world.observe_queued EXCEPT ![c] = FALSE]
           observed == [world.observed EXCEPT ![c] = IF world.observe_queued[c] THEN p ELSE @]
           missed == world.missed \ {c}
           t == [s EXCEPT !.owner = owner, !.inbox = inbox, !.starts = starts,
                          !.missed = missed, !.observe_queued = queued,
                          !.observed = observed]
<1>1. /\ world \in WorldType /\ world.proxy[c] \in ProxyType
      /\ world.starts[c] \in 0..MaxProcess /\ p <= MaxProcess /\ MaxProcess \in Nat
      /\ world.observed[c] \in Process \cup {Nobody}
      /\ world.inbox[c] \in Seq(Process \cup {Nobody})
  BY WorldFacts, ClientsAssumption DEF RegistryInv, WorldType, Start
<1>2. p \in Process /\ p \in 0..MaxProcess /\ p # Unknown /\ Nobody # Unknown
  BY <1>1 DEF Process, Unknown, Nobody
<1>3. world' = [world EXCEPT
         !.owner[c] = p, !.inbox[c] = Append(@, p),
         !.starts[c] = p, !.missed = @ \ {c}, !.observe_queued[c] = FALSE,
         !.observed[c] = IF world.observe_queued[c] THEN p ELSE @,
         !.proxy[c].calls = calls]
  <2>1. Becomes([Changed(world, c, p) EXCEPT
          !.starts[c] = p, !.missed = @ \ {c}, !.observe_queued[c] = FALSE,
          !.observed[c] = IF world.observe_queued[c] THEN p ELSE @,
          !.proxy[c].calls = [call \in Call |->
             IF @[call] = Nobody /\ c \in BusActivatable THEN p ELSE @[call]]])
    BY Zenon DEF Start
  <2> HIDE DEF p
  <2> QED  BY <1>1, <2>1 DEF Becomes, Changed, WorldType, ProxyType
<1> HIDE DEF p
<1>4. calls \in [Call -> Process \cup {Nobody, Unknown}]
  BY <1>1, <1>2 DEF ProxyType
<1>5. q \in ProxyType /\ SameLocks(world.proxy[c], q)
  BY <1>1, <1>2, <1>4 DEF ProxyType, SameLocks
<1>6. /\ owner \in [Client -> Process \cup {Nobody}]
      /\ inbox \in [Client -> Seq(Process \cup {Nobody})]
      /\ starts \in [Client -> 0..MaxProcess]
      /\ queued \in [Client -> BOOLEAN]
      /\ observed \in [Client -> Process \cup {Nobody}]
      /\ missed \in SUBSET Client
  BY <1>1, <1>2 DEF WorldType
<1> HIDE DEF calls
<1>7. world' = t
  <2>1. [world.proxy EXCEPT ![c].calls = calls] = [world.proxy EXCEPT ![c] = q]
    BY <1>1 DEF WorldType, ProxyType
  <2> DEFINE proxy == [world.proxy EXCEPT ![c] = q]
  <2>2. s = [world EXCEPT !.proxy = proxy]
    BY <1>1 DEF SetProxy, WorldType
  <2>3. world' = [world EXCEPT
         !.owner = owner, !.inbox = inbox, !.starts = starts, !.missed = missed,
         !.observe_queued = queued, !.observed = observed, !.proxy = proxy]
    <3> HIDE DEF q
    <3> QED  BY <1>1, <1>3, <2>1 DEF WorldType
  <2> HIDE DEF s, proxy, owner, inbox, starts, queued, observed, missed
  <2> QED  BY <1>1, <2>2, <2>3 DEF WorldType
<1> HIDE DEF q
<1>8. RegistryInv(s) /\ s \in WorldType
  BY <1>5, SetProxyInv DEF RegistryInv
<1> HIDE DEF s, owner, inbox, starts, queued, observed, missed
<1>9. t \in WorldType
  BY <1>6, <1>8 DEF WorldType
<1>10. Same(s, t)
  BY <1>8 DEF Same, WorldType
<1> QED  BY <1>7, <1>8, <1>9, <1>10, SameKeepsInv

(* A process that exits leaves its calls in flight.                         *)
LEMMA ExitInv ==
  ASSUME RegistryInv(world), NEW c \in Client, Exit(c)
  PROVE  RegistryInv(world')
<1> DEFINE left == IF world.list = "done" /\ world.proxy[c].recover
                        /\ world.proxy[c].unique_name = world.owner[c]
                   THEN world.left \cup {c} ELSE world.left
           owner == [world.owner EXCEPT ![c] = Nobody]
           inbox == [world.inbox EXCEPT ![c] = Append(@, Nobody)]
           handling == [world.handling EXCEPT ![c] = Nobody]
           t == [world EXCEPT !.owner = owner, !.inbox = inbox,
                              !.handling = handling, !.left = left]
<1>1. world \in WorldType /\ world.inbox[c] \in Seq(Process \cup {Nobody}) /\ left \in SUBSET Client
  BY DEF RegistryInv, WorldType
<1>2. world' = t
  BY <1>1 DEF Exit, Becomes, Changed, WorldType
<1>3. /\ owner \in [Client -> Process \cup {Nobody}]
      /\ inbox \in [Client -> Seq(Process \cup {Nobody})]
      /\ handling \in [Client -> Process \cup {Nobody}]
  BY <1>1 DEF WorldType
<1> HIDE DEF left, owner, inbox, handling
<1>4. t \in WorldType
  BY <1>1, <1>3 DEF WorldType
<1>5. Same(world, t)
  BY <1>1 DEF WorldType, Same
<1> QED  BY <1>2, <1>4, <1>5, SameKeepsInv

(* Connections have no locks.                                               *)
LEMMA ConnectionInv ==
  ASSUME RegistryInv(world), EarlyCaps \/ AddConnection
  PROVE  RegistryInv(world')
<1>1. ASSUME NEW connection \in {"early", "added"}
      PROVE  /\ RegistryInv([world EXCEPT !.connection = connection])
             /\ RegistryInv(TellAllCaps([world EXCEPT !.connection = connection]))
  <2> DEFINE s == [world EXCEPT !.connection = connection]
  <2>1. s \in WorldType /\ Same(world, s)
    BY DEF RegistryInv, WorldType, Same
  <2>2. RegistryInv(s)
    BY <2>1, SameKeepsInv
  <2> HIDE DEF s
  <2>3. RegistryInv(TellAllCaps(s))
    BY <2>1, <2>2, TellAllCapsFrame, SameKeepsInv
  <2> QED  BY <2>2, <2>3 DEF s
<1> QED  BY <1>1 DEF EarlyCaps, AddConnection, Becomes

(* At first there is the lock of the enumeration, and no client.            *)
LEMMA InitInv == Init => RegistryInv(world)
<1> SUFFICES ASSUME Init PROVE RegistryInv(world)
  OBVIOUS
<1>1. NoProxy \in ProxyType /\ ~NoProxy.known /\ ProxyLocksInv(NoProxy, 0)
  BY NoProxyInv
<1>2. 1 \in Process /\ 1 \in 0..MaxProcess /\ 0 \in 0..MaxProcess /\ NoCaps \in Caps
  BY ClientsAssumption DEF Process, NoCaps, Caps, FileCaps
<1> HIDE DEF NoProxy
<1>3. world \in WorldType
  BY <1>1, <1>2 DEF Init, WorldType
<1>4. world.proxy = [c \in Client |-> NoProxy] /\ world.startup_lock = 1 /\ world.list = "names"
  BY DEF Init
<1>5. NotReady(world) = {}
  BY <1>1, <1>4 DEF NotReady
<1>6. StartupInv(world)
  BY <1>4, <1>5, FS_EmptySet DEF StartupInv, One
<1> QED  BY <1>1, <1>3, <1>4, <1>6 DEF RegistryInv

(* Every step preserves the invariant.                                      *)
LEMMA NextInv == RegistryInv(world) /\ [Next]_vars => RegistryInv(world')
<1> SUFFICES ASSUME RegistryInv(world), [Next]_vars PROVE RegistryInv(world')
  OBVIOUS
<1>1. ASSUME NEW error \in BOOLEAN, ListNames(error) PROVE RegistryInv(world')
  BY <1>1, ListNamesInv
<1>2. ASSUME NEW error \in BOOLEAN, ListActivatableNames(error) PROVE RegistryInv(world')
  BY <1>2, ListActivatableNamesInv
<1>3. ASSUME NEW c \in Client, NameOwnerChanged(c) PROVE RegistryInv(world')
  BY <1>3, NameOwnerChangedInv
<1>4. ASSUME NEW c \in Client, Start(c) PROVE RegistryInv(world')
  BY <1>4, StartInv
<1>5. ASSUME NEW c \in Client, Exit(c) PROVE RegistryInv(world')
  BY <1>5, ExitInv
<1>6. ASSUME NEW c \in Client, NEW call \in Call, NEW ok \in BOOLEAN, CallReturns(c, call, ok)
      PROVE  RegistryInv(world')
  BY <1>6, CallReturnsInv
<1>7. CASE EarlyCaps \/ AddConnection
  BY <1>7, ConnectionInv
<1>8. CASE UNCHANGED vars
  BY <1>8 DEF vars
<1> QED  BY <1>1, <1>2, <1>3, <1>4, <1>5, <1>6, <1>7, <1>8 DEF Next

(* The sum of the conditions is the cardinality that the property speaks    *)
(* of.                                                                      *)
LEMMA PendingIsCardinality ==
  ASSUME NEW p
  PROVE  Cardinality({call \in Call : p.calls[call] # Unknown}) = Pending(p)
<1> DEFINE Added(S, call) == IF Asked(p, call) THEN S \cup {call} ELSE S
           A == Added({}, "Interfaces")
           B == Added(A, "Approver")
           C == Added(B, "Handler")
           D == Added(C, "Observer")
<1>1. ASSUME NEW S, IsFiniteSet(S), NEW call, call \notin S
      PROVE  /\ IsFiniteSet(Added(S, call))
             /\ Cardinality(Added(S, call)) = Cardinality(S) + One(Asked(p, call))
  BY <1>1, FS_AddElement, FS_CardinalityType DEF One
<1>2. IsFiniteSet(A) /\ Cardinality(A) = One(Asked(p, "Interfaces"))
  <2>1. IsFiniteSet({}) /\ Cardinality({}) = 0 /\ "Interfaces" \notin {}
    BY FS_EmptySet
  <2> HIDE DEF Added
  <2>2. IsFiniteSet(A) /\ Cardinality(A) = 0 + One(Asked(p, "Interfaces"))
    BY <1>1, <2>1
  <2> QED  BY <2>2 DEF One
<1>3. /\ A = IF Asked(p, "Interfaces") THEN {"Interfaces"} ELSE {}
      /\ "Approver" \notin A /\ "Handler" \notin B /\ "Observer" \notin C
  OBVIOUS
<1>4. D = {call \in Call : p.calls[call] # Unknown}
  BY DEF Asked, Call
<1> HIDE DEF Added, A
<1>5. IsFiniteSet(B) /\ Cardinality(B) = Cardinality(A) + One(Asked(p, "Approver"))
  BY <1>1, <1>2, <1>3
<1> HIDE DEF B
<1>6. IsFiniteSet(C) /\ Cardinality(C) = Cardinality(B) + One(Asked(p, "Handler"))
  BY <1>1, <1>3, <1>5
<1> HIDE DEF C
<1>7. Cardinality(D) = Cardinality(C) + One(Asked(p, "Observer"))
  BY <1>1, <1>3, <1>6
<1> QED  BY <1>2, <1>4, <1>5, <1>6, <1>7 DEF Pending

(* The invariant is stronger than the property.                             *)
LEMMA InvImpliesLocks == RegistryInv(world) => LocksExact
<1> SUFFICES ASSUME RegistryInv(world) PROVE LocksExact
  OBVIOUS
<1>1. StartupLockExact
  <2>1. {c \in Known : ~world.proxy[c].ready} = NotReady(world)
    BY DEF Known, NotReady
  <2> QED  BY <2>1 DEF RegistryInv, StartupInv, StartupLockExact, One
<1>2. ReadyLockExact
  <2> SUFFICES ASSUME NEW c \in Known
               PROVE  LET p == world.proxy[c] IN
                 /\ p.ready_lock = Cardinality({call \in Call : p.calls[call] # Unknown})
                                     + IF p.introspect_started THEN 0 ELSE 1
                 /\ p.ready <=> p.ready_lock = 0
    BY DEF ReadyLockExact
  <2> DEFINE p == world.proxy[c]
  <2>1. c \in Client /\ p.known /\ ProxyLocksInv(p, 0)
    BY DEF Known, RegistryInv
  <2> HIDE DEF p
  <2>2. Pending(p) \in Nat
    BY DEF Pending, One
  <2>3. /\ p.ready_lock = Pending(p) + IF p.introspect_started THEN 0 ELSE 1
        /\ p.ready <=> p.ready_lock = 0
    BY <2>1, <2>2 DEF ProxyLocksInv
  <2> QED  BY <2>3, PendingIsCardinality DEF p
<1> QED  BY <1>1, <1>2 DEF LocksExact, TypeOK, RegistryInv

(* Whatever the clients and the bus do, in whatever order, the startup lock *)
(* of the registry and the ready lock of each client are exact: startup     *)
(* does not end before everything is known, and no lock is lost or given    *)
(* back twice (_mcd_client_registry_dec_startup_lock,                       *)
(* _mcd_client_proxy_dec_ready_lock).                                       *)
THEOREM LocksAreExact == Spec => []LocksExact
<1>1. Init => RegistryInv(world)
  BY InitInv
<1>2. RegistryInv(world) /\ [Next]_vars => RegistryInv(world)'
  BY NextInv DEF RegistryInv, StartupInv, NotReady, ProxyLocksInv
<1>3. RegistryInv(world) => LocksExact
  BY InvImpliesLocks
<1> QED  BY <1>1, <1>2, <1>3, PTL DEF Spec

-----------------------------------------------------------------------------
(* What connections are told of the clients, and what is known of the       *)
(* processes that ran before MC.  One relation (Tells) describes how a      *)
(* function changes the clients that it is not about, and how the locks and *)
(* the messages to connections change all of them; so that each lemma is    *)
(* about the client that its function is called for.                        *)

(* What a connection was told of a client is what MC knows of it, unless it *)
(* is still to be asked: the first invariant behind CapsTold.               *)
Announced(s, c) ==
  /\ s.proxy[c].known => s.proxy[c].activatable \/ s.proxy[c].unique_name # Nobody
  /\ c \notin Handlers =>
       s.proxy[c].caps = NoCaps /\ s.caps_told[c] = NoCaps /\ ~Asked(s.proxy[c], "Handler")
  /\ s.proxy[c].known /\ s.startup_completed /\ s.connection = "added" /\ c \notin s.failed =>
       \/ s.caps_told[c] = s.proxy[c].caps
       \/ ~s.proxy[c].introspect_started
       \/ Asked(s.proxy[c], "Interfaces") \/ Asked(s.proxy[c], "Handler")

(* The first process of c runs, and the list of the names has it, or will.  *)
IsFirst(s, c) == s.owner[c] = 1 /\ (s.list = "names" \/ c \in s.initial)

(* What MC knows of a proxy whose first process runs.                       *)
FirstProxy(p) ==
  /\ \A call \in Call : p.calls[call] \in {Unknown, 1}
  /\ p.unique_name \in {Unknown, 1}
  /\ p.introspect_started => p.unique_name = 1

(* MC asks such a process for the channel that it handles, unless it has    *)
(* failed, and records its answer.                                          *)
FirstAsked(s, c) ==
  s.proxy[c].introspect_started /\ c \in Handlers \ s.failed =>
    \/ s.handling[c] = 1
    \/ Asked(s.proxy[c], "Interfaces") \/ Asked(s.proxy[c], "Handler")

(* The second invariant, behind HandledBeforeDispatching.                   *)
Remembered(s, c) ==
  /\ s.owner[c] \in {Nobody, s.starts[c]}
  /\ c \in s.initial => s.starts[c] # 0 /\ s.list # "names"
  /\ s.list = "names" /\ s.starts[c] = 0 => ~s.proxy[c].known /\ s.inbox[c] = <<>>
  /\ IsFirst(s, c) =>
       /\ \A i \in DOMAIN s.inbox[c] : s.inbox[c][i] = 1
       /\ c \in s.initial => s.proxy[c].known
       /\ s.proxy[c].known => FirstProxy(s.proxy[c]) /\ FirstAsked(s, c)

(* Startup is completed only when such a client is ready.                   *)
Finished(s, c) ==
  s.startup_completed =>
    s.list = "done" /\ (IsFirst(s, c) => s.proxy[c].ready)

(* The three together.                                                      *)
Settled(s, c) == Announced(s, c) /\ Remembered(s, c) /\ Finished(s, c)

(* From s to t nothing changes about d but its locks and what is told.      *)
Aside(s, t, d) ==
  /\ t.owner[d] = s.owner[d] /\ t.starts[d] = s.starts[d] /\ t.inbox[d] = s.inbox[d]
  /\ t.list = s.list /\ (d \in t.initial <=> d \in s.initial)
  /\ t.startup_completed = s.startup_completed
Beside(s, t, d) ==
  /\ t.owner[d] = s.owner[d] /\ t.starts[d] = s.starts[d]
  /\ t.inbox[d] = s.inbox[d] /\ t.handling[d] = s.handling[d]
  /\ t.list = s.list /\ t.connection = s.connection
  /\ d \in t.initial <=> d \in s.initial
  /\ d \in t.failed <=> d \in s.failed
SameClient(p, q) ==
  /\ q.known = p.known /\ q.activatable = p.activatable
  /\ q.unique_name = p.unique_name /\ q.introspect_started = p.introspect_started
  /\ q.caps = p.caps /\ q.calls = p.calls
  /\ p.ready => q.ready
Tells(s, t, d) ==
  /\ Beside(s, t, d) /\ SameClient(s.proxy[d], t.proxy[d])
  /\ s.startup_completed => t.startup_completed
  /\ \/ t.caps_told[d] = s.caps_told[d]
     \/ s.proxy[d].known /\ t.caps_told[d] = s.proxy[d].caps
  /\ t.startup_completed /\ ~s.startup_completed =>
       /\ s.list = "done"
       /\ s.proxy[d].known =>
            t.proxy[d].ready /\ (s.connection = "added" => t.caps_told[d] = s.proxy[d].caps)

(* That keeps the invariants of d.                                          *)
LEMMA TellsKeeps ==
  ASSUME NEW s, NEW t, NEW d, Settled(s, d), Tells(s, t, d)
  PROVE  Settled(t, d)
<1>1. Announced(t, d)
  BY DEF Settled, Announced, Tells, Beside, SameClient, Asked
<1>2. IsFirst(t, d) <=> IsFirst(s, d)
  BY DEF Tells, Beside, IsFirst
<1>3. Remembered(t, d)
  <2>1. FirstProxy(s.proxy[d]) => FirstProxy(t.proxy[d])
    BY DEF FirstProxy, Tells, SameClient
  <2>2. FirstAsked(s, d) => FirstAsked(t, d)
    BY DEF FirstAsked, Tells, SameClient, Beside, Asked
  <2> QED  BY <1>2, <2>1, <2>2 DEF Settled, Remembered, Tells, Beside, SameClient
<1>4. Finished(t, d)
  <2>1. IsFirst(s, d) /\ s.list = "done" => s.proxy[d].known
    BY DEF Settled, Remembered, IsFirst
  <2> QED  BY <1>2, <2>1 DEF Settled, Finished, Tells, Beside, SameClient
<1> QED  BY <1>1, <1>3, <1>4 DEF Settled

(* A change of the proxy of c is no business of d.                          *)
LEMMA SetProxyTells ==
  ASSUME NEW s \in WorldType, NEW c \in Client, NEW q \in ProxyType, NEW d \in Client \ {c}
  PROVE  Tells(s, SetProxy(s, c, q), d)
  BY DEF SetProxy, WorldType, Tells, Beside, SameClient

(* What is told of c is no business of d.                                   *)
LEMMA CapsTells ==
  ASSUME NEW s \in WorldType, NEW c \in Client, NEW d \in Client, d # c \/ s.proxy[c].known
  PROVE  Tells(s, CapabilitiesChanged(s, c), d)
  BY DEF CapabilitiesChanged, WorldType, Tells, Beside, SameClient

(* The connection is told if there is one.                                  *)
LEMMA CapsChanged ==
  ASSUME NEW s \in WorldType, NEW c \in Client
  PROVE  /\ CapabilitiesChanged(s, c).caps_told[c] =
              IF s.startup_completed /\ s.connection = "added" THEN s.proxy[c].caps
              ELSE s.caps_told[c]
         /\ CapabilitiesChanged(s, c).handling = s.handling
         /\ CapabilitiesChanged(s, c).inbox = s.inbox
         /\ CapabilitiesChanged(s, c).owner = s.owner
         /\ CapabilitiesChanged(s, c).proxy = s.proxy
  BY DEF CapabilitiesChanged, WorldType

(* Nor are recovery                                                         *)
LEMMA RecoverTells ==
  ASSUME NEW s \in WorldType, NEW c \in Client, NEW d \in Client
  PROVE  Tells(s, NeedRecovery(s, c), d)
  BY DEF NeedRecovery, RecoverObserver, WorldType, Tells, Beside, SameClient

(* and the startup lock while it is held.                                   *)
LEMMA IncTells ==
  ASSUME NEW s \in WorldType, NEW n, NEW d \in Client
  PROVE  Tells(s, IncStartupLock(s, n), d)
  BY DEF IncStartupLock, WorldType, Tells, Beside, SameClient

(* The last release of the startup lock, with nobody left to wait for,      *)
(* completes the startup and tells everything that is known.                *)
LEMMA DecBeside ==
  ASSUME NEW s \in WorldType, NEW n \in Nat,
         ~s.startup_completed => s.startup_lock = n + One(s.list # "done") + 1,
         NEW d \in Client
  PROVE  LET t == DecStartupLock(s) IN
         /\ Beside(s, t, d) /\ t.proxy = s.proxy
         /\ s.startup_completed => t.startup_completed
         /\ \/ t.caps_told[d] = s.caps_told[d]
            \/ s.proxy[d].known /\ t.caps_told[d] = s.proxy[d].caps
         /\ t.startup_completed /\ ~s.startup_completed =>
              /\ n = 0 /\ s.list = "done"
              /\ s.proxy[d].known /\ s.connection = "added" => t.caps_told[d] = s.proxy[d].caps
<1>1. CASE s.startup_completed
  BY <1>1 DEF DecStartupLock, Beside
<1>2. CASE ~s.startup_completed /\ s.startup_lock # 1
  BY <1>2 DEF DecStartupLock, Beside, WorldType
<1>3. CASE ~s.startup_completed /\ s.startup_lock = 1
  <2> DEFINE t == [s EXCEPT !.startup_lock = 0, !.startup_completed = TRUE]
  <2>1. DecStartupLock(s) = RegistryReady(t)
    BY <1>3 DEF DecStartupLock
  <2>2. n = 0 /\ s.list = "done"
    BY <1>3 DEF One
  <2>3. /\ t.proxy = s.proxy /\ t.startup_completed /\ t.caps_told = s.caps_told
        /\ t.connection = s.connection /\ Beside(s, t, d)
        /\ t \in WorldType
    BY DEF WorldType, Beside
  <2> HIDE DEF t
  <2>4. CASE s.connection = "added"
    <3>1. RegistryReady(t) = TellAllCaps(t)
      BY <2>3, <2>4 DEF RegistryReady
    <3> DEFINE u == TellAllCaps(t)
    <3>2. /\ u.proxy = s.proxy /\ u.startup_completed /\ Beside(s, u, d)
          /\ u.caps_told[d] = IF s.proxy[d].known THEN s.proxy[d].caps ELSE s.caps_told[d]
      BY <2>3 DEF TellAllCaps, WorldType, Beside
    <3> HIDE DEF u
    <3> QED  BY <1>3, <2>1, <2>2, <3>1, <3>2 DEF u
  <2>5. CASE s.connection # "added"
    <3>1. RegistryReady(t) = t
      BY <2>3, <2>5 DEF RegistryReady
    <3> QED  BY <2>1, <2>2, <2>3, <2>5, <3>1
  <2> QED  BY <2>4, <2>5
<1> QED  BY <1>1, <1>2, <1>3

(* If d is not waited for when the others are not, it is ready then.        *)
LEMMA DecTells ==
  ASSUME NEW s \in WorldType, NEW n \in Nat,
         ~s.startup_completed => s.startup_lock = n + One(s.list # "done") + 1,
         NEW d \in Client, n = 0 /\ s.proxy[d].known => s.proxy[d].ready
  PROVE  Tells(s, DecStartupLock(s), d)
  BY DecBeside DEF Tells, SameClient

(* The end of a callback changes locks, and tells.                          *)
LEMMA DecReadySettled ==
  ASSUME NEW s, NEW c \in Client, InCallback(s, c), NEW d \in Client, Settled(s, d)
  PROVE  Settled(DecReadyLock(s, c), d)
<1> DEFINE p == s.proxy[c]
           q == Released(p)
           t == SetProxy(s, c, q)
           u == DecStartupLock(t)
           n == Cardinality(NotReady(t))
<1>1. p \in ProxyType /\ s \in WorldType /\ StartupInv(s) /\ p.known /\ s.startup_lock \in Nat
  BY WorldFacts DEF InCallback
<1>2. q \in ProxyType /\ q.known /\ ~p.ready /\ (q.ready <=> p.ready_lock <= 1) /\ p.ready_lock \in Nat
  BY ReleasedInv, <1>1 DEF InCallback, ProxyType
<1>3. SameClient(p, q)
  <2>1. CASE p.ready_lock > 1
    BY <1>1, <2>1 DEF Released, SameClient, ProxyType
  <2>2. CASE ~(p.ready_lock > 1)
    BY <1>1, <2>2 DEF Released, SameClient, ProxyType
  <2> QED  BY <2>1, <2>2
<1> HIDE DEF q
<1>4. /\ t \in WorldType /\ t.proxy[c] = q /\ \A e \in Client \ {c} : t.proxy[e] = s.proxy[e]
      /\ t.startup_lock = s.startup_lock /\ t.startup_completed = s.startup_completed /\ t.list = s.list
  BY <1>1, <1>2, SetProxyWorld
<1>5. Tells(s, t, d)
  <2>1. CASE d # c
    BY <1>1, <1>2, <2>1, SetProxyTells
  <2>2. CASE d = c
    <3>1. Beside(s, t, c) /\ t.caps_told = s.caps_told
      BY <1>1 DEF Beside, SetProxy
    <3> HIDE DEF t
    <3> QED  BY <1>3, <1>4, <2>2, <3>1 DEF Tells
  <2> QED  BY <2>1, <2>2
<1> HIDE DEF t
<1>6. Settled(t, d)
  BY <1>5, TellsKeeps
<1>7. CASE p.ready_lock > 1
  <2>1. DecReadyLock(s, c) = t
    BY <1>7, DecReadyForm DEF t, q
  <2> QED  BY <1>6, <2>1
<1>8. CASE ~(p.ready_lock > 1)
  <2>1. NotReady(t) = NotReady(s) \ {c} /\ c \in NotReady(s)
    BY <1>1, <1>2, <1>4, <1>8 DEF NotReady
  <2>2. Cardinality(NotReady(s)) = Cardinality(NotReady(t)) + 1
    <3>1. Cardinality(NotReady(s) \ {c}) = Cardinality(NotReady(s)) - 1
      BY <2>1, NotReadyIsFinite, FS_RemoveElement
    <3> QED  BY <2>1, <3>1, NotReadyIsFinite
  <2>3. ~t.startup_completed => t.startup_lock = n + One(t.list # "done") + 1
    BY <1>1, <1>4, <2>2, NotReadyIsFinite DEF StartupInv, One
  <2>4. n \in Nat /\ (n = 0 => NotReady(t) = {})
    BY NotReadyIsFinite, FS_EmptySet
  <2>5. n = 0 /\ t.proxy[d].known => t.proxy[d].ready
    BY <2>4 DEF NotReady
  <2> HIDE DEF n
  <2>6. Tells(t, u, d)
    BY <1>4, <2>3, <2>4, <2>5, DecTells
  <2>7. u \in WorldType
    BY <1>4, <2>3, <2>4, DecStartup
  <2> HIDE DEF u
  <2>8. Settled(u, d)
    BY <1>6, <2>6, TellsKeeps
  <2>9. Settled(NeedRecovery(u, c), d)
    BY <2>7, <2>8, RecoverTells, TellsKeeps
  <2>10. DecReadyLock(s, c) = u \/ DecReadyLock(s, c) = NeedRecovery(u, c)
    BY <1>8, DecReadyForm DEF t, q, u
  <2> QED  BY <2>8, <2>9, <2>10
<1> QED  BY <1>7, <1>8

(* What is left to show where only the proxy of c and what is recorded of   *)
(* it change.                                                               *)
LEMMA SettledIf ==
  ASSUME NEW s, NEW t, NEW c, Settled(s, c), Aside(s, t, c),
         t.proxy[c].known = s.proxy[c].known, t.proxy[c].ready = s.proxy[c].ready,
         Announced(t, c),
         IsFirst(s, c) /\ s.proxy[c].known => FirstProxy(t.proxy[c]) /\ FirstAsked(t, c)
  PROVE  Settled(t, c)
<1>1. IsFirst(t, c) <=> IsFirst(s, c)
  BY DEF Aside, IsFirst
<1>2. Remembered(t, c)
  BY <1>1 DEF Settled, Remembered, Aside
<1>3. Finished(t, c)
  BY <1>1 DEF Settled, Finished, Aside
<1> QED  BY <1>2, <1>3 DEF Settled

(* From s to t calls of c are made, to the process that owns its name.      *)
Asks(s, t, c) ==
  /\ Beside(s, t, c)
  /\ t.caps_told = s.caps_told /\ t.startup_completed = s.startup_completed
  /\ t.proxy[c].known = s.proxy[c].known
  /\ t.proxy[c].activatable = s.proxy[c].activatable
  /\ t.proxy[c].unique_name = s.proxy[c].unique_name
  /\ t.proxy[c].introspect_started = s.proxy[c].introspect_started
  /\ t.proxy[c].caps = s.proxy[c].caps
  /\ t.proxy[c].ready = s.proxy[c].ready
  /\ \A call \in Call : t.proxy[c].calls[call] \in {s.proxy[c].calls[call], s.owner[c]}

(* One call is made; of other clients nothing changes.                      *)
LEMMA CallClientAsks ==
  ASSUME NEW s, NEW c \in Client, InCallback(s, c), NEW call \in Call
  PROVE  /\ Asks(s, CallClient(s, c, call), c)
         /\ CallClient(s, c, call).proxy[c].calls =
              [s.proxy[c].calls EXCEPT ![call] = s.owner[c]]
         /\ \A d \in Client \ {c} : Tells(s, CallClient(s, c, call), d)
         /\ CallClient(s, c, call) \in WorldType
<1> DEFINE p == s.proxy[c]
           q == Calling(p, call, s.owner[c])
           t == SetProxy(s, c, q)
<1>1. s \in WorldType /\ p \in ProxyType /\ s.owner[c] \in Process \cup {Nobody, Unknown}
  BY WorldFacts DEF InCallback
<1>2. q \in ProxyType
  <2> DEFINE lock == p.ready_lock + 1
             calls == [p.calls EXCEPT ![call] = s.owner[c]]
  <2>1. lock \in Nat /\ calls \in [Call -> Process \cup {Nobody, Unknown}]
    BY <1>1 DEF ProxyType
  <2>2. q = [p EXCEPT !.ready_lock = lock, !.calls = calls]
    BY <1>1 DEF Calling, ProxyType
  <2> HIDE DEF lock, calls, q
  <2> QED  BY <1>1, <2>1, <2>2 DEF ProxyType
<1>3. /\ q.known = p.known /\ q.activatable = p.activatable /\ q.unique_name = p.unique_name
      /\ q.introspect_started = p.introspect_started /\ q.caps = p.caps /\ q.ready = p.ready
      /\ q.calls = [p.calls EXCEPT ![call] = s.owner[c]]
  BY <1>1 DEF Calling, ProxyType
<1>4. \A other \in Call : q.calls[other] \in {p.calls[other], s.owner[c]}
  BY <1>1, <1>3 DEF ProxyType
<1>5. CallClient(s, c, call) = t
  BY CallClientForm
<1> HIDE DEF q
<1>6. /\ t.proxy[c] = q /\ t \in WorldType
      /\ \A d \in Client \ {c} : Tells(s, t, d)
  BY <1>1, <1>2, SetProxyWorld, SetProxyTells
<1>7. Beside(s, t, c) /\ t.caps_told = s.caps_told /\ t.startup_completed = s.startup_completed
  BY DEF Beside, SetProxy
<1> HIDE DEF t
<1> QED  BY <1>3, <1>4, <1>5, <1>6, <1>7 DEF Asks

(* The introspection leaves nothing untold, and asks.                       *)
LEMMA IntrospectSettled ==
  ASSUME NEW s, NEW c \in Client, RegistryInv(s), s.proxy[c].known,
         NEW d \in Client, Settled(s, d),
         IsFirst(s, c) => s.proxy[c].unique_name = 1
  PROVE  Settled(Introspect(s, c), d)
<1> DEFINE p == s.proxy[c]
           t == SetProxy(s, c, Started(p))
           parsed == SetProxy(s, c, FileRead(p, c))
           u == Introspected(s, c)
<1>1. CASE p.introspect_started
  BY <1>1 DEF Introspect
<1>2. CASE ~p.introspect_started
  <2>1. /\ s \in WorldType /\ p \in ProxyType
        /\ Introspect(s, c) = DecReadyLock(u, c) /\ InCallback(u, c)
        /\ InCallback(t, c) /\ InCallback(parsed, c)
        /\ Started(p) \in ProxyType /\ FileRead(p, c) \in ProxyType
        /\ \A call \in Call : ~Asked(p, call)
    BY <1>2, IntrospectForm, WorldFacts DEF RegistryInv
  <2>2. t \in WorldType /\ parsed \in WorldType
    BY <2>1 DEF InCallback
  <2>3. "Interfaces" \in Call /\ "Handler" \in Call
    BY DEF Call
  <2>4. /\ t.proxy[c] = Started(p) /\ parsed.proxy[c] = FileRead(p, c)
    BY <2>1, SetProxyWorld
  <2>5. /\ Started(p).known = p.known /\ Started(p).activatable = p.activatable
        /\ Started(p).unique_name = p.unique_name /\ Started(p).introspect_started
        /\ Started(p).caps = p.caps /\ Started(p).calls = p.calls /\ Started(p).ready = p.ready
    BY <2>1 DEF Started, ProxyType
  <2>6. /\ FileRead(p, c).known = p.known /\ FileRead(p, c).activatable = p.activatable
        /\ FileRead(p, c).unique_name = p.unique_name /\ FileRead(p, c).introspect_started
        /\ FileRead(p, c).caps = IF c \in Handlers THEN FileCaps ELSE NoCaps
        /\ FileRead(p, c).calls = p.calls /\ FileRead(p, c).ready = p.ready
    BY <2>1 DEF FileRead, Started, ProxyType
  <2>7. /\ Beside(s, t, c) /\ t.caps_told = s.caps_told /\ t.startup_completed = s.startup_completed
        /\ Beside(s, parsed, c) /\ parsed.caps_told = s.caps_told
        /\ parsed.startup_completed = s.startup_completed
    BY DEF Beside, SetProxy
  <2>8. p.ready = FALSE
    BY <1>2, <2>1 DEF RegistryInv, ProxyLocksInv, Pending, One, ProxyType
  <2>9. \A call \in Call : p.calls[call] = Unknown
    BY <2>1 DEF Asked
  <2>10. u = IF c \notin HasFile THEN CallClient(t, c, "Interfaces")
             ELSE IF c \notin Handlers THEN parsed
             ELSE IF p.unique_name > Nobody THEN CallClient(parsed, c, "Handler")
             ELSE CapabilitiesChanged(parsed, c)
    BY DEF Introspected
  <2>11. ASSUME NEW e \in Client \ {c} PROVE Tells(s, t, e) /\ Tells(s, parsed, e)
    BY <2>1, SetProxyTells
  <2>13. InCallback(t, c) /\ InCallback(parsed, c)
    BY <2>1
  <2> HIDE DEF u, t, parsed
  <2>14. Asks(t, CallClient(t, c, "Interfaces"), c)
         /\ CallClient(t, c, "Interfaces").proxy[c].calls =
              [t.proxy[c].calls EXCEPT !["Interfaces"] = t.owner[c]]
    <3> DEFINE call == "Interfaces"
    <3>1. call \in Call /\ InCallback(t, c)
      BY <2>3, <2>13
    <3> HIDE DEF call, p
    <3>2. Asks(t, CallClient(t, c, call), c)
      BY <3>1, CallClientAsks, Zenon
    <3>3. CallClient(t, c, call).proxy[c].calls = [t.proxy[c].calls EXCEPT ![call] = t.owner[c]]
      BY <3>1, CallClientAsks
    <3> QED  BY <3>2, <3>3 DEF call
  <2>12. Settled(u, d)
    <3>1. CASE d # c
      <4>1. Settled(t, d) /\ Settled(parsed, d)
        BY <2>11, <3>1, TellsKeeps
      <4>2. Settled(CallClient(t, c, "Interfaces"), d) /\ Settled(CallClient(parsed, c, "Handler"), d)
        BY <2>1, <2>3, <3>1, <4>1, CallClientAsks, TellsKeeps
      <4>3. Settled(CapabilitiesChanged(parsed, c), d)
        BY <2>2, <3>1, <4>1, CapsTells, TellsKeeps
      <4> QED  BY <2>10, <4>1, <4>2, <4>3
    <3>2. CASE d = c
      <4>1. Settled(s, c) /\ s.owner[c] \in Process \cup {Nobody} /\ s.owner[c] # Unknown
            /\ p.unique_name \in Process \cup {Nobody, Unknown}
        BY <2>1, <3>2, WorldFacts DEF ProxyType
      <4>2. CASE c \notin HasFile
        <5> DEFINE v == CallClient(t, c, "Interfaces")
        <5>1. Asks(t, v, c) /\ v.proxy[c].calls = [t.proxy[c].calls EXCEPT !["Interfaces"] = t.owner[c]]
          BY <2>14
        <5> HIDE DEF v
        <5>2. /\ Beside(s, v, c) /\ v.caps_told = s.caps_told
              /\ v.startup_completed = s.startup_completed
              /\ v.proxy[c].known = p.known /\ v.proxy[c].activatable = p.activatable
              /\ v.proxy[c].unique_name = p.unique_name /\ v.proxy[c].introspect_started
              /\ v.proxy[c].caps = p.caps /\ v.proxy[c].ready = p.ready
          <6>1. Beside(s, v, c) /\ v.caps_told = s.caps_told /\ v.startup_completed = s.startup_completed
            BY <2>7, <5>1 DEF Asks, Beside
          <6> QED  BY <2>4, <2>5, <5>1, <6>1 DEF Asks
        <5>3. /\ \A call \in Call : v.proxy[c].calls[call] \in {Unknown, s.owner[c]}
              /\ v.proxy[c].calls["Interfaces"] = s.owner[c]
              /\ v.proxy[c].calls["Handler"] = Unknown
          <6>1. p.calls \in [Call -> Process \cup {Nobody, Unknown}]
            BY <2>1 DEF ProxyType
          <6> QED  BY <2>3, <2>4, <2>5, <2>7, <2>9, <5>1, <6>1 DEF Beside
        <5>4. Announced(v, c)
          BY <4>1, <5>2, <5>3 DEF Settled, Announced, Asked, Beside
        <5>5. IsFirst(s, c) => FirstProxy(v.proxy[c]) /\ FirstAsked(v, c)
          BY <4>1, <5>2, <5>3 DEF IsFirst, FirstProxy, FirstAsked, Asked
        <5>6. Aside(s, v, c)
          BY <5>2 DEF Aside, Beside
        <5>7. u = v
          BY <2>10, <4>2 DEF v
        <5> QED  BY <3>2, <4>1, <5>2, <5>4, <5>5, <5>6, <5>7, SettledIf
      <4>3. CASE c \in HasFile /\ c \notin Handlers
        <5>1. u = parsed
          BY <2>10, <4>3
        <5>2. Announced(u, c)
          BY <2>3, <2>4, <2>6, <2>7, <2>9, <4>1, <4>3, <5>1 DEF Settled, Announced, Asked, Beside
        <5>3. IsFirst(s, c) => FirstProxy(u.proxy[c]) /\ FirstAsked(u, c)
          BY <2>4, <2>6, <2>9, <4>3, <5>1 DEF IsFirst, FirstProxy, FirstAsked
        <5>4. Aside(s, u, c)
          BY <2>7, <5>1 DEF Aside, Beside
        <5> QED  BY <2>4, <2>6, <3>2, <4>1, <5>1, <5>2, <5>3, <5>4, SettledIf
      <4>4. CASE c \in HasFile /\ c \in Handlers /\ p.unique_name > Nobody
        <5> DEFINE v == CallClient(parsed, c, "Handler")
        <5>1. /\ Asks(parsed, v, c)
              /\ v.proxy[c].calls = [parsed.proxy[c].calls EXCEPT !["Handler"] = parsed.owner[c]]
          BY <2>1, <2>3, CallClientAsks
        <5> HIDE DEF v
        <5>2. /\ Beside(s, v, c) /\ v.caps_told = s.caps_told
              /\ v.startup_completed = s.startup_completed
              /\ v.proxy[c].known = p.known /\ v.proxy[c].activatable = p.activatable
              /\ v.proxy[c].unique_name = p.unique_name /\ v.proxy[c].introspect_started
              /\ v.proxy[c].ready = p.ready
          <6>1. Beside(s, v, c) /\ v.caps_told = s.caps_told /\ v.startup_completed = s.startup_completed
            BY <2>7, <5>1 DEF Asks, Beside
          <6> QED  BY <2>4, <2>6, <5>1, <6>1 DEF Asks
        <5>3. /\ \A call \in Call : v.proxy[c].calls[call] \in {Unknown, s.owner[c]}
              /\ v.proxy[c].calls["Handler"] = s.owner[c]
          <6>1. p.calls \in [Call -> Process \cup {Nobody, Unknown}]
            BY <2>1 DEF ProxyType
          <6> QED  BY <2>3, <2>4, <2>6, <2>7, <2>9, <5>1, <6>1 DEF Beside
        <5>4. Announced(v, c)
          BY <4>1, <4>4, <5>2, <5>3 DEF Settled, Announced, Asked, Beside
        <5>5. IsFirst(s, c) => FirstProxy(v.proxy[c]) /\ FirstAsked(v, c)
          BY <4>1, <5>2, <5>3 DEF IsFirst, FirstProxy, FirstAsked, Asked
        <5>6. Aside(s, v, c)
          BY <5>2 DEF Aside, Beside
        <5>7. u = v
          BY <2>10, <4>4 DEF v
        <5> QED  BY <3>2, <4>1, <5>2, <5>4, <5>5, <5>6, <5>7, SettledIf
      <4>5. CASE c \in HasFile /\ c \in Handlers /\ ~(p.unique_name > Nobody)
        <5> DEFINE v == CapabilitiesChanged(parsed, c)
        <5>1. /\ v.caps_told[c] = IF s.startup_completed /\ s.connection = "added"
                                  THEN parsed.proxy[c].caps ELSE s.caps_told[c]
              /\ v.proxy[c] = FileRead(p, c)
          BY <2>2, <2>4, <2>7, CapsChanged DEF Beside
        <5>2. Beside(parsed, v, c) /\ v.startup_completed = parsed.startup_completed
          BY <2>2 DEF CapabilitiesChanged, Beside, WorldType
        <5> HIDE DEF v
        <5>3. Beside(s, v, c) /\ v.startup_completed = s.startup_completed
          BY <2>7, <5>2 DEF Beside
        <5>4. Announced(v, c)
          BY <2>4, <2>6, <4>1, <4>5, <5>1, <5>3 DEF Settled, Announced, Asked, Beside
        <5>5. ~IsFirst(s, c)
          BY <4>5 DEF Nobody
        <5>6. Aside(s, v, c)
          BY <2>7, <5>3 DEF Aside, Beside
        <5>7. u = v
          BY <2>10, <4>5 DEF v
        <5> QED  BY <2>6, <3>2, <4>1, <5>1, <5>4, <5>5, <5>6, <5>7, SettledIf
      <4> QED  BY <4>2, <4>3, <4>4, <4>5
    <3> QED  BY <3>1, <3>2
  <2> QED  BY <2>1, <2>12, DecReadySettled
<1> QED  BY <1>1, <1>2

(* The reply with the interfaces has the Handler asked, if it is one.       *)
LEMMA GetInterfacesAsks ==
  ASSUME NEW s, NEW c \in Client, InCallback(s, c),
         \A call \in Call : ~Asked(s.proxy[c], call)
  PROVE  /\ Asks(s, GetInterfacesCb(s, c), c)
         /\ c \in Handlers => GetInterfacesCb(s, c).proxy[c].calls["Handler"] = s.owner[c]
         /\ c \notin Handlers => ~Asked(GetInterfacesCb(s, c).proxy[c], "Handler")
         /\ \A d \in Client \ {c} : Settled(s, d) => Settled(GetInterfacesCb(s, c), d)
<1> DEFINE t == IF c \in Approvers THEN CallClient(s, c, "Approver") ELSE s
           u == IF c \in Handlers THEN CallClient(t, c, "Handler") ELSE t
           v == IF c \in Observers THEN CallClient(u, c, "Observer") ELSE u
<1>1. GetInterfacesCb(s, c) = v
  BY DEF GetInterfacesCb
<1>2. ASSUME NEW w, InCallback(w, c), NEW call \in Call, NEW clients,
             NEW x, x = IF c \in clients THEN CallClient(w, c, call) ELSE w
      PROVE  /\ Asks(w, x, c)
             /\ c \in clients => x.proxy[c].calls[call] = w.owner[c]
             /\ \A other \in Call \ {call} : x.proxy[c].calls[other] = w.proxy[c].calls[other]
             /\ c \notin clients => x.proxy[c].calls[call] = w.proxy[c].calls[call]
             /\ \A d \in Client \ {c} : Settled(w, d) => Settled(x, d)
  <2>1. w.proxy[c].calls \in [Call -> Process \cup {Nobody, Unknown}]
    BY <1>2, WorldFacts DEF InCallback, ProxyType
  <2>2. CASE c \in clients
    <3>1. Asks(w, CallClient(w, c, call), c)
          /\ CallClient(w, c, call).proxy[c].calls = [w.proxy[c].calls EXCEPT ![call] = w.owner[c]]
      BY <1>2, CallClientAsks
    <3>2. \A d \in Client \ {c} : Settled(w, d) => Settled(CallClient(w, c, call), d)
      BY <1>2, CallClientAsks, TellsKeeps
    <3> QED  BY <1>2, <2>1, <2>2, <3>1, <3>2
  <2>3. CASE c \notin clients
    BY <1>2, <2>3 DEF Asks, Beside
  <2> QED  BY <2>2, <2>3
<1> HIDE DEF t, u, v
<1>3. InCallback(t, c) /\ \A call \in Call \ {"Approver"} : ~Asked(t.proxy[c], call)
  BY AskInv DEF t, Call
<1>4. InCallback(u, c) /\ \A call \in Call \ {"Approver", "Handler"} : ~Asked(u.proxy[c], call)
  BY <1>3, AskInv DEF u, Call
<1>5. "Approver" \in Call /\ "Handler" \in Call /\ "Observer" \in Call
  BY DEF Call
<1>6. /\ Asks(s, t, c) /\ t.proxy[c].calls["Handler"] = s.proxy[c].calls["Handler"]
      /\ \A d \in Client \ {c} : Settled(s, d) => Settled(t, d)
  BY <1>2, <1>5 DEF t
<1>7. /\ Asks(t, u, c)
      /\ u.proxy[c].calls["Handler"] =
           IF c \in Handlers THEN t.owner[c] ELSE t.proxy[c].calls["Handler"]
      /\ \A d \in Client \ {c} : Settled(t, d) => Settled(u, d)
  BY <1>2, <1>3, <1>5 DEF u
<1>8. /\ Asks(u, v, c) /\ v.proxy[c].calls["Handler"] = u.proxy[c].calls["Handler"]
      /\ \A d \in Client \ {c} : Settled(u, d) => Settled(v, d)
  BY <1>2, <1>4, <1>5 DEF v
<1>9. Asks(s, v, c)
  <2>1. \A call \in Call : v.proxy[c].calls[call] \in {s.proxy[c].calls[call], s.owner[c]}
    BY <1>6, <1>7, <1>8 DEF Asks, Beside
  <2> QED  BY <1>6, <1>7, <1>8, <2>1 DEF Asks, Beside
<1>10. v.proxy[c].calls["Handler"] =
         IF c \in Handlers THEN s.owner[c] ELSE s.proxy[c].calls["Handler"]
  BY <1>6, <1>7, <1>8 DEF Asks, Beside
<1> QED  BY <1>1, <1>5, <1>6, <1>7, <1>8, <1>9, <1>10 DEF Asked

(* What is recorded of channels that are handled is no business of others.  *)
LEMMA HandlingTells ==
  ASSUME NEW s \in WorldType, NEW c \in Client, NEW d \in Client \ {c}
  PROVE  Tells(s, IsHandlingChannel(s, c), d)
  BY DEF IsHandlingChannel, WorldType, Tells, Beside, SameClient

(* The reply of a Handler is told to the connection, if there is one, and   *)
(* the first process has its channel recorded.                              *)
LEMMA HandlerTold ==
  ASSUME NEW s, NEW c \in Client, InCallback(s, c), NEW from \in Process,
         s.proxy[c].activatable \/ s.proxy[c].unique_name # Nobody
  PROVE  LET t == HandlerGetAllCb(s, c, from) IN
         /\ t.proxy[c] = [s.proxy[c] EXCEPT !.caps = from]
         /\ Aside(s, t, c) /\ t.connection = s.connection /\ t.failed = s.failed
         /\ s.startup_completed /\ s.connection = "added" => t.caps_told[c] = from
         /\ from = 1 /\ s.proxy[c].unique_name = 1 => t.handling[c] = 1
         /\ \A d \in Client \ {c} : Settled(s, d) => Settled(t, d)
<1> DEFINE p == s.proxy[c]
           q == [p EXCEPT !.caps = from]
           t == SetProxy(s, c, q)
           u == CapabilitiesChanged(t, c)
           w == HandlerGetAllCb(s, c, from)
<1>1. s \in WorldType /\ p \in ProxyType
  BY WorldFacts DEF InCallback
<1>2. q \in ProxyType /\ q.unique_name = p.unique_name /\ q.caps = from
  <2>1. from \in Caps
    BY ClientsAssumption DEF Process, Caps, FileCaps
  <2> QED  BY <1>1, <2>1 DEF ProxyType
<1>3. t = [s EXCEPT !.proxy[c].caps = from]
  BY <1>1 DEF SetProxy, WorldType, ProxyType
<1>4. w = IF p.unique_name # Nobody /\ from = 1 THEN IsHandlingChannel(u, c) ELSE u
  BY <1>3 DEF HandlerGetAllCb
<1>5. /\ Aside(s, t, c) /\ t.connection = s.connection /\ t.failed = s.failed
      /\ t.caps_told = s.caps_told /\ t.startup_completed = s.startup_completed
  BY DEF SetProxy, Aside
<1> HIDE DEF q
<1>6. t \in WorldType /\ t.proxy[c] = q
  BY <1>1, <1>2, SetProxyWorld
<1>7. ASSUME NEW d \in Client \ {c} PROVE Tells(s, t, d)
  BY <1>1, <1>2, SetProxyTells
<1> HIDE DEF t, w
<1>8. /\ Aside(t, u, c) /\ u.connection = t.connection /\ u.failed = t.failed
      /\ u.proxy[c] = q /\ u \in WorldType
      /\ t.startup_completed /\ t.connection = "added" => u.caps_told[c] = q.caps
  <2>1. /\ u.proxy = t.proxy /\ Aside(t, u, c) /\ u.connection = t.connection /\ u.failed = t.failed
    BY <1>6 DEF CapabilitiesChanged, Aside, WorldType
  <2>2. u \in WorldType
    BY <1>6, CapabilitiesChangedFrame
  <2>3. t.startup_completed /\ t.connection = "added" => u.caps_told[c] = t.proxy[c].caps
    BY <1>6, CapsChanged
  <2> HIDE DEF u
  <2> QED  BY <1>6, <2>1, <2>2, <2>3
<1>9. ASSUME NEW d \in Client \ {c} PROVE Tells(t, u, d)
  BY <1>6, CapsTells
<1> HIDE DEF u
<1> DEFINE v == IsHandlingChannel(u, c)
<1>10. /\ Aside(u, v, c) /\ v.connection = u.connection /\ v.failed = u.failed
       /\ v.proxy[c] = q /\ v.caps_told = u.caps_told
       /\ q.unique_name = 1 => v.handling[c] = 1
  <2>1. v = IF q.unique_name > Nobody THEN [u EXCEPT !.handling[c] = q.unique_name] ELSE u
    BY <1>8 DEF IsHandlingChannel
  <2> HIDE DEF v
  <2>2. CASE q.unique_name > Nobody
    BY <1>8, <2>1, <2>2 DEF Aside, WorldType
  <2>3. CASE ~(q.unique_name > Nobody)
    BY <1>8, <2>1, <2>3 DEF Aside, Nobody
  <2> QED  BY <2>2, <2>3
<1>11. ASSUME NEW d \in Client \ {c} PROVE Tells(u, v, d)
  BY <1>8, HandlingTells
<1> HIDE DEF v
<1>12. /\ Aside(s, u, c) /\ u.connection = s.connection /\ u.failed = s.failed
       /\ s.startup_completed /\ s.connection = "added" => u.caps_told[c] = from
  BY <1>2, <1>5, <1>8 DEF Aside
<1>13. /\ Aside(s, v, c) /\ v.connection = s.connection /\ v.failed = s.failed
       /\ s.startup_completed /\ s.connection = "added" => v.caps_told[c] = from
  BY <1>10, <1>12 DEF Aside
<1>14. ASSUME NEW d \in Client \ {c}, Settled(s, d) PROVE Settled(u, d) /\ Settled(v, d)
  <2>1. Settled(u, d)
    BY <1>7, <1>9, <1>14, TellsKeeps
  <2> QED  BY <1>11, <2>1, TellsKeeps
<1>15. \A d \in Client \ {c} : Settled(s, d) => Settled(w, d)
  BY <1>4, <1>14 DEF v
<1>16. from = 1 /\ p.unique_name = 1 => w.handling[c] = 1
  BY <1>2, <1>4, <1>10 DEF v, Nobody
<1>17. /\ w.proxy[c] = q /\ Aside(s, w, c) /\ w.connection = s.connection /\ w.failed = s.failed
       /\ s.startup_completed /\ s.connection = "added" => w.caps_told[c] = from
  BY <1>4, <1>8, <1>10, <1>12, <1>13 DEF v
<1> QED  BY <1>15, <1>16, <1>17 DEF w, q

(* Every reply is told, and the answer of a Handler with a channel is       *)
(* recorded, before anything else happens.                                  *)
LEMMA CallReturnsSettled ==
  ASSUME RegistryInv(world), NEW c \in Client, NEW call \in Call, NEW ok \in BOOLEAN,
         CallReturns(c, call, ok), \A d \in Client : Settled(world, d)
  PROVE  \A d \in Client : Settled(world', d)
<1> DEFINE p == world.proxy[c]
           q == [p EXCEPT !.calls[call] = Unknown]
           from == p.calls[call]
           b == BackFrom(c, call, ok)
           u == Heard(c, call, ok)
<1>1. /\ world' = DecReadyLock(u, c) /\ InCallback(u, c)
      /\ InCallback(b, c) /\ b.proxy[c] = q
      /\ Asked(p, call) /\ (ok => from \in Process)
      /\ p.known /\ p.introspect_started
      /\ call = "Interfaces" => \A other \in Call : ~Asked(b.proxy[c], other)
  BY CallReturnsForm
<1>2. world \in WorldType /\ p \in ProxyType /\ b \in WorldType /\ Settled(world, c)
  BY <1>1, WorldFacts DEF RegistryInv, InCallback
<1>3. /\ q.known = p.known /\ q.activatable = p.activatable /\ q.unique_name = p.unique_name
      /\ q.introspect_started = p.introspect_started /\ q.caps = p.caps /\ q.ready = p.ready
      /\ q.calls = [p.calls EXCEPT ![call] = Unknown]
  BY <1>2 DEF ProxyType
<1>4. \A other \in Call : q.calls[other] = IF other = call THEN Unknown ELSE p.calls[other]
  BY <1>2, <1>3 DEF ProxyType
<1>5. /\ Aside(world, b, c) /\ b.connection = world.connection
      /\ b.caps_told = world.caps_told /\ b.handling = world.handling
      /\ b.failed = IF ok THEN world.failed ELSE world.failed \cup {c}
  BY DEF BackFrom, SetProxy, Aside
<1>6. ASSUME NEW d \in Client \ {c} PROVE Settled(b, d)
  <2>1. Tells(world, b, d)
    BY <1>2 DEF BackFrom, SetProxy, WorldType, Tells, Beside, SameClient
  <2> QED  BY <1>6, <2>1, TellsKeeps
<1>7. u = IF ~ok THEN b
          ELSE CASE call = "Interfaces" -> GetInterfacesCb(b, c)
                 [] call = "Handler"    -> HandlerGetAllCb(b, c, from)
                 [] call = "Observer"   -> [b EXCEPT !.proxy[c].recover = TRUE]
                 [] OTHER               -> b
  BY DEF Heard
<1> HIDE DEF b, u, q
<1>8. Announced(world, c) /\ (IsFirst(world, c) => FirstProxy(p) /\ FirstAsked(world, c))
  BY <1>1, <1>2 DEF Settled, Remembered
<1>9. IsFirst(world, c) => from = 1 /\ p.unique_name = 1
  BY <1>1, <1>8 DEF FirstProxy, Asked
<1>10. \A d \in Client : Settled(u, d)
  <2>1. CASE ~ok
    <3>1. u = b /\ c \in b.failed
      BY <1>5, <1>7, <2>1
    <3>2. Announced(u, c)
      BY <1>1, <1>3, <1>4, <1>5, <1>8, <3>1 DEF Announced, Asked, Call
    <3>3. IsFirst(world, c) => FirstProxy(q)
      BY <1>3, <1>4, <1>8 DEF FirstProxy
    <3>4. FirstAsked(u, c)
      BY <3>1 DEF FirstAsked
    <3>5. Settled(u, c)
      BY <1>1, <1>2, <1>3, <1>5, <3>1, <3>2, <3>3, <3>4, SettledIf
    <3> QED  BY <1>6, <3>1, <3>5
  <2>2. CASE ok /\ call = "Interfaces"
    <3>1. u = GetInterfacesCb(b, c) /\ b.failed = world.failed
      BY <1>5, <1>7, <2>2
    <3>2. /\ Asks(b, u, c)
          /\ c \in Handlers => u.proxy[c].calls["Handler"] = b.owner[c]
          /\ c \notin Handlers => ~Asked(u.proxy[c], "Handler")
          /\ \A d \in Client \ {c} : Settled(b, d) => Settled(u, d)
      BY <1>1, <2>2, <3>1, GetInterfacesAsks
    <3>3. b.owner[c] = world.owner[c] /\ world.owner[c] # Unknown
      BY <1>2, <1>5, WorldFacts DEF Aside
    <3>4. /\ Aside(world, u, c) /\ u.connection = world.connection
          /\ u.caps_told = world.caps_told /\ (c \in u.failed <=> c \in world.failed)
          /\ u.handling[c] = world.handling[c]
      BY <1>5, <3>1, <3>2 DEF Asks, Beside, Aside
    <3>5. /\ u.proxy[c].known = p.known /\ u.proxy[c].activatable = p.activatable
          /\ u.proxy[c].unique_name = p.unique_name /\ u.proxy[c].caps = p.caps
          /\ u.proxy[c].introspect_started = p.introspect_started
          /\ u.proxy[c].ready = p.ready
      BY <1>1, <1>3, <3>2 DEF Asks
    <3>6. \A other \in Call : u.proxy[c].calls[other] \in {q.calls[other], world.owner[c]}
      BY <1>1, <3>2, <3>3 DEF Asks
    <3>7. c \in Handlers => Asked(u.proxy[c], "Handler")
      BY <3>2, <3>3 DEF Asked
    <3>8. Announced(u, c)
      BY <1>8, <3>2, <3>4, <3>5, <3>7 DEF Announced, Aside
    <3>9. IsFirst(world, c) => FirstProxy(u.proxy[c]) /\ FirstAsked(u, c)
      BY <1>4, <1>8, <3>5, <3>6, <3>7 DEF IsFirst, FirstProxy, FirstAsked
    <3>10. Settled(u, c)
      BY <1>2, <3>4, <3>5, <3>8, <3>9, SettledIf
    <3> QED  BY <1>6, <3>2, <3>10
  <2>3. CASE ok /\ call = "Handler"
    <3>1. u = HandlerGetAllCb(b, c, from) /\ b.failed = world.failed
      BY <1>5, <1>7, <2>3
    <3>2. q.activatable \/ q.unique_name # Nobody
      BY <1>1, <1>3, <1>8 DEF Announced
    <3>3. /\ u.proxy[c] = [q EXCEPT !.caps = from]
          /\ Aside(b, u, c) /\ u.connection = b.connection /\ u.failed = b.failed
          /\ b.startup_completed /\ b.connection = "added" => u.caps_told[c] = from
          /\ from = 1 /\ q.unique_name = 1 => u.handling[c] = 1
          /\ \A d \in Client \ {c} : Settled(b, d) => Settled(u, d)
      <4>1. b.proxy[c].activatable \/ b.proxy[c].unique_name # Nobody
        BY <1>1, <3>2
      <4> QED  BY <1>1, <2>3, <3>1, <4>1, HandlerTold
    <3>4. /\ u.proxy[c].known = p.known /\ u.proxy[c].activatable = p.activatable
          /\ u.proxy[c].unique_name = p.unique_name /\ u.proxy[c].caps = from
          /\ u.proxy[c].introspect_started = p.introspect_started
          /\ u.proxy[c].ready = p.ready /\ u.proxy[c].calls = q.calls
      <4>1. q \in ProxyType
        BY <1>1, WorldFacts DEF InCallback
      <4> QED  BY <1>3, <3>3, <4>1 DEF ProxyType
    <3>5. Aside(world, u, c) /\ u.failed = world.failed
      BY <1>5, <3>1, <3>3 DEF Aside
    <3>6. c \in Handlers
      BY <1>1, <1>8, <2>3 DEF Announced
    <3>7. u.startup_completed /\ u.connection = "added" => u.caps_told[c] = u.proxy[c].caps
      BY <3>3, <3>4 DEF Aside
    <3>8. Announced(u, c)
      BY <1>8, <3>4, <3>6, <3>7 DEF Announced
    <3>9. IsFirst(world, c) => u.handling[c] = 1
      BY <1>3, <1>9, <3>3
    <3>10. IsFirst(world, c) => FirstProxy(u.proxy[c]) /\ FirstAsked(u, c)
      BY <1>4, <1>8, <3>4, <3>9 DEF FirstProxy, FirstAsked
    <3>11. Settled(u, c)
      BY <1>2, <3>4, <3>5, <3>8, <3>10, SettledIf
    <3> QED  BY <1>6, <3>3, <3>11
  <2>4. CASE ok /\ call \in {"Approver", "Observer"}
    <3>1. u = IF call = "Observer" THEN [b EXCEPT !.proxy[c].recover = TRUE] ELSE b
      BY <1>7, <2>4
    <3>2. /\ u.proxy[c].known = p.known /\ u.proxy[c].activatable = p.activatable
          /\ u.proxy[c].unique_name = p.unique_name /\ u.proxy[c].caps = p.caps
          /\ u.proxy[c].introspect_started = p.introspect_started
          /\ u.proxy[c].ready = p.ready /\ u.proxy[c].calls = q.calls
      <4>1. q \in ProxyType
        BY <1>1, WorldFacts DEF InCallback
      <4>2. u.proxy[c] = q \/ u.proxy[c] = [q EXCEPT !.recover = TRUE]
        BY <1>1, <1>2, <3>1 DEF WorldType
      <4> QED  BY <1>3, <4>1, <4>2 DEF ProxyType
    <3>3. /\ Aside(b, u, c) /\ u.connection = b.connection /\ u.failed = b.failed
          /\ u.caps_told = b.caps_told /\ u.handling = b.handling
      BY <3>1 DEF Aside
    <3>4. \A d \in Client \ {c} : Tells(b, u, d)
      BY <1>2, <3>1 DEF WorldType, Tells, Beside, SameClient
    <3>5. Aside(world, u, c) /\ u.connection = world.connection /\ u.failed = world.failed
          /\ u.caps_told = world.caps_told /\ u.handling = world.handling
      BY <1>5, <2>4, <3>3 DEF Aside
    <3>6. /\ u.proxy[c].calls["Interfaces"] = p.calls["Interfaces"]
          /\ u.proxy[c].calls["Handler"] = p.calls["Handler"]
      <4>1. "Interfaces" # call /\ "Handler" # call
        BY <2>4
      <4>2. "Interfaces" \in Call /\ "Handler" \in Call
        BY DEF Call
      <4> QED  BY <1>4, <3>2, <4>1, <4>2
    <3>7. Announced(u, c)
      BY <1>8, <3>2, <3>5, <3>6 DEF Announced, Asked, Aside
    <3>8. IsFirst(world, c) => FirstProxy(u.proxy[c]) /\ FirstAsked(u, c)
      BY <1>4, <1>8, <3>2, <3>5, <3>6 DEF FirstProxy, FirstAsked, Asked
    <3>9. Settled(u, c)
      BY <1>2, <3>2, <3>5, <3>7, <3>8, SettledIf
    <3> QED  BY <1>6, <3>4, <3>9, TellsKeeps
  <2> QED  BY <2>1, <2>2, <2>3, <2>4 DEF Call
<1> QED  BY <1>1, <1>10, DecReadySettled

(* A client that becomes incapable is told as such, and nothing else.       *)
LEMMA BecomeIncapableTells ==
  ASSUME NEW s, NEW c \in Client, RegistryInv(s)
  PROVE  LET t == BecomeIncapable(s, c) IN
         /\ Beside(s, t, c) /\ t.startup_completed = s.startup_completed
         /\ t.caps_told[c] \in {s.caps_told[c], NoCaps}
         /\ t.proxy[c].caps = NoCaps
         /\ \A d \in Client \ {c} : Settled(s, d) => Settled(t, d)
<1> DEFINE q == [s.proxy[c] EXCEPT !.caps = NoCaps]
           t == SetProxy(s, c, q)
           u == CapabilitiesChanged(t, c)
           b == BecomeIncapable(s, c)
<1>1. s \in WorldType /\ s.proxy[c] \in ProxyType
  BY WorldFacts DEF RegistryInv
<1>2. q \in ProxyType /\ q.caps = NoCaps
  <2>1. NoCaps \in Caps
    BY ClientsAssumption DEF NoCaps, Caps, FileCaps
  <2> QED  BY <1>1, <2>1 DEF ProxyType
<1>3. t = [s EXCEPT !.proxy[c].caps = NoCaps]
  BY <1>1 DEF SetProxy, WorldType, ProxyType
<1>4. Beside(s, t, c) /\ t.startup_completed = s.startup_completed /\ t.caps_told = s.caps_told
  BY DEF SetProxy, Beside
<1>5. b = t \/ b = u
  BY <1>3 DEF BecomeIncapable
<1> HIDE DEF q
<1>6. t \in WorldType /\ t.proxy[c] = q /\ \A d \in Client \ {c} : Tells(s, t, d)
  BY <1>1, <1>2, SetProxyWorld, SetProxyTells
<1> HIDE DEF t, b
<1>7. /\ u.caps_told[c] \in {t.caps_told[c], NoCaps} /\ u.proxy[c] = q
      /\ \A d \in Client \ {c} : Tells(t, u, d)
  BY <1>2, <1>6, CapsChanged, CapsTells
<1>8. Beside(t, u, c) /\ u.startup_completed = t.startup_completed
  BY <1>6 DEF CapabilitiesChanged, Beside, WorldType
<1> HIDE DEF u
<1>9. Beside(s, u, c) /\ u.startup_completed = s.startup_completed
  BY <1>4, <1>8 DEF Beside
<1>10. \A d \in Client \ {c} : Settled(s, d) => Settled(t, d) /\ Settled(u, d)
  BY <1>6, <1>7, TellsKeeps
<1>11. /\ Beside(s, b, c) /\ b.startup_completed = s.startup_completed
       /\ b.caps_told[c] \in {s.caps_told[c], NoCaps} /\ b.proxy[c].caps = NoCaps
  BY <1>2, <1>4, <1>5, <1>6, <1>7, <1>9
<1>12. \A d \in Client \ {c} : Settled(s, d) => Settled(b, d)
  BY <1>5, <1>10
<1> QED  BY <1>11, <1>12 DEF b

(* A client that is removed is not waited for any more, and startup may be  *)
(* completed by that.                                                       *)
LEMMA RemoveSettled ==
  ASSUME NEW s, NEW c \in Client, RegistryInv(s), s.proxy[c].known
  PROVE  LET t == Remove(s, c) IN
         /\ Beside(s, t, c) /\ t.proxy[c] = NoProxy
         /\ t.startup_completed => s.startup_completed \/ s.list = "done"
         /\ t.caps_told[c] \in {s.caps_told[c], s.proxy[c].caps}
         /\ \A d \in Client \ {c} : Settled(s, d) => Settled(t, d)
<1> DEFINE u == IF s.proxy[c].ready THEN s ELSE DecStartupLock(s)
           t == SetProxy(u, c, NoProxy)
           n == Cardinality(NotReady(s) \ {c})
<1>1. s \in WorldType /\ StartupInv(s)
  BY DEF RegistryInv
<1>2. Remove(s, c) = t
  BY DEF Remove, SetProxy
<1>3. n \in Nat /\ (n = 0 => NotReady(s) \ {c} = {})
  <2>1. IsFiniteSet(NotReady(s) \ {c})
    BY NotReadyIsFinite, FS_RemoveElement
  <2> QED  BY <2>1, FS_CardinalityType, FS_EmptySet
<1>4. /\ u \in WorldType /\ u.proxy = s.proxy /\ Beside(s, u, c)
      /\ u.startup_completed => s.startup_completed \/ s.list = "done"
      /\ u.caps_told[c] \in {s.caps_told[c], s.proxy[c].caps}
      /\ \A d \in Client \ {c} : Settled(s, d) => Settled(u, d)
  <2>1. CASE s.proxy[c].ready
    BY <1>1, <2>1 DEF Beside
  <2>2. CASE ~s.proxy[c].ready
    <3>1. u = DecStartupLock(s)
      BY <2>2
    <3>2. ~s.startup_completed => s.startup_lock = n + One(s.list # "done") + 1
      <4>1. c \in NotReady(s)
        BY <2>2 DEF NotReady
      <4>2. n = Cardinality(NotReady(s)) - 1 /\ Cardinality(NotReady(s)) \in Nat
        BY <4>1, NotReadyIsFinite, FS_RemoveElement
      <4> QED  BY <1>1, <4>2 DEF StartupInv, One
    <3>3. ASSUME NEW d \in Client \ {c} PROVE n = 0 /\ s.proxy[d].known => s.proxy[d].ready
      BY <1>3 DEF NotReady
    <3> HIDE DEF u, n
    <3>4. ASSUME NEW d \in Client \ {c} PROVE Tells(s, u, d)
      BY <1>1, <1>3, <3>1, <3>2, <3>3, DecTells
    <3>5. u \in WorldType
      BY <1>1, <1>3, <3>1, <3>2, DecStartup
    <3>6. /\ u.proxy = s.proxy /\ Beside(s, u, c)
          /\ u.startup_completed => s.startup_completed \/ s.list = "done"
          /\ u.caps_told[c] \in {s.caps_told[c], s.proxy[c].caps}
      BY <1>1, <1>3, <3>1, <3>2, DecBeside
    <3> QED  BY <3>4, <3>5, <3>6, TellsKeeps
  <2> QED  BY <2>1, <2>2
<1> HIDE DEF u
<1>5. NoProxy \in ProxyType
  BY NoProxyInv
<1>6. Beside(u, t, c) /\ t.startup_completed = u.startup_completed /\ t.caps_told = u.caps_told
  BY DEF SetProxy, Beside
<1>7. t.proxy[c] = NoProxy /\ \A d \in Client \ {c} : Tells(u, t, d)
  <2> HIDE DEF NoProxy
  <2> QED  BY <1>4, <1>5, SetProxyWorld, SetProxyTells
<1> HIDE DEF t
<1>8. /\ Beside(s, t, c) /\ t.proxy[c] = NoProxy
      /\ t.startup_completed => s.startup_completed \/ s.list = "done"
      /\ t.caps_told[c] \in {s.caps_told[c], s.proxy[c].caps}
  BY <1>4, <1>6, <1>7 DEF Beside
<1>9. \A d \in Client \ {c} : Settled(s, d) => Settled(t, d)
  BY <1>4, <1>7, TellsKeeps
<1> QED  BY <1>2, <1>8, <1>9

(* A client leaves, which is not the first process of one that MC found.    *)
LEMMA SetInactiveSettled ==
  ASSUME NEW s, NEW c \in Client, RegistryInv(s), s.proxy[c].known, ~IsFirst(s, c),
         \A d \in Client : Settled(s, d)
  PROVE  ~IsFirst(SetInactive(s, c), c) /\ \A d \in Client : Settled(SetInactive(s, c), d)
<1> DEFINE p == s.proxy[c]
           q == [p EXCEPT !.unique_name = Nobody]
           t == SetProxy(s, c, q)
           b == BecomeIncapable(t, c)
           r == Remove(b, c)
<1>1. s \in WorldType /\ p \in ProxyType /\ Settled(s, c)
  BY WorldFacts DEF RegistryInv
<1>2. /\ q \in ProxyType /\ SameLocks(p, q) /\ q.activatable = p.activatable
      /\ q.caps = p.caps /\ q.calls = p.calls /\ q.introspect_started = p.introspect_started
      /\ q.known = p.known /\ q.ready = p.ready
  BY <1>1 DEF ProxyType, SameLocks
<1>3. t = [s EXCEPT !.proxy[c].unique_name = Nobody]
  BY <1>1 DEF SetProxy, WorldType, ProxyType
<1>4. Beside(s, t, c) /\ t.startup_completed = s.startup_completed /\ t.caps_told = s.caps_told
  BY DEF SetProxy, Beside
<1> HIDE DEF q
<1>5. t \in WorldType /\ t.proxy[c] = q /\ RegistryInv(t)
      /\ \A d \in Client \ {c} : Tells(s, t, d)
  BY <1>1, <1>2, SetProxyWorld, SetProxyTells, SetProxyInv
<1>6. SetInactive(s, c) = IF p.unique_name = Nobody THEN s ELSE IF p.activatable THEN t ELSE r
  BY <1>3 DEF SetInactive
<1> HIDE DEF t
<1>7. \A d \in Client \ {c} : Settled(t, d)
  BY <1>5, TellsKeeps
<1>8. CASE p.activatable
  <2>1. Announced(t, c)
    BY <1>1, <1>2, <1>4, <1>5, <1>8 DEF Settled, Announced, Beside, Asked
  <2>3. ~IsFirst(t, c)
    BY <1>4 DEF IsFirst, Beside
  <2>2. Settled(t, c)
    <3>1. Aside(s, t, c)
      BY <1>4 DEF Aside, Beside
    <3> QED  BY <1>1, <1>2, <1>5, <2>1, <3>1, SettledIf
  <2> QED  BY <1>6, <1>7, <1>8, <2>2, <2>3
<1>9. CASE ~p.activatable
  <2>1. RegistryInv(b) /\ b.proxy[c].known
    BY <1>2, <1>5, BecomeIncapableInv
  <2>2. /\ Beside(t, b, c) /\ b.startup_completed = t.startup_completed
        /\ b.caps_told[c] \in {t.caps_told[c], NoCaps} /\ b.proxy[c].caps = NoCaps
        /\ \A d \in Client \ {c} : Settled(b, d)
    BY <1>5, <1>7, BecomeIncapableTells
  <2> HIDE DEF b
  <2>3. /\ Beside(b, r, c) /\ r.proxy[c] = NoProxy
        /\ r.startup_completed => b.startup_completed \/ b.list = "done"
        /\ r.caps_told[c] \in {b.caps_told[c], b.proxy[c].caps}
        /\ \A d \in Client \ {c} : Settled(r, d)
    BY <2>1, <2>2, RemoveSettled
  <2> HIDE DEF r
  <2>4. Beside(s, r, c)
    BY <1>4, <2>2, <2>3 DEF Beside
  <2>5. /\ ~NoProxy.known /\ NoProxy.caps = NoCaps
        /\ ~Asked(NoProxy, "Handler")
    BY DEF NoProxy, NoCalls, Asked, Call
  <2>6. r.caps_told[c] \in {s.caps_told[c], NoCaps}
    BY <1>4, <2>2, <2>3
  <2> HIDE DEF NoProxy
  <2>7. Announced(r, c)
    BY <1>1, <2>3, <2>5, <2>6 DEF Settled, Announced
  <2>8. ~IsFirst(r, c)
    BY <2>4 DEF IsFirst, Beside
  <2>9. Remembered(r, c)
    BY <1>1, <2>3, <2>4, <2>5, <2>8 DEF Settled, Remembered, Beside
  <2>10. Finished(r, c)
    <3>1. s.startup_completed => s.list = "done"
      BY <1>1 DEF Settled, Finished
    <3>2. r.list = s.list /\ b.list = s.list
      BY <1>4, <2>2, <2>4 DEF Beside
    <3> QED  BY <1>4, <2>2, <2>3, <2>8, <3>1, <3>2 DEF Finished
  <2>11. \A d \in Client : Settled(r, d)
    BY <2>3, <2>7, <2>9, <2>10 DEF Settled
  <2> QED  BY <1>6, <1>9, <2>8, <2>11
<1> QED  BY <1>8, <1>9

(* A client that is known gets another owner.                               *)
LEMMA NamedSettled ==
  ASSUME NEW s, NEW c \in Client, RegistryInv(s), s.proxy[c].known,
         NEW name \in Process, IsFirst(s, c) => name = 1,
         \A d \in Client : Settled(s, d),
         NEW t, t = [s EXCEPT !.proxy[c].unique_name = name]
  PROVE  /\ RegistryInv(t) /\ \A d \in Client : Settled(t, d)
         /\ t.proxy[c].known /\ (IsFirst(t, c) => t.proxy[c].unique_name = 1)
         /\ IsFirst(t, c) => name = 1
<1> DEFINE p == s.proxy[c]
           q == [p EXCEPT !.unique_name = name]
<1>1. s \in WorldType /\ p \in ProxyType /\ Settled(s, c)
  BY WorldFacts DEF RegistryInv
<1>2. /\ q \in ProxyType /\ SameLocks(p, q) /\ q.activatable = p.activatable
      /\ q.caps = p.caps /\ q.calls = p.calls /\ q.introspect_started = p.introspect_started
      /\ q.known = p.known /\ q.ready = p.ready /\ q.unique_name = name
  BY <1>1 DEF ProxyType, SameLocks
<1>3. t = SetProxy(s, c, q)
  BY <1>1 DEF SetProxy, WorldType, ProxyType
<1>4. Beside(s, t, c) /\ t.startup_completed = s.startup_completed /\ t.caps_told = s.caps_told
  BY <1>3 DEF SetProxy, Beside
<1> HIDE DEF q
<1>5. t.proxy[c] = q /\ RegistryInv(t) /\ \A d \in Client \ {c} : Tells(s, t, d)
  <2> DEFINE u == SetProxy(s, c, q)
  <2>1. u.proxy[c] = q /\ \A d \in Client \ {c} : Tells(s, u, d)
    BY <1>1, <1>2, SetProxyWorld, SetProxyTells
  <2>2. RegistryInv(u)
    BY <1>2, SetProxyInv
  <2> HIDE DEF u
  <2> QED  BY <1>3, <2>1, <2>2 DEF u
<1>6. name # Nobody
  BY DEF Process, Nobody
<1>7. Announced(t, c)
  BY <1>1, <1>2, <1>4, <1>5, <1>6 DEF Settled, Announced, Beside, Asked
<1>8. Aside(s, t, c) /\ (IsFirst(t, c) <=> IsFirst(s, c))
  BY <1>4 DEF Aside, Beside, IsFirst
<1>9. IsFirst(s, c) => FirstProxy(t.proxy[c]) /\ FirstAsked(t, c)
  BY <1>1, <1>2, <1>4, <1>5 DEF Settled, Remembered, FirstProxy, FirstAsked, Asked, Beside
<1>10. Settled(t, c)
  BY <1>1, <1>2, <1>5, <1>7, <1>8, <1>9, SettledIf
<1> QED  BY <1>2, <1>5, <1>8, <1>10, TellsKeeps

(* A name is found, of a client that is new or not.                         *)
LEMMA FoundNameSettled ==
  ASSUME NEW s, NEW c \in Client, RegistryInv(s), NEW name \in Process,
         IsFirst(s, c) => name = 1, s.list = "names" => s.starts[c] # 0,
         \A d \in Client : Settled(s, d)
  PROVE  /\ \A d \in Client : Settled(FoundName(s, c, name), d)
         /\ IsFirst(FoundName(s, c, name), c) => name = 1
<1>1. CASE s.proxy[c].known
  <2> DEFINE t == [s EXCEPT !.proxy[c].unique_name = name]
  <2>1. FoundName(s, c, name) = t
    BY <1>1 DEF FoundName
  <2> HIDE DEF t
  <2>2. (\A d \in Client : Settled(t, d)) /\ (IsFirst(t, c) => name = 1)
    BY <1>1, NamedSettled DEF t
  <2> QED  BY <2>1, <2>2
<1>2. CASE ~s.proxy[c].known
  <2> DEFINE q == NewProxy(name, FALSE)
             t == SetProxy(s, c, q)
             u == IncStartupLock(t, 1)
  <2>1. s \in WorldType /\ Settled(s, c)
    BY DEF RegistryInv
  <2>2. q \in ProxyType /\ q.known
    BY NewProxyInv
  <2>3. /\ q.unique_name = name /\ ~q.introspect_started /\ q.caps = NoCaps
        /\ q.calls = NoCalls
    BY DEF NewProxy, NoProxy
  <2>4. FoundName(s, c, name) = u
    BY <1>2 DEF FoundName, SetProxy
  <2>5. Beside(s, t, c) /\ t.startup_completed = s.startup_completed /\ t.caps_told = s.caps_told
    BY DEF SetProxy, Beside
  <2> HIDE DEF q
  <2>6. t \in WorldType /\ t.proxy[c] = q /\ \A d \in Client \ {c} : Tells(s, t, d)
    BY <2>1, <2>2, SetProxyWorld, SetProxyTells
  <2> HIDE DEF t
  <2>7. name # Nobody /\ \A call \in Call : q.calls[call] = Unknown
    BY <2>3 DEF Process, Nobody, NoCalls
  <2>8. Announced(t, c)
    BY <2>1, <2>2, <2>3, <2>5, <2>6, <2>7 DEF Settled, Announced, Asked, Call
  <2>9. IsFirst(t, c) <=> IsFirst(s, c)
    BY <2>5 DEF IsFirst, Beside
  <2>10. IsFirst(s, c) => FirstProxy(q) /\ FirstAsked(t, c)
    BY <2>3, <2>6, <2>7 DEF FirstProxy, FirstAsked
  <2>11. Remembered(t, c)
    BY <2>1, <2>2, <2>5, <2>6, <2>9, <2>10 DEF Settled, Remembered, Beside
  <2>12. Finished(t, c)
    <3>1. s.list = "done" => ~IsFirst(s, c)
      BY <1>2, <2>1 DEF Settled, Remembered, IsFirst
    <3> QED  BY <2>1, <2>5, <2>9, <3>1 DEF Settled, Finished, Beside
  <2>13. \A d \in Client : Settled(t, d)
    BY <2>6, <2>8, <2>11, <2>12, TellsKeeps DEF Settled
  <2>14. \A d \in Client : Tells(t, u, d)
    BY <2>6, IncTells
  <2>15. IsFirst(u, c) <=> IsFirst(t, c)
    BY <2>14 DEF Tells, Beside, IsFirst
  <2> HIDE DEF u
  <2> QED  BY <2>4, <2>9, <2>13, <2>14, <2>15, TellsKeeps
<1> QED  BY <1>1, <1>2

(* The rest of the callback of a changed owner.                             *)
LEMMA AfterUniqueNameSettled ==
  ASSUME NEW s, NEW c \in Client, RegistryInv(s), NEW should_recover \in BOOLEAN,
         \A d \in Client : Settled(s, d),
         IsFirst(s, c) => s.proxy[c].unique_name = 1
  PROVE  \A d \in Client : Settled(AfterUniqueName(s, c, should_recover), d)
<1> DEFINE t == IF s.proxy[c].known THEN Introspect(s, c) ELSE s
<1>1. t \in WorldType /\ \A d \in Client : Settled(t, d)
  BY IntrospectInv, IntrospectSettled DEF RegistryInv
<1> HIDE DEF t
<1>2. \A d \in Client : Settled(NeedRecovery(t, c), d)
  BY <1>1, RecoverTells, TellsKeeps
<1> QED  BY <1>1, <1>2 DEF AfterUniqueName, t

(* The callback of a changed owner: that of a first process is 1.           *)
LEMMA UniqueNameCbSettled ==
  ASSUME NEW s, NEW c \in Client, RegistryInv(s), s.proxy[c].known,
         NEW name \in Process \cup {Nobody}, IsFirst(s, c) => name = 1,
         \A d \in Client : Settled(s, d)
  PROVE  \A d \in Client : Settled(UniqueNameCb(s, c, name), d)
<1> DEFINE t == [s EXCEPT !.proxy[c].unique_name = name]
           u == SetInactive(s, c)
           recover == s.proxy[c].recover /\ s.proxy[c].activatable
<1>1. recover \in BOOLEAN
  <2>1. s.proxy[c].recover \in BOOLEAN /\ s.proxy[c].activatable \in BOOLEAN
    BY WorldFacts DEF RegistryInv, ProxyType
  <2> QED  BY <2>1, Zenon
<1>2. UniqueNameCb(s, c, name) =
        IF name = Nobody THEN AfterUniqueName(u, c, recover) ELSE AfterUniqueName(t, c, FALSE)
  BY DEF UniqueNameCb
<1> HIDE DEF recover, t, u
<1>3. CASE name = Nobody
  <2>1. ~IsFirst(s, c)
    BY <1>3 DEF Nobody
  <2>2. RegistryInv(u) /\ ~IsFirst(u, c) /\ \A d \in Client : Settled(u, d)
    BY <2>1, SetInactiveInv, SetInactiveSettled DEF u
  <2> QED  BY <1>1, <1>2, <1>3, <2>2, AfterUniqueNameSettled
<1>4. CASE name # Nobody
  <2>1. name \in Process
    BY <1>4
  <2>2. RegistryInv(t) /\ (\A d \in Client : Settled(t, d)) /\ (IsFirst(t, c) => t.proxy[c].unique_name = 1)
    BY <2>1, NamedSettled DEF t
  <2> QED  BY <1>2, <1>4, <2>2, AfterUniqueNameSettled
<1> QED  BY <1>3, <1>4

(* The watch remembers the last owner, and that is all it does itself.      *)
LEMMA WatchSettled ==
  ASSUME NEW s, NEW c \in Client, RegistryInv(s), NEW owner \in Process \cup {Nobody},
         IsFirst(s, c) => owner = 1, \A d \in Client : Settled(s, d)
  PROVE  \A d \in Client : Settled(Watch(s, c, owner), d)
<1> DEFINE q == [s.proxy[c] EXCEPT !.last_owner = owner]
           t == SetProxy(s, c, q)
<1>1. s \in WorldType /\ s.proxy[c] \in ProxyType
  BY WorldFacts DEF RegistryInv
<1>2. q \in ProxyType /\ SameLocks(s.proxy[c], q) /\ SameClient(s.proxy[c], q)
  BY <1>1 DEF ProxyType, SameLocks, SameClient
<1>3. t = [s EXCEPT !.proxy[c].last_owner = owner]
  BY <1>1 DEF SetProxy, WorldType, ProxyType
<1>4. Beside(s, t, c) /\ t.startup_completed = s.startup_completed /\ t.caps_told = s.caps_told
  BY DEF SetProxy, Beside
<1> HIDE DEF q
<1>5. t.proxy[c] = q /\ RegistryInv(t) /\ \A d \in Client \ {c} : Tells(s, t, d)
  BY <1>1, <1>2, SetProxyWorld, SetProxyTells, SetProxyInv
<1> HIDE DEF t
<1>6. Tells(s, t, c)
  BY <1>2, <1>4, <1>5 DEF Tells
<1>7. (\A d \in Client : Settled(t, d)) /\ (t.proxy[c].known <=> s.proxy[c].known)
  BY <1>2, <1>5, <1>6, TellsKeeps DEF SameClient
<1>8. IsFirst(t, c) => owner = 1
  BY <1>4 DEF Beside, IsFirst
<1>9. t.proxy[c].known => \A d \in Client : Settled(UniqueNameCb(t, c, owner), d)
  BY <1>5, <1>7, <1>8, UniqueNameCbSettled
<1> QED  BY <1>3, <1>7, <1>9 DEF Watch

(* What the bus tells of the owner of a name.                               *)
LEMMA NameOwnerChangedSettled ==
  ASSUME RegistryInv(world), NEW c \in Client, NameOwnerChanged(c),
         \A d \in Client : Settled(world, d)
  PROVE  \A d \in Client : Settled(world', d)
<1> DEFINE inbox == world.inbox[c]
           owner == Head(inbox)
           s == [world EXCEPT !.inbox[c] = Tail(@)]
           t == IF owner # Nobody THEN FoundName(s, c, owner) ELSE s
<1>1. world \in WorldType /\ inbox \in Seq(Process \cup {Nobody}) /\ inbox # <<>> /\ Settled(world, c)
  BY DEF RegistryInv, WorldType, NameOwnerChanged
<1>2. owner \in Process \cup {Nobody} /\ Tail(inbox) \in Seq(Process \cup {Nobody})
  BY <1>1
<1>3. s \in WorldType /\ Same(world, s)
  BY <1>1, <1>2 DEF WorldType, Same
<1>4. world' = Watch(t, c, owner)
  BY DEF NameOwnerChanged, Becomes
<1>5. \A d \in Client \ {c} : Tells(world, s, d)
  BY <1>1 DEF WorldType, Tells, Beside, SameClient
<1>6. /\ s.inbox[c] = Tail(inbox) /\ s.owner = world.owner /\ s.starts = world.starts
      /\ s.initial = world.initial /\ s.list = world.list /\ s.proxy = world.proxy
      /\ s.startup_completed = world.startup_completed /\ s.connection = world.connection
      /\ s.failed = world.failed /\ s.caps_told = world.caps_told /\ s.handling = world.handling
  BY <1>1 DEF WorldType
<1>7. inbox # <<>> /\ world.list = "names" => world.starts[c] # 0
  BY <1>1 DEF Settled, Remembered
<1>8. IsFirst(s, c) <=> IsFirst(world, c)
  BY <1>6 DEF IsFirst
<1>9. IsFirst(world, c) => owner = 1 /\ \A i \in DOMAIN Tail(inbox) : Tail(inbox)[i] = 1
  <2>1. IsFirst(world, c) => \A i \in DOMAIN inbox : inbox[i] = 1
    BY <1>1 DEF Settled, Remembered
  <2>2. 1 \in DOMAIN inbox /\ owner = inbox[1]
    BY <1>1
  <2>3. \A i \in DOMAIN Tail(inbox) : i + 1 \in DOMAIN inbox /\ Tail(inbox)[i] = inbox[i + 1]
    BY <1>1
  <2> QED  BY <2>1, <2>2, <2>3
<1> HIDE DEF s, owner, inbox
<1>10. Settled(s, c)
  <2>1. Announced(s, c)
    BY <1>1, <1>6 DEF Settled, Announced
  <2>2. FirstAsked(s, c) <=> FirstAsked(world, c)
    BY <1>6 DEF FirstAsked
  <2>3. Remembered(s, c)
    BY <1>1, <1>6, <1>7, <1>8, <1>9, <2>2 DEF Settled, Remembered
  <2>4. Finished(s, c)
    BY <1>1, <1>6, <1>8 DEF Settled, Finished
  <2> QED  BY <2>1, <2>3, <2>4 DEF Settled
<1>11. \A d \in Client : Settled(s, d)
  BY <1>5, <1>10, TellsKeeps
<1>12. RegistryInv(s)
  BY <1>3, SameKeepsInv
<1>13. /\ RegistryInv(t) /\ \A d \in Client : Settled(t, d)
       /\ IsFirst(t, c) => owner = 1
  <2>1. IsFirst(s, c) => owner = 1
    BY <1>8, <1>9
  <2>2. s.list = "names" => s.starts[c] # 0
    BY <1>1, <1>6, <1>7
  <2>3. CASE owner # Nobody
    <3>1. t = FoundName(s, c, owner) /\ owner \in Process
      BY <1>2, <2>3
    <3> HIDE DEF t
    <3> QED  BY <1>11, <1>12, <2>1, <2>2, <3>1, FoundNameInv, FoundNameSettled
  <2>4. CASE owner = Nobody
    BY <1>11, <1>12, <2>1, <2>4
  <2> QED  BY <2>3, <2>4
<1> HIDE DEF t
<1> QED  BY <1>2, <1>4, <1>13, WatchSettled

(* A list leaves every client settled, if MC knows after it the first       *)
(* process of each client that it had to find.                              *)
LEMMA FoundNamesSettled ==
  ASSUME NEW s \in WorldType, NEW names \in SUBSET Client, NEW activatable \in BOOLEAN,
         NEW t, t = FoundNames(s, names, activatable), NEW c \in Client,
         ~s.startup_completed, s.list # "names", s.inbox[c] = <<>>, Announced(s, c),
         s.owner[c] \in {Nobody, s.starts[c]}, c \in s.initial => s.starts[c] # 0,
         IsFirst(s, c) => c \in names \/ s.proxy[c].known,
         IsFirst(s, c) /\ s.proxy[c].known => FirstProxy(s.proxy[c]) /\ FirstAsked(s, c)
  PROVE  Settled(t, c)
<1> DEFINE p == NewProxy(Unknown, activatable)
           q == [s.proxy[c] EXCEPT !.activatable = TRUE]
<1>1. /\ c \in names /\ ~s.proxy[c].known =>
           t.proxy[c] = p /\ t.inbox[c] = Append(<<>>, s.owner[c])
      /\ ~(c \in names /\ ~s.proxy[c].known) =>
           t.proxy[c] \in {s.proxy[c], q} /\ t.inbox[c] = <<>>
      /\ t.owner = s.owner /\ t.starts = s.starts /\ t.list = s.list
      /\ t.connection = s.connection /\ t.initial = s.initial /\ t.failed = s.failed
      /\ t.caps_told = s.caps_told /\ t.handling = s.handling
      /\ t.startup_completed = s.startup_completed
  <2> DEFINE new == {d \in names : ~s.proxy[d].known}
             proxy == [d \in Client |->
               IF d \in new THEN NewProxy(Unknown, activatable)
               ELSE IF d \in names /\ activatable THEN [s.proxy[d] EXCEPT !.activatable = TRUE]
               ELSE s.proxy[d]]
             inbox == [d \in Client |->
               IF d \in new THEN Append(s.inbox[d], s.owner[d]) ELSE s.inbox[d]]
             u == [s EXCEPT !.proxy = proxy, !.inbox = inbox]
             n == Cardinality(new)
  <2>1. t = IncStartupLock(u, n)
    BY DEF FoundNames
  <2>2. /\ c \in new => proxy[c] = p /\ inbox[c] = Append(<<>>, s.owner[c])
        /\ c \notin new => proxy[c] \in {s.proxy[c], q} /\ inbox[c] = <<>>
    OBVIOUS
  <2>3. c \in new <=> c \in names /\ ~s.proxy[c].known
    OBVIOUS
  <2> HIDE DEF new, proxy, inbox, n, p, q
  <2>4. /\ t.proxy = proxy /\ t.inbox = inbox
        /\ t.owner = s.owner /\ t.starts = s.starts /\ t.list = s.list
        /\ t.connection = s.connection /\ t.initial = s.initial /\ t.failed = s.failed
        /\ t.caps_told = s.caps_told /\ t.handling = s.handling
        /\ t.startup_completed = s.startup_completed
    BY <2>1 DEF IncStartupLock, WorldType
  <2> QED  BY <2>2, <2>3, <2>4
<1>2. /\ p.known /\ p.unique_name = Unknown /\ ~p.introspect_started /\ p.caps = NoCaps
      /\ \A call \in Call : p.calls[call] = Unknown
  BY DEF NewProxy, NoProxy, NoCalls
<1>3. /\ q.known = s.proxy[c].known /\ q.activatable /\ q.caps = s.proxy[c].caps
      /\ q.unique_name = s.proxy[c].unique_name /\ q.calls = s.proxy[c].calls
      /\ q.introspect_started = s.proxy[c].introspect_started
  BY WorldFacts DEF ProxyType
<1> HIDE DEF p, q
<1>4. IsFirst(t, c) <=> IsFirst(s, c)
  BY <1>1 DEF IsFirst
<1>5. CASE c \in names /\ ~s.proxy[c].known
  <2>1. t.proxy[c] = p /\ t.inbox[c] = Append(<<>>, s.owner[c])
    BY <1>1, <1>5
  <2>2. "Handler" \in Call /\ Unknown # Nobody
    BY DEF Call, Unknown, Nobody
  <2>3. Announced(t, c)
    BY <1>1, <1>2, <2>1, <2>2 DEF Announced, Asked
  <2>4. FirstProxy(p) /\ FirstAsked(t, c)
    BY <1>2, <2>1 DEF FirstProxy, FirstAsked
  <2>5. IsFirst(s, c) => \A i \in DOMAIN t.inbox[c] : t.inbox[c][i] = 1
    <3>1. IsFirst(s, c) => t.inbox[c] = Append(<<>>, 1)
      BY <2>1 DEF IsFirst
    <3>2. \A i \in DOMAIN Append(<<>>, 1) : Append(<<>>, 1)[i] = 1
      OBVIOUS
    <3> QED  BY <3>1, <3>2
  <2>6. Remembered(t, c)
    BY <1>1, <1>2, <1>4, <2>1, <2>4, <2>5 DEF Remembered
  <2> QED  BY <1>1, <2>3, <2>6 DEF Settled, Finished
<1>6. CASE ~(c \in names /\ ~s.proxy[c].known)
  <2>1. t.proxy[c] \in {s.proxy[c], q} /\ t.inbox[c] = <<>>
    BY <1>1, <1>6
  <2>2. Announced(t, c)
    BY <1>1, <1>3, <2>1 DEF Announced, Asked
  <2>3. IsFirst(s, c) => t.proxy[c].known /\ FirstProxy(t.proxy[c]) /\ FirstAsked(t, c)
    BY <1>1, <1>3, <1>6, <2>1 DEF FirstProxy, FirstAsked, Asked
  <2>4. Remembered(t, c)
    BY <1>1, <1>4, <2>1, <2>3 DEF Remembered
  <2> QED  BY <1>1, <2>2, <2>4 DEF Settled, Finished
<1> QED  BY <1>5, <1>6

(* The list of the running clients: MC knows each of them from then on.     *)
LEMMA ListNamesSettled ==
  ASSUME RegistryInv(world), NEW error \in BOOLEAN, ListNames(error),
         NEW c \in Client, Settled(world, c)
  PROVE  Settled(world', c)
<1> DEFINE running == {d \in Client : world.owner[d] # Nobody}
           missed == running \ {d \in Client : world.proxy[d].known}
           s == [world EXCEPT !.list = "activatable"]
<1>1. world \in WorldType /\ world.list = "names" /\ world.inbox[c] = <<>>
  BY DEF RegistryInv, ListNames, CaughtUp
<1>2. running \in SUBSET Client
  OBVIOUS
<1>3. ~world.startup_completed /\ Announced(world, c)
  BY <1>1 DEF Settled, Finished
<1>4. c \in running <=> world.owner[c] # Nobody
  OBVIOUS
<1>5. CASE error
  <2> DEFINE t == [s EXCEPT !.missed = missed]
  <2>1. world' = t
    BY <1>5 DEF ListNames, Becomes
  <2>2. /\ t.proxy = world.proxy /\ t.owner = world.owner /\ t.starts = world.starts
        /\ t.list = "activatable" /\ t.connection = world.connection
        /\ t.initial = world.initial /\ t.failed = world.failed /\ t.inbox = world.inbox
        /\ t.caps_told = world.caps_told /\ ~t.startup_completed
    BY <1>1, <1>3 DEF WorldType
  <2> HIDE DEF t
  <2>3. c \notin world.initial
    BY <1>1 DEF Settled, Remembered
  <2>4. Announced(t, c)
    BY <1>3, <2>2 DEF Announced
  <2>5. Remembered(t, c) /\ Finished(t, c)
    BY <2>2, <2>3 DEF Settled, Remembered, Finished, IsFirst
  <2> QED  BY <2>1, <2>4, <2>5 DEF Settled
<1>6. CASE ~error
  <2> DEFINE t == [s EXCEPT !.initial = running]
             u == FoundNames(t, running, FALSE)
  <2>1. world' = u
    BY <1>6 DEF ListNames, Becomes
  <2> HIDE DEF running
  <2>2. /\ t \in WorldType /\ t.proxy = world.proxy /\ t.owner = world.owner
        /\ t.starts = world.starts /\ t.list = "activatable" /\ t.connection = world.connection
        /\ t.initial = running /\ t.failed = world.failed /\ t.inbox = world.inbox
        /\ t.caps_told = world.caps_told /\ t.handling = world.handling /\ ~t.startup_completed
    BY <1>1, <1>2, <1>3 DEF WorldType
  <2> HIDE DEF t
  <2>3. Announced(t, c)
    BY <1>3, <2>2 DEF Announced
  <2>4. /\ t.owner[c] \in {Nobody, t.starts[c]}
        /\ c \in t.initial => t.starts[c] # 0
    BY <1>4, <2>2 DEF Settled, Remembered, Nobody
  <2>5. IsFirst(t, c) => IsFirst(world, c) /\ c \in running
    BY <1>1, <2>2 DEF IsFirst
  <2>6. IsFirst(t, c) /\ t.proxy[c].known => FirstProxy(t.proxy[c]) /\ FirstAsked(t, c)
    BY <2>2, <2>5 DEF Settled, Remembered, FirstAsked
  <2>7. FALSE \in BOOLEAN
    OBVIOUS
  <2>8. Settled(u, c)
    BY <1>1, <1>2, <2>2, <2>3, <2>4, <2>5, <2>6, <2>7, FoundNamesSettled
  <2> QED  BY <2>1, <2>8
<1> QED  BY <1>5, <1>6

(* The list of the activatable clients, after which startup may be over.    *)
LEMMA ListActivatableNamesSettled ==
  ASSUME RegistryInv(world), NEW error \in BOOLEAN, ListActivatableNames(error),
         NEW c \in Client, Settled(world, c)
  PROVE  Settled(world', c)
<1> DEFINE t == [world EXCEPT !.list = "done"]
           names == IF error THEN {} ELSE BusActivatable
           u == Activatable(error)
           n == Cardinality(NotReady(u))
<1>1. world \in WorldType /\ world.list = "activatable" /\ world.inbox[c] = <<>>
  BY DEF RegistryInv, ListActivatableNames, CaughtUp
<1>2. names \in SUBSET Client
  BY ClientsAssumption
<1>3. ~world.startup_completed /\ Announced(world, c)
  BY <1>1 DEF Settled, Finished
<1>4. /\ world' = DecStartupLock(u) /\ u \in WorldType
      /\ ~u.startup_completed => u.startup_lock = n + One(u.list # "done") + 1
  BY ListActivatableNamesForm
<1>5. u = FoundNames(t, names, TRUE)
  BY DEF Activatable
<1>6. /\ t \in WorldType /\ t.proxy = world.proxy /\ t.owner = world.owner
      /\ t.starts = world.starts /\ t.list = "done" /\ t.connection = world.connection
      /\ t.initial = world.initial /\ t.failed = world.failed /\ t.inbox = world.inbox
      /\ t.caps_told = world.caps_told /\ t.handling = world.handling /\ ~t.startup_completed
  BY <1>1, <1>3 DEF WorldType
<1> HIDE DEF t, u, names
<1>7. Settled(u, c)
  <2>1. Announced(t, c)
    BY <1>3, <1>6 DEF Announced
  <2>2. /\ t.owner[c] \in {Nobody, t.starts[c]}
        /\ c \in t.initial => t.starts[c] # 0
    BY <1>6 DEF Settled, Remembered
  <2>3. IsFirst(t, c) => IsFirst(world, c) /\ world.proxy[c].known
    BY <1>6 DEF IsFirst, Settled, Remembered
  <2>4. IsFirst(t, c) /\ t.proxy[c].known => FirstProxy(t.proxy[c]) /\ FirstAsked(t, c)
    BY <1>6, <2>3 DEF Settled, Remembered, FirstAsked
  <2>5. TRUE \in BOOLEAN
    OBVIOUS
  <2> QED  BY <1>1, <1>2, <1>5, <1>6, <2>1, <2>2, <2>3, <2>4, <2>5, FoundNamesSettled
<1>8. n \in Nat /\ (n = 0 /\ u.proxy[c].known => u.proxy[c].ready)
  BY NotReadyIsFinite, FS_EmptySet DEF NotReady
<1> HIDE DEF n
<1>9. Tells(u, DecStartupLock(u), c)
  BY <1>4, <1>8, DecTells
<1> QED  BY <1>4, <1>7, <1>9, TellsKeeps

(* A process that starts is the first of its client only before the list of *)
(* the names: until then MC knows nothing of such a client.                 *)
LEMMA StartSettled ==
  ASSUME RegistryInv(world), NEW c \in Client, Start(c), NEW d \in Client, Settled(world, d)
  PROVE  Settled(world', d)
<1> DEFINE n == world.starts[c] + 1
           p == world.proxy[c]
           calls == [call \in Call |->
             IF p.calls[call] = Nobody /\ c \in BusActivatable THEN n ELSE p.calls[call]]
           q == [p EXCEPT !.calls = calls]
<1>1. /\ world \in WorldType /\ p \in ProxyType
      /\ world.starts[c] \in 0..MaxProcess /\ MaxProcess \in Nat /\ world.owner[c] = Nobody
  BY WorldFacts, ClientsAssumption DEF RegistryInv, WorldType, Start
<1>2. n # Nobody /\ n # Unknown /\ (n = 1 => world.starts[c] = 0)
  BY <1>1 DEF Unknown, Nobody
<1>3. world' = [world EXCEPT
         !.owner[c] = n, !.inbox[c] = Append(@, n),
         !.starts[c] = n, !.missed = @ \ {c}, !.observe_queued[c] = FALSE,
         !.observed[c] = IF world.observe_queued[c] THEN n ELSE @,
         !.proxy[c].calls = calls]
  <2>1. Becomes([Changed(world, c, n) EXCEPT
          !.starts[c] = n, !.missed = @ \ {c}, !.observe_queued[c] = FALSE,
          !.observed[c] = IF world.observe_queued[c] THEN n ELSE @,
          !.proxy[c].calls = [call \in Call |->
             IF @[call] = Nobody /\ c \in BusActivatable THEN n ELSE @[call]]])
    BY Zenon DEF Start
  <2> HIDE DEF n
  <2> QED  BY <1>1, <2>1 DEF Becomes, Changed, WorldType, ProxyType
<1> HIDE DEF n
<1>4. \A call \in Call : calls[call] = Unknown <=> p.calls[call] = Unknown
  BY <1>2 DEF Nobody, Unknown
<1> HIDE DEF calls
<1>5. /\ world'.owner = [world.owner EXCEPT ![c] = n]
      /\ world'.starts = [world.starts EXCEPT ![c] = n]
      /\ world'.inbox = [world.inbox EXCEPT ![c] = Append(@, n)]
      /\ world'.proxy = [world.proxy EXCEPT ![c] = q]
      /\ world'.list = world.list /\ world'.connection = world.connection
      /\ world'.initial = world.initial /\ world'.failed = world.failed
      /\ world'.caps_told = world.caps_told /\ world'.handling = world.handling
      /\ world'.startup_completed = world.startup_completed
  BY <1>1, <1>3 DEF WorldType
<1>6. /\ q.known = p.known /\ q.activatable = p.activatable /\ q.unique_name = p.unique_name
      /\ q.introspect_started = p.introspect_started /\ q.caps = p.caps /\ q.ready = p.ready
      /\ q.calls = calls
  BY <1>1 DEF ProxyType
<1> HIDE DEF q
<1>7. CASE d # c
  <2>1. Tells(world, world', d)
    BY <1>1, <1>5, <1>7 DEF WorldType, Tells, Beside, SameClient
  <2> QED  BY <2>1, TellsKeeps
<1>8. CASE d = c
  <2>1. /\ world'.owner[c] = n /\ world'.starts[c] = n
        /\ world'.inbox[c] = Append(world.inbox[c], n) /\ world'.proxy[c] = q
    BY <1>1, <1>5 DEF WorldType
  <2>2. Settled(world, c) /\ "Interfaces" \in Call /\ "Handler" \in Call
    BY <1>8 DEF Call
  <2>3. Announced(world', c)
    BY <1>4, <1>5, <1>6, <2>1, <2>2 DEF Settled, Announced, Asked
  <2>4. IsFirst(world', c) =>
          world.list = "names" /\ ~p.known /\ world'.inbox[c] = Append(<<>>, 1)
          /\ c \notin world'.initial
    BY <1>2, <1>5, <2>1, <2>2 DEF IsFirst, Settled, Remembered
  <2>5. \A i \in DOMAIN Append(<<>>, 1) : Append(<<>>, 1)[i] = 1
    OBVIOUS
  <2>6. Remembered(world', c)
    <3>1. /\ world'.owner[c] = world'.starts[c] /\ world'.starts[c] # 0
          /\ ~world'.proxy[c].known <=> ~p.known
      BY <1>2, <1>6, <2>1 DEF Nobody
    <3>2. c \in world'.initial => world'.list # "names"
      BY <1>5, <2>2 DEF Settled, Remembered
    <3>3. IsFirst(world', c) => ~world'.proxy[c].known /\ c \notin world'.initial
            /\ \A i \in DOMAIN world'.inbox[c] : world'.inbox[c][i] = 1
      BY <2>4, <2>5, <3>1
    <3> QED  BY <3>1, <3>2, <3>3 DEF Remembered
  <2>7. Finished(world', c)
    BY <1>5, <2>2, <2>4 DEF Settled, Finished
  <2> QED  BY <1>8, <2>3, <2>6, <2>7 DEF Settled
<1> QED  BY <1>7, <1>8

(* When a process has left, none that MC has to remember runs.              *)
LEMMA ExitSettled ==
  ASSUME RegistryInv(world), NEW c \in Client, Exit(c), NEW d \in Client, Settled(world, d)
  PROVE  Settled(world', d)
<1>1. world \in WorldType /\ world.owner[c] # Nobody
  BY DEF RegistryInv, Exit
<1>2. /\ world'.owner = [world.owner EXCEPT ![c] = Nobody] /\ world'.starts = world.starts
      /\ world'.inbox = [world.inbox EXCEPT ![c] = Append(@, Nobody)]
      /\ world'.handling = [world.handling EXCEPT ![c] = Nobody]
      /\ world'.proxy = world.proxy
      /\ world'.list = world.list /\ world'.connection = world.connection
      /\ world'.initial = world.initial /\ world'.failed = world.failed
      /\ world'.caps_told = world.caps_told
      /\ world'.startup_completed = world.startup_completed
  BY <1>1 DEF Exit, Becomes, Changed, WorldType
<1>3. CASE d # c
  <2>1. Tells(world, world', d)
    BY <1>1, <1>2, <1>3 DEF WorldType, Tells, Beside, SameClient
  <2> QED  BY <2>1, TellsKeeps
<1>4. CASE d = c
  <2>1. world'.owner[c] = Nobody
    BY <1>1, <1>2 DEF WorldType
  <2>2. Announced(world', c)
    BY <1>2, <1>4 DEF Settled, Announced
  <2>3. ~IsFirst(world', c) /\ world.starts[c] # 0
    BY <1>1, <1>4, <2>1 DEF IsFirst, Settled, Remembered, Nobody
  <2>4. Remembered(world', c)
    BY <1>2, <1>4, <2>1, <2>3 DEF Settled, Remembered
  <2>5. Finished(world', c)
    BY <1>2, <1>4, <2>3 DEF Settled, Finished
  <2> QED  BY <1>4, <2>2, <2>4, <2>5 DEF Settled
<1> QED  BY <1>3, <1>4

(* A connection that is set up is told what is known.                       *)
LEMMA ConnectionSettled ==
  ASSUME RegistryInv(world), EarlyCaps \/ AddConnection, NEW d \in Client, Settled(world, d)
  PROVE  Settled(world', d)
<1>1. ASSUME NEW connection \in {"early", "added"},
             NEW t, t \in {[world EXCEPT !.connection = connection],
                           TellAllCaps([world EXCEPT !.connection = connection])},
             connection = "added" /\ world.startup_completed =>
               t = TellAllCaps([world EXCEPT !.connection = connection])
      PROVE  Settled(t, d)
  <2> DEFINE s == [world EXCEPT !.connection = connection]
             u == TellAllCaps(s)
  <2>1. /\ s.proxy = world.proxy /\ s.owner = world.owner /\ s.starts = world.starts
        /\ s.list = world.list /\ s.connection = connection /\ s.handling = world.handling
        /\ s.initial = world.initial /\ s.failed = world.failed /\ s.inbox = world.inbox
        /\ s.startup_completed = world.startup_completed /\ s.caps_told = world.caps_told
        /\ s \in WorldType
    BY DEF RegistryInv, WorldType
  <2> HIDE DEF s
  <2>2. /\ u.proxy = s.proxy /\ u.owner = s.owner /\ u.starts = s.starts
        /\ u.list = s.list /\ u.connection = s.connection /\ u.handling = s.handling
        /\ u.initial = s.initial /\ u.failed = s.failed /\ u.inbox = s.inbox
        /\ u.startup_completed = s.startup_completed
        /\ u.caps_told[d] = IF s.proxy[d].known THEN s.proxy[d].caps ELSE s.caps_told[d]
    BY <2>1 DEF WorldType, TellAllCaps
  <2>3. t \in {s, u} /\ (connection = "added" /\ world.startup_completed => t = u)
    BY <1>1 DEF s
  <2> HIDE DEF u
  <2>4. /\ t.proxy = world.proxy /\ t.owner = world.owner /\ t.starts = world.starts
        /\ t.list = world.list /\ t.connection = connection /\ t.handling = world.handling
        /\ t.initial = world.initial /\ t.failed = world.failed /\ t.inbox = world.inbox
        /\ t.startup_completed = world.startup_completed
        /\ t.caps_told[d] \in
             {world.caps_told[d], IF world.proxy[d].known THEN world.proxy[d].caps ELSE world.caps_told[d]}
        /\ connection = "added" /\ world.startup_completed /\ world.proxy[d].known =>
             t.caps_told[d] = world.proxy[d].caps
    BY <2>1, <2>2, <2>3
  <2>5. Announced(t, d)
    BY <1>1, <2>4 DEF Settled, Announced
  <2>6. Remembered(t, d) /\ Finished(t, d)
    BY <2>4 DEF Settled, Remembered, Finished, IsFirst, FirstAsked
  <2> QED  BY <2>5, <2>6 DEF Settled
<1> QED  BY <1>1 DEF EarlyCaps, AddConnection, Becomes

(* At first MC knows nothing, and has told nothing.                         *)
LEMMA InitSettled == Init => \A c \in Client : Settled(world, c)
<1> SUFFICES ASSUME Init, NEW c \in Client PROVE Settled(world, c)
  OBVIOUS
<1>1. ~NoProxy.known /\ NoProxy.caps = NoCaps /\ ~Asked(NoProxy, "Handler")
  BY DEF NoProxy, NoCalls, Asked, Call
<1> HIDE DEF NoProxy
<1>2. /\ world.proxy[c] = NoProxy /\ world.inbox[c] = <<>> /\ world.list = "names"
      /\ ~world.startup_completed /\ world.caps_told[c] = NoCaps /\ world.initial = {}
      /\ world.owner[c] \in {Nobody, world.starts[c]}
  BY DEF Init
<1> QED  BY <1>1, <1>2 DEF Settled, Announced, Remembered, Finished

(* Every step keeps every client settled.                                   *)
LEMMA NextSettled ==
  RegistryInv(world) /\ (\A c \in Client : Settled(world, c)) /\ [Next]_vars =>
    \A c \in Client : Settled(world', c)
<1> SUFFICES ASSUME RegistryInv(world), \A d \in Client : Settled(world, d), [Next]_vars
             PROVE  \A d \in Client : Settled(world', d)
  OBVIOUS
<1>1. ASSUME NEW error \in BOOLEAN, ListNames(error) PROVE \A d \in Client : Settled(world', d)
  BY <1>1, ListNamesSettled
<1>2. ASSUME NEW error \in BOOLEAN, ListActivatableNames(error)
      PROVE  \A d \in Client : Settled(world', d)
  BY <1>2, ListActivatableNamesSettled
<1>3. ASSUME NEW c \in Client, NameOwnerChanged(c) PROVE \A d \in Client : Settled(world', d)
  BY <1>3, NameOwnerChangedSettled
<1>4. ASSUME NEW c \in Client, Start(c) PROVE \A d \in Client : Settled(world', d)
  BY <1>4, StartSettled
<1>5. ASSUME NEW c \in Client, Exit(c) PROVE \A d \in Client : Settled(world', d)
  BY <1>5, ExitSettled
<1>6. ASSUME NEW c \in Client, NEW call \in Call, NEW ok \in BOOLEAN, CallReturns(c, call, ok)
      PROVE  \A d \in Client : Settled(world', d)
  BY <1>6, CallReturnsSettled
<1>7. CASE EarlyCaps \/ AddConnection
  BY <1>7, ConnectionSettled
<1>8. CASE UNCHANGED vars
  BY <1>8 DEF vars
<1> QED  BY <1>1, <1>2, <1>3, <1>4, <1>5, <1>6, <1>7, <1>8 DEF Next

(* Of a client that is ready nothing is still to be asked.                  *)
LEMMA ReadyIsAsked ==
  ASSUME RegistryInv(world), NEW c \in Client, world.proxy[c].known, world.proxy[c].ready
  PROVE  /\ world.proxy[c].introspect_started
         /\ ~Asked(world.proxy[c], "Interfaces") /\ ~Asked(world.proxy[c], "Handler")
  BY DEF RegistryInv, ProxyLocksInv, Pending, One

(* What both properties follow from.                                        *)
SettledInv == RegistryInv(world) /\ \A c \in Client : Settled(world, c)

(* It is an invariant of the registry.                                      *)
LEMMA AlwaysSettled == Spec => []SettledInv
<1>1. Init => SettledInv
  BY InitInv, InitSettled DEF SettledInv
<1>2. SettledInv /\ [Next]_vars => SettledInv'
  <2> SUFFICES ASSUME SettledInv, [Next]_vars PROVE SettledInv'
    OBVIOUS
  <2>1. RegistryInv(world')
    BY NextInv DEF SettledInv
  <2>2. \A c \in Client : Settled(world', c)
    BY NextSettled DEF SettledInv
  <2> QED  BY <2>1, <2>2 DEF SettledInv
<1> QED  BY <1>1, <1>2, PTL DEF Spec

(* Whatever clients come, go and answer while it is set up, a connection    *)
(* announces of each client MC knows what that client said last             *)
(* (mcd_dispatcher_client_capabilities_changed_cb,                          *)
(* mcd_connection_early_get_interfaces_cb, _mcd_dispatcher_add_connection). *)
THEOREM CapsAreTold == Spec => []CapsTold
<1>1. SettledInv => CapsTold
  BY ReadyIsAsked DEF SettledInv, Settled, Announced, CapsTold, Known
<1> QED  BY <1>1, AlwaysSettled, PTL

(* When dispatching starts, MC has the channel of every client that it      *)
(* found running and that has answered: none of them is offered to another  *)
(* client (mcd_dispatcher_client_registry_ready_cb,                         *)
(* mcd_dispatcher_client_handling_channel_cb).                              *)
THEOREM HandledAreKnown == Spec => []HandledBeforeDispatching
<1>1. SettledInv => HandledBeforeDispatching
  <2> SUFFICES ASSUME SettledInv, world.startup_completed, NEW c \in Handlers \cap world.initial,
                      world.owner[c] = 1, c \notin world.failed
               PROVE  world.handling[c] = 1
    BY DEF HandledBeforeDispatching
  <2>1. c \in Client /\ Settled(world, c)
    BY ClientsAssumption DEF SettledInv
  <2>2. IsFirst(world, c) /\ world.proxy[c].known /\ world.proxy[c].ready /\ FirstAsked(world, c)
    BY <2>1 DEF IsFirst, Settled, Remembered, Finished
  <2>3. /\ world.proxy[c].introspect_started
        /\ ~Asked(world.proxy[c], "Interfaces") /\ ~Asked(world.proxy[c], "Handler")
    BY <2>1, <2>2, ReadyIsAsked DEF SettledInv
  <2> QED  BY <2>2, <2>3 DEF FirstAsked
<1> QED  BY <1>1, AlwaysSettled, PTL

=============================================================================
