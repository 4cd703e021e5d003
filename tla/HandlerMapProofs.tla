-------------------------- MODULE HandlerMapProofs --------------------------
(***************************************************************************)
(* For any channels (finitely many), processes, clients and calls: the     *)
(* types and the counters of McdHandlerMap.  TypeOK, CountersExact and     *)
(* HandlersWatched are inductive only together, since a counter or a watch *)
(* may be released only because the other tables say it is held.           *)
(*                                                                         *)
(* ClientOfHandler rests on the order of the bus: MC looks up who has a    *)
(* name only when the callee's answer is there, and by then it has read    *)
(* what became of the name since the call was delivered (CallsInOrder).    *)
(* NoOrphan follows from ClientOfHandler and LeftAreClosing.               *)
(***************************************************************************)
EXTENDS HandlerMap, FiniteSetTheorems, TLAPS

(* The inductive invariant, the map's part of it first.                    *)
MapInv ==
  /\ channel_processes \in [Channel -> Handler \cup {None}]
  /\ channel_clients \in [Channel -> Client \cup {None}]
  /\ handler_processes \in [Handler -> Nat]
  /\ watches \in [Process -> Nat]
  /\ CountersExact
  /\ HandlersWatched

(* What is outside the map.                                                *)
EnvInv ==
  /\ handled_channels \in SUBSET Channel
  /\ tp_channel \in [Channel -> {"absent", "open", "closed"}]
  /\ closing \in SUBSET Channel
  /\ holder \in [Channel -> Process \cup {None}]

BusInv ==
  /\ dead \in SUBSET Process
  /\ owner \in [Client -> Handler \ dead]
  /\ given_up \in SUBSET (Client \X Process)

(* The process that was called has the name, has left or has given it up.  *)
InOrder(call) ==
  call.callee \in Process \ dead =>
    <<call.client, call.callee>> \in given_up \/ owner[call.client] = call.callee

CallsInOrder ==
  /\ calls \in [Invocation -> Invoking \cup {None}]
  /\ \A i \in Invocation : calls[i] # None => InOrder(calls[i])

IInv == MapInv /\ EnvInv /\ BusInv /\ CallsInOrder

(* A handled channel that no longer has a handler is being closed.         *)
LeftAreClosing ==
  \A c \in handled_channels : channel_processes[c] = None => c \in closing

Holding(f, u) == {x \in Channel : f[x] = u}

-----------------------------------------------------------------------------
(* Counting                                                                *)

(* The channels of a process are finitely many.                            *)
LEMMA HoldingIsFinite ==
  ASSUME NEW f, NEW u
  PROVE  /\ IsFiniteSet(Holding(f, u))
         /\ Cardinality(Holding(f, u)) \in Nat
<1>1. Holding(f, u) \in SUBSET Channel
  BY DEF Holding
<1>2. IsFiniteSet(Channel)
  BY MapAssumption
<1>3. IsFiniteSet(Holding(f, u))
  BY <1>1, <1>2, FS_Subset
<1> QED
  BY <1>3, FS_CardinalityType

(* What handles a channel is counted at least once, and a process that     *)
(* does is watched.                                                        *)
LEMMA CountedIsPositive ==
  ASSUME MapInv, NEW c \in Channel, channel_processes[c] \in Handler
  PROVE  /\ handler_processes[channel_processes[c]] \in Nat \ {0}
         /\ channel_processes[c] \in Process =>
              watches[channel_processes[c]] \in Nat \ {0}
<1> DEFINE u == channel_processes[c]
<1>1. c \in Holding(channel_processes, u)
  BY DEF Holding
<1>2. Cardinality(Holding(channel_processes, u)) # 0
  BY <1>1, HoldingIsFinite, FS_EmptySet
<1>3. handler_processes[u] = Cardinality(Holding(channel_processes, u))
  BY DEF MapInv, CountersExact, Counted, Holding
<1>4. handler_processes[u] \in Nat /\ (u \in Process => watches[u] \in Nat)
  BY DEF MapInv
<1> QED
  BY <1>2, <1>3, <1>4 DEF MapInv, HandlersWatched

-----------------------------------------------------------------------------
(* The operations of the map                                               *)

(* _mcd_handler_map_set_path_handled keeps the counters exact and every    *)
(* handler watched, whether the path is new, moved or set again.           *)
LEMMA SetPathKeepsMap ==
  ASSUME MapInv,
         NEW c \in Channel, NEW u \in Handler, NEW k \in Client \cup {None},
         SetPathHandled(c, u, k)
  PROVE  MapInv'
<1>1. channel_clients' \in [Channel -> Client \cup {None}]
  BY DEF MapInv, SetPathHandled
<1>2. CASE channel_processes[c] = u
  BY <1>1, <1>2 DEF MapInv, SetPathHandled, CountersExact, HandlersWatched, Counted
<1>3. CASE channel_processes[c] # u
  <2> DEFINE old == channel_processes[c]
  <2>1. /\ channel_processes' = [channel_processes EXCEPT ![c] = u]
        /\ handler_processes' = [Released(c) EXCEPT ![u] = @ + 1]
        /\ watches' =
             [p \in Process |->
                CASE p = old /\ Released(c)[p] = 0 -> watches[p] - 1
                  [] p = u /\ handler_processes[u] = 0 -> watches[p] + 1
                  [] OTHER -> watches[p]]
    BY <1>3 DEF SetPathHandled
  <2>2. channel_processes' \in [Channel -> Handler \cup {None}]
    BY <2>1 DEF MapInv
  <2>3. /\ old \in Handler => handler_processes[old] \in Nat \ {0}
        /\ old \in Process => watches[old] \in Nat \ {0}
    BY CountedIsPositive DEF Handler
  <2>4. /\ \A p \in Handler : handler_processes[p] \in Nat
        /\ \A p \in Process : p \in Handler /\ watches[p] \in Nat
    BY DEF MapInv, Handler
  <2>5. handler_processes' =
          [p \in Handler |-> CASE p = u   -> handler_processes[p] + 1
                               [] p = old -> handler_processes[p] - 1
                               [] OTHER   -> handler_processes[p]]
    BY <1>3, <2>1 DEF Released
  <2>6. handler_processes' \in [Handler -> Nat]
    BY <1>3, <2>3, <2>4, <2>5
  <2>7. watches' \in [Process -> Nat]
    BY <2>1, <2>3, <2>4
  <2>8. CountersExact'
    <3> SUFFICES ASSUME NEW p \in Handler
                 PROVE  handler_processes'[p] = Cardinality(Holding(channel_processes', p))
      BY DEF CountersExact, Counted, Holding
    <3>1. handler_processes[p] = Cardinality(Holding(channel_processes, p))
      BY DEF MapInv, CountersExact, Counted, Holding
    <3>2. channel_processes \in [Channel -> Handler \cup {None}]
      BY DEF MapInv
    <3>3. CASE p = u
      <4>1. /\ Holding(channel_processes', p) = Holding(channel_processes, p) \cup {c}
            /\ c \notin Holding(channel_processes, p)
        BY <1>3, <2>1, <2>2, <3>2, <3>3 DEF Holding
      <4>2. Cardinality(Holding(channel_processes', p)) =
              Cardinality(Holding(channel_processes, p)) + 1
        BY <4>1, HoldingIsFinite, FS_AddElement
      <4>3. handler_processes'[p] = handler_processes[p] + 1
        BY <1>3, <2>5, <3>3
      <4> QED
        BY <3>1, <4>2, <4>3
    <3>4. CASE p # u /\ p = old
      <4>1. /\ Holding(channel_processes', p) = Holding(channel_processes, p) \ {c}
            /\ c \in Holding(channel_processes, p)
        BY <1>3, <2>1, <2>2, <3>2, <3>4 DEF Holding
      <4>2. Cardinality(Holding(channel_processes', p)) =
              Cardinality(Holding(channel_processes, p)) - 1
        BY <4>1, HoldingIsFinite, FS_RemoveElement
      <4> QED
        BY <2>5, <3>1, <3>4, <4>2
    <3>5. CASE p # u /\ p # old
      <4>1. Holding(channel_processes', p) = Holding(channel_processes, p)
        BY <1>3, <2>1, <2>2, <3>2, <3>5 DEF Holding
      <4> QED
        BY <2>5, <3>1, <3>5, <4>1
    <3> QED
      BY <3>3, <3>4, <3>5
  <2>9. HandlersWatched'
    <3> SUFFICES ASSUME NEW p \in Process, handler_processes'[p] > 0
                 PROVE  watches'[p] > 0
      BY DEF HandlersWatched
    <3>1. handler_processes[p] > 0 => watches[p] > 0
      BY DEF MapInv, HandlersWatched
    <3>2. CASE p = u
      BY <1>3, <2>1, <2>4, <3>1, <3>2
    <3>3. CASE p # u /\ p = old
      <4>1. Released(c)[p] = handler_processes'[p]
        BY <2>1, <3>3 DEF Released
      <4>2. watches'[p] = watches[p]
        BY <2>1, <3>3, <4>1
      <4> QED
        BY <2>3, <3>3, <4>2
    <3>4. CASE p # u /\ p # old
      BY <2>1, <2>4, <2>5, <3>1, <3>4
    <3> QED
      BY <3>2, <3>3, <3>4
  <2> QED
    BY <1>1, <2>2, <2>6, <2>7, <2>8, <2>9 DEF MapInv
<1> QED
  BY <1>2, <1>3

(* handled_channel_invalidated_cb keeps the counters exact: it releases    *)
(* the channel from the process that handles it, if any.                   *)
LEMMA InvalidatedKeepsMap ==
  ASSUME MapInv, NEW c \in Channel, ChannelInvalidated(c)
  PROVE  MapInv'
<1> DEFINE old == channel_processes[c]
<1>1. /\ channel_clients' = channel_clients
      /\ watches' = watches
  BY DEF ChannelInvalidated
<1>2. CASE c \notin handled_channels \/ old = None
  <2>1. channel_processes' = channel_processes
    BY <1>2 DEF ChannelInvalidated, MapInv
  <2>2. handler_processes' = handler_processes
    BY <1>2, MapAssumption DEF ChannelInvalidated, Released, MapInv, Handler
  <2> QED
    BY <1>1, <2>1, <2>2 DEF MapInv, CountersExact, HandlersWatched, Counted
<1>3. CASE c \in handled_channels /\ old # None
  <2>1. /\ channel_processes' = [channel_processes EXCEPT ![c] = None]
        /\ handler_processes' = Released(c)
    BY <1>3 DEF ChannelInvalidated
  <2>2. old \in Handler
    BY <1>3 DEF MapInv
  <2>3. handler_processes[old] \in Nat \ {0}
    BY <2>2, CountedIsPositive
  <2>4. channel_processes' \in [Channel -> Handler \cup {None}]
    BY <2>1 DEF MapInv
  <2>5. handler_processes' \in [Handler -> Nat]
    BY <2>1, <2>3 DEF MapInv, Released
  <2>6. CountersExact'
    <3> SUFFICES ASSUME NEW p \in Handler
                 PROVE  handler_processes'[p] = Cardinality(Holding(channel_processes', p))
      BY DEF CountersExact, Counted, Holding
    <3>1. handler_processes[p] = Cardinality(Holding(channel_processes, p))
      BY DEF MapInv, CountersExact, Counted, Holding
    <3>2. p # None /\ channel_processes \in [Channel -> Handler \cup {None}]
      BY MapAssumption DEF MapInv, Handler
    <3>3. CASE p = old
      <4>1. /\ Holding(channel_processes', p) = Holding(channel_processes, p) \ {c}
            /\ c \in Holding(channel_processes, p)
        BY <1>3, <2>1, <2>4, <3>2, <3>3 DEF Holding
      <4>2. Cardinality(Holding(channel_processes', p)) =
              Cardinality(Holding(channel_processes, p)) - 1
        BY <4>1, HoldingIsFinite, FS_RemoveElement
      <4> QED
        BY <2>1, <3>1, <3>3, <4>2 DEF Released
    <3>4. CASE p # old
      <4>1. Holding(channel_processes', p) = Holding(channel_processes, p)
        BY <1>3, <2>1, <2>4, <3>2, <3>4 DEF Holding
      <4> QED
        BY <2>1, <3>1, <3>4, <4>1 DEF Released
    <3> QED
      BY <3>3, <3>4
  <2>7. HandlersWatched'
    BY <1>1, <2>1, <2>3 DEF MapInv, HandlersWatched, Released, Handler
  <2> QED
    BY <1>1, <2>4, <2>5, <2>6, <2>7 DEF MapInv
<1> QED
  BY <1>2, <1>3

(* _mcd_handler_map_set_handler_crashed keeps the counters exact: no       *)
(* channel of the process is left, and those of the others are untouched.  *)
LEMMA CrashKeepsMap ==
  ASSUME MapInv, NEW u \in Process, HandlerCrashed(u)
  PROVE  MapInv'
<1>1. /\ channel_clients' = channel_clients
      /\ watches' = [watches EXCEPT ![u] = @ - 1]
      /\ handler_processes' = [handler_processes EXCEPT ![u] = 0]
      /\ channel_processes' =
           [c \in Channel |-> IF c \in Counted(u) THEN None ELSE channel_processes[c]]
      /\ watches[u] > 0
  BY DEF HandlerCrashed
<1>2. channel_processes' \in [Channel -> Handler \cup {None}]
  BY <1>1 DEF MapInv
<1>3. handler_processes' \in [Handler -> Nat] /\ watches' \in [Process -> Nat]
  BY <1>1 DEF MapInv, Handler
<1>4. CountersExact'
  <2> SUFFICES ASSUME NEW p \in Handler
               PROVE  handler_processes'[p] = Cardinality(Holding(channel_processes', p))
    BY DEF CountersExact, Counted, Holding
  <2>1. CASE p = u
    <3>1. Holding(channel_processes', u) = {}
      BY <1>1, MapAssumption DEF Holding, Counted
    <3> QED
      BY <1>1, <2>1, <3>1, FS_EmptySet DEF MapInv
  <2>2. CASE p # u
    <3>1. Holding(channel_processes', p) = Counted(p)
      BY <1>1, <2>2, MapAssumption DEF Holding, Counted, Handler
    <3> QED
      BY <1>1, <2>2, <3>1 DEF MapInv, CountersExact
  <2> QED
    BY <2>1, <2>2
<1>5. HandlersWatched'
  BY <1>1 DEF MapInv, HandlersWatched, Handler
<1> QED
  BY <1>1, <1>2, <1>3, <1>4, <1>5 DEF MapInv

-----------------------------------------------------------------------------
(* The calls in flight                                                     *)

(* One call changes, to nothing or to one that is in order, and the bus    *)
(* does not.                                                               *)
LEMMA CallKeepsOrder ==
  ASSUME CallsInOrder, UNCHANGED bus,
         NEW i \in Invocation, NEW call \in Invoking \cup {None},
         calls' = [calls EXCEPT ![i] = call],
         call # None => InOrder(call)
  PROVE  CallsInOrder'
BY DEF CallsInOrder, InOrder, bus

(* A process that leaves is not expected to answer, and names that other   *)
(* processes have stay with them.                                          *)
LEMMA DeathKeepsOrder ==
  ASSUME BusInv, CallsInOrder, NEW u \in Process, ProcessDies(u)
  PROVE  BusInv' /\ CallsInOrder'
<1>1. /\ dead' = dead \cup {u}
      /\ owner' = [k \in Client |-> IF owner[k] = u THEN Empty ELSE owner[k]]
      /\ UNCHANGED <<calls, given_up>>
  BY DEF ProcessDies
<1>2. BusInv'
  BY <1>1, MapAssumption DEF BusInv, Handler
<1>3. ASSUME NEW i \in Invocation, calls[i] # None
      PROVE  InOrder(calls[i])'
  <2>1. calls[i] \in Invoking /\ InOrder(calls[i])
    BY <1>3 DEF CallsInOrder
  <2>2. calls[i].client \in Client
    BY <2>1 DEF Invoking
  <2> QED
    BY <1>1, <2>1, <2>2 DEF InOrder
<1> QED
  BY <1>1, <1>2, <1>3 DEF CallsInOrder

(* Whoever loses a name while alive has given it up.                       *)
LEMMA OwnerKeepsOrder ==
  ASSUME BusInv, CallsInOrder, NEW k \in Client, NEW u \in Handler, OwnerChanges(k, u)
  PROVE  BusInv' /\ CallsInOrder'
<1>1. /\ u \notin dead
      /\ owner' = [owner EXCEPT ![k] = u]
      /\ given_up' = IF owner[k] = Empty THEN given_up ELSE given_up \cup {<<k, owner[k]>>}
      /\ UNCHANGED <<calls, dead>>
  BY DEF OwnerChanges
<1>2. owner[k] # Empty => owner[k] \in Process
  BY DEF BusInv, Handler
<1>3. BusInv'
  BY <1>1, <1>2 DEF BusInv
<1>4. ASSUME NEW i \in Invocation, calls[i] # None
      PROVE  InOrder(calls[i])'
  <2>1. calls[i] \in Invoking /\ InOrder(calls[i])
    BY <1>4 DEF CallsInOrder
  <2>2. calls[i].client \in Client
    BY <2>1 DEF Invoking
  <2> QED
    BY <1>1, <2>1, <2>2, MapAssumption DEF InOrder, BusInv
<1> QED
  BY <1>1, <1>3, <1>4 DEF CallsInOrder

-----------------------------------------------------------------------------
(* The inductive invariant                                                 *)

(* Nothing is handled, counted or watched when MC starts.                  *)
LEMMA InitEstablishes == Init => IInv
<1> SUFFICES ASSUME Init PROVE IInv
  OBVIOUS
<1>1. CountersExact
  <2> SUFFICES ASSUME NEW u \in Handler
               PROVE  handler_processes[u] = Cardinality(Counted(u))
    BY DEF CountersExact
  <2>1. Counted(u) = {}
    BY MapAssumption DEF Init, Counted, Handler
  <2> QED
    BY <2>1, FS_EmptySet DEF Init
<1>2. MapInv
  BY <1>1 DEF Init, MapInv, HandlersWatched, Handler
<1>3. EnvInv /\ BusInv /\ CallsInOrder
  BY DEF Init, EnvInv, BusInv, CallsInOrder, Handler
<1> QED
  BY <1>2, <1>3 DEF IInv

(* Steps that leave the map alone leave its invariant alone.               *)
LEMMA MapUnchanged ==
  ASSUME MapInv, UNCHANGED map
  PROVE  MapInv'
BY DEF MapInv, map, CountersExact, HandlersWatched, Counted

LEMMA BusUnchanged ==
  ASSUME BusInv, UNCHANGED bus
  PROVE  BusInv'
BY DEF BusInv, bus

LEMMA CallsUnchanged ==
  ASSUME CallsInOrder, UNCHANGED <<bus, calls>>
  PROVE  CallsInOrder'
BY DEF CallsInOrder, InOrder, bus

(* HandleChannels is called: the call has not been delivered.              *)
LEMMA InvokePreserves ==
  ASSUME IInv, NEW i \in Invocation, NEW c \in Channel, NEW clients \in SUBSET Client,
         NEW why \in {"dispatch", "delegate"}, Invoke(i, c, why, clients)
  PROVE  IInv'
<1>1. PICK k \in clients :
        calls' = [calls EXCEPT ![i] =
          [path |-> c, why |-> why, client |-> k, callee |-> None, left |-> clients \ {k}]]
  BY DEF Invoke
<1> DEFINE call == [path |-> c, why |-> why, client |-> k, callee |-> None, left |-> clients \ {k}]
<1>2. call \in Invoking /\ call.callee = None
  BY DEF Invoking
<1>3. InOrder(call)
  BY <1>2, MapAssumption DEF InOrder
<1>4. CallsInOrder'
  BY <1>1, <1>2, <1>3, CallKeepsOrder DEF IInv, Invoke
<1>5. MapInv' /\ EnvInv' /\ BusInv'
  BY MapUnchanged, BusUnchanged DEF IInv, Invoke, EnvInv
<1> QED
  BY <1>4, <1>5 DEF IInv

(* What MC records when a handler has accepted.                            *)
LEMMA AcceptedPreserves ==
  ASSUME IInv, NEW i \in Invocation, HandlerAccepts(i)
  PROVE  IInv'
<1> DEFINE call == calls[i]
<1>1. call \in Invoking /\ call.callee \in Process \ dead
  BY DEF HandlerAccepts, IInv, CallsInOrder, Invoking
<1>2. call.path \in Channel /\ call.client \in Client
  BY <1>1 DEF Invoking
<1>3. owner[call.client] \in Handler
  BY <1>2 DEF IInv, BusInv
<1>4. MapInv' /\ EnvInv'
  <2>1. CASE DelegationAccepted(call.path, call.client, call.callee)
    <3>1. MapInv'
      BY <1>2, <1>3, <2>1, SetPathKeepsMap DEF DelegationAccepted, IInv
    <3> QED
      BY <1>1, <2>1, <3>1 DEF DelegationAccepted, HandlerAccepts, IInv, EnvInv
  <2>2. CASE DispatchAccepted(call.path, call.client, call.callee)
    <3>1. MapInv'
      BY <1>2, <1>3, <2>2, SetPathKeepsMap, MapUnchanged
      DEF DispatchAccepted, SetChannelHandled, IInv
    <3> QED
      BY <1>1, <1>2, <2>2, <3>1
      DEF DispatchAccepted, SetChannelHandled, HandlerAccepts, IInv, EnvInv
  <2> QED
    BY <2>1, <2>2 DEF HandlerAccepts
<1>5. BusInv' /\ CallsInOrder'
  BY BusUnchanged, CallKeepsOrder DEF HandlerAccepts, IInv
<1> QED
  BY <1>4, <1>5 DEF IInv

(* The next client is called, or there is none.                            *)
LEMMA RefusedPreserves ==
  ASSUME IInv, NEW i \in Invocation, HandlerRefuses(i)
  PROVE  IInv'
<1>1. calls[i] \in Invoking /\ calls[i].path \in Channel
  BY DEF HandlerRefuses, IInv, CallsInOrder, Invoking
<1>2. CallsInOrder'
  <2>1. CASE calls' = [calls EXCEPT ![i] = None]
    BY <2>1, CallKeepsOrder DEF HandlerRefuses, IInv
  <2>2. ASSUME NEW k \in calls[i].left,
               calls' = [calls EXCEPT ![i] =
                 [calls[i] EXCEPT !.client = k, !.callee = None, !.left = @ \ {k}]]
        PROVE  CallsInOrder'
    <3> DEFINE call == [calls[i] EXCEPT !.client = k, !.callee = None, !.left = @ \ {k}]
    <3>1. call \in Invoking /\ call.callee = None
      BY <1>1 DEF Invoking
    <3>2. InOrder(call)
      BY <3>1, MapAssumption DEF InOrder
    <3> QED
      BY <2>2, <3>1, <3>2, CallKeepsOrder DEF HandlerRefuses, IInv
  <2> QED
    BY <2>1, <2>2 DEF HandlerRefuses
<1>3. MapInv' /\ BusInv'
  BY MapUnchanged, BusUnchanged DEF HandlerRefuses, IInv
<1>4. closing' \in SUBSET Channel
  BY <1>1 DEF HandlerRefuses, IInv, EnvInv
<1>5. EnvInv'
  BY <1>4 DEF HandlerRefuses, IInv, EnvInv
<1> QED
  BY <1>2, <1>3, <1>5 DEF IInv

(* Every callback that reaches the map keeps its tables in step with each  *)
(* other, whichever callback ran before it.                                *)
LEMMA NextPreserves ==
  ASSUME IInv, [Next]_vars
  PROVE  IInv'
<1> USE DEF IInv
<1>1. ASSUME NEW c \in Channel, NEW k \in Client, NEW u \in Process,
             ClientHandlesPath(c, k, u)
      PROVE  IInv'
  <2>1. owner[k] \in Handler
    BY DEF BusInv
  <2>2. MapInv'
    BY <1>1, <2>1, SetPathKeepsMap DEF ClientHandlesPath
  <2>3. BusInv' /\ CallsInOrder'
    BY <1>1, BusUnchanged, CallsUnchanged DEF ClientHandlesPath
  <2> QED
    BY <1>1, <2>2, <2>3 DEF ClientHandlesPath, EnvInv
<1>2. ASSUME NEW c \in Channel, ChannelAppears(c)
      PROVE  IInv'
  <2>1. MapInv' /\ BusInv' /\ CallsInOrder'
    BY <1>2, MapUnchanged, BusUnchanged, CallsUnchanged DEF ChannelAppears
  <2> QED
    BY <1>2, <2>1 DEF ChannelAppears, EnvInv
<1>3. ASSUME NEW c \in Channel, ChannelRecovered(c)
      PROVE  IInv'
  <2>1. channel_processes[c] \in Handler /\ channel_clients[c] \in Client \cup {None}
    BY <1>3 DEF ChannelRecovered, MapInv
  <2>2. MapInv'
    BY <1>3, <2>1, SetPathKeepsMap DEF ChannelRecovered, SetChannelHandled
  <2>3. BusInv' /\ CallsInOrder'
    BY <1>3, BusUnchanged, CallsUnchanged DEF ChannelRecovered
  <2> QED
    BY <1>3, <2>2, <2>3 DEF ChannelRecovered, SetChannelHandled, EnvInv
<1>4. ASSUME NEW c \in Channel, NEW u \in Process, Claimed(c, u)
      PROVE  IInv'
  <2>1. u \in Handler
    BY DEF Handler
  <2>2. MapInv'
    BY <1>4, <2>1, SetPathKeepsMap DEF Claimed, SetChannelHandled
  <2>3. BusInv' /\ CallsInOrder'
    BY <1>4, BusUnchanged, CallsUnchanged DEF Claimed
  <2> QED
    BY <1>4, <2>2, <2>3 DEF Claimed, SetChannelHandled, EnvInv
<1>5. ASSUME NEW i \in Invocation, NEW c \in Channel, NEW clients \in SUBSET Client,
             DispatchChannel(i, c, clients) \/ DelegateChannel(i, c, clients)
      PROVE  IInv'
  BY <1>5, InvokePreserves DEF DispatchChannel, DelegateChannel
<1>6. ASSUME NEW i \in Invocation, HandlerIsCalled(i)
      PROVE  IInv'
  <2> DEFINE call == [calls[i] EXCEPT !.callee = owner[calls[i].client]]
  <2>1. calls[i] \in Invoking /\ calls[i].client \in Client
    BY <1>6 DEF HandlerIsCalled, CallsInOrder, Invoking
  <2>2. owner[calls[i].client] \in Process
    BY <1>6, <2>1 DEF HandlerIsCalled, BusInv, Handler
  <2>3. call \in Invoking /\ call.client = calls[i].client
        /\ call.callee = owner[calls[i].client]
    BY <2>1, <2>2 DEF Invoking
  <2>4. calls' = [calls EXCEPT ![i] = call]
    BY <1>6, <2>1 DEF HandlerIsCalled, CallsInOrder
  <2>5. InOrder(call)
    BY <2>3 DEF InOrder
  <2>6. CallsInOrder'
    BY <1>6, <2>3, <2>4, <2>5, CallKeepsOrder DEF HandlerIsCalled
  <2>7. MapInv' /\ BusInv'
    BY <1>6, MapUnchanged, BusUnchanged DEF HandlerIsCalled
  <2> QED
    BY <1>6, <2>6, <2>7 DEF HandlerIsCalled, EnvInv
<1>7. ASSUME NEW i \in Invocation, HandlerAccepts(i) \/ HandlerRefuses(i)
      PROVE  IInv'
  BY <1>7, AcceptedPreserves, RefusedPreserves
<1>8. ASSUME NEW c \in Channel, ChannelInvalidated(c)
      PROVE  IInv'
  <2>1. MapInv'
    BY <1>8, InvalidatedKeepsMap
  <2>2. BusInv' /\ CallsInOrder'
    BY <1>8, BusUnchanged, CallsUnchanged DEF ChannelInvalidated
  <2> QED
    BY <1>8, <2>1, <2>2 DEF ChannelInvalidated, EnvInv
<1>9. ASSUME NEW u \in Process, ProcessDies(u)
      PROVE  IInv'
  BY <1>9, MapUnchanged, DeathKeepsOrder DEF ProcessDies, EnvInv
<1>10. ASSUME NEW k \in Client, NEW u \in Handler, OwnerChanges(k, u)
       PROVE  IInv'
  BY <1>10, MapUnchanged, OwnerKeepsOrder DEF OwnerChanges, EnvInv
<1>11. ASSUME NEW u \in Process, HandlerCrashed(u)
       PROVE  IInv'
  <2>1. MapInv'
    BY <1>11, CrashKeepsMap
  <2>2. BusInv' /\ CallsInOrder'
    BY <1>11, BusUnchanged, CallsUnchanged DEF HandlerCrashed
  <2> QED
    BY <1>11, <2>1, <2>2 DEF HandlerCrashed, EnvInv
<1>12. CASE UNCHANGED vars
  <2>1. UNCHANGED map /\ UNCHANGED bus /\ UNCHANGED calls
    BY <1>12 DEF vars, map, bus
  <2> QED
    BY <1>12, <2>1, MapUnchanged, BusUnchanged, CallsUnchanged DEF vars, EnvInv
<1> QED
  BY <1>1, <1>2, <1>3, <1>4, <1>5, <1>6, <1>7, <1>8, <1>9, <1>10, <1>11, <1>12 DEF Next

(* IInv holds in every reachable state.                                    *)
LEMMA Invariance == Spec => []IInv
<1>1. IInv /\ [Next]_vars => IInv'
  BY NextPreserves
<1> QED
  BY InitEstablishes, <1>1, PTL DEF Spec

-----------------------------------------------------------------------------
(* Theorems                                                                *)

(* The tables keep their types: no counter or number of watches of         *)
(* McdHandlerMap is decremented below zero.                                *)
THEOREM TypeCorrectness == Spec => []TypeOK
<1>1. IInv => TypeOK
  BY DEF IInv, MapInv, EnvInv, BusInv, CallsInOrder, TypeOK
<1> QED
  BY Invariance, <1>1, PTL

(* handler_processes counts the channels in channel_processes, through any *)
(* sequence of dispatching, delegation, invalidation and crashes, for the  *)
(* empty name too.                                                         *)
THEOREM CountersAreExact == Spec => []CountersExact
<1>1. IInv => CountersExact
  BY DEF IInv, MapInv
<1> QED
  BY Invariance, <1>1, PTL

(* Every process that handles a channel is watched, so its crash is seen.  *)
THEOREM HandlersAreWatched == Spec => []HandlersWatched
<1>1. IInv => HandlersWatched
  BY DEF IInv, MapInv
<1> QED
  BY Invariance, <1>1, PTL

(* Recording a channel for the process that has the name now is right if   *)
(* the process that has the channel had the name and did not give it up.   *)
LEMMA RecordedIsHolder ==
  ASSUME IInv, ClientOfHandler, UNCHANGED bus,
         NEW c \in Channel, NEW k \in Client, NEW u \in Process \ dead,
         <<k, u>> \in given_up \/ owner[k] = u,
         SetPathHandled(c, owner[k], k), holder' = [holder EXCEPT ![c] = u]
  PROVE  ClientOfHandler'
<1>1. /\ channel_processes' = [channel_processes EXCEPT ![c] = owner[k]]
      /\ channel_clients' = [channel_clients EXCEPT ![c] = k]
  BY DEF SetPathHandled, IInv, MapInv
<1>2. /\ channel_processes \in [Channel -> Handler \cup {None}]
      /\ channel_clients \in [Channel -> Client \cup {None}]
      /\ holder \in [Channel -> Process \cup {None}]
  BY DEF IInv, MapInv, EnvInv
<1>3. UNCHANGED <<dead, owner, given_up>>
  BY DEF bus
<1> SUFFICES ASSUME NEW x \in Channel, channel_processes'[x] # None, ~NameGivenUp(x)'
             PROVE  /\ channel_processes'[x] = holder'[x]
                    /\ channel_clients'[x] # None /\ holder'[x] \notin dead' =>
                         owner'[channel_clients'[x]] = holder'[x]
  BY DEF ClientOfHandler
<1>4. CASE x = c
  BY <1>1, <1>2, <1>3, <1>4 DEF NameGivenUp
<1>5. CASE x # c
  BY <1>1, <1>2, <1>3, <1>5 DEF NameGivenUp, ClientOfHandler
<1> QED
  BY <1>4, <1>5

(* Steps that at most take a handler away keep the property.               *)
LEMMA ForgettingIsHarmless ==
  ASSUME ClientOfHandler, UNCHANGED <<bus, channel_clients>>,
         \A c \in Channel :
           \/ channel_processes'[c] = None
           \/ channel_processes'[c] = channel_processes[c] /\ holder'[c] = holder[c]
  PROVE  ClientOfHandler'
BY DEF ClientOfHandler, NameGivenUp, bus

(* The process that is recorded for a channel is the one that has it, and  *)
(* the name recorded with it is of that process, although names come, go   *)
(* and move while calls are in flight: unless the process gave that name   *)
(* up and lives on.  A callee that answers is alive, so that it still has  *)
(* the name when MC looks it up, or has given it up (CallsInOrder).        *)
THEOREM ClientsOfHandlers == Spec => []ClientOfHandler
<1>1. Init => ClientOfHandler
  BY DEF Init, ClientOfHandler
<1>2. IInv /\ ClientOfHandler /\ [Next]_vars => ClientOfHandler'
  <2> SUFFICES ASSUME IInv, ClientOfHandler, [Next]_vars
               PROVE  ClientOfHandler'
    OBVIOUS
  <2>1. /\ channel_processes \in [Channel -> Handler \cup {None}]
        /\ channel_clients \in [Channel -> Client \cup {None}]
        /\ holder \in [Channel -> Process \cup {None}]
        /\ owner \in [Client -> Handler \ dead]
    BY DEF IInv, MapInv, EnvInv, BusInv
  <2>2. ASSUME NEW c \in Channel, NEW k \in Client, NEW u \in Process,
               ClientHandlesPath(c, k, u)
        PROVE  ClientOfHandler'
    BY <2>2, RecordedIsHolder DEF ClientHandlesPath
  <2>3. ASSUME NEW c \in Channel, ChannelAppears(c) \/ ChannelInvalidated(c)
        PROVE  ClientOfHandler'
    <3>1. CASE ChannelAppears(c)
      BY <3>1, ForgettingIsHarmless DEF ChannelAppears, map
    <3>2. CASE ChannelInvalidated(c)
      BY <2>1, <3>2, ForgettingIsHarmless DEF ChannelInvalidated
    <3> QED
      BY <2>3, <3>1, <3>2
  <2>4. ASSUME NEW c \in Channel, ChannelRecovered(c)
        PROVE  ClientOfHandler'
    BY <2>1, <2>4, ForgettingIsHarmless
    DEF ChannelRecovered, SetChannelHandled, SetPathHandled
  <2>5. ASSUME NEW c \in Channel, NEW u \in Process, Claimed(c, u)
        PROVE  ClientOfHandler'
    <3>1. /\ channel_processes' = [channel_processes EXCEPT ![c] = u]
          /\ channel_clients' = [channel_clients EXCEPT ![c] = None]
          /\ holder' = [holder EXCEPT ![c] = u]
          /\ UNCHANGED <<dead, owner, given_up>>
      BY <2>1, <2>5 DEF Claimed, SetChannelHandled, SetPathHandled, bus
    <3> QED
      BY <2>1, <3>1 DEF ClientOfHandler, NameGivenUp
  <2>6. ASSUME NEW i \in Invocation, NEW c \in Channel, NEW clients \in SUBSET Client,
               DispatchChannel(i, c, clients) \/ DelegateChannel(i, c, clients)
        PROVE  ClientOfHandler'
    BY <2>6, ForgettingIsHarmless DEF DispatchChannel, DelegateChannel, Invoke, map
  <2>7. ASSUME NEW i \in Invocation, HandlerIsCalled(i) \/ HandlerRefuses(i)
        PROVE  ClientOfHandler'
    BY <2>7, ForgettingIsHarmless DEF HandlerIsCalled, HandlerRefuses, map
  <2>8. ASSUME NEW i \in Invocation, HandlerAccepts(i)
        PROVE  ClientOfHandler'
    <3> DEFINE call == calls[i]
    <3>1. /\ call.path \in Channel /\ call.client \in Client
          /\ call.callee \in Process \ dead
          /\ InOrder(call)
      BY <2>8 DEF HandlerAccepts, IInv, CallsInOrder, Invoking
    <3>2. <<call.client, call.callee>> \in given_up \/ owner[call.client] = call.callee
      BY <3>1 DEF InOrder
    <3>3. CASE DelegationAccepted(call.path, call.client, call.callee)
      BY <2>8, <3>1, <3>2, <3>3, RecordedIsHolder DEF HandlerAccepts, DelegationAccepted
    <3>4. CASE DispatchAccepted(call.path, call.client, call.callee)
      <4>1. CASE SetChannelHandled(call.path, owner[call.client], call.client)
                 /\ holder' = [holder EXCEPT ![call.path] = call.callee]
        BY <2>8, <3>1, <3>2, <4>1, RecordedIsHolder DEF HandlerAccepts, SetChannelHandled
      <4>2. CASE UNCHANGED <<map, holder>>
        BY <2>8, <4>2, ForgettingIsHarmless DEF HandlerAccepts, map
      <4> QED
        BY <3>4, <4>1, <4>2 DEF DispatchAccepted
    <3> QED
      BY <2>8, <3>3, <3>4 DEF HandlerAccepts
  <2>9. ASSUME NEW u \in Process, ProcessDies(u)
        PROVE  ClientOfHandler'
    <3>1. /\ dead' = dead \cup {u}
          /\ owner' = [k \in Client |-> IF owner[k] = u THEN Empty ELSE owner[k]]
          /\ UNCHANGED <<channel_processes, channel_clients, holder, given_up>>
      BY <2>9 DEF ProcessDies, map
    <3> QED
      BY <2>1, <3>1 DEF ClientOfHandler, NameGivenUp
  <2>10. ASSUME NEW k \in Client, NEW u \in Handler, OwnerChanges(k, u)
         PROVE  ClientOfHandler'
    <3>1. /\ owner' = [owner EXCEPT ![k] = u]
          /\ given_up' = IF owner[k] = Empty THEN given_up ELSE given_up \cup {<<k, owner[k]>>}
          /\ UNCHANGED <<channel_processes, channel_clients, holder, dead>>
      BY <2>10 DEF OwnerChanges, map
    <3>2. ASSUME NEW c \in Channel, channel_processes[c] # None, ~NameGivenUp(c)',
                 channel_clients[c] = k, holder[c] \notin dead
          PROVE  FALSE
      <4>1. ~NameGivenUp(c)
        BY <3>1, <3>2 DEF NameGivenUp
      <4>2. owner[k] = holder[c] /\ holder[c] # None /\ holder[c] \in Process
        BY <2>1, <3>2, <4>1, MapAssumption DEF ClientOfHandler
      <4> QED
        BY <3>1, <3>2, <4>2, MapAssumption DEF NameGivenUp
    <3>3. ASSUME NEW c \in Channel, channel_processes[c] # None, ~NameGivenUp(c)'
          PROVE  ~NameGivenUp(c)
      BY <3>1, <3>3 DEF NameGivenUp
    <3> QED
      BY <2>1, <3>1, <3>2, <3>3 DEF ClientOfHandler
  <2>11. ASSUME NEW u \in Process, HandlerCrashed(u)
         PROVE  ClientOfHandler'
    BY <2>11, ForgettingIsHarmless DEF HandlerCrashed
  <2>12. CASE UNCHANGED vars
    BY <2>12, ForgettingIsHarmless DEF vars, bus
  <2> QED
    BY <2>2, <2>3, <2>4, <2>5, <2>6, <2>7, <2>8, <2>9, <2>10, <2>11, <2>12 DEF Next
<1> QED
  BY Invariance, <1>1, <1>2, PTL DEF Spec

(* In each step, either no handled channel loses its handler, or the one   *)
(* that does leaves handled_channels (ChannelInvalidated) or is closed     *)
(* (HandlerCrashed).                                                       *)
LEMMA LeavingCloses == Spec => []LeftAreClosing
<1>1. Init => LeftAreClosing
  BY DEF Init, LeftAreClosing
<1>2. IInv /\ LeftAreClosing /\ [Next]_vars => LeftAreClosing'
  <2> SUFFICES ASSUME IInv, LeftAreClosing, [Next]_vars
               PROVE  LeftAreClosing'
    OBVIOUS
  <2> USE DEF LeftAreClosing
  <2>1. ASSUME NEW c \in Channel, NEW u \in Handler, NEW k \in Client \cup {None},
               SetPathHandled(c, u, k)
        PROVE  \A x \in Channel :
                 channel_processes'[x] = None => channel_processes[x] = None /\ x # c
    BY <2>1, MapAssumption DEF SetPathHandled, IInv, MapInv, Handler
  <2>2. /\ \A k \in Client : owner[k] \in Handler
        /\ handled_channels \subseteq Channel
    BY DEF IInv, EnvInv, BusInv
  <2>3. ASSUME NEW c \in Channel, NEW k \in Client, NEW u \in Process,
               ClientHandlesPath(c, k, u)
        PROVE  LeftAreClosing'
    BY <2>1, <2>2, <2>3 DEF ClientHandlesPath
  <2>4. ASSUME NEW c \in Channel, ChannelAppears(c)
        PROVE  LeftAreClosing'
    BY <2>4 DEF ChannelAppears, map
  <2>5. ASSUME NEW c \in Channel, ChannelRecovered(c)
        PROVE  LeftAreClosing'
    <3>1. channel_processes[c] \in Handler /\ channel_clients[c] \in Client \cup {None}
      BY <2>5 DEF ChannelRecovered, IInv, MapInv
    <3> QED
      BY <2>1, <2>2, <2>5, <3>1 DEF ChannelRecovered, SetChannelHandled
  <2>6. ASSUME NEW c \in Channel, NEW u \in Process, Claimed(c, u)
        PROVE  LeftAreClosing'
    <3>1. u \in Handler
      BY DEF Handler
    <3> QED
      BY <2>1, <2>2, <2>6, <3>1 DEF Claimed, SetChannelHandled
  <2>7. ASSUME NEW i \in Invocation, NEW c \in Channel, NEW clients \in SUBSET Client,
               DispatchChannel(i, c, clients) \/ DelegateChannel(i, c, clients)
        PROVE  LeftAreClosing'
    BY <2>7 DEF DispatchChannel, DelegateChannel, Invoke, map
  <2>8. ASSUME NEW i \in Invocation, HandlerIsCalled(i) \/ HandlerRefuses(i)
        PROVE  LeftAreClosing'
    BY <2>8 DEF HandlerIsCalled, HandlerRefuses, map
  <2>9. ASSUME NEW i \in Invocation, HandlerAccepts(i)
        PROVE  LeftAreClosing'
    <3> DEFINE call == calls[i]
    <3>1. call.path \in Channel /\ call.client \in Client
      BY <2>9 DEF HandlerAccepts, IInv, CallsInOrder, Invoking
    <3>2. CASE DelegationAccepted(call.path, call.client, call.callee)
      BY <2>1, <2>2, <3>1, <3>2 DEF DelegationAccepted
    <3>3. CASE DispatchAccepted(call.path, call.client, call.callee)
      BY <2>1, <2>2, <3>1, <3>3 DEF DispatchAccepted, SetChannelHandled, map
    <3> QED
      BY <2>9, <3>2, <3>3 DEF HandlerAccepts
  <2>10. ASSUME NEW c \in Channel, ChannelInvalidated(c)
         PROVE  LeftAreClosing'
    BY <2>2, <2>10 DEF ChannelInvalidated, IInv, MapInv
  <2>11. ASSUME NEW u \in Process, ProcessDies(u)
         PROVE  LeftAreClosing'
    BY <2>11 DEF ProcessDies, map
  <2>12. ASSUME NEW k \in Client, NEW u \in Handler, OwnerChanges(k, u)
         PROVE  LeftAreClosing'
    BY <2>12 DEF OwnerChanges, map
  <2>13. ASSUME NEW u \in Process, HandlerCrashed(u)
         PROVE  LeftAreClosing'
    BY <2>2, <2>13 DEF HandlerCrashed, Counted
  <2>14. CASE UNCHANGED vars
    BY <2>14 DEF vars
  <2> QED
    BY <2>3, <2>4, <2>5, <2>6, <2>7, <2>8, <2>9, <2>10, <2>11, <2>12, <2>13, <2>14 DEF Next
<1> QED
  BY Invariance, <1>1, <1>2, PTL DEF Spec

(* An open channel that was handled has a process or is being closed; the  *)
(* empty name, which is no process, is recorded only for a handler that    *)
(* gave its name up: what is recorded for any other is the process itself. *)
THEOREM NoOrphans == Spec => []NoOrphan
<1>1. IInv /\ ClientOfHandler /\ LeftAreClosing => NoOrphan
  <2> SUFFICES ASSUME IInv, ClientOfHandler, LeftAreClosing,
                      NEW c \in handled_channels, channel_processes[c] \notin Process,
                      c \notin closing
               PROVE  channel_processes[c] = Empty /\ NameGivenUp(c)
    BY DEF NoOrphan
  <2>1. c \in Channel /\ channel_processes[c] # None
    BY DEF LeftAreClosing, IInv, EnvInv
  <2>2. channel_processes[c] = Empty
    BY <2>1 DEF IInv, MapInv, Handler
  <2>3. holder[c] # Empty
    BY <2>1, MapAssumption DEF IInv, EnvInv
  <2> QED
    BY <2>1, <2>2, <2>3 DEF ClientOfHandler
<1> QED
  BY Invariance, ClientsOfHandlers, LeavingCloses, <1>1, PTL
=============================================================================
