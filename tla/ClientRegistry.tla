---------------------------- MODULE ClientRegistry ----------------------------
(* The client registry (client-registry.c), the proxies of the Telepathy    *)
(* clients it knows (mcd-client.c) and what the dispatcher does with them   *)
(* (mcd-dispatcher.c): which clients there are, what they can handle, which *)
(* channels they handle already, and when all of that is known well enough  *)
(* for dispatching to start.                                                *)
(*                                                                          *)
(* As in AccountConnection, the objects call each other synchronously, so   *)
(* that one record is the state: a C function is an operator from records   *)
(* to records, an action is a callback of the main loop with all it calls.  *)
(* Of each client name there is one process at a time, numbered in the      *)
(* order in which they start; 0 is the name without an owner ("").          *)
EXTENDS Integers, Sequences, FiniteSetsExt, Functions

CONSTANTS
  Client,              \* well-known names of clients
  BusActivatable,      \* those that the bus can start
  HasFile,             \* those with a .client file
  Approvers, Handlers, Observers,  \* the interfaces they implement
  Faulty,              \* those whose calls may fail although they run
  MaxProcess,          \* bound on the processes of one client
  MaxStarts            \* bound on the processes of all clients

ASSUME ClientsAssumption ==
  /\ BusActivatable \subseteq Client /\ HasFile \subseteq Client
  /\ Approvers \subseteq Client /\ Handlers \subseteq Client
  /\ Observers \subseteq Client /\ Faulty \subseteq Client
  /\ MaxProcess \in Nat \ {0} /\ MaxStarts \in Nat
  /\ IsFiniteSet(Client)

VARIABLE world
vars == <<world>>

-----------------------------------------------------------------------------
(* The state                                                                *)

Nobody == 0                     \* the owner ""
Unknown == -1                   \* NULL: nobody told yet
Process == 1..MaxProcess

(* Handler filters and capability tokens: none, those that process p told,  *)
(* or those of the .client file.                                            *)
NoCaps == 0
FileCaps == MaxProcess + 1
Caps == 0..FileCaps

(* The calls a proxy makes.                                                 *)
Call == {"Interfaces", "Approver", "Handler", "Observer"}

(* One McdClientProxy that the registry refers to.  last_owner is that of   *)
(* the name-owner watch, calls the process that each call went to.          *)
ProxyType ==
  [known : BOOLEAN, unique_name : Process \cup {Nobody, Unknown},
   activatable : BOOLEAN, introspect_started : BOOLEAN,
   ready_lock : Nat, ready : BOOLEAN, caps : Caps,
   recover : BOOLEAN, last_owner : Process \cup {Nobody, Unknown},
   calls : [Call -> Process \cup {Nobody, Unknown}]]

NoCalls == [call \in Call |-> Unknown]

NoProxy ==
  [known |-> FALSE, unique_name |-> Unknown, activatable |-> FALSE,
   introspect_started |-> FALSE, ready_lock |-> 0, ready |-> FALSE,
   caps |-> NoCaps, recover |-> FALSE, last_owner |-> Unknown, calls |-> NoCalls]

(* The world: the bus (who owns the names, the owners that it has still to  *)
(* tell MC, calls that wait for a client), the registry, its proxies, a     *)
(* connection with the capabilities it was told of each client.  handling   *)
(* is the process the handler map has for the channel that each client      *)
(* handles since before MC started.  History: initial, the clients found by *)
(* ListNames; missed, those whose process runs since before a ListNames    *)
(* that failed; failed, those that did not answer a call; left, the Observers *)
(* of which a process left that MC knew to recover; observed, the process     *)
(* that was last asked to observe the channels there are.                   *)
WorldType ==
  [owner : [Client -> Process \cup {Nobody}], starts : [Client -> 0..MaxProcess],
   inbox : [Client -> Seq(Process \cup {Nobody})], observe_queued : [Client -> BOOLEAN],
   list : {"names", "activatable", "done"},
   startup_lock : Nat, startup_completed : BOOLEAN,
   proxy : [Client -> ProxyType],
   connection : {"none", "early", "added"},
   caps_told : [Client -> Caps],
   handling : [Client -> Process \cup {Nobody}],
   initial : SUBSET Client, missed : SUBSET Client, failed : SUBSET Client,
   left : SUBSET Client, observed : [Client -> Process \cup {Nobody}]]

Init ==
  \E running \in SUBSET Client :
    world =
      [owner |-> [c \in Client |-> IF c \in running THEN 1 ELSE Nobody],
       starts |-> [c \in Client |-> IF c \in running THEN 1 ELSE 0],
       inbox |-> [c \in Client |-> <<>>],
       observe_queued |-> [c \in Client |-> FALSE],
       list |-> "names", startup_lock |-> 1, startup_completed |-> FALSE,
       proxy |-> [c \in Client |-> NoProxy],
       connection |-> "none",
       caps_told |-> [c \in Client |-> NoCaps],
       handling |-> [c \in Client |-> Nobody],
       initial |-> {}, missed |-> {}, failed |-> {},
       left |-> {},
       observed |-> [c \in Client |-> Nobody]]

-----------------------------------------------------------------------------
(* The dispatcher: capabilities, handled channels, recovery                 *)

(* _mcd_dispatcher_dup_client_caps, _mcd_client_registry_dup_client_caps    *)
(* and UpdateCapabilities, which replaces the capabilities of the clients   *)
(* it names and leaves those of others alone.                               *)
TellAllCaps(s) ==
  [s EXCEPT !.caps_told =
     [c \in Client |-> IF s.proxy[c].known THEN s.proxy[c].caps ELSE @[c]]]

(* A mutant: connections learn of clients only when they are set up.        *)
MutTellNobody(s, c) == s

(* mcd_dispatcher_client_capabilities_changed_cb                            *)
CapabilitiesChanged(s, c) ==
  IF s.startup_completed /\ s.connection = "added"
  THEN [s EXCEPT !.caps_told[c] = s.proxy[c].caps]
  ELSE s

(* mcd_dispatcher_client_handling_channel_cb                                *)
IsHandlingChannel(s, c) ==
  IF s.proxy[c].unique_name > Nobody
  THEN [s EXCEPT !.handling[c] = s.proxy[c].unique_name]
  ELSE s

(* A call of ObserveChannels for which the bus starts the client if it can, *)
(* _mcd_client_recover_observer.                                            *)
RecoverObserver(s, c) ==
  IF s.owner[c] # Nobody
  THEN [s EXCEPT !.observed[c] = s.owner[c]]
  ELSE [s EXCEPT !.observe_queued[c] = @ \/ c \in BusActivatable]

(* mcd_dispatcher_client_needs_recovery_cb, with a channel that the client  *)
(* has to observe.                                                          *)
NeedRecovery(s, c) == RecoverObserver(s, c)

(* mcd_dispatcher_client_registry_ready_cb                                  *)
RegistryReady(s) ==
  IF s.connection = "added" THEN TellAllCaps(s) ELSE s

-----------------------------------------------------------------------------
(* The startup lock of the registry                                         *)

IncStartupLock(s, n) ==
  IF s.startup_completed THEN s ELSE [s EXCEPT !.startup_lock = @ + n]

DecStartupLock(s) ==
  IF s.startup_completed THEN s
  ELSE IF s.startup_lock = 1
  THEN RegistryReady([s EXCEPT !.startup_lock = 0, !.startup_completed = TRUE])
  ELSE [s EXCEPT !.startup_lock = @ - 1]

-----------------------------------------------------------------------------
(* A client proxy: its ready lock and its calls                             *)

IncReadyLock(s, c) ==
  IF s.proxy[c].ready THEN s ELSE [s EXCEPT !.proxy[c].ready_lock = @ + 1]

(* _mcd_client_proxy_dec_ready_lock with the handlers of "ready"            *)
(* (mcd_client_registry_ready_cb) and of "need-recovery".                   *)
DecReadyLock(s, c) ==
  IF s.proxy[c].ready THEN s
  ELSE IF s.proxy[c].ready_lock > 1
  THEN [s EXCEPT !.proxy[c].ready_lock = @ - 1]
  ELSE LET t == DecStartupLock([s EXCEPT !.proxy[c].ready_lock = 0,
                                         !.proxy[c].ready = TRUE]) IN
       IF s.proxy[c].recover /\ ~s.proxy[c].activatable THEN NeedRecovery(t, c) ELSE t

(* A call to the client goes to the process that owns the name; if nobody   *)
(* does, it waits for the bus to start one, or to fail.                     *)
CallClient(s, c, call) ==
  [IncReadyLock(s, c) EXCEPT !.proxy[c].calls[call] = s.owner[c]]

(* The filters and flags of a .client file, parse_client_file.              *)
ParseClientFile(s, c) ==
  [s EXCEPT !.proxy[c].caps = IF c \in Handlers THEN FileCaps ELSE NoCaps,
            !.proxy[c].recover = c \in Observers]

(* A mutant: the channels of a running client with a .client file are not   *)
(* asked for.                                                               *)
MutTrustTheFile(s, c) ==
  IF s.proxy[c].introspect_started THEN s
  ELSE LET t == [s EXCEPT !.proxy[c].introspect_started = TRUE] IN
       DecReadyLock(
         IF c \notin HasFile THEN CallClient(t, c, "Interfaces")
         ELSE CapabilitiesChanged(ParseClientFile(t, c), c), c)

(* mcd_client_proxy_introspect *)
Introspect(s, c) ==
  LET t == [s EXCEPT !.proxy[c].introspect_started = TRUE]
      parsed == ParseClientFile(t, c) IN
  IF s.proxy[c].introspect_started THEN s
  ELSE DecReadyLock(
         IF c \notin HasFile THEN CallClient(t, c, "Interfaces")
         ELSE IF c \notin Handlers THEN parsed
         ELSE IF s.proxy[c].unique_name > Nobody THEN CallClient(parsed, c, "Handler")
         ELSE CapabilitiesChanged(parsed, c), c)

-----------------------------------------------------------------------------
(* Clients appear and disappear                                             *)

(* _mcd_client_proxy_new *)
NewProxy(unique_name, activatable) ==
  [NoProxy EXCEPT !.known = TRUE, !.unique_name = unique_name,
                  !.activatable = activatable, !.ready_lock = 1]

(* _mcd_client_registry_found_name, for a name that a signal has just told  *)
(* the owner of.                                                            *)
FoundName(s, c, unique_name) ==
  IF s.proxy[c].known THEN [s EXCEPT !.proxy[c].unique_name = unique_name]
  ELSE IncStartupLock([s EXCEPT !.proxy[c] = NewProxy(unique_name, FALSE)], 1)

(* The same for the names that a list of the bus has, one after the other.  *)
(* The constructor of a proxy asks for the owner of its name.               *)
FoundNames(s, names, activatable) ==
  LET new == {c \in names : ~s.proxy[c].known} IN
  IncStartupLock(
    [s EXCEPT
       !.proxy = [c \in Client |->
          IF c \in new THEN NewProxy(Unknown, activatable)
          ELSE IF c \in names /\ activatable THEN [@[c] EXCEPT !.activatable = TRUE]
          ELSE @[c]],
       !.inbox = [c \in Client |->
          IF c \in new THEN Append(@[c], s.owner[c]) ELSE @[c]]],
    Cardinality(new))

(* A mutant: a client that leaves keeps the lock that it had taken.         *)
MutRemove(s, c) == [s EXCEPT !.proxy[c] = NoProxy]

(* _mcd_client_registry_remove, mcd_client_registry_disconnect_client_      *)
(* signals, mcd_dispatcher_discard_client.  The registry and the dispatcher *)
(* hear no more of the proxy, whatever replies are still to come to it.     *)
Remove(s, c) ==
  [(IF s.proxy[c].ready THEN s ELSE DecStartupLock(s)) EXCEPT !.proxy[c] = NoProxy]

(* _mcd_client_proxy_become_incapable *)
BecomeIncapable(s, c) ==
  LET t == [s EXCEPT !.proxy[c].caps = NoCaps] IN
  IF s.proxy[c].caps # NoCaps THEN CapabilitiesChanged(t, c) ELSE t

(* _mcd_client_proxy_set_inactive with the handlers of "gone"               *)
SetInactive(s, c) ==
  LET t == [s EXCEPT !.proxy[c].unique_name = Nobody] IN
  IF s.proxy[c].unique_name = Nobody THEN s
  ELSE IF s.proxy[c].activatable THEN t
  ELSE Remove(BecomeIncapable(t, c), c)

-----------------------------------------------------------------------------
(* Callbacks of MC                                                          *)

Becomes(s) == world' = s

(* The lists are replies of the bus, which come after what it said before.  *)
CaughtUp == \A c \in Client : world.inbox[c] = <<>>

(* mcd_client_registry_list_names_cb *)
ListNames(error) ==
  LET running == {c \in Client : world.owner[c] # Nobody}
      s == [world EXCEPT !.list = "activatable"] IN
  /\ world.list = "names" /\ CaughtUp
  /\ Becomes(IF error THEN [s EXCEPT !.missed = running \ {c \in Client : world.proxy[c].known}]
             ELSE FoundNames([s EXCEPT !.initial = running], running, FALSE))

(* mcd_client_registry_list_activatable_names_cb *)
ListActivatableNames(error) ==
  LET s == [world EXCEPT !.list = "done"] IN
  /\ world.list = "activatable" /\ CaughtUp
  /\ Becomes(DecStartupLock(FoundNames(s, IF error THEN {} ELSE BusActivatable, TRUE)))

(* A mutant: a client that does not run is not introspected.                *)
MutIntrospectRunning(s, c, should_recover) ==
  LET t == IF s.proxy[c].known /\ s.proxy[c].unique_name # Nobody
           THEN Introspect(s, c) ELSE s IN
  IF should_recover THEN NeedRecovery(t, c) ELSE t

(* A mutant: no recovery of activatable Observers.                          *)
MutNoRecovery(s, c, should_recover) ==
  IF s.proxy[c].known THEN Introspect(s, c) ELSE s

(* The end of mcd_client_proxy_unique_name_cb: a proxy that the registry    *)
(* has dropped introspects as well, but nobody listens to it.               *)
AfterUniqueName(s, c, should_recover) ==
  LET t == IF s.proxy[c].known THEN Introspect(s, c) ELSE s IN
  IF should_recover THEN NeedRecovery(t, c) ELSE t

(* mcd_client_proxy_unique_name_cb *)
UniqueNameCb(s, c, name) ==
  LET p == s.proxy[c] IN
  IF name = Nobody
  THEN AfterUniqueName(SetInactive(s, c), c, p.recover /\ p.activatable)
  ELSE AfterUniqueName([s EXCEPT !.proxy[c].unique_name = name], c, FALSE)

(* The name-owner watch of a proxy tells each owner once.                   *)
Watch(s, c, owner) ==
  IF s.proxy[c].known /\ s.proxy[c].last_owner # owner
  THEN UniqueNameCb([s EXCEPT !.proxy[c].last_owner = owner], c, owner)
  ELSE s

(* The bus tells the owner of a name: mcd_client_registry_name_owner_filter *)
(* and the watch.  The watch, and the introspection of a new proxy, run in  *)
(* idle callbacks of G_PRIORITY_HIGH, before the next message.              *)
NameOwnerChanged(c) ==
  LET owner == Head(world.inbox[c])
      s == [world EXCEPT !.inbox[c] = Tail(@)] IN
  /\ world.inbox[c] # <<>>
  /\ Becomes(Watch(IF owner # Nobody THEN FoundName(s, c, owner) ELSE s, c, owner))

(* _mcd_client_proxy_get_interfaces_cb *)
GetInterfacesCb(s, c) ==
  LET ask(t, clients, call) == IF c \in clients THEN CallClient(t, c, call) ELSE t IN
  ask(ask(ask(s, Approvers, "Approver"), Handlers, "Handler"), Observers, "Observer")

(* _mcd_client_proxy_handler_get_all_cb.  The first process has a channel   *)
(* that it handled before MC started.                                       *)
HandlerGetAllCb(s, c, from) ==
  LET t == [s EXCEPT !.proxy[c].caps = from]
      u == IF s.proxy[c].unique_name # Nobody \/ s.proxy[c].activatable
           THEN CapabilitiesChanged(t, c) ELSE t IN
  IF s.proxy[c].unique_name # Nobody /\ from = 1 THEN IsHandlingChannel(u, c) ELSE u

(* The process that owns the name as far as MC was told: that of the bus,   *)
(* or the one before the first change that is still to be told.             *)
OwnerSeen(c) ==
  LET i == world.inbox[c] IN
  IF i = <<>> THEN world.owner[c]
  ELSE IF Head(i) # Nobody THEN Nobody
  ELSE IF Len(i) = 1 THEN world.starts[c] ELSE i[2] - 1

(* A call returns: with what the process it went to said before it left the *)
(* bus, or with an error, which leaves everything as it was.                *)
CallReturns(c, call, ok) ==
  LET from == world.proxy[c].calls[call]
      s == [world EXCEPT !.proxy[c].calls[call] = Unknown,
                         !.failed = IF ok THEN @ ELSE @ \cup {c}] IN
  /\ from # Unknown
  /\ LET alive == from # Nobody /\ OwnerSeen(c) = from IN
     IF ok THEN alive ELSE alive => c \in Faulty
  /\ Becomes(DecReadyLock(
       IF ~ok THEN s
       ELSE CASE call = "Interfaces" -> GetInterfacesCb(s, c)
              [] call = "Handler"    -> HandlerGetAllCb(s, c, from)
              [] call = "Observer"   -> [s EXCEPT !.proxy[c].recover = TRUE]
              [] OTHER               -> s, c))

-----------------------------------------------------------------------------
(* The bus, the clients and the connections                                 *)

Changed(s, c, owner) == [s EXCEPT !.owner[c] = owner, !.inbox[c] = Append(@, owner)]

(* A process takes the name, by itself or because the bus starts it; it     *)
(* gets the calls that were waiting for it.                                 *)
Start(c) ==
  LET p == world.starts[c] + 1
      s == Changed(world, c, p) IN
  /\ world.owner[c] = Nobody /\ p <= MaxProcess
  /\ FoldFunction(+, 0, world.starts) < MaxStarts
  /\ Becomes([s EXCEPT
       !.starts[c] = p, !.missed = @ \ {c},
       !.observe_queued[c] = FALSE,
       !.observed[c] = IF world.observe_queued[c] THEN p ELSE @,
       !.proxy[c].calls = [call \in Call |->
          IF @[call] = Nobody /\ c \in BusActivatable THEN p ELSE @[call]]])

(* It exits, and the channels it handles are not handled any more.          *)
Exit(c) ==
  LET p == world.proxy[c]
      seen == world.list = "done" /\ p.recover /\ p.unique_name = world.owner[c] IN
  /\ world.owner[c] # Nobody
  /\ Becomes([Changed(world, c, Nobody) EXCEPT
       !.handling[c] = Nobody, !.left = IF seen THEN @ \cup {c} ELSE @])

(* mcd_connection_early_get_interfaces_cb preloads the capabilities.        *)
EarlyCaps ==
  LET s == [world EXCEPT !.connection = "early"] IN
  /\ world.connection = "none"
  /\ Becomes(IF world.startup_completed THEN TellAllCaps(s) ELSE s)

(* _mcd_dispatcher_add_connection *)
AddConnection ==
  LET s == [world EXCEPT !.connection = "added"] IN
  /\ world.connection = "early"
  /\ Becomes(IF world.startup_completed THEN TellAllCaps(s) ELSE s)

Next ==
  \/ \E error \in BOOLEAN : ListNames(error) \/ ListActivatableNames(error)
  \/ \E c \in Client :
       \/ NameOwnerChanged(c) \/ Start(c) \/ Exit(c)
       \/ \E call \in Call, ok \in BOOLEAN : CallReturns(c, call, ok)
  \/ EarlyCaps \/ AddConnection

Spec == Init /\ [][Next]_vars

(* The main loop runs, the bus delivers, and every call returns, if need be *)
(* with an error: weak fairness of these actions, each of which falsifies   *)
(* its enabling condition, so that the condition is false again and again.  *)
(* Nothing is assumed of the clients.                                       *)
FairSpec ==
  /\ Spec
  /\ []<>(~(CaughtUp /\ world.list = "names"))
  /\ []<>(~(CaughtUp /\ world.list = "activatable"))
  /\ \A c \in Client :
       /\ []<>(world.inbox[c] = <<>>)
       /\ \A call \in Call : []<>(world.proxy[c].calls[call] = Unknown)

-----------------------------------------------------------------------------
(* Properties                                                               *)

TypeOK == world \in WorldType

Known == {c \in Client : world.proxy[c].known}

(* Until startup is completed, the startup lock is what its comment says:   *)
(* one lock for the enumeration and one for each client that is known and   *)
(* not ready.                                                               *)
StartupLockExact ==
  ~world.startup_completed =>
    world.startup_lock = Cardinality({c \in Known : ~world.proxy[c].ready})
                           + IF world.list # "done" THEN 1 ELSE 0

(* The ready lock of a proxy counts its calls in flight, and the            *)
(* introspection that is still to start: a client is ready when everything  *)
(* about it is known, and not before.                                       *)
ReadyLockExact ==
  \A c \in Known :
    LET p == world.proxy[c] IN
    /\ p.ready_lock = Cardinality({call \in Call : p.calls[call] # Unknown})
                        + IF p.introspect_started THEN 0 ELSE 1
    /\ p.ready <=> p.ready_lock = 0

(* Both locks are exact, and neither is released more often than taken,     *)
(* through clients that come back, leave while they are inspected, or are   *)
(* in both lists.                                                           *)
LocksExact == TypeOK /\ StartupLockExact /\ ReadyLockExact

(* A channel that a client handled before MC started is not offered to      *)
(* anybody else: when dispatching starts, MC has it recorded for every      *)
(* running client that it found at startup and that answered.               *)
HandledBeforeDispatching ==
  world.startup_completed =>
    \A c \in Handlers \cap world.initial :
      \/ world.owner[c] # 1 \/ c \in world.failed \/ world.list # "done"
      \/ world.handling[c] = 1

(* What a connection announces to contacts for the clients MC knows is what *)
(* these clients said, even if they said it while the connection was being  *)
(* set up.  A client whose calls fail is excepted: the filters of its       *)
(* .client file are not sent then.                                          *)
CapsTold ==
  \A c \in Known :
    LET p == world.proxy[c] IN
    (/\ world.connection = "added" /\ world.startup_completed
     /\ p.ready /\ c \notin world.failed)
    => world.caps_told[c] = p.caps

(* MC is never stuck at startup: whatever the clients do, the registry      *)
(* becomes ready and dispatching starts.  And once clients stop coming and  *)
(* going, the registry is right about who is there: it knows every running  *)
(* client with its process, and of the others exactly those that the bus    *)
(* told it can start.  (After a ListNames that fails MC assumes that no     *)
(* client runs.)                                                            *)
RegistryConverges ==
  /\ <>world.startup_completed
  /\ \A c \in Client :
       <>[](LET p == world.proxy[c] IN
            c \in world.missed \/
            IF world.owner[c] # Nobody
            THEN p.known /\ p.unique_name = world.owner[c]
            ELSE p.known => p.activatable /\ p.unique_name = Nobody)

(* An Observer with Recover that is restarted is told about the channels    *)
(* there are, once MC knows that it is an Observer: whether the bus can     *)
(* start it or not, and whether it comes back by itself or is called.       *)
RestartedObserverRecovers ==
  \A c \in Observers : \A p \in Process \ {1} :
    (/\ world.proxy[c].ready /\ world.proxy[c].recover
     /\ world.proxy[c].unique_name = p /\ world.owner[c] = p /\ c \in world.left)
    ~> (world.observed[c] = p \/ world.owner[c] # p)

=============================================================================
