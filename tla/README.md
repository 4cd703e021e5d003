# Mission Control: specification and proofs

TLA+ models of telepathy-mission-control-5 (MC), the process that keeps instant
messaging accounts online and gives each communication channel to exactly one
user-interface process.  The models are written from the C code under `src/`;
line numbers refer to it, and `PROJECT.json` maps every definition to its lines.

## 1. The system

MC is one process with one thread.  Its main loop dispatches D-Bus messages,
timers and idle callbacks; whatever is hard about it comes from the *order* in
which those callbacks run, and from what happens between a call MC makes and the
reply to it.

| Component (src/src) | State it keeps | Operations | Talks to |
|---|---|---|---|
| **McdDispatchOperation** `mcd-dispatch-operation.c` | queue of approvals, failed handlers, result, counters of pending observers and approvers ("client locks"), handler being tried, plugin delays | run observers, approvers and handlers; `HandleWith`, `HandleWithTime`, `Claim`; lose the channel; finish | clients (D-Bus), plugins, handler map, registry |
| **Plugin API** `plugin-dispatch-operation.c` | what to do to the channel once observers have replied | `start_delay`, `end_delay`, `leave`/`close`/`destroy_channels` | the CDO |
| **McdChannel** `mcd-channel.c` | status, error, request, request proxy | abort, cancel, close, undispatchable, depart | connection, CDO, request |
| **McdHandlerMap** `mcd-handler-map.c` | channel → process, channel → client, per-process counters, watches, handled channels | set path/channel handled, invalidation, handler crashed | dispatcher, bus daemon |
| **McdDispatcher** `mcd-dispatcher.c` | running operations, connections | dispatch, recover, delegate, present, create/ensure channel | all of the above |
| **McdClientRegistry**, **McdClientProxy** `client-registry.c`, `mcd-client.c` | known clients, startup locks; per client: filters, owner, readiness | follow NameOwnerChanged, introspect, order handlers | bus daemon, dispatcher |
| **McdRequest** `request.c` | delay count, cancellable, complete, account locks | proceed, cancel, succeed, fail | account, channel, plugins |
| **McdConnection** `mcd-connection.c` | TpConnection, reconnection and probation timers, dispatching flags | connect, prepare, reconnect, start dispatching, abort | connection managers, account, dispatcher |
| **McdAccount** `mcd-account*.c` | enabled, valid, parameters, requested and current presence, connection context, online requests | property setters, connect, reconnect, remove | connection, storage, connectivity |
| **McdAccountManager** `mcd-account-manager.c` | accounts | load, create, remove, migrate | storage, plugins |
| **McdStorage** `mcd-storage.c` and plugins | attributes and parameters of each account, one plugin per account | get, set, commit, delete | files, plugins |
| **McdConnectivityMonitor** `connectivity-monitor.c` | connected, awake, inhibitions | state change, inhibit suspend | accounts |
| McdMission/McdOperation, McdMaster, McdManager, McdService | ownership tree, process set-up | abort, connect | — |

What makes each of them correct, and is hard to test:

* **CDO**: one owner per channel; truthful and single answers to `HandleWith` and
  `Claim`; destructive signals (`ChannelLost`, `Finished`) only when no client is
  still looking at the CDO; nothing given to a handler that needs approval without
  approval; no stalls; no channel left open with nobody responsible for it.
* **Handler map**: three hash tables and the set of watches stay in step through
  every order of dispatching, delegation, closing and crashes;
  the process recorded for a channel is the one that accepted it, while the names by which
  handlers are called move.
* **Registry**: dispatching starts once, when every client known at startup is
  ready or gone; no handler is forgotten because its name changed hands at startup.
* **Requests**: exactly one of success and failure; account locks of internal
  requests balance, so that no request waits for ever.
* **Connection/account**: the status shown is the truth; one attempt at a time; no
  connection survives the wish to be offline; requests waiting for the
  account to come online are answered.
* **Selection of handlers**: the most specific handler is asked first, whatever the
  types and the order in which clients describe themselves; a channel that is handled is
  presented by the process that has it.
* **Storage and accounts**: what was reported as changed is what a restart finds;
  deletion is final; MC and the other users of libaccounts agree in the end.

Hazards are listed with their lines in `PROJECT.json`.

## 2. Plan

Modelled, most important behaviour first: the dispatch operation (`DispatchOperation`) and
what it promises (`ChannelDispatch`); the handler map (`HandlerMap`); an account and its
connection (`AccountConnection`); clients (`ClientRegistry`, `HandlerSelection`); requests
(`ChannelRequests`); accounts and their storage (`AccountManager` over `AccountStorage`).

`AccountManager` is composed of the operators of `AccountStorage`; `DispatchOperation`
implements `ChannelDispatch`.  The other modules meet at interfaces that each of them
abstracts: a dispatch operation ends in `HandlerMap` as `Claimed` or with a call of
`DispatchChannel` that is accepted, and is run by
`ChannelRequests` as `OperationProceeds`; an account that goes online is
`AccountConnected` there; the registry's readiness is `RegistryReady` in
`AccountConnection`.

Proved: `HandlerMapProofs`, `ClientRegistryProofs`, `DispatchOperationProofs` (on
`DispatchOperationLemmas`), `AccountConnectionProofs`, `AccountManagerProofs` (on
`AccountManagerLemmas`), `HandlerSelectionProofs`.

Left, in this order:

1. A theorem about `ChannelRequests`, `LocksExact` first: a callback there runs loops over sequences
   of requests and of channels, of which each would need its invariant and an induction over the list.
2. A module for the recovery of the channels that a Connection has when MC finds it
   (`mcd-connection.c`, `mcd-dispatcher.c`), and for emergency service points.

## 3. Modules

### DispatchOperation

One CDO, its McdChannel, and its D-Bus traffic.  The object is the record `cdo`;
its first fields are those of `struct _McdDispatchOperationPrivate`, by their
names.  `registry` is the set of handlers that the client registry knows.

A C function that changes the object is an operator from records to records
(`Finish`, `LoseChannel`, `CheckFinished`, `CheckClientLocks`, `TryNextHandler`,
`SetHandlerFailed` ...), and an action is one callback of the main loop with
everything it calls, for example

    ObserverReturns(o)  =  observe_channels_cb
                        =  dec_observers_pending ; check_finished ; check_client_locks

so no state inside a callback is visible.  The functions recurse through signals
(`Finished` → `check_client_locks` → plugins → `abort` → `lose_channel` → `finish`):
once `result` is set the recursion does strictly less, and the operators named
`...Finished` are those inner calls, which makes the model first-order.

| Action | Code |
|---|---|
| `RunClients` | `_mcd_dispatch_operation_run_clients` |
| `ObserverReturns`, `ApproverReturns`, `HandleChannelsReturns` | replies of ObserveChannels, AddDispatchOperation, HandleChannels, with success or error |
| `IdleRunApprovers` | `mcd_dispatch_operation_idle_run_approvers` |
| `HandleWith`, `Claim`, `Approve` | D-Bus calls; a further request satisfied by the channel |
| `ClaimSuitability`, `HandlerDecision` | decisions of policy plugins |
| `PluginStartsDelay`, `EndPluginDelay`, `PluginTerminatesNow/Later` | the plugin API |
| `ChannelInvalidated`, `ConnectionAborted`, `RequestCancelled` | the three ways to lose the channel |
| `HandlerVanishes`, `HandlerAppears` | the registry changes |

`g_return_if_fail`, `g_assert` and NULL dereferences that the code could reach are
recorded in `cdo.criticals` and not assumed away.

Abstractions.  A handler is known to the registry or not; an activatable handler
that is not running counts as known, as `_mcd_client_registry_lookup` finds it.
Which observers and approvers match the channel is chosen by the action.  The list
of possible handlers is one of `HandlerLists`, of which `HandlerListsAssumption`
says what `possible_handler_cmp` guarantees.  The exemption of contact lists from
`Close` is not modelled.  The D-Bus object of a CDO is reachable as long as anything
refers to it (`Alive`).

### DispatchOperationLemmas, DispatchOperationProofs

Theorems about `DispatchOperation` (section 6), one layer on the other: what each function leaves
alone and the types it keeps, and the queue of callers; the fate of the channel; the actions and the theorems;
the refinement of `ChannelDispatch`, and what follows from it.

### ChannelDispatch

What callers can rely on, without the machinery: the channel gets an owner or is closed
(`Decide`), once; at that moment everybody who waits is told; a call after it is refused;
until then a HandleWith can be refused because the handler it insists on failed
(`Refuse`).  `DispatchOperation!ImplementsChannelDispatch` is the refinement:

| ChannelDispatch | DispatchOperation |
|---|---|
| `owner` | `cdo.handled_by` |
| `closed` | `cdo.closing` or the channel is gone |
| `decided` | `cdo.result` is set |
| `asked`, `answer` | `cdo.asked`, `cdo.reply` |

The steps of Observers, Approvers, locks and handlers that are tried are stutters.  The
refinement is checked, and proved, with no plugin: with one, a Claim can be accepted or refused after the
result (section 8).  It is checked with two callers of HandleWith, who can ask for the same
or for different handlers, and a handler that bypasses approval.

### HandlerMap

The map's three tables, the watches on unique names, the TpChannels, the calls of
HandleChannels in flight, and the owners of the handlers' well-known names.  Actions are the
callbacks that reach the map: the end of a CDO (`Claimed`; `DispatchChannel`, whose call is
delivered by `HandlerIsCalled` and ends in `HandlerAccepts` or `HandlerRefuses`), a starting
client's HandledChannels (`ClientHandlesPath`), `ChannelRecovered`, `DelegateChannel` with the
same replies, `ChannelInvalidated` and the name-owner callback `HandlerCrashed`.
`handled_channels` stands for the keys of `handled_channels` and of `channel_accounts`, which
change together.  A channel's object path is not reused.

`owner` is the `unique_name` of each McdClientProxy.  Names are taken, released and handed over
by `OwnerChanges` and lost with the process in `ProcessDies`, also between a call and its reply,
and the callbacks look the owner up when the reply is there, as in the code: `SetPathHandled` can
get the empty name from a delegate (no watch can be had on it, but it has a counter), while a CDO closes the channel.
The bus delivers to MC in order, so that one variable stands for what the bus and MC know: a call
is delivered to the owner of the moment (`callee`), and what happens to the name later is
read before the answer.  A callee that accepts is alive: if it dies after answering, MC reads that
after the answer.

Two history variables say what really happened, of which MC reads neither (`given_up` only tells which
process may still answer for a name, and carries the bound `MaxGivenUp`): `holder`, the
process that accepted, claimed or announced each channel, and `given_up`, who gave up which name
without leaving the bus.  `NoOrphan` and `ClientOfHandler` except a channel whose `holder` gave up
the name it was called by (`NameGivenUp`), since of those the code records the wrong
process or none (section 8).

### HandlerMapProofs

Theorems about `HandlerMap` (section 6).

### AccountConnection

One McdAccount, its McdConnection and the Connections that the connection manager makes
for it.  The account and the connection call each other synchronously, so that one record,
`account`, holds the fields of both (those of the McdConnection are the domain of
`NewConnection`; disposing of it sets them back), the Connections `tp`, and the D-Bus calls
in flight.  As in `DispatchOperation` a C function is an operator from records to records
and an action is one callback with all it calls, for example

    Reconnect  =  account_reconnect
               =  mcd_connection_close (release_tp_connection, abort, dispose) ;
                  _mcd_account_connection_begin (proceed_with_reason, _mcd_account_connect)

| Action | Code |
|---|---|
| `Load` | `manager_ready_check_params_cb`, `mcd_account_loaded` |
| `SetRequestedPresence`, `SetEnabled`, `SetConnectAutomatically` | the property setters |
| `UpdateParameters` | UpdateParameters and the checks of validity that follow it |
| `OnlineRequest` | `_mcd_account_online_request` |
| `Reconnect`, `StorageReconnect` | `account_reconnect`, `reconnect_cb` of the account manager |
| `Remove` | `mcd_account_delete`, `on_account_removed` |
| `MonitorConnected`, `MonitorDisconnected` | `monitor_state_changed_cb` |
| `RequestConnectionReturns/Fails`, `OrphanReturns/Fails` | `request_connection_cb`, with and without its McdConnection |
| `GetInterfacesReturns`, `EarlyStatusesReturns`, `StatusesReturns` | the replies while a Connection is set up |
| `Prepared`, `ConnectionReady`, `PrepareFails` | `tp_proxy_prepare_async` and `on_connection_ready` |
| `TpStatusKnown`, `TpConnecting`, `TpConnected` | `on_connection_status_changed` |
| `Invalidated` | `mcd_connection_invalidated_cb`: after Disconnect, a network error, a crash, or another error |
| `ReconnectTimer`, `ProbationTimer` | `mcd_connection_reconnect`, `mcd_connection_probation_ended_cb` |
| `RegistryReady` | `mcd_dispatcher_client_registry_ready_cb` |

`RequestConnection` outlives its McdConnection: calls in flight are counted in `requested`,
and in `orphaned` once the McdConnection is disposed of; the Connection that an orphan returns
is told to disconnect.  A TpConnection of which the status is not known is told to disconnect
and to connect like any other, which is what telepathy-glib's `TP_UNKNOWN_CONNECTION_STATUS`
leads to.

Abstractions.  An attempt has no parameters; presences are names; avatars, aliases, service
points and power saving are left out, and capabilities are in `ClientRegistry`.  `abort_requested` stands for
`abort_reason == REQUESTED`.  Timers fire at any time.  No time passes while a callback
runs, and the callbacks left over from a Connection that ended run before the answer to a
later `RequestConnection`, which takes at least a round trip.  `create_connection` and `load_manager` succeed.  A Connection's name is used
again when nothing about it is left to happen (`Recycle`).

### AccountConnectionProofs

Theorems about `AccountConnection` (section 6).

### ClientRegistry

The registry, one McdClientProxy per well-known name, and what depends on them: the lists
of running and activatable names, the capabilities a connection is told, the channels that a
client handled before MC started, and the recovery of Observers.  `world` holds them with the bus
(`owner`, and `inbox`, the owners it has still to tell).  Processes of a name are
numbered: the one with number 1 may have run before MC.

| Action | Code |
|---|---|
| `ListNames`, `ListActivatableNames` | the two callbacks of the enumeration at startup, with success or error |
| `NameOwnerChanged` | `mcd_client_registry_name_owner_filter`, `mcd_client_proxy_unique_name_cb`, and the idle introspection |
| `CallReturns` | replies of Get/GetAll of the introspection: interfaces, filters of Approver, Handler (with HandledChannels) and Observer |
| `EarlyCaps`, `AddConnection` | `mcd_connection_early_get_interfaces_cb`, `_mcd_dispatcher_add_connection` |
| `Start`, `Exit` | external: a process takes or loses its name; the bus starts it for a queued call |

Each proxy's `ready_lock` and the registry's `startup_lock` are counters as in the code.
Abstractions: what a client says is its process number (`caps`); that of a `.client`
file is `FileCaps`.  A name passes from one process to another through a moment without an owner
(the bus can hand it over directly).  tp-glib's name-owner watch tells each owner once;
its idle callbacks have high priority and run before the next message; replies of a process come
before the news that it left.  History fields: `initial`, `missed`, `failed`,
`left`, `observed` (explained at `WorldType`).

### ClientRegistryProofs

Three theorems about `ClientRegistry`, from two invariants (section 6).

### ChannelRequests

All requests of one account for the same target.  Per request an McdRequest and an
McdChannel, per path the McdChannel of a Channel that exists already or was opened by others; `missions`,
`online_requests`, `blocked_reqs` and `account_locks` are those of the code; `calls`
and `inbox` are the D-Bus traffic with the connection manager in its order; `remote` is what exists there.

| Action | Code |
|---|---|
| `RequestChannel`, `CallProceed`, `Cancel` | CreateChannel and EnsureChannel, Proceed and Cancel of the request |
| `SendMessage` | `messages_send_message_start` to its reply |
| `PluginEndsDelay` | `_mcd_request_end_delay` by a plugin |
| `AccountConnected`, `AttemptFails` | `_mcd_account_online_request_completed` |
| `ConnectionReady` | `on_connection_ready` → `request_unrequested_channels` |
| `HandleMessage` | `common_request_channel_cb`, `on_new_channel`, channel invalidated, `send_message_submitted` |
| `OperationProceeds`, `HandlerReturns`, `UserApproves`, `ReinvokedReturns` | the dispatch operation as far as requests see it; reinvocation of the handler |
| `ConnectionLost` | `mcd_connection_release_tp_connection`: abort of every channel |
| `CmHandlesCall`, `ChannelOpened`, `ChannelCloses` | external: the connection manager |

Reference counting matters here, because a proxy that nobody holds drops its request: `ChannelAlive`,
`RequestAlive` say who keeps whom, and `Unref` disposes of what is unreferenced at the end of a callback.
Abstractions: channels that a Connection has when it is found (GetAll of Requests) and
`AddRequest`/`RemoveRequest` are left out; what the connection told before it is lost comes
first.

### HandlerSelection

Filters as they are read from `.client` files and from D-Bus, their matching with a
channel, the order of possible handlers, the handler predicted for a request, the one that is tried,
and the one that a handled channel is presented to again.  Actions: clients
register and leave with any of `Descriptions`, a request is made (`MakeRequest`), its
channel appears (`ChannelAppears`), handlers are tried (`TryNextHandler`), an approver
claims it, its handler exits, and it is asked for once more (`Reinvoke`,
`PresentChannel`).

Property values keep their D-Bus types.  Numbers have `2 * Bits` bits and `int` has
`Bits`: with `Bits = 2` the values 0 to 3 and more are on both sides of the truncation that the code makes from 64
to 32 bits.  `HashOrder` stands for the iteration order of the hash table, which does
not change while names stay.  The process of a Claim is arbitrary.  The filters of a client
are a list in the code; only the best match counts, so that a set is enough.  The sorted list
is described rather than sorted: `Precedes` is strict and linear, and there is only one.

### HandlerSelectionProofs

Theorems about `HandlerSelection` (section 6).

### AccountStorage, AccountManager

`AccountStorage` has the cache of `mcd-storage.c` and the two stores that are compiled in,
as operators on one record: the keyfile (in memory, on disk, in its old place, corrupt)
and libaccounts (the database, and the plugin's view of it with unstored changes, its
watch, its save flag and its five-second timer).  `AccountManager` has the McdAccounts
with their lifetime (`Held`, `Collect`), the table, the lock of the setup, the queue of those who
wait for the connection manager, and the signals of libaccounts.

| Action | Code |
|---|---|
| `Start` | `mcd_storage_load`, `_mcd_account_manager_setup` |
| `Crash` | the process dies; what is not stored is lost |
| `MgrReady`, `RunCallback` | `on_manager_ready` and what waited for it: `mcd_account_loaded`, `complete_account_creation`, `async_created_manager_cb`, `async_altered_manager_cb` |
| `AccountManagerCreateAccount`, `AccountRemove`, `AccountUpdateParameters`, `AccountSetEnabled`, `AccountSetAvatar` | the D-Bus calls |
| `AvatarReply`, `PropertiesTimeout`, `SsoCommitTimeout` | a reply and two timers |
| `Deliver` | `_sso_created`, `_sso_updated`, `_sso_toggled`, `_sso_deleted` with their callbacks in the account manager |
| `OutsideCreate`, `OutsideSet`, `OutsideDelete`, `DiskChanges` | external: other processes, the disk |

Abstractions: one connection manager; one libaccounts account, created at most once; settings
are `manager` (with the protocol: what makes a group an account), `Enabled`, one required parameter and one
attribute that replies write (`token`), of which the values are 0 (unset), 1 and 2.
A new account's migration to AutomaticPresence is "something to save, and a commit".  An AgAccount
shows its own unstored changes and otherwise what is stored.  Signals arrive in order and
none comes to a process of what it stored itself (those callbacks find nothing changed).  `load_manager` holds no reference to its
account: when its callback comes for one that was freed, it does nothing or the process dies.

`known` records the accounts that met a defect of the code, or a failure, that excuses them from a
property; each is described in section 8:
`kept` (a removed libaccounts account stays in libaccounts), `zombie` (a removed account is written
to again), `ghost` (libaccounts deletes an account that is not in the table yet), `missed`
(a change of one that is not in the table yet), `unset` (a parameter unset outside is not noticed),
`altered` (parameters changed outside are not checked), `unwritten` (the
process died while the disk was full).

### AccountManagerLemmas, AccountManagerProofs

The inductive invariant of `AccountManager` with lemmas about the operators of both modules; one lemma
per action, and the theorems (section 6).

### MCDispatchOperation, MCHandlerMap, MCHandlerSelection

Instances for TLC: the handler lists, who may have which name, and the descriptions of clients.

## 4. Runs

| Run | Module | Expect | Checks | Shows |
|---|---|---|---|---|
| `cdo_clients` | MCDispatchOperation | pass | `LocksMatchCalls`, `AssertionsHold`, `QuietSignals`, `HandleWithAnswered`, `DispatchEnds` | Without plugins, in every order of replies, HandleWith, Claim, closing and handlers coming and going, the client locks count the calls in flight, the destructive signals wait for them, and nobody is left without an answer when the CDO goes away; when every D-Bus call returns and the main loop runs, HandleWith is answered, a requested channel is dispatched or fails, and a result is followed by Finished. |
| `cdo_bypass` | MCDispatchOperation | pass | `UserApproved`, `BypassersFirst`, `ImplementsChannelDispatch` | With a handler that bypasses approval and observers, and two callers of HandleWith: the CDO implements ChannelDispatch (one owner or a closed channel, decided once, and a truthful answer to everybody who waits at that moment), only the other handlers wait for the user, and they come last. |
| `cdo_plugins` | MCDispatchOperation | pass | `RequestedNeverStalls`, `NoChannelLeftBehind`, `OutcomesAreFinal` | With a policy plugin that delays, refuses handlers and claims, or terminates channels at any moment: requested channels never stall, no channel is left without an owner, and owners and answers are final. |
| `handler_map` | MCHandlerMap | pass | `CountersExact`, `HandlersWatched`, `NoOrphan`, `ClientOfHandler`, `CrashIsNoticed` | Through any interleaving of dispatching, recovery, delegation, closing and crashes, while the names by which handlers are called are taken, released and handed over, the three tables of the map agree, every handler is watched, no open channel is left without a handler, the process recorded for a channel is the one that accepted it and still has the name recorded with it (both unless that process gave the name up and lives on), and a handler that leaves the bus, also before MC recorded it, does not keep its channels. |
| `account` | AccountConnection | pass | `StatusTruthful`, `OneAttempt`, `SeenAreDisconnected`, `PresenceTold`, `OnlyWantedConnections` | While the user changes her mind, the network comes and goes, connections drop and calls are in flight: the status is the truth, there is one attempt at a time, presence and settings are obeyed, and nothing of an old Connection survives. |
| `account_live` | AccountConnection | pass | `OnlineRequestAnswered`, `ConnectingEnds` | When calls are answered and timers run, whoever waits for the account to be online is answered and CONNECTING ends, also with crashes, storage plugins that reconnect, and a client registry that is not ready yet. |
| `registry` | ClientRegistry | pass | `LocksExact`, `HandledBeforeDispatching`, `CapsTold`, `RegistryConverges`, `RestartedObserverRecovers` | While clients start, crash, restart and are activated before, during and after the two listings of names, and an introspection fails at any of its calls: the startup lock and the ready locks count what is outstanding, so that dispatching starts, and only when everybody who was there has been heard; registry and connection agree in the end with what is on the bus, and an Observer that restarts is told of the channels it has missed. |
| `requests` | ChannelRequests | pass | `LocksExact`, `StatusMatchesOutcome`, `CancelledIsClosed`, `RequestCompletes` | Two requests (create, ensure or send a message) that can get one channel, with plugins that delay or deny, an account that connects or fails, cancellation, channels that close and a connection that is lost at any moment: the lock of the account is held by the internal requests in flight, each request comes to one outcome that fits what its channel shows, a cancelled channel is closed, and every caller is answered. |
| `requests_stuck` | ChannelRequests | violation | `LocksAreInFlight` | A SendMessage of which the request gets the channel of another request while the message is on its way loses its channel object, and with it the reply: the account stays locked although nothing is in flight. |
| `selection` | MCHandlerSelection | pass | `RedispatchToHandler`, `MostSpecificFirst`, `PredictedIsPossible` | For every assignment of five descriptions to three clients of two processes that come and go, and channels that differ in type, origin and a number at the edge of its width: the handler that is tried has no more specific one left, the handler predicted for a request can handle the channel it gets, and a channel is presented again to a client of the process recorded for it, whatever other names that process took since, when neither the name it was given to nor a preferred client is there to be told (whose those names are is the subject of handler_map). |
| `storage` | AccountManager | pass | `RestartFindsTheSame`, `DeletedStaysDeleted`, `EntryHasAccount`, `AccountIsCurrent`, `SettlesInSync` | Accounts of the keyfile and of libaccounts are loaded, created, changed and removed from both sides, while the connection manager is not ready, the disk is full, commits are deferred and the process dies: cache, files and McdAccounts agree whenever nothing is in flight, what was removed stays removed, validity and Enabled are up to date, the name of the account manager appears, and MC and libaccounts agree in the end. |
| `storage_sso` | AccountManager | violation | `RemovalLeavesNoTrace` | The removal of an account of libaccounts is never stored there, so that the account is back when MC starts again. |


Bounds.  Two handlers are enough for every way to fail over, to prefer one and to
compete; two observers, of which one delays approvers, tell the counters apart; one
approver suffices because approvers are only counted (the approver and the observers
together give the counts 0 to 3), and every caller of HandleWith and Claim makes one
call.  `MaxRequests` bounds the requests that pre-approve the same channel; a second
one is queued behind the first and is not looked at before the first is gone.  With
one plugin a delay, a handler decision and a claim decision can be outstanding at
the same time.  In `HandlerMap` two channels and two processes besides MC give each table entries that share a
process and entries that do not.  Of the two names one is taken, released and handed over between the two
processes and the other is of one of them only (`MayOwn`), so that a process can have both, and
a name can go to a process with another name or without.  `MaxGivenUp` is 1: one name is given up
by a process that lives on, besides those lost by dying, which is one exception at a time.  One call is in
flight at a time, of a CDO or a delegation; calls meet only in `SetPathHandled`, so that two would add what
`Claimed` and `ClientHandlesPath` do during one.

In `AccountConnection` one name for Connections is enough: MC uses one at a time, and an old
one of which something is left holds its name, so that an answer waits for it, while
`MaxInFlight` answers of `RequestConnection` can be outstanding, two of them in `account`
(the bound on two attempts at once).  Two online presences let the user change her mind during
every step of the set-up.  The intervals 3, 9 (`account`) have one increase, from the
initial interval to the maximum; in `account_live` the interval is constant, as time
is no concern there.  `account` lets Connections end in each of the three ways (a network error,
a crash, another error); `account_live` has crashes, a registry that starts later and storage
plugins.  Both have presences and requests.
`ProbationMaxDropped` is 0: the code's 3 is one of the numbers that are never reached,
because no drop is counted (section 8).

In `registry` there are two clients, one that the bus can start and that has a `.client` file and calls that
can fail, and one without either; each has up to two processes, three in all, so that one of
them can crash and come back while the other starts.  In `requests` two requests (each of
create, ensure or message) can get the same channel or two different ones, and
besides there is one event of the environment: another channel appears or the
connection is lost.  In `selection` three clients in two processes are enough for every comparison of
`possible_handler_cmp` (a tie needs two, its place in the list a third), and five descriptions
cover both sources, all numeric types at the edge of their width, an unknown
type and a client that is no handler.  In `storage` there are two names, one of them in the keyfile at
first, four McdAccounts per life of the process (the two of the setup, one that replaces a
removed one, one by a signal), three calls and two events outside, and one crash; three calls
make create, change and remove possible in a row, before and after a restart.

Deadlock is not checked, except in `selection`: a CDO ends, the instances of the map run out
of channels and processes, a removed account has nothing left to do, and the
other models stop at their bounds.

### Mutants

A definition `MutX` is written in front of the definition it is a bug in.  For every
property of every passing run there is one whose use makes TLC report that property:

| Run | Property | Definition replaced | by |
|---|---|---|---|
| `cdo_clients` | `LocksMatchCalls` | `RunApprovers` | `MutKeepTemporaryLock` |
| `cdo_clients` | `AssertionsHold` | `AcceptClaim` | `MutApproversStayScheduled` |
| `cdo_clients` | `QuietSignals` | `MaySignalFinished` | `MutIgnoreApproverLock` |
| `cdo_clients` | `HandleWithAnswered` | `RejectHead` | `MutRejectSilently` |
| `cdo_clients` | `DispatchEnds` | `DecObserversPending` | `MutOnlyCheckFinished` |
| `cdo_bypass` | `UserApproved` | `Candidates` | `MutNoApprovalNeeded` |
| `cdo_bypass` | `BypassersFirst` | `CanBypassApproval` | `MutNobodyBypasses` |
| `cdo_bypass` | `ImplementsChannelDispatch` | `FinalReply` | `MutAnyHandlerWillDo` |
| `cdo_plugins` | `RequestedNeverStalls` | `EndPluginDelay` | `MutEndDelaySilently` |
| `cdo_plugins` | `NoChannelLeftBehind` | `HandlerSucceeded` | `MutLeaveWithoutOwner` |
| `cdo_plugins` | `OutcomesAreFinal` | `Locked` | `MutHandlerIsNoLock` |
| `handler_map` | `CountersExact` | `SetPathHandled` | `MutKeepOldCount` |
| `handler_map` | `HandlersWatched` | `SetPathHandled` | `MutCancelOldWatch` |
| `handler_map` | `NoOrphan` | `HandlerCrashed` | `MutCloseInvoked` |
| `handler_map` | `ClientOfHandler` | `SetPathHandled` | `MutKeepClient` |
| `handler_map` | `CrashIsNoticed` | `ChannelInvalidated` | `MutCancelWatch` |
| `account` | `StatusTruthful` | `Release` | `MutReleaseQuietly` |
| `account` | `OneAttempt` | `Attempt` | `MutAttemptAgain` |
| `account` | `SeenAreDisconnected` | `CallDisconnect` | `MutOnlyConnected` |
| `account` | `PresenceTold` | `StatusesKnown` | `MutKnowOnly` |
| `account` | `OnlyWantedConnections` | `RequestPresenceInt` | `MutEvenDisabled` |
| `account_live` | `OnlineRequestAnswered` | `RequestConnectionFails` | `MutFailSilently` |
| `account_live` | `ConnectingEnds` | `GetInterfacesReturns` | `MutStopOnError` |
| `registry` | `LocksExact` | `Remove` | `MutRemove` |
| `registry` | `HandledBeforeDispatching` | `Introspect` | `MutTrustTheFile` |
| `registry` | `CapsTold` | `CapabilitiesChanged` | `MutTellNobody` |
| `registry` | `RegistryConverges` | `AfterUniqueName` | `MutIntrospectRunning` |
| `registry` | `RestartedObserverRecovers` | `AfterUniqueName` | `MutNoRecovery` |
| `requests` | `LocksExact` | `Dispose` | `MutDisposeOnly` |
| `requests` | `StatusMatchesOutcome` | `MaySetStatus` | `MutGoOn` |
| `requests` | `CancelledIsClosed` | `CommonRequestChannelCb` | `MutForgetCancelled` |
| `requests` | `RequestCompletes` | `RequestUnrequestedChannels` | `MutForgetParked` |
| `selection` | `MostSpecificFirst` | `Precedes` | `MutQualityFirst` |
| `selection` | `PredictedIsPossible` | `FilterMatched` | `MutIgnoreRequested` |
| `selection` | `RedispatchToHandler` | `LookupHandler` | `MutAnyProcess` |
| `storage` | `RestartFindsTheSame` | `AccountUpdateParameters` | `MutUpdateUnwritten` |
| `storage` | `EntryHasAccount` | `CompleteAccountCreation` | `MutKeepInvalid` |
| `storage` | `AccountIsCurrent` | `AlteredByPlugin` | `MutAlterIgnored` |
| `storage` | `SettlesInSync` | `SsoUpdated` | `MutIgnoreDeleted` |
| `storage` | `DeletedStaysDeleted` | `KeyfileDeleteAccount` | `MutDeleteUnsaved` |


## 5. Fairness

Only liveness properties use it.  In `DispatchOperation` (`FairSpec`):

* every D-Bus call that MC makes is answered: the calls use the default timeout
  (`-1`), and the bus answers for a client that disappears;
* a source that stays ready is dispatched by the main loop, the idle source of the
  approvers first (`NotPreempted`: it has `G_PRIORITY_HIGH`, and the D-Bus connection
  dispatches one message per iteration, so only a plugin with sources of its own can have
  a callback in the same iteration);
* plugins end the delays they start and complete their decisions, which the API
  demands of them.

No fairness is assumed of HandleWith, Claim, handlers that come or go, or of channels being
closed.  Fairness conditions are written out with the enabling condition of each action in
place of `ENABLED`.

In `AccountConnection` (`FairSpec`) D-Bus calls of MC are answered (those of the set-up with the
default timeout or by the invalidation of the proxy, `RequestConnection` by the connection manager
or the bus), timers and idle callbacks run, and the connection manager does what it is told: a
Connection that was told to connect becomes connected or fails, and one that was told to disconnect
ends.  Each of these actions falsifies its own enabling condition, so that weak fairness of it is
`[]<>` of the negated condition (`Underway`).  Nothing is assumed of users, the network, failures
and the registry; `ConnectingEnds` excepts behaviours in which the account is told to
reconnect again and again.

In `HandlerMap`, the bus daemon reports a lost name to those who watch it.

In `ClientRegistry`, the bus answers the two listings and delivers names, and every call
is answered (by the client, or by the bus for one that left).  Clients need not do
anything: the properties that speak of what settles do so because they start a bounded number of times.
In `ChannelRequests`, the connection manager answers, the main loop runs, plugins end
delays, an account for which somebody waits goes online or fails (which is
`OnlineRequestAnswered` of `AccountConnection`), and dispatch operations end (`DispatchEnds`).
In `AccountManager`, the process is activated again, telepathy-glib finishes introspecting
the connection manager, signals arrive and timers fire.  In these three, each
action takes its turn out of what enables it, so that fairness is `[]<>` of the negated condition.

## 6. Proofs

`HandlerMapProofs` proves for any finite set of channels, any processes, clients and calls in
flight, and any rules of who may have which name, with `MapAssumption` as the only assumption, and `ClientRegistryProofs` for any finite set of clients with any interfaces, files and
faults and any number of processes, with `ClientsAssumption` as the only assumption.
`DispatchOperationProofs` proves for any finite sets of Observers, Approvers and plugins, any handlers,
callers and handler lists, from the assumptions of the module: the sets are finite, the names are
different, and a list is sorted as `possible_handler_cmp` sorts it; its theorems about `ChannelDispatch` hold of
whatever implements it.  `HandlerSelectionProofs` proves for
any finite number of clients, any descriptions of them (each with a finite set of finite filters), channels, requests, processes and
width of `int`, from `SelectionAssumption`.  `AccountConnectionProofs` proves
for any number of Connections, presences and callers and any bounds of the counters, from
`TimesAssumption` and `NamesAssumption`.  `AccountManagerProofs` proves for any finite set of names and any number of
McdAccounts, calls, changes from outside and crashes, with a disk that may fill or not, from `BoundsAssumption`;
that there are as many McdAccounts as names at least (`MaxObjects`) is needed by the setup, which makes one for each
account that it finds, while every other action needs a free one to happen:

* `TypeCorrectness`: The tables of the handler map keep their types: no counter and no number of watches is decremented below zero, for any channels, processes, clients and calls in flight.
* `CountersAreExact`: handler_processes counts exactly the channels each process handles, through any sequence of dispatching, recovery, delegation, closing and crashes.
* `HandlersAreWatched`: Every process that handles a channel has a name-owner watch, so that its crash is noticed.
* `NoOrphans`: An open channel that was given to a process still has one, or MC is closing it, whatever becomes of the names of its handlers; the empty name is recorded only for a handler that gave its name up and lives on.
* `DecisionSettlesAll`: Whatever implements ChannelDispatch: once the operation is decided nobody waits for a reply, and the channel has an owner or is closed, for any handlers and callers.
* `RepliesAreTruthful`: Whatever implements ChannelDispatch: nobody is told ok before the decision; a Claim only if the claimer got the channel, a HandleWith only if no other handler than the one it named did.
* `ClientsOfHandlers`: While names are taken, released and handed over and calls are in flight, the process recorded for a channel is the one that accepted or claimed it, and while it lives the well-known name recorded with it is its own, unless it gave that name up and lives on: MC looks the owner up only when the answer is there, and by then it has read what became of the name.
* `LocksAreExact`: The startup lock of the registry and the ready lock of every client are exact, for any set of clients: startup never ends before every client found is known, and no lock is lost or given back twice, whichever clients come, leave, fail or are listed twice.
* `CapsAreTold`: What a connection announces of a client that MC knows is what the client said last, for any clients that come, go, answer or fail while the connection is set up.
* `HandledAreKnown`: When dispatching starts, MC has recorded the channel of every client that it found running at startup and that answered.
* `TypeCorrectness`: The fields of a dispatch operation keep their types, for any clients, plugins and callers: no counter of a lock goes below zero.
* `LocksAreCounted`: The locks of the observers count the ObserveChannels calls in flight, and that of the approvers the AddDispatchOperation calls, unless the code has reported that the latter was taken or given back when it must not be.
* `NoChannelIsLeftBehind`: Once the result is known, the channel was given to somebody, or MC closed it or lost it.
* `UserHasApproved`: A handler that does not bypass approval is tried, for a channel that needs approval, only if somebody asked for a handler or no approver was willing.
* `RequestedNeverStall`: A channel that needs no approval never waits with nothing in flight that makes it go on.
* `OutcomesStayFinal`: The first owner of the channel and the first answer to each caller are the last.
* `LocksMatch`: The locks count exactly the ObserveChannels and AddDispatchOperation calls in flight, for any clients and callers, without plugins and without handlers that bypass approval.
* `AssertionsNeverFail`: Approvers are asked only while the fate of the channel is open, and nobody waits for a reply when the operation is freed: no assertion of the code fails, under the same two conditions.
* `SignalsAreQuiet`: ChannelLost and Finished are emitted once at most, in this order, and never while a client is being called, under the same two conditions.
* `KeepsThePromise`: Without plugins, a dispatch operation implements ChannelDispatch, for any clients, handler lists and callers: every callback is one step of the promise, or none.
* `NobodyIsLeftWaiting`: Without plugins: once a dispatch operation has a result none of its callers waits for a reply, and the channel has an owner or is closed (NobodyLeftBehind of ChannelDispatch, through the refinement).
* `CallersAreToldTheTruth`: Without plugins: a caller of Claim was told ok only if the channel is its own, one of HandleWith only if no other handler than the one it named has it (TruthfulReplies of ChannelDispatch, through the refinement).
* `TypeCorrectness`: The fields of an account and its connection keep their types, for any number of Connections, presences, callers and calls in flight: tasks_before_connect is 0, 1 or 2, and the reconnection interval stays between its bounds.
* `StatusIsTruthful`: The account shows CONNECTED exactly while the Connection that MC uses is, and nothing of an old Connection is taken for the new one.
* `AttemptsAreUnique`: At most one attempt to connect at a time, whoever asks.
* `NoneStaysConnected`: A Connection that was seen connecting and is not used any more was told to disconnect or is gone.
* `PresenceIsTold`: Once a Connection is set up, the presence the server was told last is the requested one.
* `ConnectionsAreWanted`: RequestConnection is called only for an account that is to be online, or for an attempt that waited for the network or a retry, provided that no storage plugin asks for reconnections.
* `RedispatchesToHandler`: A channel that is handled is given again only to its handler, to the name it was given to or to the client that the request prefers, and always to a client that is registered, for any clients that come and go, any filters, channels and requests.
* `PredictedMayGetIt`: The client that was told of a request is among the possible handlers when its channel comes, if it is still there, whatever properties the channel has besides the requested ones.
* `MostSpecificIsFirst`: Of two clients whose filters MC can read, the one that bypasses approval, and else the one with the more specific filter, is asked first; every one that wants the channel is asked, and no other unless the request names it.
* `TypeCorrectness`: The stores, the McdAccounts, the table and the queue keep their types, for any number of accounts, calls, changes from outside and crashes: the lock of the setup stays between 0 and the number of names.
* `Restarts`: When nothing is in flight, a restart would load exactly the settings that the cache has, from the store that each account belongs to, but for the named defects.
* `Deletions`: An account that was removed, by a call or in libaccounts, is in neither store nor in the cache any more, whatever crashes, failed writes and late replies follow, but for the named defects.
* `Entries`: Every complete entry of the cache has exactly one McdAccount that is not removed, and no McdAccount is without an entry, however creations, callbacks that wait for the connection manager, signals and removals interleave.
* `AccountsAreCurrent`: The McdAccount of the table is loaded and on the bus once the connection manager is known, and what it holds of Valid and Enabled is what is stored, but for the named defects.

The argument for the map: none of `TypeOK`, `CountersExact` and `HandlersWatched` is inductive alone.
A counter is decremented because `channel_processes` names the process, so that it is at least 1 only
if the counters are exact; a watch is cancelled when a counter becomes 0, so that it exists only
if every counted process is watched; and both must be naturals for the
next step.  `IInv` is their conjunction with the types (`MapInv` for the map, `EnvInv` for its
environment).  Cardinalities of the sets of channels a process holds are handled by
`HoldingIsFinite` and `CountedIsPositive`; then there is one lemma for each operation
that changes the map (`SetPathKeepsMap`, `InvalidatedKeepsMap`, `CrashKeepsMap`), and
`NextPreserves` has one step per action.  `ClientsOfHandlers` is proved by induction on top of
`IInv`, of which it needs `CallsInOrder`: a callee that is alive and did not give the name up has it, whatever
happened since the call.  That makes the name that is looked up after the answer
(`RecordedIsHolder`) the right one.  `NoOrphans` follows from it and `LeftAreClosing`, an induction of its own: where no
handler is recorded the channel is being closed, and where the empty name is, it is not the holder, so
that the holder gave its name up.

The argument for a dispatch: that replies are truthful when they are given says
nothing of later if the owner could still change, and a Claim could be accepted of a channel that has an
owner.  `PromiseInv` adds that before the decision only MC itself owns the channel
(`UndecidedIsFree`), and that nobody was told ok before it, which is part of
`TruthfulReplies`.  By the refinement both hold of `DispatchOperation`, with `handled_by`, `result` and
`reply` in place of the variables (`NobodyIsLeftWaiting`, `CallersAreToldTheTruth`).

The argument for the selection of a handler is mostly about data that has no bound.  The list of possible handlers is said to
be *the* sorted one, so that there must be one: `SortedIs` puts every handler at the place that counts those
that do not come after it, which is a bijection because `Precedes` is strict and linear (`PrecedesIsLinear`).  The
quality of a client is the maximum over its filters, which exists because they are finite (`GreatestIs`, `MatchIs`), and
the filter that the code has read matches a channel exactly if the one that the client wrote does,
provided MC can read it (`ReadsAsWritten`, `QualityIsSize`); `MostSpecificFirst` follows, for two clients at any two
places of the list.  The other two properties are not inductive.  `PredictedSuits` remembers of the client that was told
of a request that it is registered and suits the request; whatever suits a request
suits every channel that satisfies it (`StillSuits`, in which the condition on Requested, which is judged differently before there is
a channel, is the case that matters).  `HandledByProcess` says that a handled channel has a process: a lookup without
one would ask any client (`LookupIs`).

The argument for the registry: the startup lock is released when a client becomes ready,
which its `ready_lock` decides, which in turn counts its calls in flight; an error in any of the three
shows in the others only later.  `RegistryInv` therefore has, besides the types, the startup lock as the
number of clients that are known and not ready plus one for the enumeration (`StartupInv`), and for each proxy
(`ProxyLocksInv`) its ready lock as the number of its calls plus one for the introspection that is
still to start; that a name without a proxy has no calls, that there are none before the
introspection, and that the call for the interfaces is alone.  The last ones are needed because
a second call of the same kind would take a lock for a reply that comes once.  The invariant does not hold inside a
callback: the reply has arrived, so that its call is no longer in flight, while its lock is
held until the callback ends.  `InCallback` is the invariant with that lock counted.  Each C function
has a lemma that it preserves one or the other (`CallClientInv`, `IntrospectInv`, `RemoveInv`,
`FoundNamesInv`); `DecReadyInv` leads from `InCallback` back to `RegistryInv`; there is one lemma per
action, and `InvImpliesLocks` adds up the calls to the cardinality in the property.  The number of new names in
a list is any number, so that `FoundNamesInv` reasons with the cardinality of a union.

What connections are told (`CapsTold`) and which channels are known when dispatching starts
(`HandledBeforeDispatching`) follow from a second invariant, `Settled`, which speaks of one client at a
time and rests on the exact locks of the first.  Neither property is inductive: an answer that is
still to come would break it.  `Announced` says that what is told of a client is what MC has recorded, unless
its introspection has not started or has failed, or it is still to be asked for its interfaces or its capabilities; that a client that is not a
Handler never has any; and that a client stays known only while it is activatable or not gone.
`Remembered` follows the first process of a client that the list of names has, or will have (`IsFirst`):
its owner, every announcement still on its way and every call for it name that same process, MC knows the client once the list
has come, and once introspection has begun either the channel is recorded or the question for it is
in flight or has failed.  `Finished` says that startup completes only when such a client is ready; since a ready
proxy has no calls in flight (`ReadyIsAsked`, from the exact ready lock), the
channel is recorded by then.  A C function may change the locks of the registry and what is told of
clients other than its own: `Tells` is all that it may do to those, `TellsKeeps` shows that this keeps
`Settled`, and `DecBeside` that the last startup lock goes only when nobody is waited for.  What remains is
one lemma per function for the client that it is about, and one per action.

The argument for the dispatch operation: a callback runs up to a dozen functions that write the
same record, and nearly every property relates fields that different functions write.  The proof
therefore has three layers.  The first part of `DispatchOperationLemmas` says of each function which fields it never writes
(`Fixed`; `Wound` for those that only wind up an operation that has a result) and that it keeps the types;
the counters stay naturals because they count the calls (`ObserverLocks`, `Always`), and that is
`LocksCounted`, and that a caller waits exactly if its call is in the queue or
looked at by plugins, in one place and once (`QueueInv`), so that whoever takes a call out of the queue
answers it, and nobody answers it again (`Answered`).  The second part has what holds at every call
(`Always`), until there is a result (`Open`) and afterwards (`Settled`, `Dropped`): with an open result
the channel is there and nobody but MC has it; a handler that is tried is called or
decided upon; a handler that must not bypass approval is tried only with the user's word in
the queue (`PresentedToUser`); the queue of a requested channel has requests only (`Requested`).  The last
event of nearly every callback is the check of the client locks, after which an operation that could go on
does (`Awake`, proved by `CheckClientLocksFate`); `Awake` holds only there, so that
most actions are a step that keeps the rest (`Ready`), and that check.  The approvers' lock is
exact unless the code itself has reported its misuse, which happens (section 8).

The argument for the account: `Core` holds between any two calls within a callback.
It says what an attempt to connect excludes (`Attempts`), that the connection status is that of the
TpConnection in use and `tasks_before_connect` the number of the two calls that are in flight (`InUse`),
that a TpConnection that was let go answers no call (`Replies`) and was told to disconnect if it
was seen connecting (`Histories`), and that presences are recognized only where there are any
(`Presences`).  `tasks_before_connect` is exact only because the two calls are never in flight
together, which is therefore part of `InUse`.  `Told` (the server knows the requested presence) and `Waits`
(the attempt that waits and the entry in the monitor's queue are the same) are broken inside a callback and
restored by a later function of the same one: `mcd_account_request_presence_int` assigns the presence before
it tells the connection.  Each function has a lemma that it keeps `Core`, each action one that it restores
the rest.  `Asks`, proved with them, is what an action may do to the number of RequestConnection
calls, for `ConnectionsAreWanted`.  The theorem excludes reconnections that a storage plugin asks
for, because `_mcd_account_reconnect`
checks nothing; all others hold with them.

Three properties of a dispatch operation need more than `IInv`, and two conditions: no plugin (`Plugin = {}`)
and no handler that bypasses approval (`BypassApproval = {}`), as in the run `cdo_clients`.  Without them they
are false: section 8 has the two ways in which plugins and bypassing handlers make the code misuse the approvers'
lock.  `Orderly` is the strengthening.  `Scheduled`: the approvers' idle source is attached only while the operation is
open, once, after the observers; `Silent`: once there is a result nobody waits in the queue; `Signalled`: Finished was
emitted exactly if there is a result and no lock holds it back, ChannelLost before it, and a loss that is still to be told
(`lost_channel`) belongs to an operation that has told nothing.  They need each other: Finished is due once because the
last lock is given back once, which is so because no approver is asked any more once there is a result, which is
so because `tried_handlers_before_approval` is set together with the idle source.  Inside a callback `Signalled` does not
hold, as the lock is given back before `check_finished` emits; `Unannounced` is what holds then.  Each function has a
lemma that it keeps `Orderly` (`...Orderly`, `...Kept`), each action one that the next state `Follows`; `StepFollows` and
`OrderInvariant` put them together, and `LocksMatch`, `AssertionsNeverFail` and `SignalsAreQuiet` follow.

The argument for the refinement (`KeepsThePromise`), which needs no plugin but allows handlers that bypass approval.
`Serves` says of two records, in seven cases named for what happens, that the step between them is one of
`ChannelDispatch` or is not seen there; `ServesPromised` shows that those are the actions of `ChannelDispatch`.
A callback runs several functions that the promise sees (a handler fails, which refuses a HandleWith; then the check of
the client locks finds no handler left and decides), and has to be one step of it.  So each function gets a lemma
about what is seen of it, and there are lemmas about the composition: a refusal followed by a decision is the decision,
when no handler takes the channel (`DeniesSettles`); a call followed by what the check makes of it is a
decision with the call in it (`CallGoes`).  Some compositions would be two steps of the promise, and what
excludes them is the strengthening of `IInv`.  `Faithful`: MC's own channels need no approval, so that
nothing is refused in the callback in which MC keeps a channel; a HandleWith in the queue is for the
handler that its caller named, and there is one at most.  `Patient`: between callbacks a HandleWith at the head of the
queue is locked out, so that a Claim that arrives behind it cannot cause its refusal, which would be a call and a
refusal of another one in one callback.  `StepHonours` puts the actions together.

The argument for the accounts.  What `RestartFindsTheSame`, `DeletedStaysDeleted`, `EntryHasAccount` and `AccountIsCurrent`
say holds when nothing is in flight; `Inv` of `AccountManagerLemmas` says what is true at any moment of any life of the
process, and of the time between two of them.  It has three parts, of which the first two meet only in the manager
attribute of an entry of the cache (`Managed`).

* `Sound` is about the stores; an account is a name there.  An entry is in libaccounts (`InLibaccounts`: it shadows nothing in the
  keyfile, the AgAccount shows what is stored except for its own changes, and the cache shows what the
  AgAccount does, `Mirrors`) or in the keyfile (`InKeyfile`), and one that was removed is in neither, or has one of the named
  excuses (`Forgotten`, `Excused`).  `Mirrors` fails while a signal is on its way, so that it is promised only when no
  "updated" is; `Link` has what MC and libaccounts agree on about the account itself, with "created" and "deleted" in
  place of the missing half.  That "Enabled" always has a value in libaccounts is part of it, since an object is not told of one
  that is missing.
* `Objects` is about the McdAccounts.  A managed entry has exactly one that is not removed, `Apiece` that it has no second
  one, which also excludes that one that was removed while it waited for the connection manager comes to life again beside its
  successor (`Lingers`).  `Queue` and `Object` say who waits in the queue and in which order,
  since `mcd_account_loaded` must find the object that `async_created_manager_cb` has put into the table.  `Lock`
  counts the accounts of the setup that are not loaded; an object that is freed before it was loaded gives its lock back
  in `Collect`, so that the count is of objects that live.
* `Current` says what an object knows of its entry.  A change by another process is in the cache at once, while the
  object is told when the connection manager is ready; until then the callback is in the queue.

`Synced` (whatever is unwritten is the fault of the disk, or the timer runs) holds when a handler returns and not within,
and `Asleep` is what a dead process leaves: `LoadSound` leads from there to `Sound`, whatever was not written.  A handler is an
operator from record to record here too.  The lemmas say of those of `AccountStorage` which fields they write (`Sets`, `Apart`)
and that they keep `Sound`; of those of `AccountManager` that they touch one name and one object only (`Frame`, `Alone`), that an
object that is made, loaded or removed takes its place (`Comes`, `Made`, `Arrives`), and that freeing what nobody
holds keeps all (`CollectKeeps`).  There is one lemma per action, put together in `NextKeeps`; the setup is a lemma of its own
(`SetUpIs`), since it makes an object for each of any number of accounts at once.

One exception had to be added to `RestartFindsTheSame` for the proof (section 8, *unwritten*; the bounds of the run are
too small to need it), and some that looked necessary are not: a removed account that is written to again (*zombie*)
never shadows one of libaccounts, and `EntryHasAccount` needs no exception at all.

Only model-checked: of `DispatchOperation`, `BypassersFirst`, and the three properties
that follow from `Orderly` with plugins or bypassing handlers as far as they hold; all of `ChannelRequests`
(`LocksExact`, `StatusMatchesOutcome`, `CancelledIsClosed`), where a callback loops over lists of requests and of channels
while it changes them, so that what it does is an induction over data; and the liveness properties, since `ENABLED` and
fairness are outside what the prover handles.

## 7. Findings

* **RemovalLeavesNoTrace** (run `storage_sso`, `code_bug`, src/src/mcd-account-manager-sso.c:1379). mcd_storage_delete_account "merely ensures that no trace of the account remains in long term storage once mcd_storage_commit() has been called." (src/src/mcd-storage.c:1955).  _delete calls ag_account_delete, which takes effect with the next ag_account_store, and removes the account from the table of the plugin (mcd-account-manager-sso.c:1341-1349); _commit_real stores only the accounts that are still in that table.  The deletion is never stored, and a restart loads the account again.

* **LocksAreInFlight** (run `requests_stuck`, `code_bug`, src/src/mcd-dispatcher.c:1692). The comment on the lock says "account_locks tracks the # of in-flight internal requests per account" (src/src/request.c:660).  When the channel that EnsureChannel returns for a SendMessage is the channel of another request, the McdChannel of the SendMessage becomes a proxy and is aborted when the other one has been dispatched; if that happens while the message is on its way, the reply finds its weak pointer gone and returns without completing the request.  The other channel keeps the McdRequest in satisfied_requests: the lock is held, ordinary requests of the account wait and the caller is not answered until that channel closes, although no internal request is in flight.


## 8. Deviations without a run

What the models show the code to do against its own comments, assertions or evident intent, and that has no
run of its own.  Where a property would meet one of these it names the exception, or is
checked in a configuration without it, as said here.

Dispatch operations:

* A plugin may decide about a Claim after the CDO has a result; `claim_attempt_resolve`
  (`mcd-dispatch-operation.c:961`) then puts the call into a queue that nobody looks at any more, and
  `approval_free` asserts that it was answered (line 148).  `AssertionsHold`
  and the refinement are therefore checked without plugins.
* A HandleWith for a handler that is not there is rejected in `check_client_locks` or in
  `try_next_handler` (521, 2446) without looking at what is behind it in the queue: a Claim there waits until
  something else calls `check_client_locks`.
* When a handler that bypasses approval leaves the bus while it handles the channel, approvers may be asked after
  the CDO has finished: `inc_ado_pending` returns early with a critical (325), and its counterpart
  emits ChannelLost or Finished again.  `AssertionsHold` is checked without such handlers.
* A HandleWith before the approvers are asked skips them for good, also when its handler fails (558).
* The channel can be lost between `try_handler` and the last plugin's decision, and
  HandleChannels is then called without a channel (2309).
* A channel that is aborted before or after its request has no error (`mcd-channel.c:402`), which code
  that is told of the abort needs.
* A plugin that asks for termination after the observers, when the post-observer actions have been taken, is
  ignored (`plugin-dispatch-operation.c:326`).

Handler map and delegation:

* DelegateChannels records a channel again that was closed while the call was on its way
  (`mcd-dispatcher.c:2007`); `try_delegating` can free the list node its caller iterates on (2195).
* A handler that gives up the name it was called by, and lives on, is not the one MC records:
  the owner is looked up when the reply has come.  If the name has no owner, the empty name is recorded
  for a delegate (`mcd-dispatcher.c:2008-2011`), on which there can be no watch, and a CDO closes the channel
  (`mcd-dispatch-operation.c:1929`); if another process has it, that one is recorded, is allowed to delegate and
  is watched, and a crash of the process that has the channel is not noticed.
* A name that is given up after the channel was recorded is still the one that PresentChannel and
  repeated requests use (`mcd-dispatcher.c:532-539`), whoever has it then, without comparing its owner with
  the process that is recorded.  `ClientOfHandler` excepts both.
* The invalidation of a channel leaves its entry of `channel_clients`, and a watch
  (`mcd-handler-map.c:299`).
* A request for a handled channel that prefers another client can have it told by that one,
  although it is in another process: `_mcd_client_registry_list_possible_handlers`
  falls back to the preferred handler (`client-registry.c:671-691`) when no client of the process can be
  found (`mcd-dispatcher.c:497-508`).  `RedispatchToHandler` excepts it.

Connections and accounts:

* A Connection is not disconnected when MC lets go of it between the call to Connect and its first
  StatusChanged (`mcd-connection.c:442`); offline does not reach one that is still being requested
  (466): it is connected first.
* Drops during probation are never counted, since the timer is removed first (743): MC never gives
  up.  `on_connection_ready` does not check that its Connection is still the one in use (1144).
* An account that waits for the network connects although it was set offline, disabled or
  removed meanwhile (`mcd-account.c:3693`; the test `connectivity.py:147` checks the case without waiting).
  `OnlyWantedConnections` excepts it.
* A storage plugin's `reconnect` makes none of the checks of Reconnect (3007); removal
  leaves requests to be online unanswered (706); a connection manager that cannot be loaded leaves the
  account CONNECTING (945).

Clients:

* The capabilities of a client that vanishes are not withdrawn from connections that exist.
* The filters of the `.client` file of a running Handler are not told to connections when the call
  for its handled channels fails (`mcd-client.c:632`), which `CapsTold` excepts.
* An activatable Observer that crashes before MC knows that it wants recovery is not recovered: its
  next process is not introspected again (900), and the code takes it that it has been called already
  (139).  `RestartedObserverRecovers` speaks of those that MC knew (`left`).
* After a ListNames that fails, running clients are unknown until their names change hands
  (`client-registry.c:280`, `missed`).
* `parse_client_filter` keeps 64-bit numbers of a file in 32 bits (`mcd-client.c:243`):
  `MostSpecificFirst` speaks of clients whose filters can be read.

Requests:

* A message stranded behind another channel (section 7) is excepted in `RequestCompletes`.
* An urgent request releases a lock of the account that it never took (`request.c:691`); `requests`
  has none.
* A request whose channel turns out to be one that MC only observes is neither failed nor succeeded.

Storage (the names are those in `known`):

* *kept*: a removal is not stored in libaccounts (section 7), so that the account is back at the
  next start, and its name cannot be used by a new one of libaccounts.
* *zombie*: a late reply, or a call to an account that was removed before it was loaded (and put on
  the bus thereby), writes settings of an account that is gone.
* *ghost*, *missed*: an account that waits for its connection manager is in no table; the deletion, or
  changes, that libaccounts tells meanwhile are not applied to it (`mcd-account-manager.c:446`).
* *unset*: `_sso_updated` finds what was unset by the keys of the cache, which does not list
  parameters that were loaded and are still escaped (`mcd-storage.c:533`).
* *unwritten*: an account whose removal was not written, because the disk was full, is in the keyfile again when MC
  starts after a crash.  If libaccounts got an account meanwhile that was given the same name, `mcd_storage_load`
  merges the two; when `_sso_updated` finds later that libaccounts does not have a setting it is unset in the cache only,
  and is back from the keyfile at the next start.  It takes three changes from outside, one more than the run `storage` has.
* *altered*: `mcd_account_altered_by_plugin` does not check parameters again
  (`mcd-account.c:2531`).
* `load_manager`'s callback uses an account that was freed (`mcd-account.c:945`), and
  a half-created account is loaded after a crash like any other (3432).

## 9. Not modelled

* McdChannel: status and error of a channel — Status, error, abort, cancel and close as a CDO meets them, and the states of a requested channel with its proxies. depart and the text of errors are left out.
* McdDispatcher: operations, delegation, recovery, requests — enter_state_machine (as the initial states of a CDO), recover_channel, DelegateChannels, client_handling_channel_cb, CreateChannel, EnsureChannel, SendMessage, PresentChannel, reinvocation and the recovery of Observers, each in the module of what it works on. The list of operations and its D-Bus property, DelegateChannels for several channels, and the operations of several channels are left out.
* McdConnection: a connection of an account — RequestConnection, set-up, presence, probation, reconnection, release, abort and the start of dispatching; requesting channels and NewChannels in ChannelRequests; the capabilities of clients in ClientRegistry. Service points, power saving and the channels that a new Connection has already are left out.
* McdAccount: state and presence of an account — Loading, enabling, validity, requested presence, automatic connection, online requests, reconnection, connectivity, removal and the writing of settings. Aliases, the self contact, avatars but for their token, Supersedes, Service and the conditions are left out.
* McdAccountManager: the accounts — Set-up, creation by a call and by a plugin, the signals of plugins, removal, validity and writing. The migration of accounts, the properties of CreateAccount, hidden accounts and the recovery of Connections from .mc_connections are left out.
* McdStorage and storage plugins — The cache and both stores: loading, get, set, delete, commit, creation and every signal of libaccounts. The conversion of values, secrets, hidden libaccounts accounts, restrictions and storage plugins that are not compiled in are left out.
* McdConnectivityMonitor: network state — Its signal state-change as MonitorConnected and MonitorDisconnected; how it is computed from its sources, and the inhibition of suspend, are left out.
* McdMaster, McdManager, McdService — The readiness of a connection manager and the start of the account manager. The rest is process set-up, loading of .manager files by telepathy-glib, and the main loop.
* Missions and operations — Ownership tree of connections and channels without decisions of its own; its abort signals are the abort operators of the models.
* Account addressing and conditions — D-Bus accessors of stored values.
* Properties, debugging and utilities — Only the ready callbacks of mcd-misc.c (RunCallback). The rest is property dispatch, logging and conversions with no protocol of their own.
* Plugin loader and plugin library — Discovery of shared objects and the interfaces the plugins implement; plugins are the environment of the models.
* Command-line tools — Clients of the D-Bus API.
* Tests — Used as documentation of intended behaviour.
