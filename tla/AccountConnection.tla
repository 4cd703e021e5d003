-------------------------- MODULE AccountConnection --------------------------
(* One McdAccount (mcd-account.c, mcd-account-connection.c), its            *)
(* McdConnection (mcd-connection.c) and the Connections that the connection *)
(* manager makes for it: how an account goes online, stays online and is    *)
(* taken offline, while calls are in flight, the network comes and goes,    *)
(* connections drop and the user changes her mind.                          *)
(*                                                                          *)
(* The two objects call each other synchronously, so that one record is the *)
(* state: the fields of the McdAccount, those of its McdConnection, and     *)
(* what they see of the bus.  A C function is an operator from records to   *)
(* records; an action is a callback of the main loop with all it calls.     *)
EXTENDS Naturals

CONSTANTS
  OnlinePresence,      \* presences a user can ask for, other than offline
  Request,             \* callers of _mcd_account_online_request
  Tp,                  \* names for Connections of the connection manager
  None,                \* no Connection, no presence
  AutomaticPresence,   \* the account's auto_presence
  AlwaysDispatch,      \* _mcd_account_needs_dispatch: needs no connectivity
  StorageReconnects,   \* storage plugins may ask for a reconnection
  RegistryIsReady,     \* the client registry is ready from the start
  HasPresence,         \* Connections have the SimplePresence interface
  HasRequests,         \* Connections have the Requests interface
  Failures,            \* ways in which Connections end by themselves
  InitialReconnectionTime, ReconnectionMultiplier, MaximumReconnectionTime,
  ProbationMaxDropped,
  MaxInFlight          \* bound on RequestConnection calls in flight

ASSUME TimesAssumption ==
  /\ InitialReconnectionTime \in Nat \ {0} /\ ReconnectionMultiplier \in Nat \ {0}
  /\ MaximumReconnectionTime \in Nat
  /\ InitialReconnectionTime <= MaximumReconnectionTime
  /\ ProbationMaxDropped \in Nat
ASSUME NamesAssumption ==
  /\ "offline" \notin OnlinePresence /\ None \notin Tp
  /\ AutomaticPresence \in OnlinePresence
  /\ {AlwaysDispatch, StorageReconnects, RegistryIsReady, HasPresence, HasRequests}
       \subseteq BOOLEAN
  /\ Failures \subseteq {"network", "crash", "other"}

VARIABLE account
vars == <<account>>

Presence == OnlinePresence \cup {"offline"}

-----------------------------------------------------------------------------
(* The state                                                                *)

(* A Connection as its TpConnection shows it.  status: "unused" if there is *)
(* none, "unknown" until GetStatus returned, "new" if it has not begun to   *)
(* connect, "gone" if the proxy is invalidated.  pending: the calls that    *)
(* have not returned; "Prepared" is prepare_async about to call back with   *)
(* success.  interfaces: MC knows them.  told: the argument of the last     *)
(* SetPresence.  watched: MC listens to NewChannels.  seen: MC was notified *)
(* that it connects.                                                        *)
Call == {"GetInterfaces", "EarlyStatuses", "Prepare", "Prepared", "Statuses"}

TpType ==
  [status : {"unused", "unknown", "new", "connecting", "connected", "gone"},
   pending : SUBSET Call, interfaces : BOOLEAN, told : Presence \cup {None},
   watched : BOOLEAN, connect_called : BOOLEAN, disconnect_called : BOOLEAN,
   seen : BOOLEAN]

UnusedTp ==
  [status |-> "unused", pending |-> {}, interfaces |-> FALSE, told |-> None,
   watched |-> FALSE, connect_called |-> FALSE, disconnect_called |-> FALSE,
   seen |-> FALSE]

(* The fields of a newly constructed McdConnection.  requested counts its   *)
(* RequestConnection calls in flight.                                       *)
NewConnection ==
  [tp_conn |-> None, tasks_before_connect |-> 0,
   reconnect_timer |-> FALSE, reconnect_interval |-> InitialReconnectionTime,
   probation_timer |-> FALSE, probation_drop_count |-> 0,
   abort_requested |-> FALSE, connected |-> FALSE, has_presence_if |-> FALSE,
   recognized_presences |-> FALSE, dispatching_started |-> FALSE,
   dispatcher_knows |-> FALSE, requested |-> 0]

AccountType ==
  [loaded : BOOLEAN, enabled : BOOLEAN, valid : BOOLEAN,
   connect_automatically : BOOLEAN, removed : BOOLEAN, req_presence : Presence,
   conn_status : {"DISCONNECTED", "CONNECTING", "CONNECTED"},
   connection_context : BOOLEAN, waiting_for_connectivity : BOOLEAN,
   reply : [Request -> {"uncalled", "waiting", "ok", "error"}],
   connection : BOOLEAN,
   tp_conn : Tp \cup {None}, tasks_before_connect : 0..2,
   reconnect_timer : BOOLEAN, reconnect_interval : InitialReconnectionTime..MaximumReconnectionTime,
   probation_timer : BOOLEAN, probation_drop_count : Nat,
   abort_requested : BOOLEAN, connected : BOOLEAN,
   has_presence_if : BOOLEAN, recognized_presences : BOOLEAN,
   dispatching_started : BOOLEAN, dispatcher_knows : BOOLEAN,
   requested : Nat,
   tp : [Tp -> TpType], orphaned : Nat,
   online : BOOLEAN, registry_ready : BOOLEAN]

-----------------------------------------------------------------------------
(* The account: status and requests to be online                            *)

(* process_online_requests, _mcd_account_online_request_completed.          *)
ProcessOnlineRequests(s, answer) ==
  [s EXCEPT !.reply =
     [r \in Request |-> IF s.reply[r] = "waiting" THEN answer ELSE s.reply[r]]]

(* _mcd_account_set_connection_status, on_conn_status_changed.              *)
SetConnectionStatus(s, status) ==
  LET t == [s EXCEPT !.conn_status = status] IN
  CASE status = "CONNECTED"    -> ProcessOnlineRequests(t, "ok")
    [] status = "DISCONNECTED" -> ProcessOnlineRequests(t, "error")
    [] OTHER -> t

-----------------------------------------------------------------------------
(* The McdConnection: letting go of its TpConnection                        *)

(* A TpConnection that MC no longer refers to: the calls that had the       *)
(* McdConnection as weak_object never return to it.                         *)
Current(s) == s.tp[s.tp_conn]

(* A mutant: a Connection that is still connecting is not told.             *)
MutOnlyConnected(s) ==
  IF s.tp_conn = None \/ Current(s).status # "connected" THEN s
  ELSE [s EXCEPT !.tp[s.tp_conn].disconnect_called = TRUE]

(* _mcd_connection_call_disconnect *)
CallDisconnect(s) ==
  IF s.tp_conn = None \/ Current(s).status \in {"gone", "new"} THEN s
  ELSE [s EXCEPT !.tp[s.tp_conn].disconnect_called = TRUE]

(* _mcd_connection_release_tp_connection, after its signal.                 *)
DropTpConnection(s) ==
  LET released ==
        [CallDisconnect(s) EXCEPT !.probation_timer = FALSE, !.tp_conn = None]
      t == IF s.tp_conn = None THEN s ELSE released
  IN [t EXCEPT !.recognized_presences = FALSE, !.dispatching_started = FALSE]

(* A mutant: the change of status is not signalled.                         *)
MutReleaseQuietly(s) == DropTpConnection(s)

(* _mcd_connection_release_tp_connection *)
Release(s) == DropTpConnection(SetConnectionStatus(s, "DISCONNECTED"))

(* mcd_mission_abort: the account forgets the McdConnection                 *)
(* (on_connection_abort, _mcd_account_set_connection (NULL)), then the      *)
(* manager drops the last reference and it is disposed of.  Its             *)
(* RequestConnection calls go on without it.                                *)
Abort(s) ==
  LET dropped  == DropTpConnection(s)
      disposed == [f \in DOMAIN s |->
                     IF f \in DOMAIN NewConnection THEN NewConnection[f] ELSE dropped[f]]
  IN [disposed EXCEPT
        !.connection = FALSE, !.conn_status = "DISCONNECTED",
        !.orphaned = @ + s.requested,
        !.tp = [t \in Tp |-> [dropped.tp[t] EXCEPT !.pending = {}]]]

(* mcd_connection_close *)
Close(s) == Abort(Release([s EXCEPT !.abort_requested = TRUE]))

-----------------------------------------------------------------------------
(* Starting to connect                                                      *)

(* _mcd_connection_connect, _mcd_connection_connect_with_params             *)
Connect(s) ==
  LET t == [s EXCEPT !.reconnect_timer = FALSE] IN
  IF s.tp_conn # None /\ Current(s).status \in {"connecting", "connected"} THEN t
  ELSE [SetConnectionStatus(t, "CONNECTING") EXCEPT !.requested = @ + 1]

(* _mcd_account_connect, whose mcd_manager_create_connection makes the      *)
(* McdConnection.                                                           *)
AccountConnect(s) == Connect([s EXCEPT !.connection = TRUE])

(* mcd_account_connection_proceed_with_reason *)
Proceed(s, success) ==
  IF ~s.connection_context THEN s
  ELSE IF ~success
       THEN [SetConnectionStatus(s, "DISCONNECTED") EXCEPT !.connection_context = FALSE]
  ELSE IF s.online \/ AlwaysDispatch
       THEN [AccountConnect(s) EXCEPT !.connection_context = FALSE]
  ELSE [s EXCEPT !.waiting_for_connectivity = TRUE]

(* _mcd_account_connection_begin *)
ConnectionBegin(s) ==
  IF s.connection_context THEN s
  ELSE Proceed([SetConnectionStatus(s, "CONNECTING") EXCEPT !.connection_context = TRUE], TRUE)

(* A mutant: does not look whether an attempt is under way.                 *)
MutAttemptAgain(s) == ConnectionBegin([s EXCEPT !.reconnect_timer = FALSE])

(* _mcd_connection_attempt *)
Attempt(s) ==
  LET t == [s EXCEPT !.reconnect_timer = FALSE] IN
  IF s.conn_status = "DISCONNECTED" THEN ConnectionBegin(t) ELSE t

(* _mcd_connection_set_presence, and _check_presence, which waits until the *)
(* statuses are known.                                                      *)
SetPresence(s, presence) ==
  IF s.tp_conn = None THEN Attempt(s)
  ELSE IF s.has_presence_if /\ s.recognized_presences
       THEN [s EXCEPT !.tp[s.tp_conn].told = presence]
  ELSE s

(* _mcd_connection_request_presence *)
RequestPresence(s, presence) ==
  IF presence = "offline"
  THEN [CallDisconnect(s) EXCEPT !.abort_requested = TRUE, !.reconnect_timer = FALSE]
  ELSE SetPresence(s, presence)

(* A mutant: does not look whether the account is enabled and valid.        *)
MutEvenDisabled(s, presence) ==
  LET t == [s EXCEPT !.req_presence = presence] IN
  IF s.connection THEN RequestPresence(t, presence)
  ELSE IF presence # "offline" THEN ConnectionBegin(t)
  ELSE t

(* mcd_account_request_presence_int *)
RequestPresenceInt(s, presence) ==
  LET t == [s EXCEPT !.req_presence = presence]
      online == presence # "offline" IN
  IF online /\ ~(s.enabled /\ s.valid) THEN t
  ELSE IF s.connection THEN RequestPresence(t, presence)
  ELSE IF online THEN ConnectionBegin(t)
  ELSE t

(* _mcd_account_connect_with_auto_presence *)
ConnectWithAutoPresence(s) ==
  RequestPresenceInt(s,
    IF s.req_presence # "offline" THEN s.req_presence ELSE AutomaticPresence)

(* mcd_account_would_like_to_connect *)
WouldLikeToConnect(s) ==
  /\ s.enabled /\ s.valid
  /\ s.conn_status = "DISCONNECTED"
  /\ s.connect_automatically \/ s.req_presence # "offline"

(* _mcd_account_maybe_autoconnect *)
MaybeAutoconnect(s) == IF WouldLikeToConnect(s) THEN ConnectWithAutoPresence(s) ELSE s

-----------------------------------------------------------------------------
(* Preparing a connection                                                   *)

(* _mcd_connection_start_dispatching, mcd_connection_setup_requests and     *)
(* mcd_connection_setup_pre_requests.  Without a TpConnection the calls     *)
(* fail with a critical warning, but dispatching counts as started.         *)
StartDispatching(s) ==
  LET t == [s EXCEPT !.dispatching_started = TRUE] IN
  IF s.dispatching_started THEN s
  ELSE IF s.tp_conn = None THEN t
  ELSE [t EXCEPT !.tp[s.tp_conn].watched = TRUE]

(* _mcd_dispatcher_add_connection *)
AddConnection(s) ==
  LET t == [s EXCEPT !.dispatcher_knows = TRUE] IN
  IF s.registry_ready THEN StartDispatching(t) ELSE t

(* mcd_connection_done_task_before_connect.  It is called for the current   *)
(* TpConnection only: Current is undefined without one.                     *)
DoneTaskBeforeConnect(s) ==
  LET t == [s EXCEPT !.tasks_before_connect = @ - 1]
      u == IF HasRequests /\ Current(t).interfaces THEN AddConnection(t) ELSE t IN
  IF t.tasks_before_connect # 0 THEN t
  ELSE [u EXCEPT !.tp[s.tp_conn].connect_called = TRUE]

(* A mutant: the presence requested in the meantime is not set.             *)
MutKnowOnly(s) == [s EXCEPT !.recognized_presences = TRUE]

(* presence_get_statuses_cb, if the call succeeded.                         *)
StatusesKnown(s) ==
  SetPresence([s EXCEPT !.recognized_presences = TRUE], s.req_presence)

(* mcd_account_connection_ready_cb *)
AccountConnectionReady(s) ==
  IF s.tp_conn = None THEN s
  ELSE SetConnectionStatus(s,
         CASE Current(s).status = "connected" -> "CONNECTED"
           [] Current(s).status = "connecting" -> "CONNECTING"
           [] OTHER -> "DISCONNECTED")

(* connection_should_reconnect: the errors that MC does not give up at.     *)
ShouldReconnect(kind) == kind \in {"network", "crash"}

(* The part of mcd_connection_invalidated_cb that chooses between waiting   *)
(* for another attempt and aborting.                                        *)
RetryOrAbort(s, kind) ==
  LET next == s.reconnect_interval * ReconnectionMultiplier IN
  IF ~(ShouldReconnect(kind) /\ s.probation_drop_count <= ProbationMaxDropped) THEN Abort(s)
  ELSE IF s.reconnect_timer THEN s
  ELSE [s EXCEPT
          !.reconnect_timer = TRUE,
          !.reconnect_interval =
            IF next >= MaximumReconnectionTime THEN MaximumReconnectionTime ELSE next]

(* mcd_connection_invalidated_cb.  The first step releases the Connection   *)
(* and with it the probation timer, so that no drop is ever counted.        *)
InvalidatedCb(s, kind) ==
  LET released == Release(s)
      dropped  == /\ released.connected /\ ~released.abort_requested
                  /\ released.probation_timer
      counted  == IF dropped THEN [released EXCEPT !.probation_drop_count = @ + 1]
                  ELSE released
  IN RetryOrAbort([counted EXCEPT !.connected = FALSE], kind)

-----------------------------------------------------------------------------
(* Behaviour                                                                *)

(* A Connection that MC has let go of is out of the picture when it is      *)
(* gone, or was told to disconnect, or never told to connect, and no reply  *)
(* of it is on its way.  Its name is used again.                            *)
Forgotten(s, t) ==
  /\ s.tp_conn # t /\ s.tp[t].pending = {}
  /\ \/ s.tp[t].status = "gone" \/ s.tp[t].disconnect_called
     \/ ~s.tp[t].connect_called

Recycle(s) ==
  [s EXCEPT !.tp = [t \in Tp |-> IF Forgotten(s, t) THEN UnusedTp ELSE s.tp[t]]]

(* MaxInFlight bounds the calls to RequestConnection: those of the          *)
(* McdConnection and those that outlived theirs.                            *)
Becomes(s) ==
  /\ s.orphaned + s.requested <= MaxInFlight
  /\ account' = Recycle(s)

(* The account is on the bus: loaded and not removed.                       *)
OnBus == account.loaded /\ ~account.removed

(* The object exists: a request that waits for it holds a reference.        *)
Alive == ~account.removed \/ \E r \in Request : account.reply[r] = "waiting"

(* mcd_account_init *)
NewAccount ==
  [loaded |-> FALSE, enabled |-> FALSE, valid |-> FALSE,
   connect_automatically |-> FALSE, removed |-> FALSE, req_presence |-> "offline",
   conn_status |-> "DISCONNECTED", connection_context |-> FALSE,
   waiting_for_connectivity |-> FALSE,
   reply |-> [r \in Request |-> "uncalled"], connection |-> FALSE]

(* What the storage, the connectivity monitor and the registry say.         *)
Init ==
  \E enabled, automatically, online \in BOOLEAN :
    LET settings ==
          [NewAccount EXCEPT !.enabled = enabled, !.connect_automatically = automatically]
        outside ==
          [tp |-> [t \in Tp |-> UnusedTp], orphaned |-> 0, online |-> online,
           registry_ready |-> RegistryIsReady]
    IN account =
         [f \in DOMAIN settings \cup DOMAIN NewConnection \cup DOMAIN outside |->
            CASE f \in DOMAIN settings      -> settings[f]
              [] f \in DOMAIN NewConnection -> NewConnection[f]
              [] OTHER                      -> outside[f]]

-----------------------------------------------------------------------------
(* The account's callbacks                                                  *)

(* manager_ready_check_params_cb, mcd_account_loaded                        *)
Load(valid) ==
  LET s == [account EXCEPT !.loaded = TRUE, !.valid = valid]
      waiting == \E r \in Request : s.reply[r] = "waiting"
      t == IF ~(s.valid /\ s.enabled) THEN ProcessOnlineRequests(s, "error") ELSE s
      u == IF t.conn_status = "DISCONNECTED" THEN ConnectWithAutoPresence(t) ELSE t IN
  /\ ~account.loaded
  /\ Becomes(MaybeAutoconnect(IF waiting THEN u ELSE s))

(* set_requested_presence *)
SetRequestedPresence(presence) ==
  /\ OnBus
  /\ Becomes(RequestPresenceInt(account, presence))

(* _mcd_account_set_enabled, of a value that is new.                        *)
Enable(s) ==
  LET t == [s EXCEPT !.enabled = TRUE]
  IN MaybeAutoconnect(RequestPresenceInt(t, t.req_presence))
Disable(s) ==
  LET t == IF s.connection THEN RequestPresence(s, "offline") ELSE s
  IN [t EXCEPT !.enabled = FALSE]

SetEnabled ==
  /\ OnBus
  /\ Becomes(IF account.enabled THEN Disable(account) ELSE Enable(account))

(* set_connect_automatically, of a value that is new.                       *)
SetConnectAutomatically ==
  LET s == [account EXCEPT !.connect_automatically = ~@] IN
  /\ OnBus
  /\ Becomes(IF s.connect_automatically THEN MaybeAutoconnect(s) ELSE s)

(* UpdateParameters: check_validity_check_parameters_cb and                 *)
(* set_parameters_maybe_autoconnect_cb.                                     *)
UpdateParameters(valid) ==
  LET s == [account EXCEPT !.valid = valid]
      t == IF valid /\ ~account.valid THEN RequestPresenceInt(s, s.req_presence) ELSE s IN
  /\ OnBus
  /\ Becomes(MaybeAutoconnect(t))

(* _mcd_account_online_request *)
OnlineRequest(r) ==
  LET answer ==
        IF account.conn_status = "CONNECTED" THEN "ok"
        ELSE IF account.loaded /\ ~(account.valid /\ account.enabled) THEN "error"
        ELSE "waiting"
      s == IF answer = "waiting" /\ account.loaded /\ account.conn_status = "DISCONNECTED"
           THEN ConnectWithAutoPresence(account) ELSE account IN
  /\ ~account.removed /\ account.reply[r] = "uncalled"
  /\ Becomes([s EXCEPT !.reply[r] = answer])

(* _mcd_account_reconnect, called by account_reconnect and, without its     *)
(* checks, by reconnect_cb for a storage plugin.                            *)
ReconnectAccount(s) == ConnectionBegin(IF s.connection THEN Close(s) ELSE s)

Reconnect ==
  /\ OnBus
  /\ account.enabled /\ account.valid /\ account.req_presence # "offline"
  /\ Becomes(ReconnectAccount(account))

StorageReconnect ==
  /\ StorageReconnects /\ OnBus
  /\ Becomes(ReconnectAccount(account))

(* mcd_account_delete, and on_account_removed of the McdConnection.         *)
Remove ==
  LET s == IF account.enabled THEN Disable(account) ELSE account
      t == [s EXCEPT !.removed = TRUE] IN
  /\ OnBus
  /\ Becomes(IF t.connection THEN Abort(t) ELSE t)

(* monitor_state_changed_cb *)
MonitorConnected ==
  LET s == [account EXCEPT !.online = TRUE]
      t == MaybeAutoconnect(s) IN
  /\ ~account.online
  /\ IF ~Alive THEN Becomes(s)
     ELSE IF ~t.waiting_for_connectivity THEN Becomes(t)
     ELSE Becomes([Proceed(t, TRUE) EXCEPT !.waiting_for_connectivity = FALSE])

MonitorDisconnected ==
  LET s == [account EXCEPT !.online = FALSE]
      t == IF s.connection /\ ~AlwaysDispatch THEN Close(s) ELSE s IN
  /\ account.online
  /\ IF ~Alive THEN Becomes(s)
     ELSE IF ~t.waiting_for_connectivity THEN Becomes(t)
     ELSE Becomes([Proceed(t, FALSE) EXCEPT !.waiting_for_connectivity = FALSE])

-----------------------------------------------------------------------------
(* Replies of the connection manager                                        *)

(* request_connection_cb and _mcd_connection_set_tp_connection.  The        *)
(* callbacks that the end of an older Connection left in the main loop run  *)
(* before an answer to a later call.                                        *)
RequestConnectionReturns(t) ==
  LET s == IF account.tp_conn = None THEN account ELSE Release(account) IN
  /\ account.requested > 0
  /\ account.tp[t].status = "unused"
  /\ \A u \in Tp : account.tp[u].status # "gone"
  /\ Becomes([s EXCEPT
        !.requested = @ - 1, !.tp_conn = t, !.tasks_before_connect = 1,
        !.tp[t].status = "unknown", !.tp[t].pending = {"GetInterfaces", "Prepare"}])

(* A mutant: the error is not passed on to the account.                     *)
MutFailSilently ==
  /\ account.requested > 0
  /\ Becomes([account EXCEPT !.requested = @ - 1])

RequestConnectionFails ==
  /\ account.requested > 0
  /\ Becomes([SetConnectionStatus(account, "DISCONNECTED") EXCEPT !.requested = @ - 1])

(* request_connection_cb when the McdConnection is no more.                 *)
OrphanReturns(t) ==
  /\ account.orphaned > 0
  /\ account.tp[t].status = "unused"
  /\ Becomes([account EXCEPT
        !.orphaned = @ - 1, !.tp[t].status = "new", !.tp[t].disconnect_called = TRUE])

OrphanFails ==
  /\ account.orphaned > 0
  /\ Becomes([account EXCEPT !.orphaned = @ - 1])

(* A reply arrives, or the error that stands for it once the proxy is       *)
(* invalidated.                                                             *)
Returns(t, call, error) ==
  /\ call \in account.tp[t].pending
  /\ account.tp[t].status = "gone" => error

Answered(t, call) == [account EXCEPT !.tp[t].pending = @ \ {call}]

(* A mutant: an error returns early, without finishing the task.            *)
MutStopOnError(t, error) ==
  LET s == [Answered(t, "GetInterfaces") EXCEPT !.tp[t].interfaces = TRUE]
      u == [s EXCEPT !.has_presence_if = TRUE, !.tasks_before_connect = @ + 1,
                     !.tp[t].pending = @ \cup {"EarlyStatuses"}] IN
  /\ Returns(t, "GetInterfaces", error)
  /\ IF account.tp_conn # t \/ error THEN Becomes(Answered(t, "GetInterfaces"))
     ELSE Becomes(DoneTaskBeforeConnect(IF HasPresence THEN u ELSE s))

(* mcd_connection_early_get_interfaces_cb *)
GetInterfacesReturns(t, error) ==
  LET s == [Answered(t, "GetInterfaces") EXCEPT !.tp[t].interfaces = TRUE]
      u == [s EXCEPT !.has_presence_if = TRUE, !.tasks_before_connect = @ + 1,
                     !.tp[t].pending = @ \cup {"EarlyStatuses"}] IN
  /\ Returns(t, "GetInterfaces", error)
  /\ IF account.tp_conn # t THEN Becomes(Answered(t, "GetInterfaces"))
     ELSE IF error THEN Becomes(DoneTaskBeforeConnect(Answered(t, "GetInterfaces")))
     ELSE Becomes(DoneTaskBeforeConnect(IF HasPresence THEN u ELSE s))

(* mcd_connection_early_get_statuses_cb *)
EarlyStatusesReturns(t, error) ==
  LET s == Answered(t, "EarlyStatuses") IN
  /\ Returns(t, "EarlyStatuses", error)
  /\ IF account.tp_conn # t THEN Becomes(s)
     ELSE Becomes(DoneTaskBeforeConnect(IF error THEN s ELSE StatusesKnown(s)))

(* presence_get_statuses_cb *)
StatusesReturns(t, error) ==
  LET s == Answered(t, "Statuses") IN
  /\ Returns(t, "Statuses", error)
  /\ Becomes(IF error THEN s ELSE StatusesKnown(s))

(* The TpConnection has found out all that was asked of prepare_async; the  *)
(* callback is on its way.                                                  *)
Prepared(t) ==
  /\ "Prepare" \in account.tp[t].pending /\ account.tp[t].status = "connected"
  /\ Becomes([account EXCEPT
        !.tp[t].pending = (@ \ {"Prepare"}) \cup {"Prepared"}, !.tp[t].interfaces = TRUE])

(* on_connection_ready, with success.  Nothing checks that the Connection   *)
(* is still that of the McdConnection.                                      *)
ConnectionReady(t) ==
  LET s == [Answered(t, "Prepared") EXCEPT !.has_presence_if = HasPresence]
      u == IF ~HasPresence \/ s.tp_conn = None THEN s
           ELSE [s EXCEPT !.tp[s.tp_conn].pending = @ \cup {"Statuses"}]
      v == IF u.dispatching_started THEN u ELSE AddConnection(u) IN
  /\ "Prepared" \in account.tp[t].pending
  /\ Becomes(AccountConnectionReady(v))

(* on_connection_ready, with an error.                                      *)
PrepareFails(t) ==
  /\ "Prepare" \in account.tp[t].pending /\ account.tp[t].status = "gone"
  /\ Becomes(Answered(t, "Prepare"))

-----------------------------------------------------------------------------
(* Signals of a Connection: on_connection_status_changed                    *)

(* GetStatus returned: the Connection has not begun to connect.             *)
TpStatusKnown(t) ==
  LET s == [account EXCEPT !.tp[t].status = "new"] IN
  /\ account.tp[t].status = "unknown"
  /\ Becomes(IF s.tp_conn = t THEN [s EXCEPT !.abort_requested = FALSE] ELSE s)

TpConnecting(t) ==
  LET s == [account EXCEPT !.tp[t].status = "connecting"]
      u == [SetConnectionStatus(s, "CONNECTING") EXCEPT
              !.abort_requested = FALSE, !.connected = FALSE, !.tp[t].seen = TRUE] IN
  /\ account.tp[t].status = "new" /\ account.tp[t].connect_called
  /\ Becomes(IF s.tp_conn = t THEN u ELSE s)

TpConnected(t) ==
  LET s == [account EXCEPT !.tp[t].status = "connected"]
      u == SetConnectionStatus(s, "CONNECTED")
      v == IF u.probation_timer THEN u
           ELSE [u EXCEPT !.probation_timer = TRUE, !.probation_drop_count = 0] IN
  /\ account.tp[t].status = "connecting"
  /\ Becomes(IF s.tp_conn = t THEN [v EXCEPT !.connected = TRUE] ELSE s)

(* The Connection ends: because it was told to, or by one of Failures.      *)
(* After a crash there is no StatusChanged.                                 *)
Invalidated(t, kind) ==
  LET s == [account EXCEPT !.tp[t].status = "gone"]
      u == IF kind = "crash" THEN s
           ELSE [s EXCEPT !.abort_requested = (kind = "requested")] IN
  /\ account.tp[t].status \notin {"unused", "gone"}
  /\ kind = "requested" => account.tp[t].disconnect_called
  /\ Becomes(IF s.tp_conn = t THEN InvalidatedCb(u, kind) ELSE s)

-----------------------------------------------------------------------------
(* Timers, and the client registry                                          *)

(* mcd_connection_reconnect *)
ReconnectTimer ==
  /\ account.reconnect_timer
  /\ Becomes(Attempt(account))

(* mcd_connection_probation_ended_cb *)
ProbationTimer ==
  LET s == [account EXCEPT !.probation_drop_count = 0,
                           !.reconnect_interval = InitialReconnectionTime] IN
  /\ account.probation_timer
  /\ Becomes([(IF account.tp_conn # None THEN s ELSE account) EXCEPT
                !.probation_timer = FALSE])

(* mcd_dispatcher_client_registry_ready_cb *)
RegistryReady ==
  LET s == [account EXCEPT !.registry_ready = TRUE] IN
  /\ ~account.registry_ready
  /\ Becomes(IF s.dispatcher_knows THEN StartDispatching(s) ELSE s)

UserAction ==
  \/ \E presence \in Presence : SetRequestedPresence(presence)
  \/ SetEnabled \/ SetConnectAutomatically \/ Reconnect \/ StorageReconnect \/ Remove
  \/ \E valid \in BOOLEAN : UpdateParameters(valid)
  \/ \E r \in Request : OnlineRequest(r)

TpAction(t) ==
  \/ RequestConnectionReturns(t) \/ OrphanReturns(t)
  \/ \E error \in BOOLEAN : \/ GetInterfacesReturns(t, error)
                           \/ EarlyStatusesReturns(t, error)
                           \/ StatusesReturns(t, error)
  \/ Prepared(t) \/ ConnectionReady(t) \/ PrepareFails(t)
  \/ TpStatusKnown(t) \/ TpConnecting(t) \/ TpConnected(t)
  \/ \E kind \in Failures \cup {"requested"} : Invalidated(t, kind)

Next ==
  \/ \E valid \in BOOLEAN : Load(valid)
  \/ UserAction
  \/ MonitorConnected \/ MonitorDisconnected
  \/ \E t \in Tp : TpAction(t)
  \/ RequestConnectionFails \/ OrphanFails
  \/ ReconnectTimer \/ ProbationTimer \/ RegistryReady

Spec == Init /\ [][Next]_vars

(* What may be under way for the Connection t: a reply, an idle callback or *)
(* the next step of the connection manager.                                 *)
Obligation ==
  (Call \ {"Prepare"})
    \cup {"PrepareFails", "StatusKnown", "Connecting", "Connected", "Disconnected"}

Underway(t, what) ==
  LET tp == account.tp[t] IN
  CASE what \in Call         -> what \in tp.pending
    [] what = "PrepareFails" -> "Prepare" \in tp.pending /\ tp.status = "gone"
    [] what = "StatusKnown"  -> tp.status = "unknown"
    [] what = "Connecting"   -> tp.status = "new" /\ tp.connect_called
    [] what = "Connected"    -> tp.status = "connecting"
    [] what = "Disconnected" -> tp.disconnect_called /\ tp.status \notin {"unused", "gone"}

(* Weak fairness of the actions that the code or the D-Bus promise.  Each   *)
(* of them falsifies its enabling condition, so that weak fairness says     *)
(* that the condition is false again and again: calls are answered, timers  *)
(* and idle callbacks run, the connection manager does what it is told and  *)
(* brings each attempt to an end.  Nothing is assumed of the user, the      *)
(* network, failures and the registry.                                      *)
FairSpec ==
  /\ Spec
  /\ []<>account.loaded
  /\ []<>(account.requested = 0) /\ []<>(account.orphaned < MaxInFlight)
  /\ []<>(~account.reconnect_timer)
  /\ \A t \in Tp : \A what \in Obligation : []<>(~Underway(t, what))

-----------------------------------------------------------------------------
(* Properties                                                               *)

TypeOK == account \in AccountType

Waiting(r) == account.reply[r] = "waiting"

(* The ConnectionStatus that the account shows is CONNECTED exactly while   *)
(* the Connection that MC uses is, whatever ended, was closed or was        *)
(* replaced in the meantime, and nothing of an old Connection is taken for  *)
(* the new one: neither its probation nor the presences it recognized.      *)
StatusTruthful ==
  /\ account.conn_status = "CONNECTED" <=>
       account.tp_conn # None /\ Current(account).status = "connected"
  /\ account.tp_conn = None =>
       ~account.probation_timer /\ ~account.recognized_presences

(* MC never makes two attempts to connect an account at the same time, even *)
(* if the user, a timer and the network ask for one: at most one call to    *)
(* RequestConnection, none while there is a Connection or while the attempt *)
(* waits for the network, and the reconnection timer runs only while there  *)
(* is no attempt.  (The counters of tasks are never negative, either.)      *)
OneAttempt ==
  /\ TypeOK
  /\ account.requested <= 1
  /\ account.requested > 0 => account.tp_conn = None /\ ~account.connection_context
  /\ account.reconnect_timer =>
       /\ account.requested = 0 /\ account.tp_conn = None
       /\ account.conn_status = "DISCONNECTED"

(* A Connection that MC has seen connecting and does not use any more was   *)
(* told to disconnect or is gone.                                           *)
SeenAreDisconnected ==
  \A t \in Tp : account.tp[t].seen /\ account.tp_conn # t =>
    account.tp[t].disconnect_called \/ account.tp[t].status = "gone"

(* The server knows the presence that the user wants: once a Connection is  *)
(* set up, the last presence MC told it is the requested one, whether the   *)
(* user asked before, during or after the set-up.                           *)
PresenceTold ==
  LET tp == Current(account) IN
  (/\ account.tp_conn # None /\ account.has_presence_if /\ account.recognized_presences
   /\ account.enabled /\ account.valid /\ account.req_presence # "offline")
  => tp.told = account.req_presence

(* Nobody is connected against the settings: MC asks for a Connection only  *)
(* for an account that is enabled and valid, unless the wish dates from     *)
(* before it waited for the network or for a retry.                         *)
OnlyWantedConnections ==
  [][account'.requested > account.requested =>
       \/ account'.enabled /\ account'.valid /\ account'.req_presence # "offline"
       \/ account.waiting_for_connectivity \/ account.reconnect_timer]_vars

(* A caller of _mcd_account_online_request is answered, unless the account  *)
(* waits for the network or is removed.                                     *)
OnlineRequestAnswered ==
  \A r \in Request :
    Waiting(r) ~> \/ ~Waiting(r) \/ account.removed
                  \/ account.waiting_for_connectivity

(* No account shows CONNECTING for ever, except while it waits for the      *)
(* network or is told to start over again and again: every chain of         *)
(* callbacks leads to a Connection or to a failure.                         *)
ConnectingEnds ==
  \/ []<><<Reconnect \/ StorageReconnect>>_vars
  \/ account.conn_status = "CONNECTING" ~>
       account.conn_status # "CONNECTING" \/ account.waiting_for_connectivity

=============================================================================
