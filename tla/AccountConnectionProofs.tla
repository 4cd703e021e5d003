--------------------- MODULE AccountConnectionProofs ----------------------
(*************************************************************************)
(* The inductive invariant of AccountConnection and what follows from    *)
(* it, for any Connections, presences and callers.  Each C function of   *)
(* the model is an operator from record to record, so that most lemmas   *)
(* say what such a function leaves alone (Others) and that it keeps      *)
(* Core, the part of the invariant that holds between any two calls.     *)
(* Told and Waits hold again at the end of each callback.  There is one  *)
(* lemma for each action (...Step), put together in NextGood.            *)
(*************************************************************************)
EXTENDS AccountConnection, TLAPS

---------------------------------------------------------------------------
(* Records, their types and what a function leaves alone                 *)

(* The fields of the record: McdAccountPrivate, McdConnectionPrivate and *)
(* what is around them.                                                  *)
Fields ==
  {"loaded", "enabled", "valid", "connect_automatically", "removed",
   "req_presence", "conn_status", "connection_context",
   "waiting_for_connectivity", "reply", "connection", "tp_conn",
   "tasks_before_connect", "reconnect_timer", "reconnect_interval",
   "probation_timer", "probation_drop_count", "abort_requested", "connected",
   "has_presence_if", "recognized_presences", "dispatching_started",
   "dispatcher_knows", "requested", "tp", "orphaned", "online",
   "registry_ready"}

(* A record with those fields and no others.                             *)
IsAccount(s) == s = [f \in Fields |-> s[f]]

(* The type of each field, by name: AccountType as a function, so that   *)
(* one lemma speaks of any field.                                        *)
FieldType ==
  [ loaded |-> BOOLEAN,
    enabled |-> BOOLEAN,
    valid |-> BOOLEAN,
    connect_automatically |-> BOOLEAN,
    removed |-> BOOLEAN,
    req_presence |-> Presence,
    conn_status |-> {"DISCONNECTED", "CONNECTING", "CONNECTED"},
    connection_context |-> BOOLEAN,
    waiting_for_connectivity |-> BOOLEAN,
    reply |-> [Request -> {"uncalled", "waiting", "ok", "error"}],
    connection |-> BOOLEAN,
    tp_conn |-> Tp \cup {None},
    tasks_before_connect |-> 0..2,
    reconnect_timer |-> BOOLEAN,
    reconnect_interval |-> InitialReconnectionTime..MaximumReconnectionTime,
    probation_timer |-> BOOLEAN,
    probation_drop_count |-> Nat,
    abort_requested |-> BOOLEAN,
    connected |-> BOOLEAN,
    has_presence_if |-> BOOLEAN,
    recognized_presences |-> BOOLEAN,
    dispatching_started |-> BOOLEAN,
    dispatcher_knows |-> BOOLEAN,
    requested |-> Nat,
    tp |-> [Tp -> TpType],
    orphaned |-> Nat,
    online |-> BOOLEAN,
    registry_ready |-> BOOLEAN ]

(* The names, for the provers.                                           *)
LEMMA FieldNames ==
  /\ "loaded" \in Fields
  /\ "enabled" \in Fields
  /\ "valid" \in Fields
  /\ "connect_automatically" \in Fields
  /\ "removed" \in Fields
  /\ "req_presence" \in Fields
  /\ "conn_status" \in Fields
  /\ "connection_context" \in Fields
  /\ "waiting_for_connectivity" \in Fields
  /\ "reply" \in Fields
  /\ "connection" \in Fields
  /\ "tp_conn" \in Fields
  /\ "tasks_before_connect" \in Fields
  /\ "reconnect_timer" \in Fields
  /\ "reconnect_interval" \in Fields
  /\ "probation_timer" \in Fields
  /\ "probation_drop_count" \in Fields
  /\ "abort_requested" \in Fields
  /\ "connected" \in Fields
  /\ "has_presence_if" \in Fields
  /\ "recognized_presences" \in Fields
  /\ "dispatching_started" \in Fields
  /\ "dispatcher_knows" \in Fields
  /\ "requested" \in Fields
  /\ "tp" \in Fields
  /\ "orphaned" \in Fields
  /\ "online" \in Fields
  /\ "registry_ready" \in Fields
  BY DEF Fields

(* The types, for the provers.                                           *)
LEMMA FieldTypes ==
  /\ FieldType.loaded = BOOLEAN
  /\ FieldType.enabled = BOOLEAN
  /\ FieldType.valid = BOOLEAN
  /\ FieldType.connect_automatically = BOOLEAN
  /\ FieldType.removed = BOOLEAN
  /\ FieldType.req_presence = Presence
  /\ FieldType.conn_status = {"DISCONNECTED", "CONNECTING", "CONNECTED"}
  /\ FieldType.connection_context = BOOLEAN
  /\ FieldType.waiting_for_connectivity = BOOLEAN
  /\ FieldType.reply = [Request -> {"uncalled", "waiting", "ok", "error"}]
  /\ FieldType.connection = BOOLEAN
  /\ FieldType.tp_conn = Tp \cup {None}
  /\ FieldType.tasks_before_connect = 0..2
  /\ FieldType.reconnect_timer = BOOLEAN
  /\ FieldType.reconnect_interval = InitialReconnectionTime..MaximumReconnectionTime
  /\ FieldType.probation_timer = BOOLEAN
  /\ FieldType.probation_drop_count = Nat
  /\ FieldType.abort_requested = BOOLEAN
  /\ FieldType.connected = BOOLEAN
  /\ FieldType.has_presence_if = BOOLEAN
  /\ FieldType.recognized_presences = BOOLEAN
  /\ FieldType.dispatching_started = BOOLEAN
  /\ FieldType.dispatcher_knows = BOOLEAN
  /\ FieldType.requested = Nat
  /\ FieldType.tp = [Tp -> TpType]
  /\ FieldType.orphaned = Nat
  /\ FieldType.online = BOOLEAN
  /\ FieldType.registry_ready = BOOLEAN
  BY DEF FieldType

(* AccountType again, field by field.                                    *)
Typed(s) == IsAccount(s) /\ \A f \in Fields : s[f] \in FieldType[f]

(* What it says of each field.                                           *)
LEMMA TypedFields ==
  ASSUME NEW s, Typed(s)
  PROVE
  /\ s.loaded \in BOOLEAN
  /\ s.enabled \in BOOLEAN
  /\ s.valid \in BOOLEAN
  /\ s.connect_automatically \in BOOLEAN
  /\ s.removed \in BOOLEAN
  /\ s.req_presence \in Presence
  /\ s.conn_status \in {"DISCONNECTED", "CONNECTING", "CONNECTED"}
  /\ s.connection_context \in BOOLEAN
  /\ s.waiting_for_connectivity \in BOOLEAN
  /\ s.reply \in [Request -> {"uncalled", "waiting", "ok", "error"}]
  /\ s.connection \in BOOLEAN
  /\ s.tp_conn \in Tp \cup {None}
  /\ s.tasks_before_connect \in 0..2
  /\ s.reconnect_timer \in BOOLEAN
  /\ s.reconnect_interval \in InitialReconnectionTime..MaximumReconnectionTime
  /\ s.probation_timer \in BOOLEAN
  /\ s.probation_drop_count \in Nat
  /\ s.abort_requested \in BOOLEAN
  /\ s.connected \in BOOLEAN
  /\ s.has_presence_if \in BOOLEAN
  /\ s.recognized_presences \in BOOLEAN
  /\ s.dispatching_started \in BOOLEAN
  /\ s.dispatcher_knows \in BOOLEAN
  /\ s.requested \in Nat
  /\ s.tp \in [Tp -> TpType]
  /\ s.orphaned \in Nat
  /\ s.online \in BOOLEAN
  /\ s.registry_ready \in BOOLEAN
  BY FieldNames, FieldTypes DEF Typed

(* It is the type of the model.                                          *)
LEMMA TypedIsType ==
  ASSUME NEW s
  PROVE  Typed(s) <=> s \in AccountType
<1>1. ASSUME Typed(s) PROVE s \in AccountType
  BY <1>1, TypedFields DEF Typed, IsAccount, Fields, AccountType
<1>2. ASSUME s \in AccountType PROVE Typed(s)
  <2>1. IsAccount(s)
    BY <1>2 DEF AccountType, IsAccount, Fields
  <2>2. ASSUME NEW f \in Fields PROVE s[f] \in FieldType[f]
    BY <1>2, <2>2, FieldTypes DEF AccountType, Fields
  <2> QED BY <2>1, <2>2 DEF Typed
<1> QED BY <1>1, <1>2

(* A typed record has the fields of an account.                          *)
LEMMA TypedIsAccount ==
  ASSUME NEW s, Typed(s) PROVE IsAccount(s)
  BY DEF Typed

(* From s to t nothing changes but the fields F: the frame of every      *)
(* function of the model.                                                *)
Others(s, t, F) == \A f \in Fields \ F : t[f] = s[f]

(* Two functions in turn change what either changes.                     *)
LEMMA OthersTrans ==
  ASSUME NEW s, NEW t, NEW u, NEW F, NEW G, Others(s, t, F), Others(t, u, G)
  PROVE  Others(s, u, F \cup G)
  BY DEF Others

(* A frame may be made larger.                                           *)
LEMMA OthersMore ==
  ASSUME NEW s, NEW t, NEW F, NEW G, F \subseteq G, Others(s, t, F)
  PROVE  Others(s, t, G)
  BY DEF Others

(* An assignment of the field's type keeps the record typed.             *)
LEMMA TypedOne ==
  ASSUME NEW s, Typed(s), NEW f \in Fields, NEW v \in FieldType[f]
  PROVE  Typed([s EXCEPT ![f] = v])
  BY DEF Typed, IsAccount

(* So do two.                                                            *)
LEMMA TypedTwo ==
  ASSUME NEW s, Typed(s), NEW f \in Fields, NEW v \in FieldType[f],
         NEW g \in Fields, NEW w \in FieldType[g]
  PROVE  Typed([s EXCEPT ![f] = v, ![g] = w])
  BY DEF Typed, IsAccount

(* An assignment changes its field and no other.                         *)
LEMMA OthersOne ==
  ASSUME NEW s, IsAccount(s), NEW f \in Fields, NEW v
  PROVE  Others(s, [s EXCEPT ![f] = v], {f}) /\ [s EXCEPT ![f] = v][f] = v
  BY DEF IsAccount, Others

---------------------------------------------------------------------------
(* The invariant; the beginning of an attempt                            *)

(* A record is typed when what changed is.                               *)
LEMMA TypedBy ==
  ASSUME NEW s, Typed(s), NEW t, IsAccount(t), NEW F \in SUBSET Fields, Others(s, t, F),
         \A f \in F : t[f] \in FieldType[f]
  PROVE  Typed(t)
  BY DEF Typed, Others

(* A Boolean counted.                                                    *)
One(b) == IF b THEN 1 ELSE 0

(* The attempts to connect exclude one another: at most one              *)
(* RequestConnection, none with a Connection or while connection_context *)
(* waits for the network, the reconnection timer only when there is      *)
(* neither; without a Connection there is nothing of one (CONNECTED,     *)
(* probation, presences); nothing before the account is loaded.          *)
Attempts(s) ==
  /\ s.requested \in {0, 1}
  /\ ~s.connection => s.tp_conn = None /\ s.requested = 0 /\ ~s.reconnect_timer
  /\ s.requested = 1 => /\ s.tp_conn = None /\ ~s.connection_context
                        /\ s.conn_status = "CONNECTING"
  /\ s.connection_context => s.tp_conn = None
  /\ s.reconnect_timer =>
       s.tp_conn = None /\ s.conn_status = "DISCONNECTED" /\ ~s.connection_context
  /\ s.tp_conn = None =>
       s.conn_status # "CONNECTED" /\ ~s.probation_timer /\ ~s.recognized_presences
  /\ ~s.loaded => ~s.valid /\ ~s.connection /\ ~s.connection_context

(* The attempt in waiting (connection_context) and the account's entry   *)
(* in the monitor's queue (waiting_for_connectivity) are the same thing. *)
Waits(s) == s.connection_context <=> s.waiting_for_connectivity

(* Of the TpConnection that MC uses: the account shows CONNECTED when it *)
(* is, it is neither gone nor unused, and tasks_before_connect counts    *)
(* the two calls before Connect, never both in flight (the second is     *)
(* made when the first returns).                                         *)
InUse(s) ==
  s.tp_conn # None =>
    /\ s.conn_status = "CONNECTED" <=> Current(s).status = "connected"
    /\ Current(s).status \notin {"gone", "unused"}
    /\ s.tasks_before_connect = One("GetInterfaces" \in Current(s).pending)
                                  + One("EarlyStatuses" \in Current(s).pending)
    /\ "GetInterfaces" \in Current(s).pending => "EarlyStatuses" \notin Current(s).pending

(* Replies come only from the TpConnection in use, or from one that is   *)
(* gone while there is none: the calls of a TpConnection let go were     *)
(* cancelled with its McdConnection.                                     *)
Replies(s) ==
  \A t \in Tp : s.tp[t].pending # {} =>
    s.tp_conn = t \/ (s.tp_conn = None /\ s.tp[t].status = "gone")

(* What is known of each TpConnection: a name not in use has no history, *)
(* one was seen connecting only after it began, and one seen connecting  *)
(* that MC does not use any more was told to disconnect or is gone.      *)
Histories(s) ==
  \A t \in Tp :
    /\ s.tp[t].status = "unused" => s.tp[t] = UnusedTp
    /\ s.tp[t].seen => s.tp[t].status \in {"connecting", "connected", "gone"}
    /\ s.tp[t].seen /\ s.tp_conn # t =>
         s.tp[t].disconnect_called \/ s.tp[t].status = "gone"

(* Presence statuses are asked for, and recognized, only with the        *)
(* SimplePresence interface.                                             *)
Presences(s) ==
  /\ s.recognized_presences => HasPresence /\ s.has_presence_if
  /\ \A t \in Tp : s.tp[t].pending \cap {"EarlyStatuses", "Statuses"} # {} =>
       HasPresence /\ s.has_presence_if

(* The inductive invariant, but for the two parts that a function may    *)
(* break before another of the same callback repairs them (Told, Waits). *)
Core(s) ==
  Typed(s) /\ Attempts(s) /\ InUse(s) /\ Replies(s) /\ Histories(s) /\ Presences(s)

(* The server was told the presence that the user wants, once the        *)
(* statuses are known.                                                   *)
Told(s) ==
  /\ s.recognized_presences /\ s.enabled /\ s.valid /\ s.req_presence # "offline"
  => Current(s).told = s.req_presence

(* The fields of which Core says no more than their type.                *)
Free ==
  {"enabled", "connect_automatically", "removed", "req_presence", "waiting_for_connectivity",
   "reply", "reconnect_interval", "probation_drop_count", "abort_requested", "connected",
   "dispatching_started", "dispatcher_knows", "orphaned", "online", "registry_ready"}

(* An assignment to them keeps Core.                                     *)
LEMMA CoreFrame ==
  ASSUME NEW s, NEW t, Core(s), Typed(t), Others(s, t, Free)
  PROVE  Core(t)
<1>1. /\ t.loaded = s.loaded /\ t.valid = s.valid /\ t.conn_status = s.conn_status
      /\ t.connection_context = s.connection_context /\ t.connection = s.connection
      /\ t.tp_conn = s.tp_conn /\ t.tasks_before_connect = s.tasks_before_connect
      /\ t.reconnect_timer = s.reconnect_timer /\ t.probation_timer = s.probation_timer
      /\ t.has_presence_if = s.has_presence_if
      /\ t.recognized_presences = s.recognized_presences
      /\ t.requested = s.requested /\ t.tp = s.tp
  BY DEF Others, Free, Fields
<1>2. Attempts(t)
  BY <1>1 DEF Core, Attempts
<1>3. InUse(t)
  BY <1>1 DEF Core, InUse, Current
<1>4. Replies(t) /\ Histories(t) /\ Presences(t)
  BY <1>1 DEF Core, Replies, Histories, Presences
<1> QED BY <1>2, <1>3, <1>4 DEF Core

(* _mcd_account_set_connection_status changes the status and answers the *)
(* callers who wait.                                                     *)
LEMMA StatusEffect ==
  ASSUME NEW s, Typed(s), NEW x \in {"DISCONNECTED", "CONNECTING", "CONNECTED"}
  PROVE  LET t == SetConnectionStatus(s, x) IN
         /\ Typed(t) /\ t.conn_status = x /\ Others(s, t, {"conn_status", "reply"})
<1> DEFINE ans == IF x = "CONNECTED" THEN "ok" ELSE "error"
           r == [q \in Request |-> IF s.reply[q] = "waiting" THEN ans ELSE s.reply[q]]
           t == [s EXCEPT !.conn_status = x]
           u == [s EXCEPT !.conn_status = x, !.reply = r]
<1>1. SetConnectionStatus(s, x) = IF x = "CONNECTING" THEN t ELSE u
  BY DEF SetConnectionStatus, ProcessOnlineRequests, Typed, IsAccount, Fields
<1>2. r \in [Request -> {"uncalled", "waiting", "ok", "error"}]
  BY TypedFields
<1>3. /\ "conn_status" \in Fields /\ "reply" \in Fields \ {"conn_status"}
      /\ x \in FieldType["conn_status"] /\ r \in FieldType["reply"]
  BY <1>2, FieldTypes DEF Fields
<1> HIDE DEF r
<1>4. Typed(t) /\ t.conn_status = x /\ Others(s, t, {"conn_status"})
  <2>1. Typed(t)
    BY <1>3, TypedOne
  <2> QED BY <2>1, TypedIsAccount DEF Others, IsAccount, Fields
<1>5. Typed(u) /\ u.conn_status = x /\ Others(s, u, {"conn_status", "reply"})
  <2>1. Typed(u)
    BY <1>3, TypedTwo
  <2>2. u.conn_status = x
    BY TypedIsAccount DEF IsAccount, Fields
  <2>3. Others(s, u, {"conn_status", "reply"})
    BY TypedIsAccount DEF IsAccount, Others
  <2> QED BY <2>1, <2>2, <2>3
<1>6. Others(s, t, {"conn_status", "reply"})
  BY <1>4 DEF Others
<1> HIDE DEF t, u
<1> QED BY <1>1, <1>4, <1>5, <1>6

(* CONNECTING answers nobody.                                            *)
LEMMA ConnectingIs ==
  ASSUME NEW s PROVE SetConnectionStatus(s, "CONNECTING") = [s EXCEPT !.conn_status = "CONNECTING"]
  BY DEF SetConnectionStatus

(* What _mcd_account_connect leads to: RequestConnection is called.      *)
Starting(s) ==
  [s EXCEPT !.conn_status = "CONNECTING", !.connection = TRUE, !.reconnect_timer = FALSE,
            !.requested = s.requested + 1, !.connection_context = FALSE]

(* What the beginning of an attempt leads to without a network.          *)
Delayed(s) ==
  [s EXCEPT !.conn_status = "CONNECTING", !.connection_context = TRUE,
            !.waiting_for_connectivity = TRUE]

(* The frame and the values of Starting.                                 *)
LEMMA StartingEffect ==
  ASSUME NEW s, Typed(s)
  PROVE  LET t == Starting(s) IN
         /\ Typed(t)
         /\ Others(s, t, {"conn_status", "connection", "reconnect_timer", "requested",
                          "connection_context"})
         /\ t.conn_status = "CONNECTING" /\ t.connection /\ ~t.reconnect_timer
         /\ t.requested = s.requested + 1 /\ ~t.connection_context
<1> DEFINE F == {"conn_status", "connection", "reconnect_timer", "requested",
                 "connection_context"}
           t == Starting(s)
           n == s.requested + 1
<1>1. n \in Nat
  BY TypedFields
<1>0. t = [s EXCEPT !.conn_status = "CONNECTING", !.connection = TRUE, !.reconnect_timer = FALSE,
            !.requested = n, !.connection_context = FALSE]
  BY DEF Starting
<1> HIDE DEF n, t
<1>2. /\ IsAccount(t)
      /\ t.conn_status = "CONNECTING" /\ t.connection = TRUE /\ t.reconnect_timer = FALSE
      /\ t.requested = n /\ t.connection_context = FALSE
  BY <1>0, TypedIsAccount DEF IsAccount, Fields
<1>3. Others(s, t, F)
  BY <1>0, TypedIsAccount DEF Others, IsAccount
<1>4. Typed(t)
  <2>1. F \in SUBSET Fields
    BY FieldNames
  <2>2. \A f \in F : t[f] \in FieldType[f]
    BY <1>1, <1>2, FieldTypes
  <2> QED BY <1>2, <1>3, <2>1, <2>2, TypedBy
<1> QED BY <1>2, <1>3, <1>4 DEF n, t

(* The frame and the values of Delayed.                                  *)
LEMMA DelayedEffect ==
  ASSUME NEW s, Typed(s)
  PROVE  LET t == Delayed(s) IN
         /\ Typed(t)
         /\ Others(s, t, {"conn_status", "connection_context", "waiting_for_connectivity"})
         /\ t.conn_status = "CONNECTING" /\ t.connection_context /\ t.waiting_for_connectivity
<1> DEFINE F == {"conn_status", "connection_context", "waiting_for_connectivity"}
           t == Delayed(s)
<1>0. t = [s EXCEPT !.conn_status = "CONNECTING", !.connection_context = TRUE,
                    !.waiting_for_connectivity = TRUE]
  BY DEF Delayed
<1> HIDE DEF t
<1>2. /\ IsAccount(t)
      /\ t.conn_status = "CONNECTING" /\ t.connection_context = TRUE
      /\ t.waiting_for_connectivity = TRUE
  BY <1>0, TypedIsAccount DEF IsAccount, Fields
<1>3. Others(s, t, F)
  BY <1>0, TypedIsAccount DEF Others, IsAccount
<1>4. Typed(t)
  <2>1. F \in SUBSET Fields
    BY FieldNames
  <2>2. \A f \in F : t[f] \in FieldType[f]
    BY <1>2, FieldTypes
  <2> QED BY <1>2, <1>3, <2>1, <2>2, TypedBy
<1> QED BY <1>2, <1>3, <1>4 DEF t

(* _mcd_account_connect as one assignment.                               *)
LEMMA ConnectEffect ==
  ASSUME NEW s, IsAccount(s), s.tp_conn = None
  PROVE  AccountConnect(s) = [s EXCEPT !.connection = TRUE, !.reconnect_timer = FALSE,
                                       !.conn_status = "CONNECTING", !.requested = s.requested + 1]
<1> DEFINE a == [s EXCEPT !.connection = TRUE]
           t == [a EXCEPT !.reconnect_timer = FALSE]
           u == [t EXCEPT !.conn_status = "CONNECTING"]
<1>1. t.tp_conn = None /\ a.tp_conn = None
  BY DEF IsAccount, Fields
<1>2. Connect(a) = [u EXCEPT !.requested = @ + 1]
  BY <1>1, ConnectingIs DEF Connect
<1>3. [u EXCEPT !.requested = @ + 1]
       = [s EXCEPT !.connection = TRUE, !.reconnect_timer = FALSE,
                   !.conn_status = "CONNECTING", !.requested = s.requested + 1]
  BY DEF IsAccount, Fields
<1> QED BY <1>2, <1>3 DEF AccountConnect

(* mcd_account_connection_proceed as one of its three outcomes.          *)
LEMMA ProceedEffect ==
  ASSUME NEW s, IsAccount(s), s.tp_conn = None
  PROVE  Proceed(s, TRUE) = IF ~s.connection_context THEN s
                            ELSE IF s.online \/ AlwaysDispatch THEN Starting(s)
                            ELSE [s EXCEPT !.waiting_for_connectivity = TRUE]
<1>1. CASE ~s.connection_context
  BY <1>1 DEF Proceed
<1>2. CASE s.connection_context /\ (s.online \/ AlwaysDispatch)
  <2> DEFINE n == s.requested + 1
             a == [s EXCEPT !.connection = TRUE, !.reconnect_timer = FALSE,
                            !.conn_status = "CONNECTING", !.requested = n]
  <2>1. Proceed(s, TRUE) = [a EXCEPT !.connection_context = FALSE]
    BY <1>2, ConnectEffect DEF Proceed
  <2> HIDE DEF n
  <2>2. [a EXCEPT !.connection_context = FALSE]
          = [s EXCEPT !.conn_status = "CONNECTING", !.connection = TRUE,
                      !.reconnect_timer = FALSE, !.requested = n, !.connection_context = FALSE]
    BY DEF IsAccount, Fields
  <2> QED BY <1>2, <2>1, <2>2 DEF Starting, n
<1>3. CASE s.connection_context /\ ~(s.online \/ AlwaysDispatch)
  BY <1>3 DEF Proceed
<1> QED BY <1>1, <1>2, <1>3

(* _mcd_account_connection_begin as one of its three outcomes.           *)
LEMMA BeginEffect ==
  ASSUME NEW s, Typed(s), s.tp_conn = None
  PROVE  ConnectionBegin(s) = IF s.connection_context THEN s
                              ELSE IF s.online \/ AlwaysDispatch THEN Starting(s)
                              ELSE Delayed(s)
<1>1. CASE s.connection_context
  BY <1>1 DEF ConnectionBegin
<1>2. CASE ~s.connection_context
  <2> DEFINE a == [s EXCEPT !.conn_status = "CONNECTING"]
             b == [a EXCEPT !.connection_context = TRUE]
  <2>1. ConnectionBegin(s) = Proceed(b, TRUE)
    BY <1>2, ConnectingIs DEF ConnectionBegin
  <2>2. /\ IsAccount(b) /\ b.tp_conn = None /\ b.connection_context = TRUE
        /\ b.online = s.online /\ b.requested = s.requested
    BY TypedIsAccount DEF IsAccount, Fields
  <2>3. Proceed(b, TRUE) = IF s.online \/ AlwaysDispatch THEN Starting(b)
                           ELSE [b EXCEPT !.waiting_for_connectivity = TRUE]
    <3> HIDE DEF b
    <3> QED BY <2>2, ProceedEffect
  <2>4. Starting(b) = Starting(s)
    <3> DEFINE n == s.requested + 1
    <3>1. Starting(b) =
            [b EXCEPT !.conn_status = "CONNECTING", !.connection = TRUE, !.reconnect_timer = FALSE,
            !.requested = n, !.connection_context = FALSE]
      <4> HIDE DEF b
      <4> QED BY <2>2 DEF Starting
    <3>2. Starting(s) =
            [s EXCEPT !.conn_status = "CONNECTING", !.connection = TRUE, !.reconnect_timer = FALSE,
            !.requested = n, !.connection_context = FALSE]
      BY DEF Starting
    <3> HIDE DEF n
    <3> QED BY <3>1, <3>2, TypedIsAccount DEF IsAccount, Fields
  <2>5. [b EXCEPT !.waiting_for_connectivity = TRUE] = Delayed(s)
    BY TypedIsAccount DEF Delayed, IsAccount, Fields
  <2> HIDE DEF b
  <2> QED BY <1>2, <2>1, <2>3, <2>4, <2>5
<1> QED BY <1>1, <1>2

(* The reconnection times are numbers.                                   *)
LEMMA BoundsAreNat ==
  /\ InitialReconnectionTime \in Nat \ {0} /\ ReconnectionMultiplier \in Nat \ {0}
  /\ MaximumReconnectionTime \in Nat
  /\ InitialReconnectionTime <= MaximumReconnectionTime
  BY TimesAssumption

(* None is no Connection, and offline is no presence to be online with.  *)
LEMMA NamesApart == None \notin Tp /\ "offline" \notin OnlinePresence
  BY NamesAssumption

(* Without a Connection there is nobody to tell.                         *)
LEMMA SilentTold ==
  ASSUME NEW s, Attempts(s), s.tp_conn = None PROVE Told(s)
  BY DEF Attempts, Told

(* RequestConnection may be called when there is no attempt.             *)
LEMMA StartingCore ==
  ASSUME NEW s, Core(s), s.tp_conn = None, s.requested = 0, s.loaded
  PROVE  Core(Starting(s))
<1> DEFINE t == Starting(s)
<1>1. /\ Typed(t)
      /\ Others(s, t, {"conn_status", "connection", "reconnect_timer", "requested",
                       "connection_context"})
      /\ t.conn_status = "CONNECTING" /\ t.connection /\ ~t.reconnect_timer
      /\ t.requested = s.requested + 1 /\ ~t.connection_context
  BY StartingEffect DEF Core
<1> HIDE DEF t
<1>2. /\ t.loaded = s.loaded /\ t.valid = s.valid
      /\ t.tp_conn = s.tp_conn
      /\ t.probation_timer = s.probation_timer
      /\ t.has_presence_if = s.has_presence_if
      /\ t.recognized_presences = s.recognized_presences
      /\ t.tp = s.tp
  BY <1>1 DEF Others, Fields
<1>3. Attempts(t)
  BY <1>1, <1>2 DEF Core, Attempts
<1>4. InUse(t) /\ Replies(t) /\ Histories(t) /\ Presences(t)
  BY <1>2 DEF Core, InUse, Replies, Histories, Presences
<1>5. Core(t)
  BY <1>1, <1>3, <1>4 DEF Core
<1> QED BY <1>5 DEF t

(* So may the attempt be delayed.                                        *)
LEMMA DelayedCore ==
  ASSUME NEW s, Core(s), s.tp_conn = None, s.requested = 0, s.loaded, ~s.reconnect_timer
  PROVE  Core(Delayed(s))
<1> DEFINE t == Delayed(s)
<1>1. /\ Typed(t)
      /\ Others(s, t, {"conn_status", "connection_context", "waiting_for_connectivity"})
      /\ t.conn_status = "CONNECTING" /\ t.connection_context
  BY DelayedEffect DEF Core
<1> HIDE DEF t
<1>2. /\ t.loaded = s.loaded /\ t.valid = s.valid
      /\ t.connection = s.connection /\ t.reconnect_timer = s.reconnect_timer
      /\ t.requested = s.requested
      /\ t.tp_conn = s.tp_conn
      /\ t.probation_timer = s.probation_timer
      /\ t.has_presence_if = s.has_presence_if
      /\ t.recognized_presences = s.recognized_presences
      /\ t.tp = s.tp
  BY <1>1 DEF Others, Fields
<1>3. Attempts(t)
  BY <1>1, <1>2 DEF Core, Attempts
<1>4. InUse(t) /\ Replies(t) /\ Histories(t) /\ Presences(t)
  BY <1>2 DEF Core, InUse, Replies, Histories, Presences
<1>5. Core(t)
  BY <1>1, <1>3, <1>4 DEF Core
<1> QED BY <1>5 DEF t

(* The fields that the beginning of an attempt writes.                   *)
Begun ==
  {"conn_status", "connection", "reconnect_timer", "requested", "connection_context",
   "waiting_for_connectivity"}

(* _mcd_account_connection_begin keeps Core and Waits.                   *)
LEMMA BeginCore ==
  ASSUME NEW s, Core(s), s.tp_conn = None, s.requested = 0, s.loaded, ~s.reconnect_timer
  PROVE  LET t == ConnectionBegin(s) IN
         /\ Core(t) /\ Others(s, t, Begun) /\ (Waits(s) => Waits(t))
<1> DEFINE a == Starting(s)
           b == Delayed(s)
<1>1. Core(a) /\ Core(b)
  BY StartingCore, DelayedCore
<1>2. Others(s, a, Begun) /\ ~a.connection_context
  BY StartingEffect DEF Core, Others, Begun
<1>3. Others(s, b, Begun) /\ b.connection_context /\ b.waiting_for_connectivity
  BY DelayedEffect DEF Core, Others, Begun
<1>4. a.waiting_for_connectivity = s.waiting_for_connectivity
  BY StartingEffect DEF Core, Others, Fields
<1>5. ConnectionBegin(s) = IF s.connection_context THEN s
                           ELSE IF s.online \/ AlwaysDispatch THEN a ELSE b
  BY BeginEffect DEF Core
<1>6. Others(s, s, Begun)
  BY DEF Others
<1> HIDE DEF a, b
<1>7. CASE s.connection_context
  BY <1>5, <1>6, <1>7
<1>8. CASE ~s.connection_context /\ (s.online \/ AlwaysDispatch)
  BY <1>1, <1>2, <1>4, <1>5, <1>8 DEF Waits
<1>9. CASE ~s.connection_context /\ ~(s.online \/ AlwaysDispatch)
  BY <1>1, <1>3, <1>5, <1>9 DEF Waits
<1> QED BY <1>7, <1>8, <1>9

(* The reconnection timer may be stopped at any time.                    *)
LEMMA TimerOff ==
  ASSUME NEW s, Core(s)
  PROVE  LET t == [s EXCEPT !.reconnect_timer = FALSE] IN
         /\ Core(t) /\ Others(s, t, {"reconnect_timer"}) /\ ~t.reconnect_timer
<1> DEFINE t == [s EXCEPT !.reconnect_timer = FALSE]
<1>1. Others(s, t, {"reconnect_timer"}) /\ t.reconnect_timer = FALSE
  BY OthersOne, TypedIsAccount, FieldNames DEF Core
<1>2. Typed(t)
  BY TypedOne, FieldNames, FieldTypes DEF Core
<1> HIDE DEF t
<1>3. /\ t.loaded = s.loaded /\ t.valid = s.valid /\ t.conn_status = s.conn_status
      /\ t.connection_context = s.connection_context /\ t.connection = s.connection
      /\ t.tp_conn = s.tp_conn /\ t.tasks_before_connect = s.tasks_before_connect
      /\ t.probation_timer = s.probation_timer
      /\ t.has_presence_if = s.has_presence_if
      /\ t.recognized_presences = s.recognized_presences
      /\ t.requested = s.requested /\ t.tp = s.tp
  BY <1>1 DEF Others, Fields
<1>4. Attempts(t)
  BY <1>1, <1>3 DEF Core, Attempts
<1>5. InUse(t) /\ Replies(t) /\ Histories(t) /\ Presences(t)
  BY <1>3 DEF Core, InUse, Current, Replies, Histories, Presences
<1>6. Core(t)
  BY <1>2, <1>4, <1>5 DEF Core
<1> QED BY <1>1, <1>6 DEF t

(* _mcd_connection_attempt keeps Core and Waits: what ReconnectTimer,    *)
(* SetPresence and the account start with.                               *)
LEMMA AttemptCore ==
  ASSUME NEW s, Core(s), s.tp_conn = None, s.loaded
  PROVE  LET t == Attempt(s) IN
         /\ Core(t) /\ Others(s, t, Begun) /\ (Waits(s) => Waits(t))
<1> DEFINE a == [s EXCEPT !.reconnect_timer = FALSE]
<1>1. Core(a) /\ Others(s, a, {"reconnect_timer"}) /\ ~a.reconnect_timer
  BY TimerOff
<1>2. Attempt(s) = IF s.conn_status = "DISCONNECTED" THEN ConnectionBegin(a) ELSE a
  BY DEF Attempt
<1> HIDE DEF a
<1>3. /\ a.tp_conn = None /\ a.requested = s.requested /\ a.loaded
      /\ a.connection_context = s.connection_context
      /\ a.waiting_for_connectivity = s.waiting_for_connectivity
      /\ Others(s, a, Begun)
  BY <1>1 DEF Others, Fields, Begun
<1>4. CASE s.conn_status = "DISCONNECTED"
  <2>1. a.requested = 0
    BY <1>3, <1>4 DEF Core, Attempts
  <2> DEFINE t == ConnectionBegin(a)
  <2>2. Core(t) /\ Others(a, t, Begun) /\ (Waits(a) => Waits(t))
    BY <1>1, <1>3, <2>1, BeginCore
  <2> HIDE DEF t
  <2>3. Others(s, t, Begun)
    BY <1>3, <2>2 DEF Others
  <2> QED BY <1>2, <1>3, <1>4, <2>2, <2>3 DEF t, Waits
<1>5. CASE s.conn_status # "DISCONNECTED"
  BY <1>1, <1>2, <1>3, <1>5 DEF Waits
<1> QED BY <1>4, <1>5

(* One TpConnection is updated.                                          *)
LEMMA TpUpdate ==
  ASSUME NEW s, Typed(s), NEW c \in Tp, NEW u \in TpType
  PROVE  LET t == [s EXCEPT !.tp = [s.tp EXCEPT ![c] = u]] IN
         /\ Typed(t) /\ Others(s, t, {"tp"})
         /\ t.tp[c] = u /\ \A d \in Tp \ {c} : t.tp[d] = s.tp[d]
<1> DEFINE p == [s.tp EXCEPT ![c] = u]
           t == [s EXCEPT !.tp = p]
<1>1. s.tp \in [Tp -> TpType]
  BY TypedFields
<1>2. p \in [Tp -> TpType] /\ p[c] = u /\ \A d \in Tp \ {c} : p[d] = s.tp[d]
  BY <1>1
<1> HIDE DEF p
<1>3. Typed(t)
  BY <1>2, TypedOne, FieldNames, FieldTypes
<1>4. Others(s, t, {"tp"}) /\ t["tp"] = p
  BY OthersOne, TypedIsAccount, FieldNames
<1> HIDE DEF t
<1>5. /\ Typed(t) /\ Others(s, t, {"tp"})
      /\ t.tp[c] = u /\ \A d \in Tp \ {c} : t.tp[d] = s.tp[d]
  BY <1>2, <1>3, <1>4
<1> QED BY <1>5 DEF t, p

(* The same, for a record that has a name.                               *)
LEMMA TpUpdated ==
  ASSUME NEW s, Typed(s), NEW c \in Tp, NEW u \in TpType,
         NEW t, t = [s EXCEPT !.tp = [s.tp EXCEPT ![c] = u]]
  PROVE  /\ Typed(t) /\ Others(s, t, {"tp"})
         /\ t.tp[c] = u /\ \A d \in Tp \ {c} : t.tp[d] = s.tp[d]
  BY TpUpdate

(* Core is kept when neither its status nor its pending calls nor its    *)
(* history change.                                                       *)
LEMMA TpCore ==
  ASSUME NEW s, Core(s), NEW c \in Tp, s.tp[c].status # "unused", NEW u \in TpType,
         u.status = s.tp[c].status, u.pending = s.tp[c].pending, u.seen = s.tp[c].seen,
         s.tp[c].disconnect_called => u.disconnect_called
  PROVE  Core([s EXCEPT !.tp = [s.tp EXCEPT ![c] = u]])
<1> DEFINE t == [s EXCEPT !.tp = [s.tp EXCEPT ![c] = u]]
<1>1. Typed(t)
  BY TpUpdate DEF Core
<1>2. Others(s, t, {"tp"}) /\ t.tp[c] = u /\ \A d \in Tp \ {c} : t.tp[d] = s.tp[d]
  BY TpUpdate DEF Core
<1> HIDE DEF t
<1>3. /\ t.loaded = s.loaded /\ t.valid = s.valid /\ t.conn_status = s.conn_status
      /\ t.connection_context = s.connection_context /\ t.connection = s.connection
      /\ t.tp_conn = s.tp_conn /\ t.tasks_before_connect = s.tasks_before_connect
      /\ t.reconnect_timer = s.reconnect_timer
      /\ t.probation_timer = s.probation_timer
      /\ t.has_presence_if = s.has_presence_if
      /\ t.recognized_presences = s.recognized_presences
      /\ t.requested = s.requested
  BY <1>2 DEF Others, Fields
<1>4. \A d \in Tp :
        /\ t.tp[d].status = s.tp[d].status /\ t.tp[d].pending = s.tp[d].pending
        /\ t.tp[d].seen = s.tp[d].seen
        /\ s.tp[d].disconnect_called => t.tp[d].disconnect_called
        /\ t.tp[d].status = "unused" => t.tp[d] = s.tp[d]
  BY <1>2
<1>5. s.tp_conn \in Tp \cup {None}
  BY TypedFields DEF Core
<1>6. Attempts(t)
  BY <1>3 DEF Core, Attempts
<1>7. InUse(t)
  BY <1>3, <1>4, <1>5 DEF Core, InUse, Current
<1>8. Replies(t)
  BY <1>3, <1>4 DEF Core, Replies
<1>9. Histories(t)
  BY <1>3, <1>4 DEF Core, Histories
<1>10. Presences(t)
  BY <1>3, <1>4 DEF Core, Presences
<1> QED BY <1>1, <1>6, <1>7, <1>8, <1>9, <1>10 DEF Core, t

---------------------------------------------------------------------------
(* Presences: setting, requesting, connecting with them                  *)

(* The types of what is known of a TpConnection.                         *)
LEMMA CurrentType ==
  ASSUME NEW s, Typed(s)
  PROVE  /\ s.tp_conn \in Tp \cup {None}
         /\ \A c \in Tp :
              /\ s.tp[c] \in TpType
              /\ s.tp[c].told \in Presence \cup {None} /\ s.tp[c].pending \subseteq Call
              /\ s.tp[c].disconnect_called \in BOOLEAN
              /\ \A p \in Presence : [s.tp[c] EXCEPT !.told = p] \in TpType
              /\ [s.tp[c] EXCEPT !.disconnect_called = TRUE] \in TpType
              /\ [s.tp[c] EXCEPT !.watched = TRUE] \in TpType
              /\ [s.tp[c] EXCEPT !.connect_called = TRUE] \in TpType
<1>1. s.tp_conn \in Tp \cup {None} /\ s.tp \in [Tp -> TpType]
  BY TypedFields
<1>2. \A c \in Tp : s.tp[c] \in TpType
  BY <1>1
<1>3. \A u \in TpType :
        /\ u.told \in Presence \cup {None} /\ u.pending \subseteq Call
        /\ u.disconnect_called \in BOOLEAN
        /\ \A p \in Presence : [u EXCEPT !.told = p] \in TpType
        /\ [u EXCEPT !.disconnect_called = TRUE] \in TpType
        /\ [u EXCEPT !.watched = TRUE] \in TpType
        /\ [u EXCEPT !.connect_called = TRUE] \in TpType
  BY DEF TpType
<1> QED BY <1>1, <1>2, <1>3

(* The TpConnection in use is a name in use.                             *)
LEMMA CurrentLives ==
  ASSUME NEW s, Core(s), s.tp_conn # None
  PROVE  s.tp_conn \in Tp /\ s.tp[s.tp_conn].status \notin {"unused", "gone"}
  BY CurrentType DEF Core, InUse, Current

(* What MC notes of a TpConnection when it calls it.                     *)
Connecteds == {"told", "watched", "connect_called", "disconnect_called"}

(* Such a note keeps Core.                                               *)
LEMMA TpField ==
  ASSUME NEW s, Core(s), NEW c \in Tp, s.tp[c].status # "unused",
         NEW f \in Connecteds, NEW v, [s.tp[c] EXCEPT ![f] = v] \in TpType,
         f = "disconnect_called" => v = TRUE
  PROVE  LET t == [s EXCEPT !.tp = [s.tp EXCEPT ![c] = [s.tp[c] EXCEPT ![f] = v]]] IN
         /\ Core(t) /\ Others(s, t, {"tp"})
         /\ t.tp[c][f] = v /\ (f # "told" => t.tp[c].told = s.tp[c].told)
         /\ \A d \in Tp \ {c} : t.tp[d] = s.tp[d]
<1> DEFINE u == [s.tp[c] EXCEPT ![f] = v]
           t == [s EXCEPT !.tp = [s.tp EXCEPT ![c] = u]]
<1>0. s.tp[c] \in TpType
  BY CurrentType DEF Core
<1>1. /\ u.status = s.tp[c].status /\ u.pending = s.tp[c].pending /\ u.seen = s.tp[c].seen
      /\ s.tp[c].disconnect_called => u.disconnect_called
      /\ u[f] = v /\ (f # "told" => u.told = s.tp[c].told)
  BY <1>0 DEF Connecteds, TpType
<1> HIDE DEF u
<1>2. u \in TpType
  BY DEF u
<1>3. Core(t)
  BY <1>1, <1>2, TpCore
<1>4. Others(s, t, {"tp"}) /\ t.tp[c] = u /\ \A d \in Tp \ {c} : t.tp[d] = s.tp[d]
  BY <1>2, TpUpdate DEF Core
<1> HIDE DEF t
<1>5. /\ Core(t) /\ Others(s, t, {"tp"})
      /\ t.tp[c][f] = v /\ (f # "told" => t.tp[c].told = s.tp[c].told)
      /\ \A d \in Tp \ {c} : t.tp[d] = s.tp[d]
  BY <1>1, <1>3, <1>4
<1> QED BY <1>5 DEF t, u

(* _mcd_connection_call_disconnect keeps Core.                           *)
LEMMA CallDisconnectCore ==
  ASSUME NEW s, Core(s)
  PROVE  LET t == CallDisconnect(s) IN Core(t) /\ Others(s, t, {"tp"})
<1> DEFINE c == s.tp_conn
           t == [s EXCEPT !.tp = [s.tp EXCEPT ![c] = [s.tp[c] EXCEPT !["disconnect_called"] = TRUE]]]
<1>1. CallDisconnect(s) = IF s.tp_conn = None \/ Current(s).status \in {"gone", "new"} THEN s ELSE t
  BY DEF CallDisconnect
<1>2. Others(s, s, {"tp"})
  BY DEF Others
<1>3. CASE s.tp_conn # None
  <2>1. c \in Tp /\ s.tp[c].status # "unused"
    BY <1>3, CurrentLives
  <2>2. [s.tp[c] EXCEPT !["disconnect_called"] = TRUE] \in TpType
    BY <2>1, CurrentType DEF Core
  <2>3. Core(t) /\ Others(s, t, {"tp"})
    <3> HIDE DEF c
    <3> QED BY <2>1, <2>2, TpField DEF Connecteds
  <2> HIDE DEF t, c
  <2> QED BY <1>1, <1>2, <2>3
<1> QED BY <1>1, <1>2, <1>3

(* _mcd_connection_set_presence keeps Core and Waits, and the server is  *)
(* told if it can be.                                                    *)
LEMMA SetPresenceCore ==
  ASSUME NEW s, Core(s), s.loaded, NEW p \in Presence
  PROVE  LET t == SetPresence(s, p) IN
         /\ Core(t) /\ (Waits(s) => Waits(t)) /\ Others(s, t, Begun \cup {"tp"})
         /\ s.tp_conn # None =>
              /\ Others(s, t, {"tp"})
              /\ t.recognized_presences => Current(t).told = p
<1> DEFINE c == s.tp_conn
           t == [s EXCEPT !.tp = [s.tp EXCEPT ![c] = [s.tp[c] EXCEPT !["told"] = p]]]
           r == SetPresence(s, p)
<1>1. r = IF s.tp_conn = None THEN Attempt(s)
          ELSE IF s.has_presence_if /\ s.recognized_presences THEN t ELSE s
  BY DEF SetPresence
<1>2. Others(s, s, {"tp"}) /\ Others(s, s, Begun \cup {"tp"})
  BY DEF Others
<1>3. CASE s.tp_conn = None
  <2> DEFINE a == Attempt(s)
  <2>1. Core(a) /\ Others(s, a, Begun) /\ (Waits(s) => Waits(a))
    BY <1>3, AttemptCore
  <2> HIDE DEF a
  <2>2. Others(s, a, Begun \cup {"tp"})
    BY <2>1 DEF Others
  <2> HIDE DEF t, c, r
  <2>3. r = a
    BY <1>1, <1>3 DEF a
  <2>4. /\ Core(r) /\ (Waits(s) => Waits(r)) /\ Others(s, r, Begun \cup {"tp"})
    BY <2>1, <2>2, <2>3
  <2> QED BY <1>3, <2>4 DEF r
<1>4. CASE s.tp_conn # None /\ s.recognized_presences
  <2>0. s.has_presence_if
    BY <1>4 DEF Core, Presences
  <2>1. c \in Tp /\ s.tp[c].status # "unused"
    BY <1>4, CurrentLives
  <2>2. [s.tp[c] EXCEPT !["told"] = p] \in TpType
    BY <2>1, CurrentType DEF Core
  <2>3. Core(t) /\ Others(s, t, {"tp"}) /\ t.tp[c]["told"] = p
    <3> HIDE DEF c
    <3>0. "told" \in Connecteds /\ "told" # "disconnect_called"
      BY DEF Connecteds
    <3>1. Core(t)
      BY <2>1, <2>2, <3>0, TpField
    <3>2. Others(s, t, {"tp"})
      BY <2>1, <2>2, <3>0, TpField
    <3>3. t.tp[c]["told"] = p
      <4> DEFINE u == [s.tp[c] EXCEPT !["told"] = p]
      <4>0. s.tp[c] \in TpType /\ Typed(s)
        BY <2>1, CurrentType DEF Core
      <4>1. u["told"] = p
        BY <4>0 DEF TpType
      <4>3. u \in TpType
        BY <2>2
      <4> HIDE DEF u
      <4>4. [s EXCEPT !.tp = [s.tp EXCEPT ![c] = u]].tp[c] = u
        <5>1. s.tp \in [Tp -> TpType] /\ IsAccount(s)
          BY <4>0, TypedFields, TypedIsAccount
        <5> QED BY <2>1, <5>1 DEF IsAccount, Fields
      <4>2. t.tp[c] = u
        BY <4>4 DEF u
      <4> QED BY <4>1, <4>2
    <3> QED BY <3>1, <3>2, <3>3
  <2> HIDE DEF t, r
  <2>4. r = t
    BY <1>1, <1>4, <2>0
  <2>5. /\ t.tp_conn = c /\ t.connection_context = s.connection_context
        /\ t.waiting_for_connectivity = s.waiting_for_connectivity
    BY <2>3 DEF Others, Fields
  <2>6. Others(s, t, Begun \cup {"tp"})
    BY <2>3 DEF Others
  <2>7. /\ Core(r) /\ (Waits(s) => Waits(r)) /\ Others(s, r, Begun \cup {"tp"})
        /\ Others(s, r, {"tp"}) /\ Current(r).told = p
    BY <2>3, <2>4, <2>5, <2>6 DEF Waits, Current
  <2> QED BY <2>7 DEF r
<1>5. CASE s.tp_conn # None /\ ~s.recognized_presences
  <2> HIDE DEF t, c, r
  <2>1. r = s
    BY <1>1, <1>5
  <2>2. /\ Core(r) /\ (Waits(s) => Waits(r)) /\ Others(s, r, Begun \cup {"tp"})
        /\ Others(s, r, {"tp"}) /\ ~r.recognized_presences
    BY <1>2, <1>5, <2>1
  <2> QED BY <2>2 DEF r
<1>6. s.recognized_presences \in BOOLEAN
  BY TypedFields DEF Core
<1> QED BY <1>3, <1>4, <1>5, <1>6

(* The fields that a request for a presence writes.                      *)
Asked ==
  Begun \cup {"tp", "abort_requested"}

(* _mcd_connection_request_presence keeps Core and Waits, asks for no    *)
(* Connection to go offline, and tells the server.                       *)
LEMMA RequestPresenceCore ==
  ASSUME NEW s, Core(s), s.loaded, NEW p \in Presence
  PROVE  LET t == RequestPresence(s, p) IN
         /\ Core(t) /\ (Waits(s) => Waits(t)) /\ Others(s, t, Asked)
         /\ p = "offline" => t.requested = s.requested
         /\ p # "offline" /\ s.tp_conn # None /\ t.recognized_presences => Current(t).told = p
<1> DEFINE a == CallDisconnect(s)
           b == [a EXCEPT !.abort_requested = TRUE]
           o == [b EXCEPT !.reconnect_timer = FALSE]
           n == SetPresence(s, p)
           r == RequestPresence(s, p)
<1>1. r = IF p = "offline" THEN o ELSE n
  BY DEF RequestPresence
<1>2. Core(a) /\ Others(s, a, {"tp"})
  BY CallDisconnectCore
<1>3. Core(n) /\ (Waits(s) => Waits(n)) /\ Others(s, n, Begun \cup {"tp"})
  BY SetPresenceCore
<1>4. s.tp_conn # None /\ n.recognized_presences => Current(n).told = p
  BY SetPresenceCore
<1> HIDE DEF a, n, r
<1>5. Core(b) /\ Others(a, b, {"abort_requested"})
  <2>1. Others(a, b, {"abort_requested"}) /\ Typed(b)
    BY <1>2, OthersOne, TypedIsAccount, TypedOne, FieldNames, FieldTypes DEF Core
  <2>2. Others(a, b, Free)
    BY <2>1 DEF Others, Free
  <2> HIDE DEF b
  <2> QED BY <1>2, <2>1, <2>2, CoreFrame
<1> HIDE DEF b
<1>6. Core(o) /\ Others(b, o, {"reconnect_timer"})
  BY <1>5, TimerOff
<1> HIDE DEF o
<1>7. Others(s, o, {"tp", "abort_requested", "reconnect_timer"})
  BY <1>2, <1>5, <1>6 DEF Others
<1>8. Others(s, o, Asked)
  BY <1>7 DEF Others, Asked, Begun
<1>9. /\ o.requested = s.requested /\ o.connection_context = s.connection_context
      /\ o.waiting_for_connectivity = s.waiting_for_connectivity
  BY <1>7 DEF Others, Fields
<1>10. Others(s, n, Asked)
  BY <1>3 DEF Others, Asked
<1>11. CASE p = "offline"
  <2>1. r = o
    BY <1>1, <1>11
  <2>2. Core(r) /\ (Waits(s) => Waits(r)) /\ Others(s, r, Asked) /\ r.requested = s.requested
    BY <1>6, <1>8, <1>9, <2>1 DEF Waits
  <2> QED BY <1>11, <2>2 DEF r
<1>12. CASE p # "offline"
  <2>1. r = n
    BY <1>1, <1>12
  <2>2. /\ Core(r) /\ (Waits(s) => Waits(r)) /\ Others(s, r, Asked)
        /\ s.tp_conn # None /\ r.recognized_presences => Current(r).told = p
    BY <1>3, <1>4, <1>10, <2>1
  <2> QED BY <1>12, <2>2 DEF r
<1> QED BY <1>11, <1>12

(* One assignment to a free field.                                       *)
LEMMA FreeOne ==
  ASSUME NEW s, Core(s), NEW f \in Free, NEW v \in FieldType[f]
  PROVE  LET t == [s EXCEPT ![f] = v] IN
         Core(t) /\ Others(s, t, {f}) /\ t[f] = v
<1> DEFINE t == [s EXCEPT ![f] = v]
<1>0. f \in Fields
  BY DEF Free, Fields
<1>1. Others(s, t, {f}) /\ Typed(t) /\ t[f] = v
  BY <1>0, OthersOne, TypedIsAccount, TypedOne DEF Core
<1>2. Others(s, t, Free)
  BY <1>1 DEF Others
<1> HIDE DEF t
<1>3. Core(t)
  BY <1>1, <1>2, CoreFrame
<1> QED BY <1>1, <1>3 DEF t

(* The fields that a wish to connect writes.                             *)
Wished == Asked \cup {"req_presence"}

(* What the functions that connect with the automatic presence do: they  *)
(* keep Core and Waits, do not take the account offline, and ask for a   *)
(* Connection only for an account that is enabled and valid.             *)
Wish(s, t) ==
  /\ Core(t) /\ (Waits(s) => Waits(t))
  /\ Others(s, t, Wished)
  /\ s.req_presence # "offline" => t.req_presence # "offline"
  /\ t.requested > s.requested =>
       t.enabled /\ t.valid /\ t.req_presence # "offline"

(* An early return is a wish.                                            *)
LEMMA WishSelf ==
  ASSUME NEW s, Core(s) PROVE Wish(s, s)
  BY TypedFields DEF Wish, Others, Core

(* The settings are left alone by it.                                    *)
LEMMA WishSame ==
  ASSUME NEW s, NEW t, Wish(s, t)
  PROVE  /\ t.loaded = s.loaded /\ t.enabled = s.enabled /\ t.valid = s.valid
         /\ t.connect_automatically = s.connect_automatically /\ t.removed = s.removed
         /\ t.reply = s.reply /\ t.online = s.online /\ t.registry_ready = s.registry_ready
  BY DEF Wish, Others, Wished, Asked, Begun, Fields

(* Two wishes in turn are a wish.                                        *)
LEMMA WishTrans ==
  ASSUME NEW s, NEW t, NEW u, Core(s), Wish(s, t), Wish(t, u)
  PROVE  Wish(s, u)
<1>1. t.enabled = u.enabled /\ t.valid = u.valid
  BY WishSame
<1>2. s.requested \in Nat /\ t.requested \in Nat /\ u.requested \in Nat
  BY TypedFields DEF Core, Wish
<1>3. Others(s, u, Wished)
  BY DEF Wish, Others
<1> QED BY <1>1, <1>2, <1>3 DEF Wish

(* mcd_account_request_presence_int: the presence is noted and told      *)
(* (Told), even if it was not told before.                               *)
LEMMA RequestPresenceIntCore ==
  ASSUME NEW s, Core(s), NEW p \in Presence
  PROVE  LET t == RequestPresenceInt(s, p) IN
         /\ Core(t) /\ (Waits(s) => Waits(t)) /\ Others(s, t, Wished)
         /\ Told(t) /\ t.req_presence = p
         /\ t.requested > s.requested => t.enabled /\ t.valid /\ p # "offline"
<1> DEFINE t == [s EXCEPT !.req_presence = p]
           a == RequestPresence(t, p)
           b == ConnectionBegin(t)
           r == RequestPresenceInt(s, p)
<1>1. r = IF p # "offline" /\ ~(s.enabled /\ s.valid) THEN t
          ELSE IF s.connection THEN a
          ELSE IF p # "offline" THEN b ELSE t
  BY DEF RequestPresenceInt
<1>2. Core(t) /\ Others(s, t, {"req_presence"}) /\ t["req_presence"] = p
  <2>1. "req_presence" \in Free /\ p \in FieldType["req_presence"]
    BY FieldTypes DEF Free
  <2> QED BY <2>1, FreeOne
<1> HIDE DEF t
<1>3. /\ t.loaded = s.loaded /\ t.enabled = s.enabled /\ t.valid = s.valid
      /\ t.connection = s.connection /\ t.tp_conn = s.tp_conn /\ t.requested = s.requested
      /\ t.reconnect_timer = s.reconnect_timer
      /\ t.connection_context = s.connection_context
      /\ t.waiting_for_connectivity = s.waiting_for_connectivity
      /\ t.req_presence = p /\ Others(s, t, Wished)
  BY <1>2 DEF Others, Fields, Wished
<1>4. /\ s.connection \in BOOLEAN /\ s.loaded \in BOOLEAN
      /\ s.enabled \in BOOLEAN /\ s.valid \in BOOLEAN
      /\ s.requested \in Nat
  BY TypedFields DEF Core
<1>5. CASE p # "offline" /\ ~(s.enabled /\ s.valid)
  <2>1. r = t
    BY <1>1, <1>5
  <2>2. Told(t)
    BY <1>3, <1>5 DEF Told
  <2> HIDE DEF r
  <2>3. /\ Core(r) /\ (Waits(s) => Waits(r)) /\ Others(s, r, Wished)
        /\ Told(r) /\ r.req_presence = p /\ r.requested = s.requested
    BY <1>2, <1>3, <2>1, <2>2 DEF Waits
  <2> QED BY <1>4, <2>3 DEF r
<1>6. CASE ~(p # "offline" /\ ~(s.enabled /\ s.valid)) /\ s.connection
  <2> HIDE DEF a
  <2>1. r = a
    BY <1>1, <1>6
  <2>2. t.loaded
    BY <1>3, <1>4, <1>6 DEF Core, Attempts
  <2>3. Core(a) /\ (Waits(t) => Waits(a)) /\ Others(t, a, Asked)
    BY <1>2, <2>2, RequestPresenceCore DEF a
  <2>4. /\ p = "offline" => a.requested = t.requested
        /\ p # "offline" /\ t.tp_conn # None /\ a.recognized_presences => Current(a).told = p
    BY <1>2, <2>2, RequestPresenceCore DEF a
  <2>5. /\ a.enabled = s.enabled /\ a.valid = s.valid /\ a.req_presence = p
        /\ a.tp_conn = s.tp_conn
    BY <1>3, <2>3 DEF Others, Asked, Begun, Fields
  <2>6. Told(a)
    <3>1. CASE p = "offline"
      BY <2>5, <3>1 DEF Told
    <3>2. CASE p # "offline" /\ s.tp_conn # None
      BY <1>3, <2>4, <2>5, <3>2 DEF Told
    <3>3. CASE s.tp_conn = None
      BY <2>3, <2>5, <3>3, SilentTold DEF Core
    <3> QED BY <3>1, <3>2, <3>3
  <2>7. Others(s, a, Wished)
    BY <1>3, <2>3 DEF Others, Wished
  <2> HIDE DEF r
  <2>8. /\ Core(r) /\ (Waits(s) => Waits(r)) /\ Others(s, r, Wished)
        /\ Told(r) /\ r.req_presence = p
    BY <1>3, <2>1, <2>3, <2>5, <2>6, <2>7 DEF Waits
  <2>9. r.requested > s.requested => r.enabled /\ r.valid /\ p # "offline"
    BY <1>3, <1>4, <1>6, <2>1, <2>4, <2>5
  <2> QED BY <2>8, <2>9 DEF r
<1>7. CASE ~(p # "offline" /\ ~(s.enabled /\ s.valid)) /\ ~s.connection /\ p # "offline"
  <2> HIDE DEF b
  <2>1. r = b
    BY <1>1, <1>7
  <2>2. t.loaded /\ t.tp_conn = None /\ t.requested = 0 /\ ~t.reconnect_timer
    BY <1>3, <1>4, <1>7 DEF Core, Attempts
  <2>3. Core(b) /\ (Waits(t) => Waits(b)) /\ Others(t, b, Begun)
    BY <1>2, <2>2, BeginCore DEF b
  <2>5. /\ b.enabled = s.enabled /\ b.valid = s.valid /\ b.req_presence = p
        /\ b.tp_conn = None
    BY <1>3, <2>2, <2>3 DEF Others, Begun, Fields
  <2>6. Told(b)
    BY <2>3, <2>5, SilentTold DEF Core
  <2>7. Others(s, b, Wished)
    BY <1>3, <2>3 DEF Others, Wished, Asked
  <2> HIDE DEF r
  <2>8. /\ Core(r) /\ (Waits(s) => Waits(r)) /\ Others(s, r, Wished)
        /\ Told(r) /\ r.req_presence = p
    BY <1>3, <2>1, <2>3, <2>5, <2>6, <2>7 DEF Waits
  <2>9. r.enabled /\ r.valid /\ p # "offline"
    BY <1>7, <2>1, <2>5
  <2> QED BY <2>8, <2>9 DEF r
<1>8. CASE ~s.connection /\ p = "offline"
  <2>1. r = t
    BY <1>1, <1>8
  <2>2. Told(t)
    BY <1>3, <1>8 DEF Told
  <2> HIDE DEF r
  <2>3. /\ Core(r) /\ (Waits(s) => Waits(r)) /\ Others(s, r, Wished)
        /\ Told(r) /\ r.req_presence = p /\ r.requested = s.requested
    BY <1>2, <1>3, <2>1, <2>2 DEF Waits
  <2> QED BY <1>4, <2>3 DEF r
<1> QED BY <1>4, <1>5, <1>6, <1>7, <1>8

(* It is a wish unless it takes the account offline.                     *)
LEMMA RequestWish ==
  ASSUME NEW s, Core(s), NEW p \in Presence, s.req_presence # "offline" => p # "offline"
  PROVE  Wish(s, RequestPresenceInt(s, p)) /\ Told(RequestPresenceInt(s, p))
<1> DEFINE t == RequestPresenceInt(s, p)
<1>1. /\ Core(t) /\ (Waits(s) => Waits(t)) /\ Others(s, t, Wished)
      /\ Told(t) /\ t.req_presence = p
      /\ t.requested > s.requested => t.enabled /\ t.valid /\ p # "offline"
  BY RequestPresenceIntCore
<1> HIDE DEF t
<1>2. Wish(s, t) /\ Told(t)
  BY <1>1 DEF Wish
<1> QED BY <1>2 DEF t

(* _mcd_account_connect_with_auto_presence.                              *)
LEMMA AutoWish ==
  ASSUME NEW s, Core(s)
  PROVE  Wish(s, ConnectWithAutoPresence(s)) /\ Told(ConnectWithAutoPresence(s))
<1> DEFINE p == IF s.req_presence # "offline" THEN s.req_presence ELSE AutomaticPresence
<1>1. p \in Presence /\ p # "offline"
  BY TypedFields, NamesAssumption DEF Core, Presence
<1>2. ConnectWithAutoPresence(s) = RequestPresenceInt(s, p)
  BY DEF ConnectWithAutoPresence
<1> HIDE DEF p
<1> QED BY <1>1, <1>2, RequestWish

(* _mcd_account_maybe_autoconnect.                                       *)
LEMMA MaybeWish ==
  ASSUME NEW s, Core(s), Told(s)
  PROVE  Wish(s, MaybeAutoconnect(s)) /\ Told(MaybeAutoconnect(s))
<1>1. MaybeAutoconnect(s) \in {s, ConnectWithAutoPresence(s)}
  BY DEF MaybeAutoconnect
<1> QED BY <1>1, AutoWish, WishSelf

---------------------------------------------------------------------------
(* The end: releasing the TpConnection, closing and aborting the         *)
(* McdConnection                                                         *)

(* What is left of Core when the TpConnection in use may be gone: the    *)
(* state in which it is let go.                                          *)
Ended(s) ==
  /\ Typed(s) /\ Histories(s)
  /\ ~s.loaded => ~s.valid /\ ~s.connection_context
  /\ s.tp_conn # None => Current(s).status # "unused"

(* Core is stronger.                                                     *)
LEMMA CoreEnded ==
  ASSUME NEW s, Core(s) PROVE Ended(s)
  BY DEF Core, Attempts, InUse, Ended

(* The fields that letting go of the TpConnection writes.                *)
Dropped == {"tp", "probation_timer", "tp_conn", "recognized_presences", "dispatching_started"}

(* What happens to the TpConnections: the one in use is told to          *)
(* disconnect unless it is gone or not known to have begun; nothing is   *)
(* forgotten of the others.                                              *)
LetGo(s, t) ==
  \A d \in Tp :
    /\ t.tp[d].status = s.tp[d].status /\ t.tp[d].pending = s.tp[d].pending
    /\ t.tp[d].seen = s.tp[d].seen
    /\ s.tp[d].disconnect_called => t.tp[d].disconnect_called
    /\ d # s.tp_conn => t.tp[d] = s.tp[d]
    /\ d = s.tp_conn /\ s.tp[d].status \notin {"gone", "new"} => t.tp[d].disconnect_called

(* _mcd_connection_call_disconnect lets go.                              *)
LEMMA CallDisconnectEffect ==
  ASSUME NEW s, Typed(s)
  PROVE  LET t == CallDisconnect(s) IN
         Typed(t) /\ Others(s, t, {"tp"}) /\ LetGo(s, t)
<1> DEFINE c == s.tp_conn
           u == [s.tp[c] EXCEPT !.disconnect_called = TRUE]
           t == [s EXCEPT !.tp = [s.tp EXCEPT ![c] = u]]
           r == CallDisconnect(s)
<1>1. r = IF c = None \/ Current(s).status \in {"gone", "new"} THEN s ELSE t
  BY DEF CallDisconnect
<1>2. Typed(s) /\ Others(s, s, {"tp"}) /\ c \in Tp \cup {None}
  BY CurrentType DEF Others
<1>3. CASE c = None \/ Current(s).status \in {"gone", "new"}
  <2>1. LetGo(s, s)
    BY <1>2, <1>3, NamesApart DEF LetGo, Current
  <2> HIDE DEF r
  <2>2. r = s
    BY <1>1, <1>3
  <2>3. Typed(r) /\ Others(s, r, {"tp"}) /\ LetGo(s, r)
    BY <1>2, <2>1, <2>2
  <2> QED BY <2>3 DEF r
<1>4. CASE ~(c = None \/ Current(s).status \in {"gone", "new"})
  <2>1. c \in Tp /\ s.tp[c] \in TpType
    BY <1>2, <1>4, CurrentType
  <2>2. /\ u \in TpType /\ u.status = s.tp[c].status /\ u.pending = s.tp[c].pending
        /\ u.seen = s.tp[c].seen /\ u.disconnect_called = TRUE
    BY <2>1 DEF TpType
  <2> HIDE DEF u, r, c
  <2>0. t = [s EXCEPT !.tp = [s.tp EXCEPT ![c] = u]]
    OBVIOUS
  <2> HIDE DEF t
  <2>3. Typed(t) /\ Others(s, t, {"tp"})
    BY <2>0, <2>1, <2>2, TpUpdated
  <2>4. t.tp[c] = u /\ \A d \in Tp \ {c} : t.tp[d] = s.tp[d]
    BY <2>0, <2>1, <2>2, TpUpdated
  <2>5. LetGo(s, t)
    BY <2>1, <2>2, <2>4 DEF LetGo, c
  <2>6. r = t
    BY <1>1, <1>4
  <2>7. Typed(r) /\ Others(s, r, {"tp"}) /\ LetGo(s, r)
    BY <2>3, <2>5, <2>6
  <2> QED BY <2>7 DEF r
<1> QED BY <1>3, <1>4

(* So does the rest of the release, which clears what belongs to the     *)
(* TpConnection.                                                         *)
LEMMA DropEffect ==
  ASSUME NEW s, Typed(s)
  PROVE  LET t == DropTpConnection(s) IN
         /\ Typed(t) /\ Others(s, t, Dropped) /\ LetGo(s, t)
         /\ t.tp_conn = None /\ ~t.recognized_presences
         /\ ~t.probation_timer \/ (s.tp_conn = None /\ t.probation_timer = s.probation_timer)
<1> DEFINE a == CallDisconnect(s)
           b == [a EXCEPT !.probation_timer = FALSE, !.tp_conn = None]
           x == [b EXCEPT !.recognized_presences = FALSE, !.dispatching_started = FALSE]
           y == [s EXCEPT !.recognized_presences = FALSE, !.dispatching_started = FALSE]
           r == DropTpConnection(s)
<1>1. r = IF s.tp_conn = None THEN y ELSE x
  BY DEF DropTpConnection
<1>2. Typed(a) /\ Others(s, a, {"tp"}) /\ LetGo(s, a)
  BY CallDisconnectEffect
<1> HIDE DEF a, r
<1>3. FALSE \in BOOLEAN /\ None \in Tp \cup {None}
  OBVIOUS
<1>4. Typed(b)
  BY <1>2, <1>3, TypedTwo, FieldNames, FieldTypes
<1>5. Others(a, b, {"probation_timer", "tp_conn"}) /\ ~b.probation_timer /\ b.tp_conn = None
  <2>1. Others(a, b, {"probation_timer", "tp_conn"})
    BY <1>2, TypedIsAccount DEF IsAccount, Others
  <2>2. b.probation_timer = FALSE /\ b.tp_conn = None
    BY <1>2, TypedIsAccount DEF IsAccount, Fields
  <2> QED BY <2>1, <2>2
<1> HIDE DEF b
<1>6. \A z : Typed(z) =>
        LET w == [z EXCEPT !.recognized_presences = FALSE, !.dispatching_started = FALSE] IN
        /\ Typed(w) /\ Others(z, w, {"recognized_presences", "dispatching_started"})
        /\ w.recognized_presences = FALSE
  <2> SUFFICES ASSUME NEW z, Typed(z)
        PROVE LET w == [z EXCEPT !.recognized_presences = FALSE, !.dispatching_started = FALSE] IN
        /\ Typed(w) /\ Others(z, w, {"recognized_presences", "dispatching_started"})
        /\ w.recognized_presences = FALSE
    OBVIOUS
  <2> DEFINE w == [z EXCEPT !.recognized_presences = FALSE, !.dispatching_started = FALSE]
  <2>1. Typed(w)
    BY <1>3, TypedTwo, FieldNames, FieldTypes
  <2>2. Others(z, w, {"recognized_presences", "dispatching_started"})
    BY TypedIsAccount DEF IsAccount, Others
  <2>3. w.recognized_presences = FALSE
    BY TypedIsAccount DEF IsAccount, Fields
  <2> QED BY <2>1, <2>2, <2>3
<1>7. /\ Typed(x) /\ Others(b, x, {"recognized_presences", "dispatching_started"})
      /\ x.recognized_presences = FALSE
  BY <1>4, <1>6
<1>8. /\ Typed(y) /\ Others(s, y, {"recognized_presences", "dispatching_started"})
      /\ y.recognized_presences = FALSE
  BY <1>6
<1> HIDE DEF x, y
<1>9. CASE s.tp_conn = None
  <2>1. y.tp_conn = None /\ y.tp = s.tp /\ y.probation_timer = s.probation_timer
    BY <1>8, <1>9 DEF Others, Fields
  <2>2. LetGo(s, y)
    BY <1>9, <2>1, NamesApart DEF LetGo
  <2>3. Others(s, y, Dropped)
    BY <1>8 DEF Others, Dropped
  <2>4. /\ Typed(r) /\ Others(s, r, Dropped) /\ LetGo(s, r)
        /\ r.tp_conn = None /\ ~r.recognized_presences
        /\ r.probation_timer = s.probation_timer
    BY <1>1, <1>8, <1>9, <2>1, <2>2, <2>3
  <2> QED BY <1>9, <2>4 DEF r
<1>10. CASE s.tp_conn # None
  <2>1. x.tp_conn = None /\ x.tp = a.tp /\ ~x.probation_timer
    BY <1>5, <1>7 DEF Others, Fields
  <2>2. LetGo(s, x)
    BY <1>2, <2>1 DEF LetGo
  <2>3. Others(s, x, Dropped)
    BY <1>2, <1>5, <1>7 DEF Others, Dropped
  <2>4. /\ Typed(r) /\ Others(s, r, Dropped) /\ LetGo(s, r)
        /\ r.tp_conn = None /\ ~r.recognized_presences /\ ~r.probation_timer
    BY <1>1, <1>7, <1>10, <2>1, <2>2, <2>3
  <2> QED BY <2>4 DEF r
<1> QED BY <1>9, <1>10

(* The fields that the release writes with its signal.                   *)
Released == Dropped \cup {"conn_status", "reply"}

(* _mcd_connection_release_tp_connection: DISCONNECTED, and nothing of   *)
(* the TpConnection is left.                                             *)
LEMMA ReleaseEffect ==
  ASSUME NEW s, Typed(s)
  PROVE  LET t == Release(s) IN
         /\ Typed(t) /\ Others(s, t, Released) /\ LetGo(s, t)
         /\ t.tp_conn = None /\ ~t.recognized_presences /\ t.conn_status = "DISCONNECTED"
         /\ ~t.probation_timer \/ (s.tp_conn = None /\ t.probation_timer = s.probation_timer)
<1> DEFINE a == SetConnectionStatus(s, "DISCONNECTED")
           r == DropTpConnection(a)
<1>1. Typed(a) /\ a.conn_status = "DISCONNECTED" /\ Others(s, a, {"conn_status", "reply"})
  BY StatusEffect
<1> HIDE DEF a
<1>2. /\ Typed(r) /\ Others(a, r, Dropped) /\ LetGo(a, r)
      /\ r.tp_conn = None /\ ~r.recognized_presences
      /\ ~r.probation_timer \/ (a.tp_conn = None /\ r.probation_timer = a.probation_timer)
  BY <1>1, DropEffect
<1> HIDE DEF r
<1>3. a.tp = s.tp /\ a.tp_conn = s.tp_conn /\ a.probation_timer = s.probation_timer
  BY <1>1 DEF Others, Fields
<1>4. r.conn_status = "DISCONNECTED"
  BY <1>1, <1>2 DEF Others, Dropped, Fields
<1>5. LetGo(s, r)
  BY <1>2, <1>3 DEF LetGo
<1>6. Others(s, r, Released)
  BY <1>1, <1>2 DEF Others, Released
<1>7. r = Release(s)
  BY DEF r, a, Release
<1> QED BY <1>2, <1>3, <1>4, <1>5, <1>6, <1>7

(* After it, no TpConnection seen connecting was merely forgotten.       *)
LEMMA LetGoHistories ==
  ASSUME NEW s, NEW t, Typed(s), Histories(s), LetGo(s, t), t.tp_conn = None,
         s.tp_conn # None => Current(s).status # "unused"
  PROVE  Histories(t)
<1> SUFFICES ASSUME NEW d \in Tp
             PROVE  /\ t.tp[d].status = "unused" => t.tp[d] = UnusedTp
                    /\ t.tp[d].seen => t.tp[d].status \in {"connecting", "connected", "gone"}
                    /\ t.tp[d].seen /\ t.tp_conn # d =>
                         t.tp[d].disconnect_called \/ t.tp[d].status = "gone"
  BY DEF Histories
<1>1. /\ t.tp[d].status = s.tp[d].status /\ t.tp[d].seen = s.tp[d].seen
      /\ s.tp[d].disconnect_called => t.tp[d].disconnect_called
      /\ d # s.tp_conn => t.tp[d] = s.tp[d]
      /\ d = s.tp_conn /\ s.tp[d].status \notin {"gone", "new"} => t.tp[d].disconnect_called
  BY DEF LetGo
<1>2. /\ s.tp[d].status = "unused" => s.tp[d] = UnusedTp
      /\ s.tp[d].seen => s.tp[d].status \in {"connecting", "connected", "gone"}
      /\ s.tp[d].seen /\ s.tp_conn # d =>
           s.tp[d].disconnect_called \/ s.tp[d].status = "gone"
  BY DEF Histories
<1>3. d = s.tp_conn => s.tp[d].status # "unused"
  BY NamesApart DEF Current
<1> QED BY <1>1, <1>2, <1>3

(* It can be followed by the end of the McdConnection.                   *)
LEMMA ReleaseEnded ==
  ASSUME NEW s, Ended(s) PROVE Ended(Release(s))
<1> DEFINE t == Release(s)
<1>1. /\ Typed(t) /\ Others(s, t, Released) /\ LetGo(s, t) /\ t.tp_conn = None
  BY ReleaseEffect DEF Ended
<1> HIDE DEF t
<1>2. t.loaded = s.loaded /\ t.valid = s.valid /\ t.connection_context = s.connection_context
  BY <1>1 DEF Others, Released, Dropped, Fields
<1>3. Histories(t)
  BY <1>1, LetGoHistories DEF Ended
<1>4. Ended(t)
  BY <1>1, <1>2, <1>3 DEF Ended
<1> QED BY <1>4 DEF t

(* The fields of a McdConnection.                                        *)
ConnFields ==
  {"tp_conn", "tasks_before_connect", "reconnect_timer", "reconnect_interval",
   "probation_timer", "probation_drop_count", "abort_requested", "connected",
   "has_presence_if", "recognized_presences", "dispatching_started", "dispatcher_knows",
   "requested"}

(* Those of a new one.                                                   *)
LEMMA NewConnectionFields ==
  /\ DOMAIN NewConnection = ConnFields
  /\ NewConnection.tp_conn = None /\ NewConnection.requested = 0
  /\ NewConnection.reconnect_timer = FALSE /\ NewConnection.probation_timer = FALSE
  /\ NewConnection.recognized_presences = FALSE
  /\ \A f \in ConnFields : NewConnection[f] \in FieldType[f]
<1>1. DOMAIN NewConnection = ConnFields
  BY DEF NewConnection, ConnFields
<1>2. \A f \in ConnFields : NewConnection[f] \in FieldType[f]
  <2>1. /\ NewConnection.tp_conn \in FieldType.tp_conn
        /\ NewConnection.tasks_before_connect \in FieldType.tasks_before_connect
        /\ NewConnection.reconnect_timer \in FieldType.reconnect_timer
        /\ NewConnection.probation_timer \in FieldType.probation_timer
        /\ NewConnection.probation_drop_count \in FieldType.probation_drop_count
    BY FieldTypes DEF NewConnection
  <2>2. NewConnection.reconnect_interval \in FieldType.reconnect_interval
    <3>1. NewConnection.reconnect_interval = InitialReconnectionTime
      BY DEF NewConnection
    <3> QED BY <3>1, FieldTypes, BoundsAreNat
  <2>3. /\ NewConnection.abort_requested \in FieldType.abort_requested
        /\ NewConnection.connected \in FieldType.connected
        /\ NewConnection.has_presence_if \in FieldType.has_presence_if
        /\ NewConnection.recognized_presences \in FieldType.recognized_presences
        /\ NewConnection.dispatching_started \in FieldType.dispatching_started
        /\ NewConnection.dispatcher_knows \in FieldType.dispatcher_knows
        /\ NewConnection.requested \in FieldType.requested
    BY FieldTypes DEF NewConnection
  <2> QED BY <2>1, <2>2, <2>3 DEF ConnFields
<1>3. /\ NewConnection.tp_conn = None /\ NewConnection.requested = 0
      /\ NewConnection.reconnect_timer = FALSE /\ NewConnection.probation_timer = FALSE
      /\ NewConnection.recognized_presences = FALSE
  BY DEF NewConnection
<1> QED BY <1>1, <1>2, <1>3

(* The fields that the end of a McdConnection writes.                    *)
Aborted == ConnFields \cup {"connection", "conn_status", "orphaned", "tp"}

(* mcd_mission_abort and _mcd_connection_dispose: no McdConnection, its  *)
(* calls are orphaned or cancelled.                                      *)
LEMMA AbortEffect ==
  ASSUME NEW s, Typed(s)
  PROVE  LET t == Abort(s)
             d == DropTpConnection(s) IN
         /\ Typed(t) /\ Others(s, t, Aborted)
         /\ t.tp_conn = None /\ t.requested = 0 /\ ~t.reconnect_timer /\ ~t.probation_timer
         /\ ~t.recognized_presences /\ ~t.connection /\ t.conn_status = "DISCONNECTED"
         /\ \A c \in Tp : t.tp[c] = [d.tp[c] EXCEPT !.pending = {}]
<1> DEFINE d == DropTpConnection(s)
           x == [f \in Fields |-> IF f \in ConnFields THEN NewConnection[f] ELSE d[f]]
           p == [c \in Tp |-> [d.tp[c] EXCEPT !.pending = {}]]
           n == x.orphaned + s.requested
           t == [x EXCEPT !.connection = FALSE, !.conn_status = "DISCONNECTED",
                          !.orphaned = n, !.tp = p]
<1>1. Abort(s) = t
  <2>1. DOMAIN s = Fields
    BY TypedIsAccount DEF IsAccount
  <2>2. [f \in DOMAIN s |-> IF f \in DOMAIN NewConnection THEN NewConnection[f] ELSE d[f]] = x
    BY <2>1, NewConnectionFields
  <2> HIDE DEF x
  <2> QED BY <2>2 DEF Abort
<1>2. Typed(d) /\ Others(s, d, Dropped)
  BY DropEffect
<1> HIDE DEF d
<1>3. x = [f \in Fields |-> IF f \in ConnFields THEN NewConnection[f] ELSE d[f]]
  OBVIOUS
<1> HIDE DEF x
<1>4. \A f \in Fields : x[f] \in FieldType[f]
  BY <1>2, <1>3, NewConnectionFields DEF Typed
<1>5. p \in [Tp -> TpType] /\ \A c \in Tp : p[c] = [d.tp[c] EXCEPT !.pending = {}]
  <2>1. \A c \in Tp : d.tp[c] \in TpType
    BY <1>2, CurrentType
  <2>2. \A u \in TpType : [u EXCEPT !.pending = {}] \in TpType
    BY DEF TpType
  <2> QED BY <2>1, <2>2
<1>6. n \in Nat
  BY <1>4, FieldNames, FieldTypes, TypedFields
<1> HIDE DEF p, n
<1>7. /\ IsAccount(t) /\ t.connection = FALSE /\ t.conn_status = "DISCONNECTED"
      /\ t.orphaned = n /\ t.tp = p
  BY <1>3 DEF IsAccount, Fields
<1>8. Others(x, t, {"connection", "conn_status", "orphaned", "tp"})
  BY <1>3 DEF Others
<1> HIDE DEF t
<1>9. Typed(t)
  BY <1>4, <1>5, <1>6, <1>7, <1>8, FieldTypes DEF Typed, Others
<1>10. \A f \in ConnFields : t[f] = NewConnection[f]
  BY <1>3, <1>8 DEF Others, ConnFields, Fields
<1>11. Others(s, t, Aborted)
  <2> SUFFICES ASSUME NEW f \in Fields, f \notin Aborted PROVE t[f] = s[f]
    BY DEF Others
  <2>1. t[f] = x[f]
    BY <1>8 DEF Others, Aborted
  <2>2. x[f] = d[f]
    BY <1>3 DEF Aborted
  <2>3. d[f] = s[f]
    BY <1>2 DEF Others, Aborted, ConnFields, Dropped
  <2> QED BY <2>1, <2>2, <2>3
<1>12. /\ t.tp_conn = None /\ t.requested = 0 /\ ~t.reconnect_timer /\ ~t.probation_timer
       /\ ~t.recognized_presences
  BY <1>10, NewConnectionFields DEF ConnFields
<1> QED BY <1>1, <1>5, <1>7, <1>9, <1>11, <1>12 DEF d

(* Whatever the state of the TpConnection, Core and Told hold after it.  *)
LEMMA AbortCore ==
  ASSUME NEW s, Ended(s)
  PROVE  LET t == Abort(s) IN
         /\ Core(t) /\ Others(s, t, Aborted) /\ Told(t) /\ (Waits(s) => Waits(t))
         /\ t.tp_conn = None /\ t.requested = 0 /\ ~t.reconnect_timer /\ ~t.connection
<1> DEFINE t == Abort(s)
           d == DropTpConnection(s)
<1>1. /\ Typed(t) /\ Others(s, t, Aborted)
      /\ t.tp_conn = None /\ t.requested = 0 /\ ~t.reconnect_timer /\ ~t.probation_timer
      /\ ~t.recognized_presences /\ ~t.connection /\ t.conn_status = "DISCONNECTED"
      /\ \A c \in Tp : t.tp[c] = [d.tp[c] EXCEPT !.pending = {}]
  BY AbortEffect DEF Ended
<1>2. Typed(d) /\ LetGo(s, d) /\ d.tp_conn = None
  BY DropEffect DEF Ended
<1> HIDE DEF t, d
<1>3. Histories(d)
  BY <1>2, LetGoHistories DEF Ended
<1>4. \A c \in Tp :
        /\ t.tp[c].status = d.tp[c].status /\ t.tp[c].pending = {} /\ t.tp[c].seen = d.tp[c].seen
        /\ t.tp[c].disconnect_called = d.tp[c].disconnect_called
        /\ d.tp[c] = UnusedTp => t.tp[c] = UnusedTp
  <2>1. \A u \in TpType : LET v == [u EXCEPT !.pending = {}] IN
          /\ v.status = u.status /\ v.pending = {} /\ v.seen = u.seen
          /\ v.disconnect_called = u.disconnect_called
    BY DEF TpType
  <2>2. [UnusedTp EXCEPT !.pending = {}] = UnusedTp
    <3>1. UnusedTp.pending = {} /\ UnusedTp = [f \in DOMAIN UnusedTp |-> UnusedTp[f]]
      BY DEF UnusedTp
    <3> HIDE DEF UnusedTp
    <3> QED BY <3>1
  <2> QED BY <1>1, <1>2, <2>1, <2>2, CurrentType
<1>5. Histories(t)
  BY <1>1, <1>2, <1>3, <1>4 DEF Histories
<1>6. /\ t.loaded = s.loaded /\ t.valid = s.valid
      /\ t.connection_context = s.connection_context
      /\ t.waiting_for_connectivity = s.waiting_for_connectivity
  BY <1>1 DEF Others, Aborted, ConnFields, Fields
<1>7. Attempts(t)
  BY <1>1, <1>6 DEF Attempts, Ended
<1>8. InUse(t) /\ Replies(t) /\ Presences(t)
  BY <1>1, <1>4 DEF InUse, Replies, Presences
<1>9. Core(t)
  BY <1>1, <1>5, <1>7, <1>8 DEF Core
<1>10. Told(t)
  BY <1>1, <1>7, SilentTold
<1> QED BY <1>1, <1>6, <1>9, <1>10 DEF t, Waits

---------------------------------------------------------------------------
(* The whole invariant, and actions as callbacks                         *)

(* The inductive invariant.                                              *)
Good(s) == Core(s) /\ Told(s) /\ Waits(s)

(* The account is enabled and valid and the user wants to be online.     *)
Wanted(s) == s.enabled /\ s.valid /\ s.req_presence # "offline"

(* A step asks for a Connection only if it is wanted, or if the attempt  *)
(* was waiting for the network or the timer: OnlyWantedConnections of    *)
(* one step.                                                             *)
Asks(s, t) ==
  t.requested > s.requested =>
    Wanted(t) \/ s.waiting_for_connectivity \/ s.reconnect_timer

(* A name that is not in use.                                            *)
LEMMA UnusedFields ==
  /\ UnusedTp \in TpType /\ UnusedTp.status = "unused" /\ UnusedTp.pending = {}
  /\ UnusedTp.seen = FALSE
  BY DEF UnusedTp, TpType

(* Names that nothing refers to may be used again.                       *)
LEMMA RecycleGood ==
  ASSUME NEW s, Good(s)
  PROVE  Good(Recycle(s)) /\ Others(s, Recycle(s), {"tp"})
<1> DEFINE p == [c \in Tp |-> IF Forgotten(s, c) THEN UnusedTp ELSE s.tp[c]]
           t == [s EXCEPT !.tp = p]
<1>1. Recycle(s) = t
  BY DEF Recycle
<1>2. /\ p \in [Tp -> TpType]
      /\ \A c \in Tp : \/ p[c] = s.tp[c]
                       \/ c # s.tp_conn /\ p[c] = UnusedTp
  BY CurrentType, UnusedFields DEF Good, Core, Forgotten
<1> HIDE DEF p
<1>3. Typed(t)
  BY <1>2, TypedOne, FieldNames, FieldTypes DEF Good, Core
<1>4. Others(s, t, {"tp"}) /\ t["tp"] = p
  BY OthersOne, TypedIsAccount, FieldNames DEF Good, Core
<1> HIDE DEF t
<1>5. \A c \in Tp : \/ t.tp[c] = s.tp[c]
                    \/ c # s.tp_conn /\ t.tp[c] = UnusedTp
  BY <1>2, <1>4
<1>6. /\ t.loaded = s.loaded /\ t.valid = s.valid /\ t.conn_status = s.conn_status
      /\ t.connection_context = s.connection_context /\ t.connection = s.connection
      /\ t.tp_conn = s.tp_conn /\ t.tasks_before_connect = s.tasks_before_connect
      /\ t.reconnect_timer = s.reconnect_timer /\ t.probation_timer = s.probation_timer
      /\ t.has_presence_if = s.has_presence_if
      /\ t.recognized_presences = s.recognized_presences
      /\ t.requested = s.requested /\ t.enabled = s.enabled
      /\ t.req_presence = s.req_presence
      /\ t.waiting_for_connectivity = s.waiting_for_connectivity
  BY <1>4 DEF Others, Fields
<1>7. s.tp_conn \in Tp \cup {None}
  BY CurrentType DEF Good, Core
<1>8. s.tp_conn # None => Current(t) = Current(s)
  BY <1>5, <1>6, <1>7 DEF Current
<1>9. Attempts(t)
  BY <1>6 DEF Good, Core, Attempts
<1>10. InUse(t)
  BY <1>6, <1>8 DEF Good, Core, InUse
<1>11. Replies(t)
  BY <1>5, <1>6, UnusedFields DEF Good, Core, Replies
<1>12. Histories(t)
  BY <1>5, <1>6, UnusedFields DEF Good, Core, Histories
<1>13. Presences(t)
  BY <1>5, <1>6, UnusedFields DEF Good, Core, Presences
<1>14. Told(t)
  <2>1. CASE s.tp_conn = None
    BY <1>6, <1>9, <2>1, SilentTold
  <2>2. CASE s.tp_conn # None
    BY <1>6, <1>8, <2>2 DEF Good, Told
  <2> QED BY <2>1, <2>2
<1>15. Waits(t)
  BY <1>6 DEF Good, Waits
<1> QED BY <1>1, <1>3, <1>4, <1>9, <1>10, <1>11, <1>12, <1>13, <1>14, <1>15 DEF Good, Core

(* So that it is enough to look at the callback.                         *)
LEMMA BecomesGood ==
  ASSUME NEW s, Good(s), Becomes(s)
  PROVE  Good(account') /\ Others(s, account', {"tp"})
  BY RecycleGood DEF Becomes

(* The form in which each action uses this.                              *)
LEMMA BecomesResult ==
  ASSUME NEW s, Good(s), Becomes(s), Asks(account, s)
  PROVE  Good(account') /\ Asks(account, account')
<1>1. Good(account') /\ Others(s, account', {"tp"})
  BY BecomesGood
<1>2. /\ account'.requested = s.requested /\ account'.enabled = s.enabled
      /\ account'.valid = s.valid /\ account'.req_presence = s.req_presence
  BY <1>1 DEF Others, Fields
<1> QED BY <1>1, <1>2 DEF Asks, Wanted

(* A callback that asks for no Connection.                               *)
LEMMA GoodBy ==
  ASSUME NEW s, NEW t, Core(t), Told(t), Waits(t), t.requested = s.requested
  PROVE  Good(t) /\ Asks(s, t)
<1>1. t.requested \in Nat
  BY TypedFields DEF Core
<1> QED BY <1>1 DEF Good, Asks

(* A callback that ends with a wish.                                     *)
LEMMA WishAsks ==
  ASSUME NEW a, NEW s, Core(s), s.requested = a.requested, NEW t, Wish(s, t)
  PROVE  Asks(a, t)
  BY DEF Wish, Asks, Wanted

(* Its invariant.                                                        *)
LEMMA WishGood ==
  ASSUME NEW s, NEW t, Waits(s), Wish(s, t), Told(t)
  PROVE  Good(t)
  BY DEF Good, Wish

(* mcd_connection_close.                                                 *)
LEMMA CloseCore ==
  ASSUME NEW s, Core(s)
  PROVE  LET t == Close(s) IN
         /\ Core(t) /\ Told(t) /\ (Waits(s) => Waits(t))
         /\ t.tp_conn = None /\ t.requested = 0 /\ ~t.reconnect_timer /\ ~t.connection
         /\ Others(s, t, Aborted \cup Released)
<1> DEFINE a == [s EXCEPT !.abort_requested = TRUE]
           b == Release(a)
           t == Abort(b)
<1>1. Close(s) = t
  BY DEF Close
<1>2. Core(a) /\ Others(s, a, {"abort_requested"})
  <2>1. "abort_requested" \in Free /\ TRUE \in FieldType["abort_requested"]
    BY FieldTypes DEF Free
  <2> QED BY <2>1, FreeOne
<1> HIDE DEF a
<1>3. Typed(b) /\ Others(a, b, Released) /\ Ended(b)
  BY <1>2, ReleaseEffect, ReleaseEnded, CoreEnded DEF Core
<1> HIDE DEF b
<1>4. /\ Core(t) /\ Others(b, t, Aborted) /\ Told(t) /\ (Waits(b) => Waits(t))
      /\ t.tp_conn = None /\ t.requested = 0 /\ ~t.reconnect_timer /\ ~t.connection
  BY <1>3, AbortCore
<1> HIDE DEF t
<1>5. Others(s, t, Aborted \cup Released)
  BY <1>2, <1>3, <1>4 DEF Others, Aborted, ConnFields
<1>6. /\ b.connection_context = s.connection_context
      /\ b.waiting_for_connectivity = s.waiting_for_connectivity
  BY <1>2, <1>3 DEF Others, Released, Dropped, Fields
<1> QED BY <1>1, <1>4, <1>5, <1>6 DEF Waits

(* _mcd_account_reconnect: the old McdConnection is closed before the    *)
(* attempt begins.                                                       *)
LEMMA ReconnectCore ==
  ASSUME NEW s, Good(s), s.loaded
  PROVE  LET t == ReconnectAccount(s) IN
         /\ Good(t) /\ Others(s, t, Aborted \cup Released \cup Begun)
<1> DEFINE a == IF s.connection THEN Close(s) ELSE s
           t == ConnectionBegin(a)
<1>1. ReconnectAccount(s) = t
  BY DEF ReconnectAccount
<1>2. /\ Core(a) /\ Waits(a) /\ Others(s, a, Aborted \cup Released)
      /\ a.tp_conn = None /\ a.requested = 0 /\ ~a.reconnect_timer
  <2>1. CASE s.connection
    <3> DEFINE c == Close(s)
    <3>1. /\ Core(c) /\ (Waits(s) => Waits(c)) /\ Others(s, c, Aborted \cup Released)
          /\ c.tp_conn = None /\ c.requested = 0 /\ ~c.reconnect_timer
      BY CloseCore DEF Good
    <3> HIDE DEF c
    <3>2. a = c
      BY <2>1 DEF c
    <3> HIDE DEF a
    <3> QED BY <3>1, <3>2 DEF Good
  <2>2. CASE ~s.connection
    <3>1. a = s
      BY <2>2
    <3> HIDE DEF a
    <3>2. Others(s, s, Aborted \cup Released)
      BY DEF Others
    <3> QED BY <2>2, <3>1, <3>2 DEF Good, Core, Attempts
  <2>3. s.connection \in BOOLEAN
    BY TypedFields DEF Good, Core
  <2> HIDE DEF a
  <2> QED BY <2>1, <2>2, <2>3
<1> HIDE DEF a
<1>3. a.loaded
  BY <1>2 DEF Others, Aborted, Released, Dropped, ConnFields, Fields
<1>4. Core(t) /\ Others(a, t, Begun) /\ (Waits(a) => Waits(t))
  BY <1>2, <1>3, BeginCore
<1> HIDE DEF t
<1>5. t.tp_conn = None
  BY <1>2, <1>4 DEF Others, Begun, Fields
<1>6. Told(t)
  BY <1>4, <1>5, SilentTold DEF Core
<1>7. Others(s, t, Aborted \cup Released \cup Begun)
  BY <1>2, <1>4 DEF Others
<1>8. Good(t)
  BY <1>2, <1>4, <1>6 DEF Good
<1> QED BY <1>1, <1>7, <1>8

(* _mcd_account_set_enabled (FALSE) asks for the offline presence before *)
(* it changes the setting.                                               *)
LEMMA DisableCore ==
  ASSUME NEW s, Core(s), s.loaded
  PROVE  LET t == Disable(s) IN
         /\ Core(t) /\ Told(t) /\ (Waits(s) => Waits(t)) /\ t.requested = s.requested
         /\ t.connection = s.connection /\ t.loaded = s.loaded
<1> DEFINE a == RequestPresence(s, "offline")
           b == IF s.connection THEN a ELSE s
           t == [b EXCEPT !.enabled = FALSE]
<1>1. Disable(s) = t
  BY DEF Disable
<1>2. "offline" \in Presence
  BY DEF Presence
<1>3. Core(a) /\ (Waits(s) => Waits(a)) /\ Others(s, a, Asked) /\ a.requested = s.requested
  BY <1>2, RequestPresenceCore
<1>3a. a.loaded = s.loaded
  BY <1>3 DEF Others, Asked, Begun, Fields
<1>3b. ~a.connection => a.requested = 0 /\ a.tp_conn = None
  BY <1>3 DEF Core, Attempts
<1>3c. a.connection = s.connection
  <2> DEFINE x == CallDisconnect(s)
  <2>1. Others(s, x, {"tp"}) /\ Core(x)
    BY CallDisconnectCore
  <2>2. a = [x EXCEPT !.abort_requested = TRUE, !.reconnect_timer = FALSE]
    BY DEF RequestPresence
  <2> HIDE DEF x, a
  <2>3. x.connection = s.connection /\ IsAccount(x)
    BY <2>1, TypedIsAccount DEF Others, Fields, Core
  <2> QED BY <2>2, <2>3 DEF IsAccount, Fields
<1> HIDE DEF a
<1>4. /\ Core(b) /\ (Waits(s) => Waits(b)) /\ b.requested = s.requested
      /\ b.loaded = s.loaded /\ b.connection = s.connection
  <2>1. b = a \/ b = s
    OBVIOUS
  <2> HIDE DEF b
  <2> QED BY <1>3, <1>3a, <1>3c, <2>1
<1> HIDE DEF b
<1>5. Core(t) /\ Others(b, t, {"enabled"}) /\ t["enabled"] = FALSE
  <2>1. "enabled" \in Free /\ FALSE \in FieldType["enabled"]
    BY FieldTypes DEF Free
  <2>2. Core(t) /\ Others(b, t, {"enabled"})
    BY <1>4, <2>1, FreeOne
  <2>3. t["enabled"] = FALSE
    BY <1>4, OthersOne, TypedIsAccount, FieldNames DEF Core
  <2> QED BY <2>2, <2>3
<1> HIDE DEF t
<1>6. /\ t.requested = b.requested /\ t.loaded = b.loaded /\ t.connection = b.connection
      /\ t.connection_context = b.connection_context
      /\ t.waiting_for_connectivity = b.waiting_for_connectivity
  BY <1>5 DEF Others, Fields
<1> QED BY <1>1, <1>4, <1>5, <1>6 DEF Waits, Told

---------------------------------------------------------------------------
(* Actions of the user and of plugins                                    *)

(* Core of a loaded account whose settings change.                       *)
LEMMA CoreSettings ==
  ASSUME NEW s, NEW t, Core(s), Typed(t), Others(s, t, Free \cup {"loaded", "valid"}), t.loaded
  PROVE  Core(t)
<1>1. /\ t.conn_status = s.conn_status
      /\ t.connection_context = s.connection_context /\ t.connection = s.connection
      /\ t.tp_conn = s.tp_conn /\ t.tasks_before_connect = s.tasks_before_connect
      /\ t.reconnect_timer = s.reconnect_timer /\ t.probation_timer = s.probation_timer
      /\ t.has_presence_if = s.has_presence_if
      /\ t.recognized_presences = s.recognized_presences
      /\ t.requested = s.requested /\ t.tp = s.tp
  BY DEF Others, Free, Fields
<1>2. Attempts(t)
  BY <1>1 DEF Core, Attempts
<1>3. InUse(t)
  BY <1>1 DEF Core, InUse, Current
<1>4. Replies(t) /\ Histories(t) /\ Presences(t)
  BY <1>1 DEF Core, Replies, Histories, Presences
<1> QED BY <1>2, <1>3, <1>4 DEF Core

(* _mcd_account_maybe_autoconnect changes nothing, or leaves the account *)
(* wanted.                                                               *)
LEMMA MaybeWants ==
  ASSUME NEW s, Core(s), Told(s), NEW t, t = MaybeAutoconnect(s)
  PROVE  t = s \/ Wanted(t)
<1>1. CASE ~WouldLikeToConnect(s)
  BY <1>1 DEF MaybeAutoconnect
<1>2. CASE WouldLikeToConnect(s)
  <2> DEFINE p == IF s.req_presence # "offline" THEN s.req_presence ELSE AutomaticPresence
  <2>1. p \in Presence /\ p # "offline"
    BY TypedFields, NamesAssumption DEF Core, Presence
  <2>2. t = RequestPresenceInt(s, p)
    BY <1>2 DEF MaybeAutoconnect, ConnectWithAutoPresence
  <2> HIDE DEF p
  <2>3. Others(s, t, Wished) /\ t.req_presence = p
    BY <2>1, <2>2, RequestPresenceIntCore
  <2>4. t.enabled = s.enabled /\ t.valid = s.valid
    BY <2>3 DEF Others, Wished, Asked, Begun, Fields
  <2> QED BY <1>2, <2>1, <2>3, <2>4 DEF Wanted, WouldLikeToConnect
<1> QED BY <1>1, <1>2

(* An assignment to a field of which Told and Waits say nothing either.  *)
LEMMA AnswerGood ==
  ASSUME NEW s, Good(s), NEW f \in {"reply", "connect_automatically", "online", "removed"},
         NEW v \in FieldType[f], NEW t, t = [s EXCEPT ![f] = v]
  PROVE  /\ Good(t) /\ Others(s, t, {f}) /\ t.requested = s.requested
<1>1. f \in Free
  BY DEF Free
<1>2. Core(t) /\ Others(s, t, {f})
  BY <1>1, FreeOne DEF Good
<1>3. /\ t.requested = s.requested /\ t.connection_context = s.connection_context
      /\ t.waiting_for_connectivity = s.waiting_for_connectivity
      /\ t.enabled = s.enabled /\ t.valid = s.valid /\ t.req_presence = s.req_presence
      /\ t.tp = s.tp /\ t.tp_conn = s.tp_conn
      /\ t.recognized_presences = s.recognized_presences
  BY <1>2 DEF Others, Fields
<1> QED BY <1>2, <1>3 DEF Good, Waits, Told, Current

(* The user sets RequestedPresence.                                      *)
LEMMA SetRequestedPresenceStep ==
  ASSUME Good(account), NEW p \in Presence, SetRequestedPresence(p)
  PROVE  Good(account') /\ Asks(account, account')
<1> DEFINE t == RequestPresenceInt(account, p)
<1>1. /\ Core(t) /\ (Waits(account) => Waits(t))
      /\ Told(t) /\ t.req_presence = p
      /\ t.requested > account.requested => t.enabled /\ t.valid /\ p # "offline"
  BY RequestPresenceIntCore DEF Good
<1>2. Becomes(t)
  BY DEF SetRequestedPresence
<1> HIDE DEF t
<1>3. Good(t) /\ Asks(account, t)
  BY <1>1 DEF Good, Asks, Wanted
<1> QED BY <1>2, <1>3, BecomesResult

(* The user sets Enabled.                                                *)
LEMMA SetEnabledStep ==
  ASSUME Good(account), SetEnabled
  PROVE  Good(account') /\ Asks(account, account')
<1>0. account.loaded
  BY DEF SetEnabled, OnBus
<1>1. CASE account.enabled
  <2> DEFINE t == Disable(account)
  <2>1. Becomes(t)
    BY <1>1 DEF SetEnabled
  <2>2. Core(t) /\ Told(t) /\ Waits(t) /\ t.requested = account.requested
    BY <1>0, DisableCore DEF Good
  <2> HIDE DEF t
  <2> QED BY <2>1, <2>2, GoodBy, BecomesResult
<1>2. CASE ~account.enabled
  <2> DEFINE s == [account EXCEPT !.enabled = TRUE]
             t == RequestPresenceInt(s, s.req_presence)
             u == MaybeAutoconnect(t)
  <2>1. Becomes(u)
    BY <1>2 DEF SetEnabled, Enable
  <2>2. Core(s) /\ Others(account, s, {"enabled"})
    <3>1. "enabled" \in Free /\ TRUE \in FieldType["enabled"]
      BY FieldTypes DEF Free
    <3> QED BY <3>1, FreeOne DEF Good
  <2> HIDE DEF s
  <2>3. /\ s.requested = account.requested
        /\ s.connection_context = account.connection_context
        /\ s.waiting_for_connectivity = account.waiting_for_connectivity
    BY <2>2 DEF Others, Fields
  <2>4. s.req_presence \in Presence
    BY <2>2, TypedFields DEF Core
  <2>5. Wish(s, t) /\ Told(t)
    BY <2>2, <2>4, RequestWish
  <2> HIDE DEF t
  <2>6. Wish(t, u) /\ Told(u)
    BY <2>5, MaybeWish DEF Wish
  <2> HIDE DEF u
  <2>7. Wish(s, u)
    BY <2>2, <2>5, <2>6, WishTrans
  <2>8. Good(u) /\ Asks(account, u)
    BY <2>2, <2>3, <2>6, <2>7, WishGood, WishAsks DEF Good, Waits
  <2> QED BY <2>1, <2>8, BecomesResult
<1> QED BY <1>1, <1>2

(* The user sets ConnectAutomatically.                                   *)
LEMMA SetConnectAutomaticallyStep ==
  ASSUME Good(account), SetConnectAutomatically
  PROVE  Good(account') /\ Asks(account, account')
<1> DEFINE v == ~account.connect_automatically
           s == [account EXCEPT !.connect_automatically = v]
           t == MaybeAutoconnect(s)
           u == IF s.connect_automatically THEN t ELSE s
<1>1. Becomes(u)
  BY DEF SetConnectAutomatically
<1>2. v \in FieldType["connect_automatically"]
  BY FieldTypes
<1> HIDE DEF v
<1>3. Good(s) /\ s.requested = account.requested
  BY <1>2, AnswerGood
<1> HIDE DEF s
<1>4. Wish(s, t) /\ Told(t)
  BY <1>3, MaybeWish DEF Good
<1> HIDE DEF t
<1>5. Good(t) /\ Asks(account, t)
  BY <1>3, <1>4, WishGood, WishAsks DEF Good
<1>6. Good(s) /\ Asks(account, s)
  BY <1>3, GoodBy DEF Good
<1>7. u = t \/ u = s
  OBVIOUS
<1> HIDE DEF u
<1> QED BY <1>1, <1>5, <1>6, <1>7, BecomesResult

(* The user changes the parameters: the account may become valid, which  *)
(* tells the presence again.                                             *)
LEMMA UpdateParametersStep ==
  ASSUME Good(account), NEW v \in BOOLEAN, UpdateParameters(v)
  PROVE  Good(account') /\ Asks(account, account')
<1> DEFINE s == [account EXCEPT !.valid = v]
           a == RequestPresenceInt(s, s.req_presence)
           t == IF v /\ ~account.valid THEN a ELSE s
           u == MaybeAutoconnect(t)
<1>1. Becomes(u) /\ account.loaded
  BY DEF UpdateParameters, OnBus
<1>2. Typed(s) /\ Others(account, s, {"valid"}) /\ s["valid"] = v
  <2>1. Typed(s)
    BY TypedOne, FieldNames, FieldTypes DEF Good, Core
  <2>2. Others(account, s, {"valid"}) /\ s["valid"] = v
    BY OthersOne, TypedIsAccount, FieldNames DEF Good, Core
  <2> QED BY <2>1, <2>2
<1> HIDE DEF s
<1>3. /\ s.requested = account.requested /\ s.loaded = account.loaded
      /\ s.connection_context = account.connection_context
      /\ s.waiting_for_connectivity = account.waiting_for_connectivity
      /\ s.enabled = account.enabled /\ s.req_presence = account.req_presence
      /\ s.tp = account.tp /\ s.tp_conn = account.tp_conn
      /\ s.recognized_presences = account.recognized_presences
  BY <1>2 DEF Others, Fields
<1>4. Core(s)
  <2>1. Others(account, s, Free \cup {"loaded", "valid"})
    BY <1>2 DEF Others
  <2> QED BY <1>1, <1>2, <1>3, <2>1, CoreSettings DEF Good
<1>5. Waits(s)
  BY <1>3 DEF Good, Waits
<1>6. s.req_presence \in Presence
  BY <1>2, TypedFields
<1>7. Wish(s, a) /\ Told(a)
  BY <1>4, <1>6, RequestWish
<1> HIDE DEF a
<1>8. Wish(s, t) /\ Told(t)
  <2>1. CASE v /\ ~account.valid
    <3>1. t = a
      BY <2>1
    <3> HIDE DEF t
    <3> QED BY <1>7, <3>1
  <2>2. CASE ~(v /\ ~account.valid)
    <3>1. t = s
      BY <2>2
    <3>2. s.valid => account.valid
      BY <1>2, <2>2
    <3>3. Told(s)
      BY <1>3, <3>2 DEF Good, Told, Current
    <3> HIDE DEF t
    <3> QED BY <1>4, <3>1, <3>3, WishSelf
  <2> QED BY <2>1, <2>2
<1> HIDE DEF t
<1>9. Wish(t, u) /\ Told(u)
  BY <1>8, MaybeWish DEF Wish
<1> HIDE DEF u
<1>10. Wish(s, u)
  BY <1>4, <1>8, <1>9, WishTrans
<1>11. Good(u) /\ Asks(account, u)
  BY <1>3, <1>4, <1>5, <1>9, <1>10, WishGood, WishAsks
<1> QED BY <1>1, <1>11, BecomesResult

(* The account is loaded.                                                *)
LEMMA LoadStep ==
  ASSUME Good(account), NEW v \in BOOLEAN, Load(v)
  PROVE  Good(account') /\ Asks(account, account')
<1> DEFINE s == [account EXCEPT !.loaded = TRUE, !.valid = v]
           e == ProcessOnlineRequests(s, "error")
           t == IF ~(s.valid /\ s.enabled) THEN e ELSE s
           a == ConnectWithAutoPresence(t)
           u == IF t.conn_status = "DISCONNECTED" THEN a ELSE t
           waiting == \E r \in Request : s.reply[r] = "waiting"
           w == IF waiting THEN u ELSE s
           z == MaybeAutoconnect(w)
<1>1. Becomes(z) /\ ~account.loaded
  BY DEF Load
<1>2. Typed(s) /\ Others(account, s, {"loaded", "valid"}) /\ s.loaded
  <2>1. Typed(s)
    BY TypedTwo, FieldNames, FieldTypes DEF Good, Core
  <2>2. Others(account, s, {"loaded", "valid"})
    BY TypedIsAccount DEF Good, Core, IsAccount, Others
  <2>3. s.loaded
    BY TypedIsAccount DEF Good, Core, IsAccount, Fields
  <2> QED BY <2>1, <2>2, <2>3
<1> HIDE DEF s
<1>3. /\ s.requested = account.requested
      /\ s.connection_context = account.connection_context
      /\ s.waiting_for_connectivity = account.waiting_for_connectivity
      /\ s.enabled = account.enabled /\ s.req_presence = account.req_presence
      /\ s.tp = account.tp /\ s.tp_conn = account.tp_conn
      /\ s.recognized_presences = account.recognized_presences
  BY <1>2 DEF Others, Fields
<1>4. Core(s) /\ Waits(s)
  <2>1. Others(account, s, Free \cup {"loaded", "valid"})
    BY <1>2 DEF Others
  <2> QED BY <1>2, <1>3, <2>1, CoreSettings DEF Good, Waits
<1>5. Told(s) /\ s.tp_conn = None
  <2>1. account.connection \in BOOLEAN
    BY TypedFields DEF Good, Core
  <2>2. s.tp_conn = None
    BY <1>1, <1>3, <2>1 DEF Good, Core, Attempts
  <2> QED BY <1>4, <2>2, SilentTold DEF Core
<1>6. Good(e) /\ e.requested = s.requested
  <2> DEFINE r == [q \in Request |-> IF s.reply[q] = "waiting" THEN "error" ELSE s.reply[q]]
  <2>1. r \in FieldType["reply"] /\ e = [s EXCEPT !["reply"] = r]
    BY <1>2, TypedFields, FieldTypes DEF ProcessOnlineRequests
  <2> HIDE DEF r, e
  <2> QED BY <1>4, <1>5, <2>1, AnswerGood DEF Good
<1> HIDE DEF e
<1>7. Good(t) /\ t.requested = account.requested
  <2>1. t = e \/ t = s
    OBVIOUS
  <2> HIDE DEF t
  <2> QED BY <1>3, <1>4, <1>5, <1>6, <2>1 DEF Good
<1> HIDE DEF t
<1>8. Wish(t, a) /\ Told(a)
  BY <1>7, AutoWish DEF Good
<1> HIDE DEF a
<1>9. Wish(t, u) /\ Told(u)
  <2>1. u = a \/ u = t
    OBVIOUS
  <2> HIDE DEF u
  <2> QED BY <1>7, <1>8, <2>1, WishSelf DEF Good
<1> HIDE DEF u
<1>10. \E b : /\ Good(b) /\ b.requested = account.requested
              /\ Wish(b, w) /\ Told(w)
  <2>1. w = u \/ w = s
    OBVIOUS
  <2> HIDE DEF w
  <2>2. CASE w = u
    BY <1>7, <1>9, <2>2
  <2>3. CASE w = s
    BY <1>3, <1>4, <1>5, <2>3, WishSelf DEF Good
  <2> QED BY <2>1, <2>2, <2>3
<1> HIDE DEF w
<1>11. PICK b : /\ Good(b) /\ b.requested = account.requested
                /\ Wish(b, w) /\ Told(w)
  BY <1>10
<1>12. Wish(w, z) /\ Told(z)
  BY <1>11, MaybeWish DEF Wish
<1> HIDE DEF z
<1>13. Wish(b, z)
  BY <1>11, <1>12, WishTrans DEF Good
<1>14. Good(z) /\ Asks(account, z)
  BY <1>11, <1>12, <1>13, WishGood, WishAsks DEF Good
<1> QED BY <1>1, <1>14, BecomesResult

(* A caller wants the account online.                                    *)
LEMMA OnlineRequestStep ==
  ASSUME Good(account), NEW r \in Request, OnlineRequest(r)
  PROVE  Good(account') /\ Asks(account, account')
<1> DEFINE x == IF account.conn_status = "CONNECTED" THEN "ok"
                ELSE IF account.loaded /\ ~(account.valid /\ account.enabled) THEN "error"
                ELSE "waiting"
           c == x = "waiting" /\ account.loaded /\ account.conn_status = "DISCONNECTED"
           a == ConnectWithAutoPresence(account)
           s == IF c THEN a ELSE account
           t == [s EXCEPT !.reply[r] = x]
<1>1. Becomes(t)
  BY DEF OnlineRequest
<1>2. x \in {"ok", "error", "waiting"}
  OBVIOUS
<1> HIDE DEF x
<1>3. Wish(account, a) /\ Told(a)
  BY AutoWish DEF Good
<1> HIDE DEF a
<1>4. Wish(account, s) /\ Told(s)
  <2>1. s = a \/ s = account
    OBVIOUS
  <2> HIDE DEF s
  <2> QED BY <1>3, <2>1, WishSelf DEF Good
<1> HIDE DEF s
<1>5. Good(s) /\ Asks(account, s)
  BY <1>4, WishGood, WishAsks DEF Good
<1>6. Good(t) /\ Others(s, t, {"reply"})
  <2> DEFINE q == [s.reply EXCEPT ![r] = x]
  <2>1. q \in FieldType["reply"]
    BY <1>2, <1>5, TypedFields, FieldTypes DEF Good, Core
  <2>2. t = [s EXCEPT !["reply"] = q]
    OBVIOUS
  <2> HIDE DEF q, t
  <2> QED BY <1>5, <2>1, <2>2, AnswerGood
<1> HIDE DEF t
<1>7. Asks(account, t)
  <2>1. /\ t.requested = s.requested /\ t.enabled = s.enabled /\ t.valid = s.valid
        /\ t.req_presence = s.req_presence
    BY <1>6 DEF Others, Fields
  <2> QED BY <1>5, <2>1 DEF Asks, Wanted
<1> QED BY <1>1, <1>6, <1>7, BecomesResult

(* The user calls Reconnect.                                             *)
LEMMA ReconnectStep ==
  ASSUME Good(account), Reconnect
  PROVE  Good(account') /\ Asks(account, account')
<1> DEFINE t == ReconnectAccount(account)
<1>1. Becomes(t) /\ account.loaded /\ Wanted(account)
  BY DEF Reconnect, OnBus, Wanted
<1>2. Good(t) /\ Others(account, t, Aborted \cup Released \cup Begun)
  BY <1>1, ReconnectCore
<1> HIDE DEF t
<1>3. Wanted(t)
  <2>1. t.enabled = account.enabled /\ t.valid = account.valid
        /\ t.req_presence = account.req_presence
    BY <1>2 DEF Others, Aborted, Released, Dropped, ConnFields, Begun, Fields
  <2> QED BY <1>1, <2>1 DEF Wanted
<1> QED BY <1>1, <1>2, <1>3, BecomesResult DEF Asks

(* A storage plugin asks for a reconnection, wanted or not.              *)
LEMMA StorageReconnectStep ==
  ASSUME Good(account), StorageReconnect
  PROVE  Good(account') /\ StorageReconnects
<1> DEFINE t == ReconnectAccount(account)
<1>1. Becomes(t) /\ account.loaded /\ StorageReconnects
  BY DEF StorageReconnect, OnBus
<1>2. Good(t)
  BY <1>1, ReconnectCore
<1> HIDE DEF t
<1> QED BY <1>1, <1>2, BecomesGood

(* The account is removed.                                               *)
LEMMA RemoveStep ==
  ASSUME Good(account), Remove
  PROVE  Good(account') /\ Asks(account, account')
<1> DEFINE d == Disable(account)
           s == IF account.enabled THEN d ELSE account
           t == [s EXCEPT !.removed = TRUE]
           u == IF t.connection THEN Abort(t) ELSE t
<1>1. Becomes(u) /\ account.loaded
  BY DEF Remove, OnBus
<1>2. /\ Core(d) /\ Told(d) /\ Waits(d) /\ d.requested = account.requested
  BY <1>1, DisableCore DEF Good
<1> HIDE DEF d
<1>3. Good(s) /\ s.requested = account.requested
  <2>1. s = d \/ s = account
    OBVIOUS
  <2> HIDE DEF s
  <2> QED BY <1>2, <2>1 DEF Good
<1> HIDE DEF s
<1>4. Good(t) /\ t.requested = s.requested
  <2>1. TRUE \in FieldType["removed"]
    BY FieldTypes
  <2> QED BY <1>3, <2>1, AnswerGood
<1> HIDE DEF t
<1>5. Good(u) /\ Asks(account, u)
  <2> DEFINE x == Abort(t)
  <2>1. Core(x) /\ Told(x) /\ Waits(x) /\ x.requested = 0
    BY <1>4, AbortCore, CoreEnded DEF Good
  <2> HIDE DEF x
  <2>2. u = x \/ u = t
    BY DEF x
  <2> HIDE DEF u
  <2>3. Good(x) /\ Asks(account, x)
    <3>1. account.requested \in Nat
      BY TypedFields DEF Good, Core
    <3> QED BY <2>1, <3>1 DEF Good, Asks
  <2>4. Good(t) /\ Asks(account, t)
    BY <1>3, <1>4, GoodBy DEF Good
  <2> QED BY <2>2, <2>3, <2>4
<1> HIDE DEF u
<1> QED BY <1>1, <1>5, BecomesResult

---------------------------------------------------------------------------
(* Actions of the network, of failed calls and of timers                 *)

(* The fields of Attempts that do not belong to a TpConnection.          *)
AttemptFields ==
  Free \cup {"conn_status", "connection", "connection_context", "reconnect_timer",
             "requested", "probation_timer"}

(* Core when only those change.                                          *)
LEMMA AttemptsCore ==
  ASSUME NEW s, NEW t, Core(s), Typed(t), Others(s, t, AttemptFields), Attempts(t),
         s.tp_conn # None => (t.conn_status = "CONNECTED" <=> Current(s).status = "connected")
  PROVE  Core(t)
<1>1. /\ t.tp_conn = s.tp_conn /\ t.tasks_before_connect = s.tasks_before_connect
      /\ t.has_presence_if = s.has_presence_if
      /\ t.recognized_presences = s.recognized_presences /\ t.tp = s.tp
  BY DEF Others, AttemptFields, Free, Fields
<1>2. InUse(t)
  BY <1>1 DEF Core, InUse, Current
<1>3. Replies(t) /\ Histories(t) /\ Presences(t)
  BY <1>1 DEF Core, Replies, Histories, Presences
<1> QED BY <1>2, <1>3 DEF Core

(* The status may be set to what Attempts and InUse say.                 *)
LEMMA StatusCore ==
  ASSUME NEW s, Core(s), NEW x \in {"DISCONNECTED", "CONNECTING", "CONNECTED"},
         s.requested = 1 => x = "CONNECTING", s.reconnect_timer => x = "DISCONNECTED",
         s.tp_conn = None => x # "CONNECTED",
         s.tp_conn # None => (x = "CONNECTED" <=> Current(s).status = "connected"),
         NEW t, t = SetConnectionStatus(s, x)
  PROVE  Core(t) /\ Others(s, t, {"conn_status", "reply"}) /\ t.conn_status = x
<1>1. Typed(t) /\ t.conn_status = x /\ Others(s, t, {"conn_status", "reply"})
  BY StatusEffect DEF Core
<1>2. /\ t.loaded = s.loaded /\ t.valid = s.valid
      /\ t.connection_context = s.connection_context /\ t.connection = s.connection
      /\ t.tp_conn = s.tp_conn
      /\ t.reconnect_timer = s.reconnect_timer /\ t.probation_timer = s.probation_timer
      /\ t.recognized_presences = s.recognized_presences
      /\ t.requested = s.requested
  BY <1>1 DEF Others, Fields
<1>3. Attempts(t)
  BY <1>1, <1>2 DEF Core, Attempts
<1>4. Others(s, t, AttemptFields)
  BY <1>1 DEF Others, AttemptFields, Free
<1>5. Core(t)
  BY <1>1, <1>3, <1>4, AttemptsCore
<1> QED BY <1>1, <1>5

(* The fields that neither Told nor Waits nor Asks read.                 *)
Quiet ==
  Fields \ {"requested", "enabled", "valid", "req_presence", "recognized_presences",
            "tp_conn", "connection_context", "waiting_for_connectivity"}

(* When only those change it is enough to prove Core.                    *)
LEMMA GoodQuiet ==
  ASSUME NEW s, Good(s), NEW t, Core(t), Others(s, t, Quiet),
         s.tp_conn # None => Current(t).told = Current(s).told
  PROVE  Good(t) /\ t.requested = s.requested /\ Asks(s, t)
<1>1. /\ t.requested = s.requested /\ t.enabled = s.enabled /\ t.valid = s.valid
      /\ t.req_presence = s.req_presence
      /\ t.recognized_presences = s.recognized_presences /\ t.tp_conn = s.tp_conn
      /\ t.connection_context = s.connection_context
      /\ t.waiting_for_connectivity = s.waiting_for_connectivity
  BY DEF Others, Quiet, Fields
<1>2. Told(t)
  <2>1. CASE s.tp_conn = None
    BY <1>1, <2>1, SilentTold DEF Core
  <2>2. CASE s.tp_conn # None
    BY <1>1, <2>2 DEF Good, Told
  <2> QED BY <2>1, <2>2
<1>3. Waits(t)
  BY <1>1 DEF Good, Waits
<1> QED BY <1>1, <1>2, <1>3, GoodBy

(* The end of the wait for the network: mcd_account_connection_proceed,  *)
(* and the entry leaves the queue.                                       *)
LEMMA WaitingOver ==
  ASSUME NEW s, Good(s), s.waiting_for_connectivity, NEW success \in BOOLEAN,
         success => s.online,
         NEW t, t = [Proceed(s, success) EXCEPT !.waiting_for_connectivity = FALSE]
  PROVE  /\ Good(t) /\ Others(s, t, Begun \cup {"reply"})
         /\ ~success => t.requested = s.requested
<1>1. /\ s.connection_context /\ s.tp_conn = None /\ s.requested = 0 /\ s.loaded
      /\ ~s.reconnect_timer /\ s.waiting_for_connectivity
  <2>1. s.loaded \in BOOLEAN
    BY TypedFields DEF Good, Core
  <2> QED BY <2>1 DEF Good, Core, Attempts, Waits
<1> DEFINE a == Proceed(s, success)
<1>2. /\ Core(a) /\ ~a.connection_context /\ Others(s, a, Begun \cup {"reply"})
      /\ ~success => a.requested = s.requested
  <2>1. CASE success
    <3> DEFINE b == Starting(s)
    <3>1. Proceed(s, TRUE) = b
      BY <1>1, <2>1, ProceedEffect, TypedIsAccount DEF Good, Core
    <3>2. a = b
      BY <2>1, <3>1
    <3>3. Core(b) /\ ~b.connection_context
      BY <1>1, StartingCore, StartingEffect DEF Good, Core
    <3>4. Others(s, b, Begun \cup {"reply"})
      BY StartingEffect DEF Good, Core, Others, Begun
    <3> HIDE DEF a, b
    <3> QED BY <2>1, <3>2, <3>3, <3>4
  <2>2. CASE ~success
    <3> DEFINE b == SetConnectionStatus(s, "DISCONNECTED")
               c == [b EXCEPT !.connection_context = FALSE]
    <3>1. Proceed(s, success) = c
      BY <1>1, <2>2 DEF Proceed
    <3>2. Core(b) /\ Others(s, b, {"conn_status", "reply"}) /\ b.conn_status = "DISCONNECTED"
      BY <1>1, StatusCore DEF Good
    <3> HIDE DEF b
    <3>3. Typed(c)
      BY <3>2, TypedOne, FieldNames, FieldTypes DEF Core
    <3>4. Others(b, c, {"connection_context"}) /\ c["connection_context"] = FALSE
      BY <3>2, OthersOne, TypedIsAccount, FieldNames DEF Core
    <3> HIDE DEF c
    <3>5. /\ c.loaded = b.loaded /\ c.valid = b.valid /\ c.conn_status = b.conn_status
          /\ c.connection = b.connection /\ c.tp_conn = b.tp_conn
          /\ c.reconnect_timer = b.reconnect_timer /\ c.probation_timer = b.probation_timer
          /\ c.recognized_presences = b.recognized_presences
          /\ c.requested = b.requested
      BY <3>4 DEF Others, Fields
    <3>6. Attempts(c)
      BY <3>2, <3>4, <3>5 DEF Core, Attempts
    <3>7. Others(b, c, AttemptFields)
      BY <3>4 DEF Others, AttemptFields
    <3>8. Core(c)
      BY <3>2, <3>3, <3>5, <3>6, <3>7, AttemptsCore DEF Core, InUse
    <3>9. Others(s, c, Begun \cup {"reply"})
      BY <3>2, <3>4 DEF Others, Begun
    <3>10. c.requested = s.requested
      BY <3>2, <3>5 DEF Others, Fields
    <3> HIDE DEF a
    <3>11. a = c
      BY <3>1 DEF a
    <3> QED BY <3>4, <3>8, <3>9, <3>10, <3>11
  <2> QED BY <2>1, <2>2
<1> HIDE DEF a
<1>3. t = [a EXCEPT !["waiting_for_connectivity"] = FALSE]
  BY DEF a
<1>4. /\ Core(t) /\ Others(a, t, {"waiting_for_connectivity"})
      /\ ~t.waiting_for_connectivity
  <2>1. "waiting_for_connectivity" \in Free /\ FALSE \in FieldType["waiting_for_connectivity"]
    BY FieldTypes DEF Free
  <2>2. Core(t) /\ Others(a, t, {"waiting_for_connectivity"})
    <3> DEFINE w == [a EXCEPT !["waiting_for_connectivity"] = FALSE]
    <3>1. Core(w) /\ Others(a, w, {"waiting_for_connectivity"})
      BY <1>2, <2>1, FreeOne
    <3> QED BY <1>3, <3>1
  <2>3. t["waiting_for_connectivity"] = FALSE
    BY <1>2, <1>3, OthersOne, TypedIsAccount, FieldNames DEF Core
  <2> QED BY <2>2, <2>3
<1>5. Others(s, t, Begun \cup {"reply"})
  BY <1>2, <1>4 DEF Others, Begun
<1>6. ~t.connection_context /\ t.requested = a.requested /\ t.tp_conn = s.tp_conn
  <2>1. a.tp_conn = s.tp_conn
    BY <1>2 DEF Others, Begun, Fields
  <2> QED BY <1>2, <1>4, <2>1 DEF Others, Fields
<1>7. Waits(t)
  BY <1>4, <1>6 DEF Waits
<1>8. Told(t)
  BY <1>1, <1>4, <1>6, SilentTold DEF Core
<1> QED BY <1>2, <1>4, <1>5, <1>6, <1>7, <1>8 DEF Good

(* The network is there.                                                 *)
LEMMA MonitorConnectedStep ==
  ASSUME Good(account), MonitorConnected
  PROVE  Good(account') /\ Asks(account, account')
<1> DEFINE s == [account EXCEPT !.online = TRUE]
           t == MaybeAutoconnect(s)
           u == [Proceed(t, TRUE) EXCEPT !.waiting_for_connectivity = FALSE]
<1>1. \/ Becomes(s) \/ Becomes(t)
      \/ t.waiting_for_connectivity /\ Becomes(u)
  BY DEF MonitorConnected
<1>2. /\ Good(s) /\ Others(account, s, {"online"}) /\ s.requested = account.requested
      /\ s.online
  <2>1. TRUE \in FieldType["online"]
    BY FieldTypes
  <2>2. /\ Good(s) /\ Others(account, s, {"online"}) /\ s.requested = account.requested
    BY <2>1, AnswerGood
  <2>3. s["online"] = TRUE
    BY OthersOne, TypedIsAccount, FieldNames DEF Good, Core
  <2> QED BY <2>2, <2>3
<1> HIDE DEF s
<1>3. Wish(s, t) /\ Told(t)
  BY <1>2, MaybeWish DEF Good
<1>4. t = s \/ Wanted(t)
  BY <1>2, MaybeWants DEF Good
<1> HIDE DEF t
<1>5. Good(t) /\ Asks(account, t)
  BY <1>2, <1>3, WishGood, WishAsks DEF Good
<1>6. t.online
  BY <1>2, <1>3, WishSame
<1>7. ASSUME t.waiting_for_connectivity PROVE Good(u) /\ Asks(account, u)
  <2>1. Good(u) /\ Others(t, u, Begun \cup {"reply"})
    BY <1>5, <1>6, <1>7, WaitingOver
  <2> HIDE DEF u
  <2>2. /\ u.enabled = t.enabled /\ u.valid = t.valid /\ u.req_presence = t.req_presence
    BY <2>1 DEF Others, Begun, Fields
  <2>3. CASE t = s
    <3>1. s.waiting_for_connectivity = account.waiting_for_connectivity
      BY <1>2 DEF Others, Fields
    <3> QED BY <1>7, <2>1, <2>3, <3>1 DEF Asks
  <2>4. CASE Wanted(t)
    BY <2>1, <2>2, <2>4 DEF Asks, Wanted
  <2> QED BY <1>4, <2>3, <2>4
<1>8. Good(s) /\ Asks(account, s)
  BY <1>2, GoodBy DEF Good
<1> HIDE DEF u
<1> QED BY <1>1, <1>5, <1>7, <1>8, BecomesResult

(* The network is lost: the McdConnection is closed, or the attempt      *)
(* given up.                                                             *)
LEMMA MonitorDisconnectedStep ==
  ASSUME Good(account), MonitorDisconnected
  PROVE  Good(account') /\ Asks(account, account')
<1> DEFINE s == [account EXCEPT !.online = FALSE]
           c == Close(s)
           t == IF s.connection /\ ~AlwaysDispatch THEN c ELSE s
           u == [Proceed(t, FALSE) EXCEPT !.waiting_for_connectivity = FALSE]
<1>1. \/ Becomes(s) \/ Becomes(t)
      \/ t.waiting_for_connectivity /\ Becomes(u)
  BY DEF MonitorDisconnected
<1>2. /\ Good(s) /\ s.requested = account.requested
  <2>1. FALSE \in FieldType["online"]
    BY FieldTypes
  <2> QED BY <2>1, AnswerGood
<1> HIDE DEF s
<1>3. Core(c) /\ Told(c) /\ Waits(c) /\ c.requested = 0
  BY <1>2, CloseCore DEF Good
<1> HIDE DEF c
<1>4. Good(t) /\ (t.requested = 0 \/ t.requested = account.requested)
  <2>1. t = c \/ t = s
    OBVIOUS
  <2> HIDE DEF t
  <2> QED BY <1>2, <1>3, <2>1 DEF Good
<1> HIDE DEF t
<1>5. account.requested \in Nat
  BY TypedFields DEF Good, Core
<1>6. Asks(account, t)
  BY <1>4, <1>5 DEF Asks
<1>7. ASSUME t.waiting_for_connectivity PROVE Good(u) /\ Asks(account, u)
  <2>1. Good(u) /\ u.requested = t.requested
    BY <1>4, <1>7, WaitingOver
  <2> HIDE DEF u
  <2> QED BY <1>4, <1>5, <2>1 DEF Asks
<1>8. Good(s) /\ Asks(account, s)
  BY <1>2, GoodBy DEF Good
<1> HIDE DEF u
<1> QED BY <1>1, <1>4, <1>6, <1>7, <1>8, BecomesResult

(* RequestConnection fails.                                              *)
LEMMA RequestConnectionFailsStep ==
  ASSUME Good(account), RequestConnectionFails
  PROVE  Good(account') /\ Asks(account, account')
<1> DEFINE a == SetConnectionStatus(account, "DISCONNECTED")
           n == a.requested - 1
           t == [a EXCEPT !.requested = n]
<1>1. Becomes(t) /\ account.requested > 0
  BY DEF RequestConnectionFails
<1>2. Typed(a) /\ a.conn_status = "DISCONNECTED" /\ Others(account, a, {"conn_status", "reply"})
  BY StatusEffect DEF Good, Core
<1> HIDE DEF a
<1>3. account.requested = 1 /\ account.requested \in Nat
  BY <1>1, TypedFields DEF Good, Core, Attempts
<1>4. n = 0
  BY <1>2, <1>3 DEF Others, Fields
<1> HIDE DEF n
<1>5. Typed(t)
  BY <1>2, <1>4, TypedOne, FieldNames, FieldTypes
<1>6. Others(a, t, {"requested"}) /\ t["requested"] = n
  BY <1>2, OthersOne, TypedIsAccount, FieldNames
<1> HIDE DEF t
<1>7. Others(account, t, {"conn_status", "reply", "requested"}) /\ t.requested = 0
  BY <1>2, <1>4, <1>6 DEF Others
<1>8. /\ t.loaded = account.loaded /\ t.valid = account.valid
      /\ t.connection_context = account.connection_context
      /\ t.waiting_for_connectivity = account.waiting_for_connectivity
      /\ t.connection = account.connection /\ t.tp_conn = account.tp_conn
      /\ t.reconnect_timer = account.reconnect_timer
      /\ t.probation_timer = account.probation_timer
      /\ t.recognized_presences = account.recognized_presences
  BY <1>7 DEF Others, Fields
<1>9. t.conn_status = "DISCONNECTED"
  BY <1>2, <1>6 DEF Others, Fields
<1>10. Attempts(t) /\ t.tp_conn = None
  BY <1>3, <1>7, <1>8, <1>9 DEF Good, Core, Attempts
<1>11. Others(account, t, AttemptFields)
  BY <1>7 DEF Others, AttemptFields, Free
<1>12. Core(t)
  BY <1>5, <1>8, <1>10, <1>11, AttemptsCore DEF Good
<1>13. Told(t) /\ Waits(t)
  BY <1>8, <1>10, SilentTold DEF Good, Waits
<1>14. Good(t) /\ Asks(account, t)
  BY <1>3, <1>7, <1>12, <1>13 DEF Good, Asks
<1> QED BY <1>1, <1>14, BecomesResult

(* It fails after the McdConnection is gone.                             *)
LEMMA OrphanFailsStep ==
  ASSUME Good(account), OrphanFails
  PROVE  Good(account') /\ Asks(account, account')
<1> DEFINE n == account.orphaned - 1
           t == [account EXCEPT !.orphaned = n]
<1>1. Becomes(t) /\ account.orphaned > 0
  BY DEF OrphanFails
<1>2. n \in Nat
  BY <1>1, TypedFields DEF Good, Core
<1> HIDE DEF n
<1>3. "orphaned" \in Free /\ n \in FieldType["orphaned"]
  BY <1>2, FieldTypes DEF Free
<1>4. Core(t) /\ Others(account, t, {"orphaned"})
  BY <1>3, FreeOne DEF Good
<1> HIDE DEF t
<1>5. Others(account, t, Quiet) /\ t.tp = account.tp /\ t.tp_conn = account.tp_conn
  BY <1>4 DEF Others, Quiet, Fields
<1>6. Good(t) /\ Asks(account, t)
  BY <1>4, <1>5, GoodQuiet DEF Current
<1> QED BY <1>1, <1>6, BecomesResult

(* The reconnection timer.                                               *)
LEMMA ReconnectTimerStep ==
  ASSUME Good(account), ReconnectTimer
  PROVE  Good(account') /\ Asks(account, account')
<1> DEFINE t == Attempt(account)
<1>1. Becomes(t) /\ account.reconnect_timer
  BY DEF ReconnectTimer
<1>2. account.tp_conn = None /\ account.loaded
  <2>1. account.connection \in BOOLEAN /\ account.loaded \in BOOLEAN
    BY TypedFields DEF Good, Core
  <2> QED BY <1>1, <2>1 DEF Good, Core, Attempts
<1>3. Core(t) /\ Others(account, t, Begun) /\ Waits(t)
  BY <1>2, AttemptCore DEF Good
<1> HIDE DEF t
<1>4. t.tp_conn = None
  BY <1>2, <1>3 DEF Others, Begun, Fields
<1>5. Good(t) /\ Asks(account, t)
  BY <1>1, <1>3, <1>4, SilentTold DEF Good, Asks, Core
<1> QED BY <1>1, <1>5, BecomesResult

(* The probation timer.                                                  *)
LEMMA ProbationTimerStep ==
  ASSUME Good(account), ProbationTimer
  PROVE  Good(account') /\ Asks(account, account')
<1> DEFINE a == [account EXCEPT !.probation_drop_count = 0,
                                !.reconnect_interval = InitialReconnectionTime]
           b == IF account.tp_conn # None THEN a ELSE account
           t == [b EXCEPT !.probation_timer = FALSE]
<1>1. Becomes(t)
  BY DEF ProbationTimer
<1>2. Typed(a) /\ Others(account, a, {"probation_drop_count", "reconnect_interval"})
  <2>1. 0 \in FieldType["probation_drop_count"]
        /\ InitialReconnectionTime \in FieldType["reconnect_interval"]
    BY FieldTypes, BoundsAreNat
  <2>2. Typed(a)
    BY <2>1, TypedTwo, FieldNames DEF Good, Core
  <2>3. Others(account, a, {"probation_drop_count", "reconnect_interval"})
    BY TypedIsAccount DEF Good, Core, IsAccount, Others
  <2> QED BY <2>2, <2>3
<1> HIDE DEF a
<1>3. Typed(b) /\ Others(account, b, {"probation_drop_count", "reconnect_interval"})
  <2>1. b = a \/ b = account
    OBVIOUS
  <2> HIDE DEF b
  <2> QED BY <1>2, <2>1 DEF Good, Core, Others
<1> HIDE DEF b
<1>4. Typed(t)
  BY <1>3, TypedOne, FieldNames, FieldTypes
<1>5. Others(b, t, {"probation_timer"}) /\ t["probation_timer"] = FALSE
  BY <1>3, OthersOne, TypedIsAccount, FieldNames
<1> HIDE DEF t
<1>6. Others(account, t, {"probation_drop_count", "reconnect_interval", "probation_timer"})
  BY <1>3, <1>5 DEF Others
<1>7. /\ t.loaded = account.loaded /\ t.valid = account.valid
      /\ t.connection_context = account.connection_context
      /\ t.connection = account.connection /\ t.tp_conn = account.tp_conn
      /\ t.reconnect_timer = account.reconnect_timer
      /\ t.conn_status = account.conn_status /\ t.requested = account.requested
      /\ t.recognized_presences = account.recognized_presences
      /\ t.tp = account.tp
  BY <1>6 DEF Others, Fields
<1>8. Attempts(t)
  BY <1>5, <1>7 DEF Good, Core, Attempts
<1>9. Others(account, t, AttemptFields) /\ Others(account, t, Quiet)
  BY <1>6 DEF Others, AttemptFields, Free, Quiet, Fields
<1>10. Core(t)
  BY <1>4, <1>7, <1>8, <1>9, AttemptsCore DEF Good, Core, InUse
<1>11. Good(t) /\ Asks(account, t)
  BY <1>7, <1>9, <1>10, GoodQuiet DEF Current
<1> QED BY <1>1, <1>11, BecomesResult

---------------------------------------------------------------------------
(* One TpConnection: its fields, its signals                             *)

(* The fields of a TpConnection.                                         *)
TpFields ==
  {"status", "pending", "interfaces", "told", "watched", "connect_called",
   "disconnect_called", "seen"}

(* Their types, by name.                                                 *)
TpFieldType ==
  [status |-> {"unused", "unknown", "new", "connecting", "connected", "gone"},
   pending |-> SUBSET Call, interfaces |-> BOOLEAN, told |-> Presence \cup {None},
   watched |-> BOOLEAN, connect_called |-> BOOLEAN, disconnect_called |-> BOOLEAN,
   seen |-> BOOLEAN]

(* The types, for the provers.                                           *)
LEMMA TpFieldTypes ==
  /\ TpFieldType["status"] = {"unused", "unknown", "new", "connecting", "connected", "gone"}
  /\ TpFieldType["pending"] = SUBSET Call /\ TpFieldType["interfaces"] = BOOLEAN
  /\ TpFieldType["told"] = Presence \cup {None} /\ TpFieldType["watched"] = BOOLEAN
  /\ TpFieldType["connect_called"] = BOOLEAN /\ TpFieldType["disconnect_called"] = BOOLEAN
  /\ TpFieldType["seen"] = BOOLEAN
  /\ {"status", "pending", "interfaces", "told", "watched", "connect_called",
      "disconnect_called", "seen"} \subseteq TpFields
  BY DEF TpFieldType, TpFields

(* TpType, field by field.                                               *)
LEMMA TpTypeIs ==
  ASSUME NEW u
  PROVE  u \in TpType <=>
           u = [g \in TpFields |-> u[g]] /\ \A g \in TpFields : u[g] \in TpFieldType[g]
<1>1. ASSUME u \in TpType
      PROVE  u = [g \in TpFields |-> u[g]] /\ \A g \in TpFields : u[g] \in TpFieldType[g]
  <2>1. u = [g \in TpFields |-> u[g]]
    BY <1>1 DEF TpType, TpFields
  <2>2. \A g \in TpFields : u[g] \in TpFieldType[g]
    BY <1>1, TpFieldTypes DEF TpType, TpFields
  <2> QED BY <2>1, <2>2
<1>2. ASSUME u = [g \in TpFields |-> u[g]], \A g \in TpFields : u[g] \in TpFieldType[g]
      PROVE  u \in TpType
  <2>1. /\ u.status \in {"unused", "unknown", "new", "connecting", "connected", "gone"}
        /\ u.pending \in SUBSET Call /\ u.interfaces \in BOOLEAN
        /\ u.told \in Presence \cup {None} /\ u.watched \in BOOLEAN
        /\ u.connect_called \in BOOLEAN /\ u.disconnect_called \in BOOLEAN
        /\ u.seen \in BOOLEAN
    BY <1>2, TpFieldTypes
  <2> QED BY <1>2, <2>1 DEF TpType, TpFields
<1> QED BY <1>1, <1>2

(* The frame of a change to a TpConnection.                              *)
TpOthers(u, w, F) == \A g \in TpFields \ F : w[g] = u[g]

(* An assignment to a field of a TpConnection.                           *)
LEMMA TpRecord ==
  ASSUME NEW s, Typed(s), NEW c \in Tp, NEW f \in TpFields, NEW v \in TpFieldType[f],
         NEW u, u = [s.tp[c] EXCEPT ![f] = v]
  PROVE  u \in TpType /\ u[f] = v /\ TpOthers(s.tp[c], u, {f})
<1>1. s.tp[c] \in TpType
  BY CurrentType
<1>2. s.tp[c] = [g \in TpFields |-> s.tp[c][g]] /\ \A g \in TpFields : s.tp[c][g] \in TpFieldType[g]
  BY <1>1, TpTypeIs
<1>3. u[f] = v /\ TpOthers(s.tp[c], u, {f})
  BY <1>2 DEF TpOthers
<1>4. u = [g \in TpFields |-> u[g]] /\ \A g \in TpFields : u[g] \in TpFieldType[g]
  BY <1>2
<1> QED BY <1>3, <1>4, TpTypeIs

(* The same, in the account.                                             *)
LEMMA TpSet ==
  ASSUME NEW s, Typed(s), NEW c \in Tp, NEW f \in TpFields, NEW v \in TpFieldType[f]
  PROVE  LET t == [s EXCEPT !.tp[c][f] = v] IN
         /\ Typed(t) /\ Others(s, t, {"tp"})
         /\ t.tp[c][f] = v /\ TpOthers(s.tp[c], t.tp[c], {f})
         /\ \A d \in Tp \ {c} : t.tp[d] = s.tp[d]
<1> DEFINE u == [s.tp[c] EXCEPT ![f] = v]
           t == [s EXCEPT !.tp = [s.tp EXCEPT ![c] = u]]
<1>1. u \in TpType /\ u[f] = v /\ TpOthers(s.tp[c], u, {f})
  BY TpRecord
<1> HIDE DEF u
<1>2. t = [s EXCEPT !.tp = [s.tp EXCEPT ![c] = u]]
  OBVIOUS
<1> HIDE DEF t
<1>3. Typed(t) /\ Others(s, t, {"tp"})
  BY <1>1, <1>2, TpUpdated
<1>4. t.tp[c] = u /\ \A d \in Tp \ {c} : t.tp[d] = s.tp[d]
  <2>1. s.tp \in [Tp -> TpType] /\ IsAccount(s)
    BY TypedFields, TypedIsAccount
  <2>2. t["tp"] = [s.tp EXCEPT ![c] = u]
    BY <1>2, <2>1 DEF IsAccount, Fields
  <2> QED BY <2>1, <2>2
<1>5. /\ Typed(t) /\ Others(s, t, {"tp"})
      /\ t.tp[c][f] = v /\ TpOthers(s.tp[c], t.tp[c], {f})
      /\ \A d \in Tp \ {c} : t.tp[d] = s.tp[d]
  BY <1>1, <1>3, <1>4
<1> QED BY <1>5 DEF t, u

(* An assignment to a field of the account.                              *)
LEMMA FieldSet ==
  ASSUME NEW s, Typed(s), NEW f \in Fields, NEW v \in FieldType[f],
         NEW t, t = [s EXCEPT ![f] = v]
  PROVE  Typed(t) /\ Others(s, t, {f}) /\ t[f] = v
<1>1. Typed(t)
  BY TypedOne
<1>2. Others(s, t, {f}) /\ t[f] = v
  BY OthersOne, TypedIsAccount
<1> QED BY <1>1, <1>2

(* Core when one TpConnection changes: what is to be shown of it.        *)
LEMMA CoreTp ==
  ASSUME NEW s, NEW t, Core(s), Typed(t), NEW c \in Tp, t.tp_conn = s.tp_conn,
         \A d \in Tp \ {c} : t.tp[d] = s.tp[d],
         Attempts(t), InUse(t), Presences(t),
         t.tp[c].pending # {} => t.tp_conn = c \/ (t.tp_conn = None /\ t.tp[c].status = "gone"),
         t.tp[c].status # "unused",
         t.tp[c].seen => t.tp[c].status \in {"connecting", "connected", "gone"},
         t.tp[c].seen /\ t.tp_conn # c =>
           t.tp[c].disconnect_called \/ t.tp[c].status = "gone"
  PROVE  Core(t)
<1>1. Replies(t)
  BY DEF Core, Replies
<1>2. Histories(t)
  BY DEF Core, Histories
<1> QED BY <1>1, <1>2 DEF Core

(* What Core says of one TpConnection.                                   *)
LEMMA TpFacts ==
  ASSUME NEW s, Core(s), NEW c \in Tp
  PROVE  /\ s.tp[c].pending # {} =>
              s.tp_conn = c \/ (s.tp_conn = None /\ s.tp[c].status = "gone")
         /\ s.tp[c].status = "unused" => s.tp[c] = UnusedTp
         /\ s.tp[c].seen => s.tp[c].status \in {"connecting", "connected", "gone"}
         /\ s.tp[c].seen /\ s.tp_conn # c =>
              s.tp[c].disconnect_called \/ s.tp[c].status = "gone"
         /\ s.tp_conn \in Tp \cup {None} /\ s.tp[c].pending \subseteq Call
         /\ s.tp_conn = c =>
              /\ s.tp[c].status \notin {"gone", "unused"}
              /\ s.conn_status = "CONNECTED" <=> s.tp[c].status = "connected"
              /\ s.requested = 0 /\ ~s.reconnect_timer /\ ~s.connection_context /\ s.connection
              /\ s.loaded
<1>1. s.tp_conn \in Tp \cup {None} /\ s.tp[c].pending \subseteq Call
  BY CurrentType DEF Core
<1>2. s.loaded \in BOOLEAN /\ s.connection \in BOOLEAN
  BY TypedFields DEF Core
<1>3. ASSUME s.tp_conn = c
      PROVE  /\ s.tp[c].status \notin {"gone", "unused"}
             /\ s.conn_status = "CONNECTED" <=> s.tp[c].status = "connected"
             /\ s.requested = 0 /\ ~s.reconnect_timer /\ ~s.connection_context /\ s.connection
             /\ s.loaded
  BY <1>2, <1>3, NamesApart DEF Core, InUse, Attempts, Current
<1>4. /\ s.tp[c].pending # {} =>
              s.tp_conn = c \/ (s.tp_conn = None /\ s.tp[c].status = "gone")
      /\ s.tp[c].status = "unused" => s.tp[c] = UnusedTp
      /\ s.tp[c].seen => s.tp[c].status \in {"connecting", "connected", "gone"}
      /\ s.tp[c].seen /\ s.tp_conn # c =>
           s.tp[c].disconnect_called \/ s.tp[c].status = "gone"
  BY DEF Core, Replies, Histories
<1> QED BY <1>1, <1>3, <1>4

(* The calls that tasks_before_connect counts.                           *)
Early == {"GetInterfaces", "EarlyStatuses"}

(* The fields that a signal or a reply writes without ending the         *)
(* Connection.                                                           *)
TpFrame ==
  {"tp", "abort_requested", "connected", "reply", "orphaned", "conn_status",
   "probation_timer", "probation_drop_count"}

(* The invariant after such a callback.                                  *)
LEMMA TpGood ==
  ASSUME NEW s, Good(s), NEW t, Typed(t), NEW c \in Tp, Others(s, t, TpFrame),
         \A d \in Tp \ {c} : t.tp[d] = s.tp[d],
         s.tp_conn # c =>
           t.conn_status = s.conn_status /\ t.probation_timer = s.probation_timer,
         s.tp_conn = c =>
           /\ t.conn_status = "CONNECTED" <=> t.tp[c].status = "connected"
           /\ t.tp[c].status # "gone" /\ t.tp[c].told = s.tp[c].told
           /\ \A x \in Early : x \in t.tp[c].pending <=> x \in s.tp[c].pending,
         t.tp[c].status # "unused",
         t.tp[c].pending # {} =>
           s.tp_conn = c \/ (s.tp_conn = None /\ t.tp[c].status = "gone"),
         t.tp[c].pending \cap {"EarlyStatuses", "Statuses"} \subseteq s.tp[c].pending,
         t.tp[c].seen => t.tp[c].status \in {"connecting", "connected", "gone"},
         t.tp[c].seen /\ s.tp_conn # c =>
           t.tp[c].disconnect_called \/ t.tp[c].status = "gone"
  PROVE  Good(t) /\ Asks(s, t)
<1>1. /\ t.loaded = s.loaded /\ t.valid = s.valid
      /\ t.connection_context = s.connection_context
      /\ t.connection = s.connection /\ t.tp_conn = s.tp_conn
      /\ t.reconnect_timer = s.reconnect_timer
      /\ t.requested = s.requested
      /\ t.tasks_before_connect = s.tasks_before_connect
      /\ t.has_presence_if = s.has_presence_if
      /\ t.recognized_presences = s.recognized_presences
  BY DEF Others, TpFrame, Fields
<1>2. s.tp_conn \in Tp \cup {None} /\ Core(s)
  BY CurrentType DEF Good, Core
<1>3. s.tp_conn = c =>
        /\ s.requested = 0 /\ ~s.reconnect_timer /\ ~s.connection_context /\ s.connection
        /\ s.loaded
  BY <1>2, TpFacts
<1>4. Attempts(t)
  BY <1>1, <1>2, <1>3, NamesApart DEF Core, Attempts
<1>5. InUse(t)
  <2>1. CASE s.tp_conn = c
    <3>1. s.tasks_before_connect = One("GetInterfaces" \in s.tp[c].pending)
                                     + One("EarlyStatuses" \in s.tp[c].pending)
      BY <1>2, <2>1, NamesApart DEF Core, InUse, Current
    <3>2. /\ "GetInterfaces" \in t.tp[c].pending <=> "GetInterfaces" \in s.tp[c].pending
          /\ "EarlyStatuses" \in t.tp[c].pending <=> "EarlyStatuses" \in s.tp[c].pending
      BY <2>1 DEF Early
    <3>3. t.tasks_before_connect = One("GetInterfaces" \in t.tp[c].pending)
                                     + One("EarlyStatuses" \in t.tp[c].pending)
      BY <1>1, <3>1, <3>2 DEF One
    <3>4. "GetInterfaces" \in t.tp[c].pending => "EarlyStatuses" \notin t.tp[c].pending
      BY <1>2, <2>1, <3>2, NamesApart DEF Core, InUse, Current
    <3> QED BY <1>1, <2>1, <3>3, <3>4 DEF InUse, Current
  <2>2. CASE s.tp_conn # c
    BY <1>1, <1>2, <2>2 DEF Core, InUse, Current
  <2> QED BY <2>1, <2>2
<1>6. Presences(t)
  <2>1. \A d \in Tp : t.tp[d].pending \cap {"EarlyStatuses", "Statuses"} \subseteq s.tp[d].pending
    OBVIOUS
  <2> QED BY <1>1, <1>2, <2>1 DEF Core, Presences
<1>7. Core(t)
  BY <1>1, <1>2, <1>4, <1>5, <1>6, CoreTp
<1>8. s.tp_conn # None => Current(t).told = Current(s).told
  BY <1>1, <1>2 DEF Current
<1>9. Others(s, t, Quiet)
  BY DEF Others, TpFrame, Quiet, Fields
<1> QED BY <1>7, <1>8, <1>9, GoodQuiet

(* What an assignment to the status, the pending calls or the history    *)
(* leaves alone.                                                         *)
LEMMA TpSame ==
  ASSUME NEW u, NEW w, NEW f \in {"status", "pending", "seen"}, TpOthers(u, w, {f})
  PROVE  /\ w.told = u.told /\ w.disconnect_called = u.disconnect_called
         /\ f # "status" => w.status = u.status
         /\ f # "pending" => w.pending = u.pending
         /\ f # "seen" => w.seen = u.seen
  BY DEF TpOthers, TpFields

(* The status of a TpConnection changes.                                 *)
LEMMA TpStatusSet ==
  ASSUME NEW s, Core(s), NEW c \in Tp,
         NEW x \in {"unused", "unknown", "new", "connecting", "connected", "gone"},
         NEW t, t = [s EXCEPT !.tp[c]["status"] = x]
  PROVE  /\ Typed(t) /\ Others(s, t, {"tp"})
         /\ t.tp[c].status = x /\ t.tp[c].pending = s.tp[c].pending
         /\ t.tp[c].seen = s.tp[c].seen /\ t.tp[c].told = s.tp[c].told
         /\ t.tp[c].disconnect_called = s.tp[c].disconnect_called
         /\ \A d \in Tp \ {c} : t.tp[d] = s.tp[d]
<1> DEFINE r == [s EXCEPT !.tp[c]["status"] = x]
<1>1. "status" \in TpFields /\ x \in TpFieldType["status"]
  BY TpFieldTypes
<1>2. /\ Typed(r) /\ Others(s, r, {"tp"})
      /\ r.tp[c]["status"] = x /\ TpOthers(s.tp[c], r.tp[c], {"status"})
      /\ \A d \in Tp \ {c} : r.tp[d] = s.tp[d]
  BY <1>1, TpSet DEF Core
<1> HIDE DEF r
<1>3. /\ r.tp[c].pending = s.tp[c].pending
      /\ r.tp[c].seen = s.tp[c].seen /\ r.tp[c].told = s.tp[c].told
      /\ r.tp[c].disconnect_called = s.tp[c].disconnect_called
  BY <1>2, TpSame
<1>4. t = r
  BY DEF r
<1> QED BY <1>2, <1>3, <1>4

(* GetStatus returns.                                                    *)
LEMMA TpStatusKnownStep ==
  ASSUME Good(account), NEW c \in Tp, TpStatusKnown(c)
  PROVE  Good(account') /\ Asks(account, account')
<1> DEFINE s == [account EXCEPT !.tp[c]["status"] = "new"]
           a == [s EXCEPT !["abort_requested"] = FALSE]
           t == IF s.tp_conn = c THEN a ELSE s
<1>1. Becomes(t) /\ account.tp[c].status = "unknown"
  BY DEF TpStatusKnown
<1>2. /\ Typed(s) /\ Others(account, s, {"tp"})
      /\ s.tp[c].status = "new" /\ s.tp[c].pending = account.tp[c].pending
      /\ s.tp[c].seen = account.tp[c].seen /\ s.tp[c].told = account.tp[c].told
      /\ \A d \in Tp \ {c} : s.tp[d] = account.tp[d]
  BY TpStatusSet DEF Good
<1> HIDE DEF s
<1>3. Typed(a) /\ Others(s, a, {"abort_requested"})
  BY <1>2, FieldSet, FieldNames, FieldTypes
<1> HIDE DEF a
<1>4. Typed(t) /\ Others(s, t, {"abort_requested"})
  <2>1. t = a \/ t = s
    OBVIOUS
  <2> HIDE DEF t
  <2> QED BY <1>2, <1>3, <2>1 DEF Others
<1> HIDE DEF t
<1>5. /\ Others(account, t, TpFrame) /\ t.tp = s.tp
      /\ t.conn_status = account.conn_status /\ t.probation_timer = account.probation_timer
  BY <1>2, <1>4 DEF Others, TpFrame, Fields
<1>6. /\ account.tp[c].pending # {} => account.tp_conn = c
      /\ ~account.tp[c].seen
      /\ account.tp_conn = c => account.conn_status # "CONNECTED"
  BY <1>1, TpFacts DEF Good
<1>7. Good(t) /\ Asks(account, t)
  BY <1>2, <1>4, <1>5, <1>6, TpGood
<1> QED BY <1>1, <1>7, BecomesResult

(* StatusChanged to Connecting.                                          *)
LEMMA TpConnectingStep ==
  ASSUME Good(account), NEW c \in Tp, TpConnecting(c)
  PROVE  Good(account') /\ Asks(account, account')
<1> DEFINE s == [account EXCEPT !.tp[c]["status"] = "connecting"]
           a == [s EXCEPT !.conn_status = "CONNECTING"]
           b == [a EXCEPT !.abort_requested = FALSE, !.connected = FALSE]
           d == [b EXCEPT !.tp[c]["seen"] = TRUE]
           t == IF s.tp_conn = c THEN d ELSE s
<1>1. Becomes(t) /\ account.tp[c].status = "new"
  BY ConnectingIs DEF TpConnecting
<1>2. /\ Typed(s) /\ Others(account, s, {"tp"})
      /\ s.tp[c].status = "connecting" /\ s.tp[c].pending = account.tp[c].pending
      /\ s.tp[c].seen = account.tp[c].seen /\ s.tp[c].told = account.tp[c].told
      /\ \A e \in Tp \ {c} : s.tp[e] = account.tp[e]
  BY TpStatusSet DEF Good
<1> HIDE DEF s
<1>3. Typed(a) /\ Others(s, a, {"conn_status"}) /\ a.conn_status = "CONNECTING"
  <2>1. "conn_status" \in Fields /\ "CONNECTING" \in FieldType["conn_status"]
    BY FieldNames, FieldTypes
  <2>2. Typed(a)
    BY <1>2, <2>1, TypedOne
  <2>3. Others(s, a, {"conn_status"}) /\ a["conn_status"] = "CONNECTING"
    BY <1>2, <2>1, OthersOne, TypedIsAccount
  <2> QED BY <2>2, <2>3
<1> HIDE DEF a
<1>4. Typed(b) /\ Others(a, b, {"abort_requested", "connected"})
  <2>1. Typed(b)
    BY <1>3, TypedTwo, FieldNames, FieldTypes
  <2>2. Others(a, b, {"abort_requested", "connected"})
    BY <1>3, TypedIsAccount DEF IsAccount, Others
  <2> QED BY <2>1, <2>2
<1> HIDE DEF b
<1>5. /\ Typed(d) /\ Others(b, d, {"tp"}) /\ TpOthers(b.tp[c], d.tp[c], {"seen"})
      /\ \A e \in Tp \ {c} : d.tp[e] = b.tp[e]
  <2>1. "seen" \in TpFields /\ TRUE \in TpFieldType["seen"]
    BY TpFieldTypes
  <2>2. Typed(d) /\ Others(b, d, {"tp"})
    BY <1>4, <2>1, TpSet
  <2>3. TpOthers(b.tp[c], d.tp[c], {"seen"})
    BY <1>4, <2>1, TpSet
  <2>4. \A e \in Tp \ {c} : d.tp[e] = b.tp[e]
    BY <1>4, <2>1, TpSet
  <2> QED BY <2>2, <2>3, <2>4
<1> HIDE DEF d
<1>6. /\ Others(account, d, TpFrame) /\ b.tp = s.tp
      /\ d.conn_status = "CONNECTING"
  BY <1>2, <1>3, <1>4, <1>5 DEF Others, TpFrame, Fields
<1>7. /\ account.tp[c].pending # {} => account.tp_conn = c
      /\ ~account.tp[c].seen
      /\ account.tp_conn = c => account.conn_status # "CONNECTED"
  BY <1>1, TpFacts DEF Good
<1>8. s.tp_conn = account.tp_conn
  BY <1>2 DEF Others, Fields
<1>9. CASE account.tp_conn = c
  <2>1. t = d
    BY <1>8, <1>9
  <2>2. /\ d.tp[c].status = "connecting" /\ d.tp[c].pending = account.tp[c].pending
        /\ d.tp[c].told = account.tp[c].told
        /\ \A e \in Tp \ {c} : d.tp[e] = account.tp[e]
    BY <1>2, <1>5, <1>6, TpSame
  <2>3. Good(d) /\ Asks(account, d)
    BY <1>5, <1>6, <1>9, <2>2, TpGood
  <2> QED BY <1>1, <2>1, <2>3, BecomesResult
<1>10. CASE account.tp_conn # c
  <2>1. t = s
    BY <1>8, <1>10
  <2>2. /\ Others(account, s, TpFrame) /\ s.conn_status = account.conn_status
        /\ s.probation_timer = account.probation_timer
    BY <1>2 DEF Others, TpFrame, Fields
  <2>3. Good(s) /\ Asks(account, s)
    BY <1>2, <1>7, <1>10, <2>2, TpGood
  <2> QED BY <1>1, <2>1, <2>3, BecomesResult
<1> QED BY <1>9, <1>10

(* StatusChanged to Connected.                                           *)
LEMMA TpConnectedStep ==
  ASSUME Good(account), NEW c \in Tp, TpConnected(c)
  PROVE  Good(account') /\ Asks(account, account')
<1> DEFINE s == [account EXCEPT !.tp[c]["status"] = "connected"]
           a == SetConnectionStatus(s, "CONNECTED")
           b == [a EXCEPT !.probation_timer = TRUE, !.probation_drop_count = 0]
           v == IF a.probation_timer THEN a ELSE b
           d == [v EXCEPT !.connected = TRUE]
           t == IF s.tp_conn = c THEN d ELSE s
<1>1. Becomes(t) /\ account.tp[c].status = "connecting"
  BY DEF TpConnected
<1>2. /\ Typed(s) /\ Others(account, s, {"tp"})
      /\ s.tp[c].status = "connected" /\ s.tp[c].pending = account.tp[c].pending
      /\ s.tp[c].seen = account.tp[c].seen /\ s.tp[c].told = account.tp[c].told
      /\ s.tp[c].disconnect_called = account.tp[c].disconnect_called
      /\ \A e \in Tp \ {c} : s.tp[e] = account.tp[e]
  BY TpStatusSet DEF Good
<1> HIDE DEF s
<1>3. Typed(a) /\ Others(s, a, {"conn_status", "reply"}) /\ a.conn_status = "CONNECTED"
  BY <1>2, StatusEffect
<1> HIDE DEF a
<1>4. Typed(b) /\ Others(a, b, {"probation_timer", "probation_drop_count"})
  <2>1. Typed(b)
    BY <1>3, TypedTwo, FieldNames, FieldTypes
  <2>2. Others(a, b, {"probation_timer", "probation_drop_count"})
    BY <1>3, TypedIsAccount DEF IsAccount, Others
  <2> QED BY <2>1, <2>2
<1> HIDE DEF b
<1>5. Typed(v) /\ Others(a, v, {"probation_timer", "probation_drop_count"})
  <2>1. v = a \/ v = b
    OBVIOUS
  <2> HIDE DEF v
  <2> QED BY <1>3, <1>4, <2>1 DEF Others
<1> HIDE DEF v
<1>6. Typed(d) /\ Others(v, d, {"connected"})
  BY <1>5, FieldSet, FieldNames, FieldTypes
<1> HIDE DEF d
<1>7. /\ Others(account, d, TpFrame) /\ d.tp = s.tp
      /\ d.conn_status = "CONNECTED"
  BY <1>2, <1>3, <1>5, <1>6 DEF Others, TpFrame, Fields
<1>8. /\ account.tp[c].pending # {} => account.tp_conn = c
      /\ account.tp[c].seen /\ account.tp_conn # c => account.tp[c].disconnect_called
  BY <1>1, TpFacts DEF Good
<1>9. s.tp_conn = account.tp_conn
  BY <1>2 DEF Others, Fields
<1>10. CASE account.tp_conn = c
  <2>1. t = d
    BY <1>9, <1>10
  <2>3. Good(d) /\ Asks(account, d)
    BY <1>2, <1>6, <1>7, <1>10, TpGood
  <2> QED BY <1>1, <2>1, <2>3, BecomesResult
<1>11. CASE account.tp_conn # c
  <2>1. t = s
    BY <1>9, <1>11
  <2>2. /\ Others(account, s, TpFrame) /\ s.conn_status = account.conn_status
        /\ s.probation_timer = account.probation_timer
    BY <1>2 DEF Others, TpFrame, Fields
  <2>3. Good(s) /\ Asks(account, s)
    BY <1>2, <1>8, <1>11, <2>2, TpGood
  <2> QED BY <1>1, <2>1, <2>3, BecomesResult
<1> QED BY <1>10, <1>11

---------------------------------------------------------------------------
(* Its replies                                                           *)

(* The pending calls of c are x and little else changed.                 *)
PendingSet(s, t, c, x) ==
  /\ Typed(t) /\ Others(s, t, {"tp"})
  /\ t.tp[c].pending = x /\ t.tp[c].status = s.tp[c].status
  /\ t.tp[c].seen = s.tp[c].seen /\ t.tp[c].told = s.tp[c].told
  /\ t.tp[c].disconnect_called = s.tp[c].disconnect_called
  /\ \A d \in Tp \ {c} : t.tp[d] = s.tp[d]

(* An assignment to them.                                                *)
LEMMA TpPendingSet ==
  ASSUME NEW s, Typed(s), NEW c \in Tp, NEW x \in SUBSET Call,
         NEW t, t = [s EXCEPT !.tp[c]["pending"] = x]
  PROVE  PendingSet(s, t, c, x)
<1> DEFINE r == [s EXCEPT !.tp[c]["pending"] = x]
           u == [s.tp[c] EXCEPT !["pending"] = x]
<1>1. "pending" \in TpFields /\ x \in TpFieldType["pending"]
  BY TpFieldTypes
<1>2. Typed(r) /\ Others(s, r, {"tp"})
  BY <1>1, TpSet
<1>3. TpOthers(s.tp[c], r.tp[c], {"pending"})
  BY <1>1, TpSet
<1>4. \A d \in Tp \ {c} : r.tp[d] = s.tp[d]
  BY <1>1, TpSet
<1>5. r.tp[c].pending = x
  <2>1. s.tp[c] \in TpType /\ IsAccount(s) /\ s.tp \in [Tp -> TpType]
    BY CurrentType, TypedIsAccount, TypedFields
  <2>2. r.tp[c] = u
    BY <2>1 DEF IsAccount, Fields
  <2>3. u.pending = x
    <3>1. "pending" \in DOMAIN s.tp[c]
      BY <2>1 DEF TpType
    <3> QED BY <3>1
  <2> HIDE DEF u, r
  <2> QED BY <2>2, <2>3
<1> HIDE DEF r
<1>6. /\ r.tp[c].status = s.tp[c].status
      /\ r.tp[c].seen = s.tp[c].seen /\ r.tp[c].told = s.tp[c].told
      /\ r.tp[c].disconnect_called = s.tp[c].disconnect_called
  BY <1>3, TpSame
<1>7. t = r
  BY DEF r
<1> QED BY <1>2, <1>4, <1>5, <1>6, <1>7 DEF PendingSet

(* A reply is no longer pending.                                         *)
LEMMA AnsweredEffect ==
  ASSUME Typed(account), NEW c \in Tp, NEW x, NEW t, t = Answered(c, x)
  PROVE  /\ Typed(t) /\ Others(account, t, {"tp"})
         /\ t.tp[c].pending = account.tp[c].pending \ {x}
         /\ t.tp[c].status = account.tp[c].status
         /\ t.tp[c].seen = account.tp[c].seen /\ t.tp[c].told = account.tp[c].told
         /\ t.tp[c].disconnect_called = account.tp[c].disconnect_called
         /\ \A d \in Tp \ {c} : t.tp[d] = account.tp[d]
<1> DEFINE p == account.tp[c].pending \ {x}
<1>1. p \in SUBSET Call
  BY CurrentType
<1>2. t = [account EXCEPT !.tp[c]["pending"] = p]
  BY DEF Answered
<1> HIDE DEF p
<1>3. /\ Typed(t) /\ Others(account, t, {"tp"})
      /\ t.tp[c].pending = p
      /\ t.tp[c].status = account.tp[c].status
      /\ t.tp[c].seen = account.tp[c].seen /\ t.tp[c].told = account.tp[c].told
      /\ t.tp[c].disconnect_called = account.tp[c].disconnect_called
      /\ \A d \in Tp \ {c} : t.tp[d] = account.tp[d]
  <2>1. PendingSet(account, t, c, p)
    BY <1>1, <1>2, TpPendingSet
  <2> QED BY <2>1 DEF PendingSet
<1> QED BY <1>3 DEF p

(* Its arrival alone keeps the invariant, unless tasks_before_connect    *)
(* counts it.                                                            *)
LEMMA AnsweredGood ==
  ASSUME Good(account), NEW c \in Tp, NEW x, x \in account.tp[c].pending,
         x \notin Early \/ account.tp_conn # c, NEW t, t = Answered(c, x)
  PROVE  Good(t) /\ Asks(account, t)
<1>1. /\ Typed(t) /\ Others(account, t, {"tp"})
      /\ t.tp[c].pending = account.tp[c].pending \ {x}
      /\ t.tp[c].status = account.tp[c].status
      /\ t.tp[c].seen = account.tp[c].seen /\ t.tp[c].told = account.tp[c].told
      /\ t.tp[c].disconnect_called = account.tp[c].disconnect_called
      /\ \A d \in Tp \ {c} : t.tp[d] = account.tp[d]
  BY AnsweredEffect DEF Good, Core
<1>2. /\ Others(account, t, TpFrame) /\ t.conn_status = account.conn_status
      /\ t.probation_timer = account.probation_timer
  BY <1>1 DEF Others, TpFrame, Fields
<1>3. /\ account.tp_conn = c \/ (account.tp_conn = None /\ account.tp[c].status = "gone")
      /\ account.tp[c].seen => account.tp[c].status \in {"connecting", "connected", "gone"}
      /\ account.tp[c].seen /\ account.tp_conn # c =>
              account.tp[c].disconnect_called \/ account.tp[c].status = "gone"
      /\ account.tp_conn = c =>
              /\ account.tp[c].status \notin {"gone", "unused"}
              /\ account.conn_status = "CONNECTED" <=> account.tp[c].status = "connected"
  BY TpFacts DEF Good
<1> QED BY <1>1, <1>2, <1>3, TpGood

(* tp_proxy_prepare_async fails.                                         *)
LEMMA PrepareFailsStep ==
  ASSUME Good(account), NEW c \in Tp, PrepareFails(c)
  PROVE  Good(account') /\ Asks(account, account')
<1> DEFINE t == Answered(c, "Prepare")
<1>1. Becomes(t) /\ "Prepare" \in account.tp[c].pending
  BY DEF PrepareFails
<1>2. Good(t) /\ Asks(account, t)
  BY <1>1, AnsweredGood DEF Early
<1> HIDE DEF t
<1> QED BY <1>1, <1>2, BecomesResult

(* It succeeds.                                                          *)
LEMMA PreparedStep ==
  ASSUME Good(account), NEW c \in Tp, Prepared(c)
  PROVE  Good(account') /\ Asks(account, account')
<1> DEFINE p == (account.tp[c].pending \ {"Prepare"}) \cup {"Prepared"}
           s == [account EXCEPT !.tp[c]["pending"] = p]
           t == [s EXCEPT !.tp[c]["interfaces"] = TRUE]
<1>1. /\ Becomes(t) /\ "Prepare" \in account.tp[c].pending
      /\ account.tp[c].status = "connected"
  BY DEF Prepared
<1>2. /\ p \in SUBSET Call
      /\ \A x \in Early : x \in p <=> x \in account.tp[c].pending
      /\ p \cap {"EarlyStatuses", "Statuses"} \subseteq account.tp[c].pending
  BY CurrentType DEF Good, Core, Call, Early
<1> HIDE DEF p
<1>3. /\ Typed(s) /\ Others(account, s, {"tp"})
      /\ s.tp[c].pending = p /\ s.tp[c].status = account.tp[c].status
      /\ s.tp[c].seen = account.tp[c].seen /\ s.tp[c].told = account.tp[c].told
      /\ s.tp[c].disconnect_called = account.tp[c].disconnect_called
      /\ \A d \in Tp \ {c} : s.tp[d] = account.tp[d]
  <2>0. Typed(account)
    BY DEF Good, Core
  <2>1. PendingSet(account, s, c, p)
    BY <1>2, <2>0, TpPendingSet
  <2> HIDE DEF s
  <2> QED BY <2>1 DEF PendingSet
<1> HIDE DEF s
<1>4. "interfaces" \in TpFields /\ TRUE \in TpFieldType["interfaces"]
  BY TpFieldTypes
<1>5. Typed(t) /\ Others(s, t, {"tp"})
  BY <1>3, <1>4, TpSet
<1>6. TpOthers(s.tp[c], t.tp[c], {"interfaces"})
  BY <1>3, <1>4, TpSet
<1>7. \A d \in Tp \ {c} : t.tp[d] = s.tp[d]
  BY <1>3, <1>4, TpSet
<1> HIDE DEF t
<1>8. /\ t.tp[c].pending = p /\ t.tp[c].status = "connected"
      /\ t.tp[c].seen = account.tp[c].seen /\ t.tp[c].told = account.tp[c].told
      /\ t.tp[c].disconnect_called = account.tp[c].disconnect_called
  BY <1>1, <1>3, <1>6 DEF TpOthers, TpFields
<1>9. \A d \in Tp \ {c} : t.tp[d] = account.tp[d]
  BY <1>3, <1>7
<1>10. /\ Others(account, t, TpFrame) /\ t.conn_status = account.conn_status
       /\ t.probation_timer = account.probation_timer
  BY <1>3, <1>5 DEF Others, TpFrame, Fields
<1>11. account.tp_conn = c /\ account.conn_status = "CONNECTED"
  BY <1>1, TpFacts DEF Good
<1>12. Good(t) /\ Asks(account, t)
  BY <1>2, <1>5, <1>8, <1>9, <1>10, <1>11, TpGood
<1> QED BY <1>1, <1>12, BecomesResult

(* RequestConnection returns to nobody: the Connection is told to        *)
(* disconnect.                                                           *)
LEMMA OrphanReturnsStep ==
  ASSUME Good(account), NEW c \in Tp, OrphanReturns(c)
  PROVE  Good(account') /\ Asks(account, account')
<1> DEFINE n == account.orphaned - 1
           a == [account EXCEPT !.orphaned = n]
           s == [a EXCEPT !.tp[c]["status"] = "new"]
           t == [s EXCEPT !.tp[c]["disconnect_called"] = TRUE]
<1>1. /\ Becomes(t) /\ account.orphaned > 0
      /\ account.tp[c].status = "unused"
  BY DEF OrphanReturns
<1>2. n \in Nat
  BY <1>1, TypedFields DEF Good, Core
<1> HIDE DEF n
<1>3. Core(a) /\ Others(account, a, {"orphaned"})
  <2>1. "orphaned" \in Free /\ n \in FieldType["orphaned"]
    BY <1>2, FieldTypes DEF Free
  <2> QED BY <2>1, FreeOne DEF Good
<1> HIDE DEF a
<1>4. /\ Typed(s) /\ Others(a, s, {"tp"})
      /\ s.tp[c].status = "new" /\ s.tp[c].pending = a.tp[c].pending
      /\ s.tp[c].seen = a.tp[c].seen /\ s.tp[c].told = a.tp[c].told
      /\ \A d \in Tp \ {c} : s.tp[d] = a.tp[d]
  BY <1>3, TpStatusSet
<1> HIDE DEF s
<1>5. "disconnect_called" \in TpFields /\ TRUE \in TpFieldType["disconnect_called"]
  BY TpFieldTypes
<1>6. Typed(t) /\ Others(s, t, {"tp"})
  BY <1>4, <1>5, TpSet
<1>7. TpOthers(s.tp[c], t.tp[c], {"disconnect_called"})
  BY <1>4, <1>5, TpSet
<1>8. \A d \in Tp \ {c} : t.tp[d] = s.tp[d]
  BY <1>4, <1>5, TpSet
<1> HIDE DEF t
<1>9. a.tp = account.tp
  BY <1>3 DEF Others, Fields
<1>10. /\ t.tp[c].pending = account.tp[c].pending /\ t.tp[c].status = "new"
       /\ t.tp[c].seen = account.tp[c].seen
  BY <1>4, <1>7, <1>9 DEF TpOthers, TpFields
<1>11. \A d \in Tp \ {c} : t.tp[d] = account.tp[d]
  BY <1>4, <1>8, <1>9
<1>12. /\ Others(account, t, TpFrame) /\ t.conn_status = account.conn_status
       /\ t.probation_timer = account.probation_timer
  BY <1>3, <1>4, <1>6 DEF Others, TpFrame, Fields
<1>13. account.tp_conn # c /\ account.tp[c].pending = {} /\ ~account.tp[c].seen
  BY <1>1, TpFacts, UnusedFields DEF Good
<1>14. Good(t) /\ Asks(account, t)
  BY <1>6, <1>10, <1>11, <1>12, <1>13, TpGood
<1> QED BY <1>1, <1>14, BecomesResult

(* RequestConnection returns: MC uses the new TpConnection, and its      *)
(* first calls are made.                                                 *)
LEMMA RequestConnectionReturnsStep ==
  ASSUME Good(account), NEW c \in Tp, RequestConnectionReturns(c)
  PROVE  Good(account') /\ Asks(account, account')
<1> DEFINE n == account.requested - 1
           q == {"GetInterfaces", "Prepare"}
           a == [account EXCEPT !.requested = n, !.tp_conn = c, !.tasks_before_connect = 1]
           s == [a EXCEPT !.tp[c]["status"] = "unknown"]
           t == [s EXCEPT !.tp[c]["pending"] = q]
<1>1. /\ account.requested > 0
      /\ account.tp[c].status = "unused"
      /\ \A u \in Tp : account.tp[u].status # "gone"
  BY DEF RequestConnectionReturns
<1>2. /\ account.requested = 1 /\ account.tp_conn = None /\ ~account.connection_context
      /\ account.conn_status = "CONNECTING" /\ ~account.reconnect_timer
      /\ account.connection /\ account.loaded /\ ~account.probation_timer
      /\ ~account.recognized_presences
  <2>1. account.connection \in BOOLEAN /\ account.loaded \in BOOLEAN
        /\ account.requested \in Nat
    BY TypedFields DEF Good, Core
  <2> QED BY <1>1, <2>1 DEF Good, Core, Attempts
<1>3. Becomes(t)
  BY <1>2 DEF RequestConnectionReturns
<1>4. n = 0
  BY <1>2
<1> HIDE DEF n
<1>5. IsAccount(a) /\ a.requested = 0 /\ a.tp_conn = c /\ a.tasks_before_connect = 1
  BY <1>4, TypedIsAccount DEF Good, Core, IsAccount, Fields
<1>6. Others(account, a, {"requested", "tp_conn", "tasks_before_connect"})
  BY TypedIsAccount DEF Good, Core, IsAccount, Others
<1> HIDE DEF a
<1>7. Typed(a)
  <2>1. {"requested", "tp_conn", "tasks_before_connect"} \in SUBSET Fields
    BY FieldNames
  <2>2. \A f \in {"requested", "tp_conn", "tasks_before_connect"} : a[f] \in FieldType[f]
    BY <1>5, FieldTypes
  <2> QED BY <1>5, <1>6, <2>1, <2>2, TypedBy DEF Good, Core
<1>8. /\ Typed(s) /\ Others(a, s, {"tp"}) /\ s.tp[c].status = "unknown"
      /\ TpOthers(a.tp[c], s.tp[c], {"status"})
      /\ \A d \in Tp \ {c} : s.tp[d] = a.tp[d]
  <2>1. "status" \in TpFields /\ "unknown" \in TpFieldType["status"]
    BY TpFieldTypes
  <2> QED BY <1>7, <2>1, TpSet
<1> HIDE DEF s
<1>9. q \in SUBSET Call
  BY DEF Call
<1>10. /\ Typed(t) /\ Others(s, t, {"tp"})
       /\ t.tp[c].pending = q /\ t.tp[c].status = s.tp[c].status
       /\ t.tp[c].seen = s.tp[c].seen
       /\ \A d \in Tp \ {c} : t.tp[d] = s.tp[d]
  <2> HIDE DEF q
  <2>1. PendingSet(s, t, c, q)
    BY <1>8, <1>9, TpPendingSet
  <2> HIDE DEF t
  <2> QED BY <2>1 DEF PendingSet
<1> HIDE DEF t
<1>11. a.tp = account.tp
  BY <1>6 DEF Others, Fields
<1>12. ~account.tp[c].seen
  BY <1>1, TpFacts, UnusedFields DEF Good
<1>13. t.tp[c].pending = q /\ t.tp[c].status = "unknown" /\ ~t.tp[c].seen
  BY <1>8, <1>10, <1>11, <1>12 DEF TpOthers, TpFields
<1>14. \A d \in Tp \ {c} : t.tp[d] = account.tp[d]
  BY <1>8, <1>10, <1>11
<1>15. t.requested = 0 /\ t.tp_conn = c /\ t.tasks_before_connect = 1
  BY <1>5, <1>8, <1>10 DEF Others, Fields
<1>16. Others(account, t, {"requested", "tp_conn", "tasks_before_connect", "tp"})
  BY <1>6, <1>8, <1>10 DEF Others
<1>17. /\ t.loaded = account.loaded /\ t.valid = account.valid
       /\ t.connection_context = account.connection_context
       /\ t.waiting_for_connectivity = account.waiting_for_connectivity
       /\ t.connection = account.connection
       /\ t.reconnect_timer = account.reconnect_timer
       /\ t.conn_status = account.conn_status
       /\ t.probation_timer = account.probation_timer
       /\ t.recognized_presences = account.recognized_presences
  BY <1>16 DEF Others, Fields
<1>18. \A d \in Tp \ {c} : t.tp[d].pending = {}
  BY <1>1, <1>2, <1>14, TpFacts, NamesApart DEF Good
<1>19. Attempts(t)
  BY <1>2, <1>15, <1>17, NamesApart DEF Attempts
<1>20. InUse(t)
  BY <1>2, <1>13, <1>15, <1>17 DEF InUse, Current, One
<1>21. Replies(t)
  BY <1>15, <1>18 DEF Replies
<1>22. Histories(t)
  <2> SUFFICES ASSUME NEW d \in Tp
               PROVE  /\ t.tp[d].status = "unused" => t.tp[d] = UnusedTp
                      /\ t.tp[d].seen => t.tp[d].status \in {"connecting", "connected", "gone"}
                      /\ t.tp[d].seen /\ t.tp_conn # d =>
                           t.tp[d].disconnect_called \/ t.tp[d].status = "gone"
    BY DEF Histories
  <2>1. CASE d = c
    BY <1>13, <1>15, <2>1
  <2>2. CASE d # c
    BY <1>2, <1>14, <2>2, TpFacts, NamesApart DEF Good
  <2> QED BY <2>1, <2>2
<1>23. Presences(t)
  BY <1>2, <1>13, <1>17, <1>18 DEF Presences
<1>24. Core(t)
  BY <1>10, <1>19, <1>20, <1>21, <1>22, <1>23 DEF Core
<1>25. Told(t) /\ Waits(t)
  BY <1>2, <1>17 DEF Told, Good, Waits
<1>26. Good(t) /\ Asks(account, t)
  BY <1>2, <1>15, <1>24, <1>25 DEF Good, Asks
<1> QED BY <1>3, <1>26, BecomesResult

---------------------------------------------------------------------------
(* Its end                                                               *)

(* The reconnection interval stays between its bounds.                   *)
LEMMA LongerWait ==
  ASSUME NEW i \in InitialReconnectionTime..MaximumReconnectionTime
  PROVE  LET n == i * ReconnectionMultiplier IN
         (IF n >= MaximumReconnectionTime THEN MaximumReconnectionTime ELSE n)
           \in InitialReconnectionTime..MaximumReconnectionTime
<1>1. /\ i \in Nat /\ ReconnectionMultiplier \in Nat /\ ReconnectionMultiplier >= 1
      /\ InitialReconnectionTime \in Nat /\ MaximumReconnectionTime \in Nat
      /\ InitialReconnectionTime <= i /\ InitialReconnectionTime <= MaximumReconnectionTime
  BY BoundsAreNat
<1>2. \A a, b \in Nat : b >= 1 => a * b \in Nat /\ a * b >= a
  OBVIOUS
<1> DEFINE n == i * ReconnectionMultiplier
<1>3. n \in Nat /\ n >= i
  BY <1>1, <1>2
<1> HIDE DEF n
<1>4. (IF n >= MaximumReconnectionTime THEN MaximumReconnectionTime ELSE n)
           \in InitialReconnectionTime..MaximumReconnectionTime
  BY <1>1, <1>3
<1> QED BY <1>4 DEF n

(* The end of mcd_connection_invalidated_cb: a retry later, or none.     *)
LEMMA RetryGood ==
  ASSUME NEW s, Good(s), s.tp_conn = None, s.requested = 0, s.conn_status = "DISCONNECTED",
         s.connection, ~s.connection_context, NEW kind, NEW r, r = RetryOrAbort(s, kind)
  PROVE  Good(r) /\ r.requested = 0
<1> DEFINE n == s.reconnect_interval * ReconnectionMultiplier
           m == IF n >= MaximumReconnectionTime THEN MaximumReconnectionTime ELSE n
           t == [s EXCEPT !.reconnect_timer = TRUE, !.reconnect_interval = m]
           a == Abort(s)
<1>1. m \in FieldType["reconnect_interval"]
  <2>1. s.reconnect_interval \in InitialReconnectionTime..MaximumReconnectionTime
    BY TypedFields DEF Good, Core
  <2>2. m \in InitialReconnectionTime..MaximumReconnectionTime
    <3> DEFINE i == s.reconnect_interval
    <3> HIDE DEF i
    <3>1. i \in InitialReconnectionTime..MaximumReconnectionTime
      BY <2>1 DEF i
    <3> QED BY <3>1, LongerWait DEF i
  <2> HIDE DEF m
  <2> QED BY <2>2, FieldTypes
<1>2. r = a \/ r = s \/ r = t
  BY DEF RetryOrAbort
<1> HIDE DEF m
<1>3. Core(a) /\ Told(a) /\ Waits(a) /\ a.requested = 0
  BY AbortCore, CoreEnded DEF Good
<1>4. Typed(t)
  BY <1>1, TypedTwo, FieldNames, FieldTypes DEF Good, Core
<1>5. Others(s, t, {"reconnect_timer", "reconnect_interval"})
  BY TypedIsAccount DEF Good, Core, IsAccount, Others
<1> HIDE DEF t, a
<1>6. /\ t.loaded = s.loaded /\ t.valid = s.valid
      /\ t.connection_context = s.connection_context
      /\ t.waiting_for_connectivity = s.waiting_for_connectivity
      /\ t.connection = s.connection /\ t.tp_conn = s.tp_conn
      /\ t.conn_status = s.conn_status /\ t.requested = s.requested
      /\ t.probation_timer = s.probation_timer
      /\ t.recognized_presences = s.recognized_presences
  BY <1>5 DEF Others, Fields
<1>7. Attempts(t)
  BY <1>6 DEF Good, Core, Attempts
<1>8. Others(s, t, AttemptFields)
  BY <1>5 DEF Others, AttemptFields, Free
<1>9. Core(t)
  BY <1>4, <1>7, <1>8, AttemptsCore DEF Good
<1>10. Told(t) /\ Waits(t)
  BY <1>6, <1>7, SilentTold DEF Good, Waits
<1> QED BY <1>2, <1>3, <1>6, <1>9, <1>10 DEF Good

(* The TpConnection in use is gone and is released.                      *)
LEMMA ReleasedCore ==
  ASSUME NEW s, Good(s), NEW c \in Tp, s.tp_conn = c, NEW u, Typed(u),
         Others(s, u, {"tp", "abort_requested"}), u.tp[c].status = "gone",
         \A d \in Tp \ {c} : u.tp[d] = s.tp[d],
         u.tp[c].pending = s.tp[c].pending,
         NEW r, r = Release(u)
  PROVE  /\ Good(r) /\ r.tp_conn = None /\ r.requested = 0 /\ r.conn_status = "DISCONNECTED"
         /\ r.connection /\ ~r.connection_context /\ ~r.probation_timer
<1>1. /\ Typed(r) /\ Others(u, r, Released) /\ LetGo(u, r)
      /\ r.tp_conn = None /\ ~r.recognized_presences /\ r.conn_status = "DISCONNECTED"
      /\ ~r.probation_timer \/ (u.tp_conn = None /\ r.probation_timer = u.probation_timer)
  BY ReleaseEffect
<1>2. /\ s.requested = 0 /\ ~s.reconnect_timer /\ ~s.connection_context /\ s.connection
      /\ s.loaded /\ ~s.waiting_for_connectivity
  <2>1. s.waiting_for_connectivity \in BOOLEAN
    BY TypedFields DEF Good, Core
  <2> QED BY <2>1, TpFacts DEF Good, Waits
<1>3. /\ u.tp_conn = c /\ u.loaded = s.loaded /\ u.valid = s.valid
      /\ u.connection_context = s.connection_context
      /\ u.waiting_for_connectivity = s.waiting_for_connectivity
      /\ u.connection = s.connection /\ u.requested = s.requested
      /\ u.reconnect_timer = s.reconnect_timer
      /\ u.has_presence_if = s.has_presence_if
  BY DEF Others, Fields
<1>4. /\ r.loaded = s.loaded /\ r.valid = s.valid
      /\ r.connection_context = s.connection_context
      /\ r.waiting_for_connectivity = s.waiting_for_connectivity
      /\ r.connection = s.connection /\ r.requested = s.requested
      /\ r.reconnect_timer = s.reconnect_timer
      /\ r.has_presence_if = s.has_presence_if
  BY <1>1, <1>3 DEF Others, Released, Dropped, Fields
<1>5. ~r.probation_timer
  BY <1>1, <1>3, NamesApart
<1>6. Attempts(r)
  BY <1>1, <1>2, <1>4, <1>5 DEF Attempts
<1>7. \A d \in Tp : r.tp[d].pending = s.tp[d].pending /\ (d # c => r.tp[d] = s.tp[d])
  BY <1>1, <1>3 DEF LetGo
<1>8. Replies(r)
  <2> SUFFICES ASSUME NEW d \in Tp, r.tp[d].pending # {} PROVE r.tp[d].status = "gone"
    BY <1>1 DEF Replies
  <2>1. d = c
    BY <1>7, TpFacts, NamesApart DEF Good
  <2> QED BY <1>1, <2>1 DEF LetGo
<1>9. Histories(u)
  <2> SUFFICES ASSUME NEW d \in Tp
               PROVE  /\ u.tp[d].status = "unused" => u.tp[d] = UnusedTp
                      /\ u.tp[d].seen => u.tp[d].status \in {"connecting", "connected", "gone"}
                      /\ u.tp[d].seen /\ u.tp_conn # d =>
                           u.tp[d].disconnect_called \/ u.tp[d].status = "gone"
    BY DEF Histories
  <2>1. CASE d = c
    BY <2>1
  <2>2. CASE d # c
    BY <1>3, <2>2, TpFacts DEF Good
  <2> QED BY <2>1, <2>2
<1>10. Histories(r)
  BY <1>1, <1>3, <1>9, LetGoHistories DEF Current
<1>11. Presences(r)
  BY <1>1, <1>4, <1>7 DEF Good, Core, Presences
<1>12. InUse(r)
  BY <1>1 DEF InUse
<1>13. Core(r)
  BY <1>1, <1>6, <1>8, <1>10, <1>11, <1>12 DEF Core
<1>14. Told(r) /\ Waits(r)
  BY <1>1, <1>2, <1>4 DEF Told, Waits
<1> QED BY <1>1, <1>2, <1>4, <1>5, <1>13, <1>14 DEF Good

(* A Connection ends.                                                    *)
LEMMA InvalidatedStep ==
  ASSUME Good(account), NEW c \in Tp, NEW kind, Invalidated(c, kind)
  PROVE  Good(account') /\ Asks(account, account')
<1> DEFINE s == [account EXCEPT !.tp[c]["status"] = "gone"]
           b == (kind = "requested")
           a == [s EXCEPT !.abort_requested = b]
           u == IF kind = "crash" THEN s ELSE a
           r == InvalidatedCb(u, kind)
           t == IF s.tp_conn = c THEN r ELSE s
<1>1. Becomes(t) /\ account.tp[c].status \notin {"unused", "gone"}
  BY DEF Invalidated
<1>2. /\ Typed(s) /\ Others(account, s, {"tp"})
      /\ s.tp[c].status = "gone" /\ s.tp[c].pending = account.tp[c].pending
      /\ s.tp[c].seen = account.tp[c].seen /\ s.tp[c].told = account.tp[c].told
      /\ s.tp[c].disconnect_called = account.tp[c].disconnect_called
      /\ \A d \in Tp \ {c} : s.tp[d] = account.tp[d]
  <2>0. Core(account)
    BY DEF Good
  <2>1. Typed(s) /\ Others(account, s, {"tp"}) /\ s.tp[c].status = "gone"
    BY <2>0, TpStatusSet
  <2>2. /\ s.tp[c].seen = account.tp[c].seen /\ s.tp[c].told = account.tp[c].told
        /\ s.tp[c].disconnect_called = account.tp[c].disconnect_called
    BY <2>0, TpStatusSet
  <2>3. s.tp[c].pending = account.tp[c].pending
    BY <2>0, TpStatusSet
  <2>4. \A d \in Tp \ {c} : s.tp[d] = account.tp[d]
    BY <2>0, TpStatusSet
  <2> QED BY <2>1, <2>2, <2>3, <2>4
<1> HIDE DEF s
<1>3. s.tp_conn = account.tp_conn
  BY <1>2 DEF Others, Fields
<1>4. CASE account.tp_conn # c
  <2>1. t = s
    BY <1>3, <1>4
  <2>2. /\ Others(account, s, TpFrame) /\ s.conn_status = account.conn_status
        /\ s.probation_timer = account.probation_timer
    BY <1>2 DEF Others, TpFrame, Fields
  <2>3. account.tp[c].pending = {}
    BY <1>1, <1>4, TpFacts DEF Good
  <2>4. Good(s) /\ Asks(account, s)
    BY <1>2, <1>4, <2>2, <2>3, TpGood
  <2> QED BY <1>1, <2>1, <2>4, BecomesResult
<1>5. CASE account.tp_conn = c
  <2> DEFINE v == Release(u)
             w == [v EXCEPT !.connected = FALSE]
  <2>1. Typed(a) /\ Others(s, a, {"abort_requested"})
    <3>1. b \in FieldType["abort_requested"]
      BY FieldTypes
    <3> HIDE DEF b
    <3>2. Typed(a)
      BY <1>2, <3>1, TypedOne, FieldNames
    <3>3. Others(s, a, {"abort_requested"})
      BY <1>2, OthersOne, TypedIsAccount, FieldNames
    <3> QED BY <3>2, <3>3
  <2> HIDE DEF a
  <2>2. Typed(u) /\ Others(s, u, {"abort_requested"})
    <3>1. u = a \/ u = s
      OBVIOUS
    <3> HIDE DEF u
    <3> QED BY <1>2, <2>1, <3>1 DEF Others
  <2> HIDE DEF u
  <2>3. Others(account, u, {"tp", "abort_requested"}) /\ u.tp = s.tp
    BY <1>2, <2>2 DEF Others, Fields
  <2>4. /\ Good(v) /\ v.tp_conn = None /\ v.requested = 0 /\ v.conn_status = "DISCONNECTED"
        /\ v.connection /\ ~v.connection_context /\ ~v.probation_timer
    BY <1>2, <1>5, <2>2, <2>3, ReleasedCore
  <2>5. r = RetryOrAbort(w, kind)
    BY <2>4 DEF InvalidatedCb
  <2> HIDE DEF v
  <2>6. Core(w) /\ Others(v, w, {"connected"})
    <3>1. "connected" \in Free /\ FALSE \in FieldType["connected"]
      BY FieldTypes DEF Free
    <3> QED BY <2>4, <3>1, FreeOne DEF Good
  <2> HIDE DEF w
  <2>7. /\ w.tp_conn = v.tp_conn /\ w.requested = v.requested
        /\ w.conn_status = v.conn_status /\ w.connection = v.connection
        /\ w.connection_context = v.connection_context
        /\ w.waiting_for_connectivity = v.waiting_for_connectivity
    BY <2>6 DEF Others, Fields
  <2>8. Good(w)
    BY <2>4, <2>6, <2>7, SilentTold DEF Good, Core, Waits
  <2>9. Good(r) /\ r.requested = 0
    <3> HIDE DEF r
    <3> QED BY <2>4, <2>5, <2>7, <2>8, RetryGood
  <2>10. t = r
    BY <1>3, <1>5
  <2> HIDE DEF r, t
  <2>11. Asks(account, t)
    <3>1. account.requested \in Nat
      BY TypedFields DEF Good, Core
    <3> QED BY <2>9, <2>10, <3>1 DEF Asks
  <2> QED BY <1>1, <2>9, <2>10, <2>11, BecomesResult
<1> QED BY <1>4, <1>5

---------------------------------------------------------------------------
(* Dispatching, and the set-up of a Connection                           *)

(* _mcd_connection_start_dispatching.                                    *)
LEMMA StartDispatchingGood ==
  ASSUME NEW s, Good(s), NEW t, t = StartDispatching(s)
  PROVE  /\ Good(t) /\ t.requested = s.requested
         /\ Others(s, t, {"dispatching_started", "tp"})
<1> DEFINE a == [s EXCEPT !.dispatching_started = TRUE]
           c == s.tp_conn
           b == [a EXCEPT !.tp = [a.tp EXCEPT ![c] = [a.tp[c] EXCEPT !["watched"] = TRUE]]]
<1>1. t = IF s.dispatching_started THEN s ELSE IF c = None THEN a ELSE b
  BY DEF StartDispatching
<1>2. Core(a) /\ Others(s, a, {"dispatching_started"})
  <2>1. "dispatching_started" \in Free /\ TRUE \in FieldType["dispatching_started"]
    BY FieldTypes DEF Free
  <2> QED BY <2>1, FreeOne DEF Good
<1> HIDE DEF a
<1>3. a.tp = s.tp /\ a.tp_conn = s.tp_conn
  BY <1>2 DEF Others, Fields
<1>4. Good(a) /\ a.requested = s.requested
  <2>1. Others(s, a, Quiet)
    BY <1>2 DEF Others, Quiet, Fields
  <2> QED BY <1>2, <1>3, <2>1, GoodQuiet DEF Current
<1>5. ASSUME c # None
      PROVE  Good(b) /\ b.requested = s.requested /\ Others(s, b, {"dispatching_started", "tp"})
  <2>1. c \in Tp /\ a.tp[c].status # "unused"
    BY <1>2, <1>3, <1>5, CurrentLives
  <2>2. [a.tp[c] EXCEPT !["watched"] = TRUE] \in TpType
    BY <1>2, <2>1, CurrentType DEF Core
  <2> HIDE DEF c
  <2>3. "watched" \in Connecteds /\ "watched" # "disconnect_called" /\ "watched" # "told"
    BY DEF Connecteds
  <2>4. Core(b)
    BY <1>2, <2>1, <2>2, <2>3, TpField
  <2>5. Others(a, b, {"tp"})
    BY <1>2, <2>1, <2>2, <2>3, TpField
  <2>6. b.tp[c].told = a.tp[c].told
    BY <1>2, <2>1, <2>2, <2>3, TpField
  <2> HIDE DEF b
  <2>7. b.tp_conn = c /\ Others(s, b, {"dispatching_started", "tp"})
    BY <1>2, <1>3, <2>5 DEF Others, Fields, c
  <2>8. Others(s, b, Quiet)
    BY <2>7 DEF Others, Quiet, Fields
  <2>9. Current(b).told = Current(s).told
    BY <1>3, <2>6, <2>7 DEF Current, c
  <2> QED BY <2>4, <2>7, <2>8, <2>9, GoodQuiet
<1>6. Others(s, s, {"dispatching_started", "tp"}) /\ Others(s, a, {"dispatching_started", "tp"})
  BY <1>2 DEF Others
<1> HIDE DEF b
<1> QED BY <1>1, <1>4, <1>5, <1>6

(* _mcd_dispatcher_add_connection.                                       *)
LEMMA AddConnectionGood ==
  ASSUME NEW s, Good(s), NEW t, t = AddConnection(s)
  PROVE  /\ Good(t) /\ t.requested = s.requested
         /\ Others(s, t, {"dispatching_started", "dispatcher_knows", "tp"})
<1> DEFINE a == [s EXCEPT !.dispatcher_knows = TRUE]
           b == StartDispatching(a)
<1>1. t = a \/ t = b
  BY DEF AddConnection
<1>2. Core(a) /\ Others(s, a, {"dispatcher_knows"})
  <2>1. "dispatcher_knows" \in Free /\ TRUE \in FieldType["dispatcher_knows"]
    BY FieldTypes DEF Free
  <2> QED BY <2>1, FreeOne DEF Good
<1> HIDE DEF a
<1>3. Good(a) /\ a.requested = s.requested
  <2>1. Others(s, a, Quiet) /\ a.tp = s.tp /\ a.tp_conn = s.tp_conn
    BY <1>2 DEF Others, Quiet, Fields
  <2> QED BY <1>2, <2>1, GoodQuiet DEF Current
<1>4. Good(b) /\ b.requested = a.requested /\ Others(a, b, {"dispatching_started", "tp"})
  BY <1>3, StartDispatchingGood
<1> HIDE DEF b
<1>5. /\ Others(s, a, {"dispatching_started", "dispatcher_knows", "tp"})
      /\ Others(s, b, {"dispatching_started", "dispatcher_knows", "tp"})
  BY <1>2, <1>4 DEF Others
<1> QED BY <1>1, <1>3, <1>4, <1>5

(* The client registry is ready.                                         *)
LEMMA RegistryReadyStep ==
  ASSUME Good(account), RegistryReady
  PROVE  Good(account') /\ Asks(account, account')
<1> DEFINE s == [account EXCEPT !.registry_ready = TRUE]
           d == StartDispatching(s)
           t == IF s.dispatcher_knows THEN d ELSE s
<1>1. Becomes(t)
  BY DEF RegistryReady
<1>2. Core(s) /\ Others(account, s, {"registry_ready"})
  <2>1. "registry_ready" \in Free /\ TRUE \in FieldType["registry_ready"]
    BY FieldTypes DEF Free
  <2> QED BY <2>1, FreeOne DEF Good
<1> HIDE DEF s
<1>3. Good(s) /\ s.requested = account.requested
  <2>1. Others(account, s, Quiet) /\ s.tp = account.tp /\ s.tp_conn = account.tp_conn
    BY <1>2 DEF Others, Quiet, Fields
  <2> QED BY <1>2, <2>1, GoodQuiet DEF Current
<1>4. Good(d) /\ d.requested = s.requested
  BY <1>3, StartDispatchingGood
<1> HIDE DEF d
<1>5. t = d \/ t = s
  OBVIOUS
<1> HIDE DEF t
<1>6. Good(t) /\ t.requested = account.requested
  BY <1>3, <1>4, <1>5
<1> QED BY <1>1, <1>6, GoodBy, BecomesResult DEF Good

(* mcd_connection_done_task_before_connect, which may call Connect.      *)
LEMMA DoneTaskGood ==
  ASSUME NEW s, IsAccount(s), NEW t, t = [s EXCEPT !.tasks_before_connect = s.tasks_before_connect - 1],
         Good(t), s.tp_conn # None, NEW r, r = DoneTaskBeforeConnect(s)
  PROVE  Good(r) /\ r.requested = t.requested
<1> DEFINE v == AddConnection(t)
           u == IF HasRequests /\ Current(t).interfaces THEN v ELSE t
           c == s.tp_conn
           w == [u EXCEPT !.tp = [u.tp EXCEPT ![c] = [u.tp[c] EXCEPT !["connect_called"] = TRUE]]]
<1>1. r = t \/ r = w
  BY DEF DoneTaskBeforeConnect
<1>2. t.tp_conn = c
  BY DEF IsAccount, Fields
<1>3. /\ Good(v) /\ v.requested = t.requested
      /\ Others(t, v, {"dispatching_started", "dispatcher_knows", "tp"})
  BY AddConnectionGood
<1> HIDE DEF v
<1>4. Good(u) /\ u.requested = t.requested /\ u.tp_conn = c
  <2>1. v.tp_conn = c
    BY <1>2, <1>3 DEF Others, Fields
  <2>2. u = v \/ u = t
    OBVIOUS
  <2> HIDE DEF u
  <2> QED BY <1>2, <1>3, <2>1, <2>2
<1> HIDE DEF u
<1>5. c \in Tp /\ u.tp[c].status # "unused"
  BY <1>4, CurrentLives DEF Good
<1>6. [u.tp[c] EXCEPT !["connect_called"] = TRUE] \in TpType
  BY <1>4, <1>5, CurrentType DEF Good, Core
<1> HIDE DEF c
<1>7. /\ "connect_called" \in Connecteds /\ "connect_called" # "disconnect_called"
      /\ "connect_called" # "told"
  BY DEF Connecteds
<1>8. Core(w)
  BY <1>4, <1>5, <1>6, <1>7, TpField DEF Good
<1>9. Others(u, w, {"tp"})
  BY <1>4, <1>5, <1>6, <1>7, TpField DEF Good
<1>10. w.tp[c].told = u.tp[c].told
  BY <1>4, <1>5, <1>6, <1>7, TpField DEF Good
<1> HIDE DEF w
<1>11. Others(u, w, Quiet) /\ w.tp_conn = u.tp_conn
  BY <1>9 DEF Others, Quiet, Fields
<1>12. Good(w) /\ w.requested = u.requested
  BY <1>4, <1>8, <1>10, <1>11, GoodQuiet DEF Current
<1> QED BY <1>1, <1>4, <1>12

(* The fields that the set-up of a Connection writes.                    *)
SetUp == {"tp", "tasks_before_connect", "recognized_presences", "has_presence_if"}

(* The invariant after a step of the set-up.                             *)
LEMMA SetupGood ==
  ASSUME NEW s, Good(s), NEW c \in Tp, s.tp_conn = c, NEW t, Typed(t), Others(s, t, SetUp),
         \A d \in Tp \ {c} : t.tp[d] = s.tp[d],
         t.tp[c].status = s.tp[c].status, t.tp[c].seen = s.tp[c].seen,
         t.tasks_before_connect = One("GetInterfaces" \in t.tp[c].pending)
                                    + One("EarlyStatuses" \in t.tp[c].pending),
         "GetInterfaces" \in t.tp[c].pending => "EarlyStatuses" \notin t.tp[c].pending,
         t.recognized_presences => HasPresence /\ t.has_presence_if,
         t.tp[c].pending \cap {"EarlyStatuses", "Statuses"} # {} =>
           HasPresence /\ t.has_presence_if,
         \/ t.tp[c].told = t.req_presence
         \/ t.recognized_presences = s.recognized_presences /\ t.tp[c].told = s.tp[c].told
  PROVE  Good(t) /\ t.requested = s.requested
<1>1. /\ t.loaded = s.loaded /\ t.valid = s.valid /\ t.conn_status = s.conn_status
      /\ t.connection_context = s.connection_context /\ t.connection = s.connection
      /\ t.waiting_for_connectivity = s.waiting_for_connectivity
      /\ t.tp_conn = c
      /\ t.reconnect_timer = s.reconnect_timer /\ t.probation_timer = s.probation_timer
      /\ t.requested = s.requested
      /\ t.enabled = s.enabled /\ t.req_presence = s.req_presence
  BY DEF Others, SetUp, Fields
<1>2. /\ s.tp[c].status \notin {"gone", "unused"}
      /\ s.conn_status = "CONNECTED" <=> s.tp[c].status = "connected"
      /\ s.requested = 0 /\ ~s.reconnect_timer /\ ~s.connection_context /\ s.connection
      /\ s.loaded
      /\ s.tp[c].seen => s.tp[c].status \in {"connecting", "connected", "gone"}
  BY TpFacts DEF Good
<1>3. Attempts(t)
  BY <1>1, <1>2, NamesApart DEF Attempts
<1>4. InUse(t)
  BY <1>1, <1>2 DEF InUse, Current
<1>5. \A d \in Tp \ {c} : t.tp[d].pending = {}
  BY TpFacts, NamesApart DEF Good
<1>6. Presences(t)
  BY <1>5 DEF Presences
<1>7. Core(t)
  BY <1>1, <1>2, <1>3, <1>4, <1>6, CoreTp DEF Good
<1>8. Told(t)
  BY <1>1 DEF Good, Told, Current
<1>9. Waits(t)
  BY <1>1 DEF Good, Waits
<1> QED BY <1>1, <1>7, <1>8, <1>9 DEF Good

(* The statuses are known and the presence is told.                      *)
ToldNow(s, t, c) ==
  /\ Typed(t) /\ Others(s, t, {"recognized_presences", "tp"}) /\ t.recognized_presences
  /\ t.tp[c].told = s.req_presence /\ t.tp[c].pending = s.tp[c].pending
  /\ t.tp[c].status = s.tp[c].status /\ t.tp[c].seen = s.tp[c].seen
  /\ \A d \in Tp \ {c} : t.tp[d] = s.tp[d]

(* presence_get_statuses_cb does so.                                     *)
LEMMA StatusesKnownEffect ==
  ASSUME NEW s, Typed(s), NEW c \in Tp, s.tp_conn = c, s.has_presence_if,
         NEW r, r = StatusesKnown(s)
  PROVE  ToldNow(s, r, c)
<1> DEFINE a == [s EXCEPT !.recognized_presences = TRUE]
           p == s.req_presence
           t == [a EXCEPT !.tp[c]["told"] = p]
<1>1. Typed(a) /\ Others(s, a, {"recognized_presences"}) /\ a.recognized_presences
  <2>1. "recognized_presences" \in Fields /\ TRUE \in FieldType["recognized_presences"]
    BY FieldNames, FieldTypes
  <2>2. Typed(a)
    BY <2>1, TypedOne
  <2>3. Others(s, a, {"recognized_presences"}) /\ a["recognized_presences"] = TRUE
    BY <2>1, OthersOne, TypedIsAccount
  <2> QED BY <2>2, <2>3
<1>2. a.tp = s.tp /\ a.tp_conn = c /\ a.has_presence_if
  BY <1>1 DEF Others, Fields
<1>3. r = t
  <2>1. r = SetPresence(a, p)
    BY DEF StatusesKnown
  <2> HIDE DEF a, p
  <2> QED BY <1>1, <1>2, <2>1, NamesApart DEF SetPresence
<1> HIDE DEF a
<1>4. "told" \in TpFields /\ p \in TpFieldType["told"]
  BY TpFieldTypes, TypedFields
<1> HIDE DEF p
<1>5. Typed(t) /\ Others(a, t, {"tp"}) /\ t.tp[c].told = p
  <2>1. Typed(t) /\ Others(a, t, {"tp"})
    BY <1>1, <1>4, TpSet
  <2>2. t.tp[c].told = p
    <3> DEFINE u == [a.tp[c] EXCEPT !["told"] = p]
    <3>1. a.tp[c] \in TpType /\ IsAccount(a) /\ a.tp \in [Tp -> TpType]
      BY <1>1, CurrentType, TypedIsAccount, TypedFields
    <3>2. t.tp[c] = u
      BY <3>1 DEF IsAccount, Fields
    <3>3. u.told = p
      <4>1. "told" \in DOMAIN a.tp[c]
        BY <3>1 DEF TpType
      <4> QED BY <4>1
    <3> HIDE DEF u, t
    <3> QED BY <3>2, <3>3
  <2> HIDE DEF t
  <2> QED BY <2>1, <2>2
<1>6. TpOthers(a.tp[c], t.tp[c], {"told"})
  BY <1>1, <1>4, TpSet
<1>7. \A d \in Tp \ {c} : t.tp[d] = a.tp[d]
  BY <1>1, <1>4, TpSet
<1> HIDE DEF t
<1>8. /\ t.tp[c].pending = s.tp[c].pending
      /\ t.tp[c].status = s.tp[c].status /\ t.tp[c].seen = s.tp[c].seen
  BY <1>2, <1>6 DEF TpOthers, TpFields
<1>9. Others(s, t, {"recognized_presences", "tp"}) /\ t.recognized_presences
  BY <1>1, <1>5 DEF Others, Fields
<1> QED BY <1>2, <1>3, <1>5, <1>7, <1>8, <1>9 DEF ToldNow, p

(* What is known of the tasks before a reply.                            *)
LEMMA TasksBefore ==
  ASSUME NEW s, Good(s), NEW c \in Tp, s.tp_conn = c
  PROVE  /\ s.tasks_before_connect = One("GetInterfaces" \in s.tp[c].pending)
                                       + One("EarlyStatuses" \in s.tp[c].pending)
         /\ "GetInterfaces" \in s.tp[c].pending => "EarlyStatuses" \notin s.tp[c].pending
         /\ s.recognized_presences => HasPresence /\ s.has_presence_if
         /\ s.tp[c].pending \cap {"EarlyStatuses", "Statuses"} # {} =>
              HasPresence /\ s.has_presence_if
  BY NamesApart DEF Good, Core, InUse, Presences, Current

(* One task less.                                                        *)
LEMMA TaskDone ==
  ASSUME NEW s, Typed(s), s.tasks_before_connect \in {1, 2},
         NEW t, t = [s EXCEPT !.tasks_before_connect = s.tasks_before_connect - 1]
  PROVE  /\ Typed(t) /\ Others(s, t, {"tasks_before_connect"})
         /\ t.tasks_before_connect = s.tasks_before_connect - 1
<1> DEFINE n == s.tasks_before_connect - 1
<1>1. n \in FieldType["tasks_before_connect"]
  BY FieldTypes
<1>2. t = [s EXCEPT !.tasks_before_connect = n]
  OBVIOUS
<1> HIDE DEF n
<1>3. Typed(t) /\ Others(s, t, {"tasks_before_connect"})
  BY <1>1, <1>2, FieldSet, FieldNames
<1>4. t["tasks_before_connect"] = n
  BY <1>2, TypedIsAccount DEF IsAccount, Fields
<1> QED BY <1>3, <1>4 DEF n

(* mcd_connection_early_get_statuses_cb.                                 *)
LEMMA EarlyStatusesStep ==
  ASSUME Good(account), NEW c \in Tp, NEW error \in BOOLEAN, EarlyStatusesReturns(c, error)
  PROVE  Good(account') /\ Asks(account, account')
<1> DEFINE s == Answered(c, "EarlyStatuses")
           k == StatusesKnown(s)
           u == IF error THEN s ELSE k
           r == DoneTaskBeforeConnect(u)
           t == IF account.tp_conn # c THEN s ELSE r
<1>1. Becomes(t) /\ "EarlyStatuses" \in account.tp[c].pending
  BY DEF EarlyStatusesReturns, Returns
<1>2. CASE account.tp_conn # c
  <2>1. Good(s) /\ Asks(account, s)
    BY <1>1, <1>2, AnsweredGood
  <2>2. t = s
    BY <1>2
  <2> HIDE DEF s, t
  <2> QED BY <1>1, <2>1, <2>2, BecomesResult
<1>3. CASE account.tp_conn = c
  <2>1. /\ Typed(s) /\ Others(account, s, {"tp"})
        /\ s.tp[c].status = account.tp[c].status
        /\ s.tp[c].seen = account.tp[c].seen /\ s.tp[c].told = account.tp[c].told
        /\ \A d \in Tp \ {c} : s.tp[d] = account.tp[d]
    BY AnsweredEffect DEF Good, Core
  <2>2. s.tp[c].pending = account.tp[c].pending \ {"EarlyStatuses"}
    <3> HIDE DEF s
    <3>1. s = Answered(c, "EarlyStatuses")
      BY DEF s
    <3> QED BY <3>1, AnsweredEffect DEF Good, Core
  <2> HIDE DEF s
  <2>3. /\ s.tp_conn = c /\ s.has_presence_if = account.has_presence_if
        /\ s.recognized_presences = account.recognized_presences
        /\ s.tasks_before_connect = account.tasks_before_connect
        /\ s.req_presence = account.req_presence
    BY <1>3, <2>1 DEF Others, Fields
  <2>4. /\ HasPresence /\ account.has_presence_if
        /\ account.tasks_before_connect = 1 /\ "GetInterfaces" \notin account.tp[c].pending
    BY <1>1, <1>3, TasksBefore DEF One
  <2>5. ToldNow(s, k, c)
    BY <2>1, <2>3, <2>4, StatusesKnownEffect
  <2> HIDE DEF k
  <2>6. /\ Typed(u) /\ Others(account, u, {"recognized_presences", "tp"})
        /\ u.tp[c].pending = account.tp[c].pending \ {"EarlyStatuses"}
        /\ u.tp[c].status = account.tp[c].status
        /\ u.tp[c].seen = account.tp[c].seen
        /\ \A d \in Tp \ {c} : u.tp[d] = account.tp[d]
        /\ \/ u.tp[c].told = account.req_presence
           \/ /\ u.recognized_presences = account.recognized_presences
              /\ u.tp[c].told = account.tp[c].told
    <3>1. CASE error
      <4>1. u = s
        BY <3>1
      <4> HIDE DEF u
      <4>2. Others(account, s, {"recognized_presences", "tp"})
        BY <2>1 DEF Others
      <4> QED BY <2>1, <2>2, <2>3, <4>1, <4>2
    <3>2. CASE ~error
      <4>1. u = k
        BY <3>2
      <4> HIDE DEF u
      <4>2. Others(account, k, {"recognized_presences", "tp"})
        BY <2>1, <2>5 DEF Others, ToldNow
      <4>3. /\ k.tp[c].pending = account.tp[c].pending \ {"EarlyStatuses"}
            /\ k.tp[c].status = account.tp[c].status /\ k.tp[c].seen = account.tp[c].seen
            /\ k.tp[c].told = account.req_presence
            /\ \A d \in Tp \ {c} : k.tp[d] = account.tp[d]
        BY <2>1, <2>2, <2>3, <2>5 DEF ToldNow
      <4>4. Typed(k)
        BY <2>5 DEF ToldNow
      <4> QED BY <4>1, <4>2, <4>3, <4>4
    <3> QED BY <3>1, <3>2
  <2> HIDE DEF u
  <2> DEFINE w == [u EXCEPT !.tasks_before_connect = u.tasks_before_connect - 1]
  <2>7. /\ u.tasks_before_connect = 1 /\ u.tp_conn = c
        /\ u.has_presence_if = account.has_presence_if
    BY <1>3, <2>4, <2>6 DEF Others, Fields
  <2>8. /\ Typed(w) /\ Others(u, w, {"tasks_before_connect"}) /\ w.tasks_before_connect = 0
    BY <2>6, <2>7, TaskDone
  <2>9. w = [u EXCEPT !.tasks_before_connect = u.tasks_before_connect - 1]
    OBVIOUS
  <2> HIDE DEF w
  <2>10. /\ Others(account, w, SetUp) /\ w.tp = u.tp
         /\ w.has_presence_if = account.has_presence_if
         /\ w.recognized_presences = u.recognized_presences
         /\ w.req_presence = account.req_presence
    BY <2>6, <2>8 DEF Others, SetUp, Fields
  <2>11. w.tasks_before_connect = One("GetInterfaces" \in w.tp[c].pending)
                                   + One("EarlyStatuses" \in w.tp[c].pending)
    BY <2>4, <2>6, <2>8, <2>10 DEF One
  <2>12. /\ \A d \in Tp \ {c} : w.tp[d] = account.tp[d]
         /\ w.tp[c].status = account.tp[c].status /\ w.tp[c].seen = account.tp[c].seen
         /\ "GetInterfaces" \in w.tp[c].pending => "EarlyStatuses" \notin w.tp[c].pending
         /\ w.recognized_presences => HasPresence /\ w.has_presence_if
         /\ w.tp[c].pending \cap {"EarlyStatuses", "Statuses"} # {} =>
              HasPresence /\ w.has_presence_if
         /\ \/ w.tp[c].told = w.req_presence
            \/ /\ w.recognized_presences = account.recognized_presences
               /\ w.tp[c].told = account.tp[c].told
    BY <2>4, <2>6, <2>10
  <2>13. Good(w) /\ w.requested = account.requested
    BY <1>3, <2>8, <2>10, <2>11, <2>12, SetupGood
  <2>14. Good(r) /\ r.requested = w.requested
    <3>1. IsAccount(u) /\ u.tp_conn # None
      BY <2>6, <2>7, TypedIsAccount, NamesApart
    <3>2. r = DoneTaskBeforeConnect(u)
      BY DEF r
    <3> HIDE DEF r
    <3> QED BY <2>9, <2>13, <3>1, <3>2, DoneTaskGood
  <2>15. t = r
    BY <1>3
  <2> HIDE DEF r, t
  <2> QED BY <1>1, <2>13, <2>14, <2>15, GoodBy, BecomesResult DEF Good
<1> QED BY <1>2, <1>3

(* presence_get_statuses_cb of a Connection that is ready.               *)
LEMMA StatusesStep ==
  ASSUME Good(account), NEW c \in Tp, NEW error \in BOOLEAN, StatusesReturns(c, error)
  PROVE  Good(account') /\ Asks(account, account')
<1> DEFINE s == Answered(c, "Statuses")
           k == StatusesKnown(s)
           t == IF error THEN s ELSE k
<1>1. /\ Becomes(t) /\ "Statuses" \in account.tp[c].pending
      /\ account.tp[c].status = "gone" => error
  BY DEF StatusesReturns, Returns
<1>2. CASE error
  <2>1. Good(s) /\ Asks(account, s)
    BY <1>1, AnsweredGood DEF Early
  <2>2. t = s
    BY <1>2
  <2> HIDE DEF s, t
  <2> QED BY <1>1, <2>1, <2>2, BecomesResult
<1>3. CASE ~error
  <2>0. account.tp_conn = c
    BY <1>1, <1>3, TpFacts DEF Good
  <2>1. /\ Typed(s) /\ Others(account, s, {"tp"})
        /\ s.tp[c].status = account.tp[c].status
        /\ s.tp[c].seen = account.tp[c].seen /\ s.tp[c].told = account.tp[c].told
        /\ \A d \in Tp \ {c} : s.tp[d] = account.tp[d]
    BY AnsweredEffect DEF Good, Core
  <2>2. s.tp[c].pending = account.tp[c].pending \ {"Statuses"}
    <3> HIDE DEF s
    <3>1. s = Answered(c, "Statuses")
      BY DEF s
    <3> QED BY <3>1, AnsweredEffect DEF Good, Core
  <2> HIDE DEF s
  <2>3. /\ s.tp_conn = c /\ s.has_presence_if = account.has_presence_if
        /\ s.req_presence = account.req_presence
    BY <2>0, <2>1 DEF Others, Fields
  <2>4. HasPresence /\ account.has_presence_if
    BY <1>1, <2>0, TasksBefore
  <2>5. ToldNow(s, k, c)
    BY <2>1, <2>3, <2>4, StatusesKnownEffect
  <2>6. t = k
    BY <1>3
  <2> HIDE DEF k, t
  <2>7. Others(account, k, SetUp) /\ Typed(k)
    BY <2>1, <2>5 DEF Others, SetUp, ToldNow
  <2>8. /\ k.tp[c].pending = account.tp[c].pending \ {"Statuses"}
        /\ k.tp[c].status = account.tp[c].status /\ k.tp[c].seen = account.tp[c].seen
        /\ k.tp[c].told = account.req_presence
        /\ \A d \in Tp \ {c} : k.tp[d] = account.tp[d]
    BY <2>1, <2>2, <2>3, <2>5 DEF ToldNow
  <2>9. /\ k.has_presence_if = account.has_presence_if
        /\ k.req_presence = account.req_presence
        /\ k.tasks_before_connect = account.tasks_before_connect
    BY <2>1, <2>5 DEF Others, ToldNow, Fields
  <2>10. /\ k.tasks_before_connect = One("GetInterfaces" \in k.tp[c].pending)
                                   + One("EarlyStatuses" \in k.tp[c].pending)
         /\ "GetInterfaces" \in k.tp[c].pending => "EarlyStatuses" \notin k.tp[c].pending
    <3>1. /\ account.tasks_before_connect = One("GetInterfaces" \in account.tp[c].pending)
                                   + One("EarlyStatuses" \in account.tp[c].pending)
          /\ "GetInterfaces" \in account.tp[c].pending =>
               "EarlyStatuses" \notin account.tp[c].pending
      BY <2>0, TasksBefore
    <3>2. /\ "GetInterfaces" \in k.tp[c].pending <=> "GetInterfaces" \in account.tp[c].pending
          /\ "EarlyStatuses" \in k.tp[c].pending <=> "EarlyStatuses" \in account.tp[c].pending
      BY <2>8
    <3> QED BY <2>9, <3>1, <3>2 DEF One
  <2>11. Good(k) /\ k.requested = account.requested
    <3>1. /\ k.recognized_presences => HasPresence /\ k.has_presence_if
          /\ k.tp[c].pending \cap {"EarlyStatuses", "Statuses"} # {} =>
               HasPresence /\ k.has_presence_if
          /\ k.tp[c].told = k.req_presence
      BY <2>4, <2>8, <2>9
    <3> QED BY <2>0, <2>7, <2>8, <2>10, <3>1, SetupGood
  <2> QED BY <1>1, <2>6, <2>11, GoodBy, BecomesResult DEF Good
<1> QED BY <1>2, <1>3

(* A step of the set-up that ends a task.                                *)
LEMMA SetupDone ==
  ASSUME NEW s, Good(s), NEW c \in Tp, s.tp_conn = c, NEW x, Typed(x), Others(s, x, SetUp),
         \A d \in Tp \ {c} : x.tp[d] = s.tp[d],
         x.tp[c].status = s.tp[c].status, x.tp[c].seen = s.tp[c].seen,
         x.tasks_before_connect \in {1, 2},
         x.tasks_before_connect - 1 = One("GetInterfaces" \in x.tp[c].pending)
                                        + One("EarlyStatuses" \in x.tp[c].pending),
         "GetInterfaces" \in x.tp[c].pending => "EarlyStatuses" \notin x.tp[c].pending,
         x.recognized_presences => HasPresence /\ x.has_presence_if,
         x.tp[c].pending \cap {"EarlyStatuses", "Statuses"} # {} =>
           HasPresence /\ x.has_presence_if,
         \/ x.tp[c].told = x.req_presence
         \/ x.recognized_presences = s.recognized_presences /\ x.tp[c].told = s.tp[c].told,
         NEW r, r = DoneTaskBeforeConnect(x)
  PROVE  Good(r) /\ r.requested = s.requested
<1> DEFINE w == [x EXCEPT !.tasks_before_connect = x.tasks_before_connect - 1]
<1>1. /\ Typed(w) /\ Others(x, w, {"tasks_before_connect"})
      /\ w.tasks_before_connect = x.tasks_before_connect - 1
  BY TaskDone
<1>2. w = [x EXCEPT !.tasks_before_connect = x.tasks_before_connect - 1]
  OBVIOUS
<1> HIDE DEF w
<1>3. /\ Others(s, w, SetUp) /\ w.tp = x.tp
      /\ w.has_presence_if = x.has_presence_if
      /\ w.recognized_presences = x.recognized_presences
      /\ w.req_presence = x.req_presence
  BY <1>1 DEF Others, SetUp, Fields
<1>4. /\ \A d \in Tp \ {c} : w.tp[d] = s.tp[d]
      /\ w.tp[c].status = s.tp[c].status /\ w.tp[c].seen = s.tp[c].seen
      /\ w.tasks_before_connect = One("GetInterfaces" \in w.tp[c].pending)
                                    + One("EarlyStatuses" \in w.tp[c].pending)
      /\ "GetInterfaces" \in w.tp[c].pending => "EarlyStatuses" \notin w.tp[c].pending
      /\ w.recognized_presences => HasPresence /\ w.has_presence_if
      /\ w.tp[c].pending \cap {"EarlyStatuses", "Statuses"} # {} =>
           HasPresence /\ w.has_presence_if
      /\ \/ w.tp[c].told = w.req_presence
         \/ w.recognized_presences = s.recognized_presences /\ w.tp[c].told = s.tp[c].told
  BY <1>1, <1>3
<1>5. Good(w) /\ w.requested = s.requested
  BY <1>1, <1>3, <1>4, SetupGood
<1>6. IsAccount(x) /\ x.tp_conn # None
  <2>1. x.tp_conn = c
    BY DEF Others, SetUp, Fields
  <2> QED BY <2>1, TypedIsAccount, NamesApart
<1> QED BY <1>2, <1>5, <1>6, DoneTaskGood

(* The interfaces are known.                                             *)
LEMMA InterfacesEffect ==
  ASSUME NEW s, Typed(s), NEW c \in Tp,
         NEW t, t = [s EXCEPT !.tp[c]["interfaces"] = TRUE]
  PROVE  PendingSet(s, t, c, s.tp[c].pending)
<1> DEFINE r == [s EXCEPT !.tp[c]["interfaces"] = TRUE]
<1>1. "interfaces" \in TpFields /\ TRUE \in TpFieldType["interfaces"]
  BY TpFieldTypes
<1>2. Typed(r) /\ Others(s, r, {"tp"})
  BY <1>1, TpSet
<1>3. TpOthers(s.tp[c], r.tp[c], {"interfaces"})
  BY <1>1, TpSet
<1>4. \A d \in Tp \ {c} : r.tp[d] = s.tp[d]
  BY <1>1, TpSet
<1> HIDE DEF r
<1>5. /\ r.tp[c].pending = s.tp[c].pending /\ r.tp[c].status = s.tp[c].status
      /\ r.tp[c].seen = s.tp[c].seen /\ r.tp[c].told = s.tp[c].told
      /\ r.tp[c].disconnect_called = s.tp[c].disconnect_called
  BY <1>3 DEF TpOthers, TpFields
<1>6. t = r
  BY DEF r
<1> QED BY <1>2, <1>4, <1>5, <1>6 DEF PendingSet

(* The Connection has presences: a task more, and its call pending.      *)
Extended(s, t, c, x) ==
  /\ Typed(t) /\ Others(s, t, {"has_presence_if", "tasks_before_connect", "tp"})
  /\ t.has_presence_if /\ t.tasks_before_connect = 2
  /\ t.tp[c].pending = x /\ t.tp[c].status = s.tp[c].status
  /\ t.tp[c].seen = s.tp[c].seen /\ t.tp[c].told = s.tp[c].told
  /\ \A d \in Tp \ {c} : t.tp[d] = s.tp[d]

(* The three assignments that make it so.                                *)
LEMMA TaskAdded ==
  ASSUME NEW s, Typed(s), s.tasks_before_connect = 1, NEW c \in Tp,
         NEW x \in SUBSET Call,
         NEW t, t = [s EXCEPT !.has_presence_if = TRUE,
                              !.tasks_before_connect = s.tasks_before_connect + 1,
                              !.tp[c]["pending"] = x]
  PROVE  Extended(s, t, c, x)
<1> DEFINE a == [s EXCEPT !.has_presence_if = TRUE]
           b == [a EXCEPT !.tasks_before_connect = 2]
           d == [b EXCEPT !.tp[c]["pending"] = x]
<1>1. t = d
  OBVIOUS
<1>2. Typed(a) /\ Others(s, a, {"has_presence_if"}) /\ a.has_presence_if
  <2>1. "has_presence_if" \in Fields /\ TRUE \in FieldType["has_presence_if"]
    BY FieldNames, FieldTypes
  <2>2. Typed(a)
    BY <2>1, TypedOne
  <2>3. Others(s, a, {"has_presence_if"}) /\ a["has_presence_if"] = TRUE
    BY <2>1, OthersOne, TypedIsAccount
  <2> QED BY <2>2, <2>3
<1> HIDE DEF a
<1>3. Typed(b) /\ Others(a, b, {"tasks_before_connect"}) /\ b.tasks_before_connect = 2
  <2>1. "tasks_before_connect" \in Fields /\ 2 \in FieldType["tasks_before_connect"]
    BY FieldNames, FieldTypes
  <2>2. Typed(b)
    BY <1>2, <2>1, TypedOne
  <2>3. Others(a, b, {"tasks_before_connect"}) /\ b["tasks_before_connect"] = 2
    BY <1>2, <2>1, OthersOne, TypedIsAccount
  <2> QED BY <2>2, <2>3
<1> HIDE DEF b
<1>4. PendingSet(b, d, c, x)
  BY <1>3, TpPendingSet
<1> HIDE DEF d
<1>5. /\ Typed(d) /\ Others(b, d, {"tp"})
      /\ d.tp[c].pending = x /\ d.tp[c].status = b.tp[c].status
      /\ d.tp[c].seen = b.tp[c].seen /\ d.tp[c].told = b.tp[c].told
      /\ \A e \in Tp \ {c} : d.tp[e] = b.tp[e]
  BY <1>4 DEF PendingSet
<1>6. b.tp = s.tp
  BY <1>2, <1>3 DEF Others, Fields
<1>7. /\ Others(s, d, {"has_presence_if", "tasks_before_connect", "tp"})
      /\ d.has_presence_if /\ d.tasks_before_connect = 2
  <2>1. Others(s, d, {"has_presence_if", "tasks_before_connect", "tp"})
    BY <1>2, <1>3, <1>5 DEF Others
  <2>2. d.has_presence_if = a.has_presence_if
    BY <1>2, <1>3, <1>5 DEF Others, Fields
  <2>3. d.tasks_before_connect = b.tasks_before_connect
    BY <1>5 DEF Others, Fields
  <2> QED BY <1>2, <1>3, <2>1, <2>2, <2>3
<1> QED BY <1>1, <1>5, <1>6, <1>7 DEF Extended

(* mcd_connection_early_get_interfaces_cb: the task that it adds is      *)
(* added before its own is done, so that the tasks never reach 0 between *)
(* the two.                                                              *)
LEMMA GetInterfacesStep ==
  ASSUME Good(account), NEW c \in Tp, NEW error \in BOOLEAN, GetInterfacesReturns(c, error)
  PROVE  Good(account') /\ Asks(account, account')
<1> DEFINE a == Answered(c, "GetInterfaces")
           s == [a EXCEPT !.tp[c]["interfaces"] = TRUE]
           u == [s EXCEPT !.has_presence_if = TRUE,
                          !.tasks_before_connect = s.tasks_before_connect + 1,
                          !.tp[c]["pending"] = s.tp[c].pending \cup {"EarlyStatuses"}]
           x == IF error THEN a ELSE IF HasPresence THEN u ELSE s
           r == DoneTaskBeforeConnect(x)
           t == IF account.tp_conn # c THEN a ELSE r
<1>1. Becomes(t) /\ "GetInterfaces" \in account.tp[c].pending
  BY DEF GetInterfacesReturns, Returns
<1>2. CASE account.tp_conn # c
  <2>1. Good(a) /\ Asks(account, a)
    BY <1>1, <1>2, AnsweredGood
  <2>2. t = a
    BY <1>2
  <2> HIDE DEF a, t
  <2> QED BY <1>1, <2>1, <2>2, BecomesResult
<1>3. CASE account.tp_conn = c
  <2>0. a = Answered(c, "GetInterfaces")
    OBVIOUS
  <2>1. t = r
    BY <1>3
  <2> HIDE DEF a, t
  <2>2. /\ Typed(a) /\ Others(account, a, {"tp"})
        /\ a.tp[c].pending = account.tp[c].pending \ {"GetInterfaces"}
        /\ a.tp[c].status = account.tp[c].status
        /\ a.tp[c].seen = account.tp[c].seen /\ a.tp[c].told = account.tp[c].told
        /\ \A d \in Tp \ {c} : a.tp[d] = account.tp[d]
    BY <2>0, AnsweredEffect DEF Good, Core
  <2>3. PendingSet(a, s, c, a.tp[c].pending)
    BY <2>2, InterfacesEffect
  <2> HIDE DEF s
  <2>4. /\ account.tasks_before_connect = 1 /\ "EarlyStatuses" \notin account.tp[c].pending
        /\ account.recognized_presences => HasPresence /\ account.has_presence_if
        /\ account.tp[c].pending \cap {"EarlyStatuses", "Statuses"} # {} =>
             HasPresence /\ account.has_presence_if
    BY <1>1, <1>3, TasksBefore DEF One
  <2>5. /\ Typed(s) /\ Others(account, s, {"tp"})
        /\ s.tp[c].pending = account.tp[c].pending \ {"GetInterfaces"}
        /\ s.tp[c].status = account.tp[c].status
        /\ s.tp[c].seen = account.tp[c].seen /\ s.tp[c].told = account.tp[c].told
        /\ \A d \in Tp \ {c} : s.tp[d] = account.tp[d]
    BY <2>2, <2>3 DEF PendingSet, Others
  <2>6. s.tasks_before_connect = 1 /\ s.has_presence_if = account.has_presence_if
        /\ s.recognized_presences = account.recognized_presences
    BY <2>4, <2>5 DEF Others, Fields
  <2>7. s.tp[c].pending \cup {"EarlyStatuses"} \in SUBSET Call
    <3>1. s.tp[c] \in TpType
      BY <2>5, CurrentType
    <3> QED BY <3>1 DEF TpType, Call
  <2>8a. u = [s EXCEPT !.has_presence_if = TRUE,
                       !.tasks_before_connect = s.tasks_before_connect + 1,
                       !.tp[c]["pending"] = s.tp[c].pending \cup {"EarlyStatuses"}]
    OBVIOUS
  <2> HIDE DEF u
  <2>8b. Extended(s, u, c, s.tp[c].pending \cup {"EarlyStatuses"})
    BY <2>5, <2>6, <2>7, <2>8a, TaskAdded
  <2>8. /\ Typed(u) /\ Others(s, u, {"has_presence_if", "tasks_before_connect", "tp"})
        /\ u.has_presence_if /\ u.tasks_before_connect = 2
        /\ u.tp[c].pending = s.tp[c].pending \cup {"EarlyStatuses"}
        /\ u.tp[c].status = s.tp[c].status
        /\ u.tp[c].seen = s.tp[c].seen /\ u.tp[c].told = s.tp[c].told
        /\ \A d \in Tp \ {c} : u.tp[d] = s.tp[d]
    BY <2>8b DEF Extended
  <2>9. /\ u.recognized_presences = account.recognized_presences
        /\ Others(account, u, SetUp) /\ Others(account, s, SetUp) /\ Others(account, a, SetUp)
    BY <2>2, <2>5, <2>6, <2>8 DEF Others, SetUp, Fields
  <2>10. /\ a.tasks_before_connect = 1 /\ a.has_presence_if = account.has_presence_if
         /\ a.recognized_presences = account.recognized_presences
    BY <2>2, <2>4 DEF Others, Fields
  <2>11. x = a \/ x = s \/ (x = u /\ HasPresence)
    OBVIOUS
  <2>12. r = DoneTaskBeforeConnect(x)
    OBVIOUS
  <2> HIDE DEF x, r
  <2>13. /\ Typed(x) /\ Others(account, x, SetUp)
         /\ \A d \in Tp \ {c} : x.tp[d] = account.tp[d]
         /\ x.tp[c].status = account.tp[c].status /\ x.tp[c].seen = account.tp[c].seen
         /\ x.tp[c].told = account.tp[c].told
         /\ x.recognized_presences = account.recognized_presences
    BY <2>2, <2>5, <2>6, <2>8, <2>9, <2>10, <2>11
  <2>14. /\ "GetInterfaces" \notin x.tp[c].pending
         /\ \/ /\ x.tasks_before_connect = 1 /\ "EarlyStatuses" \notin x.tp[c].pending
               /\ x.has_presence_if = account.has_presence_if
               /\ x.tp[c].pending \subseteq account.tp[c].pending
            \/ /\ x.tasks_before_connect = 2 /\ "EarlyStatuses" \in x.tp[c].pending
               /\ HasPresence /\ x.has_presence_if
    BY <2>2, <2>4, <2>5, <2>6, <2>8, <2>10, <2>11
  <2>15. /\ x.tasks_before_connect \in {1, 2}
         /\ x.tasks_before_connect - 1 = One("GetInterfaces" \in x.tp[c].pending)
                                           + One("EarlyStatuses" \in x.tp[c].pending)
    BY <2>14 DEF One
  <2>16. /\ x.recognized_presences => HasPresence /\ x.has_presence_if
         /\ x.tp[c].pending \cap {"EarlyStatuses", "Statuses"} # {} =>
              HasPresence /\ x.has_presence_if
    BY <2>4, <2>13, <2>14
  <2>17. "GetInterfaces" \in x.tp[c].pending => "EarlyStatuses" \notin x.tp[c].pending
    BY <2>14
  <2>18. Good(r) /\ r.requested = account.requested
    BY <1>3, <2>12, <2>13, <2>15, <2>16, <2>17, SetupDone
  <2> QED BY <1>1, <2>1, <2>18, GoodBy, BecomesResult DEF Good
<1> QED BY <1>2, <1>3

(* The interface is noted when the Connection is ready.                  *)
LEMMA HasPresenceGood ==
  ASSUME NEW s, Good(s), NEW t, t = [s EXCEPT !.has_presence_if = HasPresence]
  PROVE  Good(t) /\ Others(s, t, {"has_presence_if"}) /\ t.has_presence_if = HasPresence
<1>1. "has_presence_if" \in Fields /\ HasPresence \in FieldType["has_presence_if"]
  BY FieldNames, FieldTypes, NamesAssumption
<1>2. Typed(t)
  BY <1>1, TypedOne DEF Good, Core
<1>3. Others(s, t, {"has_presence_if"}) /\ t["has_presence_if"] = HasPresence
  BY <1>1, OthersOne, TypedIsAccount DEF Good, Core
<1>4. /\ t.loaded = s.loaded /\ t.valid = s.valid /\ t.conn_status = s.conn_status
      /\ t.connection_context = s.connection_context /\ t.connection = s.connection
      /\ t.waiting_for_connectivity = s.waiting_for_connectivity
      /\ t.tp_conn = s.tp_conn /\ t.tasks_before_connect = s.tasks_before_connect
      /\ t.reconnect_timer = s.reconnect_timer /\ t.probation_timer = s.probation_timer
      /\ t.recognized_presences = s.recognized_presences
      /\ t.enabled = s.enabled /\ t.req_presence = s.req_presence
      /\ t.requested = s.requested /\ t.tp = s.tp
  BY <1>3 DEF Others, Fields
<1>5. Attempts(t)
  BY <1>4 DEF Good, Core, Attempts
<1>6. InUse(t)
  BY <1>4 DEF Good, Core, InUse, Current
<1>7. Replies(t) /\ Histories(t)
  BY <1>4 DEF Good, Core, Replies, Histories
<1>8. Presences(t)
  <2>1. s.recognized_presences => HasPresence
    BY DEF Good, Core, Presences
  <2>2. \A d \in Tp : s.tp[d].pending \cap {"EarlyStatuses", "Statuses"} # {} => HasPresence
    BY DEF Good, Core, Presences
  <2>3. t.has_presence_if = HasPresence
    BY <1>3
  <2> QED BY <1>4, <2>1, <2>2, <2>3 DEF Presences
<1>9. Told(t) /\ Waits(t)
  BY <1>4 DEF Good, Told, Waits, Current
<1> QED BY <1>2, <1>3, <1>5, <1>6, <1>7, <1>8, <1>9 DEF Good, Core

(* The statuses are asked for.                                           *)
LEMMA StatusesPending ==
  ASSUME NEW s, Good(s), NEW c \in Tp, s.tp_conn = c, HasPresence, s.has_presence_if,
         NEW t, PendingSet(s, t, c, s.tp[c].pending \cup {"Statuses"})
  PROVE  Good(t) /\ t.requested = s.requested
<1>1. /\ s.tasks_before_connect = One("GetInterfaces" \in s.tp[c].pending)
                                    + One("EarlyStatuses" \in s.tp[c].pending)
      /\ "GetInterfaces" \in s.tp[c].pending => "EarlyStatuses" \notin s.tp[c].pending
  BY TasksBefore
<1>2. /\ Typed(t) /\ Others(s, t, SetUp)
      /\ t.tp[c].pending = s.tp[c].pending \cup {"Statuses"}
      /\ t.tp[c].status = s.tp[c].status
      /\ t.tp[c].seen = s.tp[c].seen /\ t.tp[c].told = s.tp[c].told
      /\ \A d \in Tp \ {c} : t.tp[d] = s.tp[d]
  BY DEF PendingSet, Others, SetUp
<1>3. /\ t.tasks_before_connect = s.tasks_before_connect
      /\ t.has_presence_if = s.has_presence_if
      /\ t.recognized_presences = s.recognized_presences
  BY DEF PendingSet, Others, Fields
<1>4. /\ "GetInterfaces" \in t.tp[c].pending <=> "GetInterfaces" \in s.tp[c].pending
      /\ "EarlyStatuses" \in t.tp[c].pending <=> "EarlyStatuses" \in s.tp[c].pending
  BY <1>2
<1>5. t.tasks_before_connect = One("GetInterfaces" \in t.tp[c].pending)
                                 + One("EarlyStatuses" \in t.tp[c].pending)
  BY <1>1, <1>3, <1>4 DEF One
<1>6. "GetInterfaces" \in t.tp[c].pending => "EarlyStatuses" \notin t.tp[c].pending
  BY <1>1, <1>4
<1>7. HasPresence /\ t.has_presence_if
  BY <1>3
<1> QED BY <1>2, <1>3, <1>5, <1>6, <1>7, SetupGood

(* The same, of the TpConnection in use.                                 *)
LEMMA StatusesAsked ==
  ASSUME NEW s, Good(s), s.tp_conn # None, HasPresence, s.has_presence_if = HasPresence,
         NEW t, t = [s EXCEPT !.tp[s.tp_conn]["pending"] =
                                 s.tp[s.tp_conn].pending \cup {"Statuses"}]
  PROVE  Good(t) /\ t.requested = s.requested
<1> DEFINE c == s.tp_conn
           p == s.tp[c].pending \cup {"Statuses"}
<1>1. c \in Tp
  BY CurrentLives DEF Good
<1>2. s.tp[c] \in TpType
  BY <1>1, CurrentType DEF Good, Core
<1>3. p \in SUBSET Call
  BY <1>2 DEF TpType, Call
<1>4. PendingSet(s, t, c, p)
  BY <1>1, <1>3, TpPendingSet DEF Good, Core
<1>5. s.tp_conn = c /\ s.has_presence_if
  OBVIOUS
<1>6. p = s.tp[c].pending \cup {"Statuses"}
  OBVIOUS
<1> HIDE DEF c, p
<1> QED BY <1>1, <1>4, <1>5, <1>6, StatusesPending

(* mcd_account_connection_ready_cb: the status that the account shows is *)
(* read off the TpConnection.                                            *)
LEMMA AccountReadyGood ==
  ASSUME NEW s, Good(s), NEW t, t = AccountConnectionReady(s)
  PROVE  Good(t) /\ t.requested = s.requested
<1> DEFINE x == CASE Current(s).status = "connected" -> "CONNECTED"
                  [] Current(s).status = "connecting" -> "CONNECTING"
                  [] OTHER -> "DISCONNECTED"
           r == SetConnectionStatus(s, x)
<1>1. t = IF s.tp_conn = None THEN s ELSE r
  BY DEF AccountConnectionReady
<1>2. CASE s.tp_conn = None
  BY <1>1, <1>2
<1>3. CASE s.tp_conn # None
  <2>1. /\ x \in {"DISCONNECTED", "CONNECTING", "CONNECTED"}
        /\ x = "CONNECTED" <=> Current(s).status = "connected"
    <3>1. CASE Current(s).status = "connected"
      BY <3>1
    <3>2. CASE Current(s).status = "connecting"
      BY <3>2
    <3>3. CASE Current(s).status \notin {"connected", "connecting"}
      BY <3>3
    <3> QED BY <3>1, <3>2, <3>3
  <2>2. t = r
    BY <1>1, <1>3
  <2> HIDE DEF x
  <2>3. s.requested # 1 /\ ~s.reconnect_timer
    BY <1>3 DEF Good, Core, Attempts
  <2>4. Core(r) /\ Others(s, r, {"conn_status", "reply"})
    BY <1>3, <2>1, <2>3, StatusCore DEF Good
  <2> HIDE DEF r
  <2>5. Others(s, r, Quiet) /\ r.tp_conn = s.tp_conn /\ r.tp = s.tp
    BY <2>4 DEF Others, Quiet, Fields
  <2> QED BY <2>2, <2>4, <2>5, GoodQuiet DEF Current
<1> QED BY <1>2, <1>3

(* on_connection_ready: it does not ask whose TpConnection is ready, and *)
(* need not, since only that in use can be (Replies).                    *)
LEMMA ConnectionReadyStep ==
  ASSUME Good(account), NEW c \in Tp, ConnectionReady(c)
  PROVE  Good(account') /\ Asks(account, account')
<1> DEFINE a == Answered(c, "Prepared")
           s == [a EXCEPT !.has_presence_if = HasPresence]
           k == [s EXCEPT !.tp[s.tp_conn]["pending"] =
                            s.tp[s.tp_conn].pending \cup {"Statuses"}]
           u == IF ~HasPresence \/ s.tp_conn = None THEN s ELSE k
           w == AddConnection(u)
           v == IF u.dispatching_started THEN u ELSE w
           t == AccountConnectionReady(v)
<1>1. Becomes(t) /\ "Prepared" \in account.tp[c].pending
  BY DEF ConnectionReady
<1>2. Good(a) /\ a.requested = account.requested
  <2>1. Good(a)
    BY <1>1, AnsweredGood DEF Early
  <2>2. Others(account, a, {"tp"})
    BY AnsweredEffect DEF Good, Core
  <2> HIDE DEF a
  <2> QED BY <2>1, <2>2 DEF Others, Fields
<1> HIDE DEF a
<1>3. Good(s) /\ Others(a, s, {"has_presence_if"}) /\ s.has_presence_if = HasPresence
  BY <1>2, HasPresenceGood
<1> HIDE DEF s
<1>4. s.requested = account.requested
  BY <1>2, <1>3 DEF Others, Fields
<1>5. ASSUME HasPresence, s.tp_conn # None
      PROVE  Good(k) /\ k.requested = s.requested
  BY <1>3, <1>5, StatusesAsked
<1> HIDE DEF k
<1>6. Good(u) /\ u.requested = account.requested
  BY <1>3, <1>4, <1>5
<1> HIDE DEF u
<1>7. Good(w) /\ w.requested = u.requested
  BY <1>6, AddConnectionGood
<1> HIDE DEF w
<1>8. Good(v) /\ v.requested = account.requested
  BY <1>6, <1>7
<1> HIDE DEF v
<1>9. Good(t) /\ t.requested = account.requested
  BY <1>8, AccountReadyGood
<1> HIDE DEF t
<1> QED BY <1>1, <1>9, GoodBy, BecomesResult DEF Good

---------------------------------------------------------------------------
(* The inductive invariant and the theorems                              *)

(* The fields of a McdAccount.                                           *)
AccountFields ==
  {"loaded", "enabled", "valid", "connect_automatically", "removed", "req_presence",
   "conn_status", "connection_context", "waiting_for_connectivity", "reply", "connection"}

(* Those that belong to neither.                                         *)
OutsideFields == {"tp", "orphaned", "online", "registry_ready"}

(* The three put together, as in Init.                                   *)
Merged(s, a, b, d) ==
  s = [f \in DOMAIN a \cup DOMAIN b \cup DOMAIN d |->
         CASE f \in DOMAIN a -> a[f]
           [] f \in DOMAIN b -> b[f]
           [] OTHER -> d[f]]

(* Each field has the value of its part.                                 *)
LEMMA MergedFields ==
  ASSUME NEW a, a = [f \in AccountFields |-> a[f]],
         NEW b, b = [f \in ConnFields |-> b[f]],
         NEW d, d = [f \in OutsideFields |-> d[f]],
         NEW s, Merged(s, a, b, d)
  PROVE  /\ IsAccount(s)
         /\ \A f \in AccountFields : s[f] = a[f]
         /\ \A f \in ConnFields : s[f] = b[f]
         /\ \A f \in OutsideFields : s[f] = d[f]
<1>1. DOMAIN a = AccountFields /\ DOMAIN b = ConnFields /\ DOMAIN d = OutsideFields
  OBVIOUS
<1>2. AccountFields \cup ConnFields \cup OutsideFields = Fields
  BY DEF AccountFields, ConnFields, OutsideFields, Fields
<1>3. /\ AccountFields \cap ConnFields = {}
      /\ (AccountFields \cup ConnFields) \cap OutsideFields = {}
  BY DEF AccountFields, ConnFields, OutsideFields
<1>4. s = [f \in Fields |-> CASE f \in AccountFields -> a[f]
                              [] f \in ConnFields -> b[f]
                              [] OTHER -> d[f]]
  BY <1>1, <1>2 DEF Merged
<1>5. DOMAIN s = Fields
  BY <1>4
<1>6. IsAccount(s)
  BY <1>4, <1>5 DEF IsAccount
<1>7. \A f \in AccountFields : s[f] = a[f]
  BY <1>2, <1>3, <1>4
<1>8. \A f \in ConnFields : s[f] = b[f]
  BY <1>2, <1>3, <1>4
<1>9. \A f \in OutsideFields : s[f] = d[f]
  BY <1>2, <1>3, <1>4
<1> QED BY <1>6, <1>7, <1>8, <1>9

(* The invariant holds at first.                                         *)
LEMMA InitGood ==
  ASSUME Init
  PROVE  Good(account)
<1>1. PICK enabled \in BOOLEAN, automatically \in BOOLEAN, online \in BOOLEAN :
        LET a == [NewAccount EXCEPT !.enabled = enabled,
                                    !.connect_automatically = automatically]
            d == [tp |-> [t \in Tp |-> UnusedTp], orphaned |-> 0, online |-> online,
                  registry_ready |-> RegistryIsReady]
        IN account = [f \in DOMAIN a \cup DOMAIN NewConnection \cup DOMAIN d |->
                        CASE f \in DOMAIN a -> a[f]
                          [] f \in DOMAIN NewConnection -> NewConnection[f]
                          [] OTHER -> d[f]]
  BY DEF Init
<1> DEFINE a == [NewAccount EXCEPT !.enabled = enabled,
                                   !.connect_automatically = automatically]
           b == NewConnection
           d == [tp |-> [t \in Tp |-> UnusedTp], orphaned |-> 0, online |-> online,
                 registry_ready |-> RegistryIsReady]
<1>2. /\ a = [f \in AccountFields |-> a[f]]
      /\ a.loaded = FALSE /\ a.enabled = enabled /\ a.valid = FALSE
      /\ a.connect_automatically = automatically /\ a.removed = FALSE
      /\ a.req_presence = "offline" /\ a.conn_status = "DISCONNECTED"
      /\ a.connection_context = FALSE /\ a.waiting_for_connectivity = FALSE
      /\ a.reply = [r \in Request |-> "uncalled"] /\ a.connection = FALSE
  BY DEF NewAccount, AccountFields
<1>3. /\ b = [f \in ConnFields |-> b[f]]
      /\ b.tp_conn = None /\ b.tasks_before_connect = 0 /\ b.reconnect_timer = FALSE
      /\ b.reconnect_interval = InitialReconnectionTime
      /\ b.probation_timer = FALSE /\ b.probation_drop_count = 0
      /\ b.abort_requested = FALSE /\ b.connected = FALSE
      /\ b.has_presence_if = FALSE /\ b.recognized_presences = FALSE
      /\ b.dispatching_started = FALSE /\ b.dispatcher_knows = FALSE /\ b.requested = 0
  BY DEF NewConnection, ConnFields
<1>4. /\ d = [f \in OutsideFields |-> d[f]]
      /\ d.tp = [t \in Tp |-> UnusedTp] /\ d.orphaned = 0
      /\ d.online = online /\ d.registry_ready = RegistryIsReady
  BY DEF OutsideFields
<1>5. Merged(account, a, b, d)
  BY <1>1 DEF Merged
<1> HIDE DEF a, b, d
<1>6. /\ IsAccount(account)
      /\ \A f \in AccountFields : account[f] = a[f]
      /\ \A f \in ConnFields : account[f] = b[f]
      /\ \A f \in OutsideFields : account[f] = d[f]
  <2>1. /\ a = [f \in AccountFields |-> a[f]] /\ b = [f \in ConnFields |-> b[f]]
        /\ d = [f \in OutsideFields |-> d[f]]
    BY <1>2, <1>3, <1>4
  <2> QED BY <1>5, <2>1, MergedFields
<1>7. /\ account.loaded = FALSE /\ account.enabled = enabled /\ account.valid = FALSE
      /\ account.connect_automatically = automatically /\ account.removed = FALSE
      /\ account.req_presence = "offline" /\ account.conn_status = "DISCONNECTED"
      /\ account.connection_context = FALSE /\ account.waiting_for_connectivity = FALSE
      /\ account.reply = [r \in Request |-> "uncalled"] /\ account.connection = FALSE
  BY <1>2, <1>6 DEF AccountFields
<1>8. /\ account.tp_conn = None /\ account.tasks_before_connect = 0
      /\ account.reconnect_timer = FALSE
      /\ account.reconnect_interval = InitialReconnectionTime
      /\ account.probation_timer = FALSE /\ account.probation_drop_count = 0
      /\ account.abort_requested = FALSE /\ account.connected = FALSE
      /\ account.has_presence_if = FALSE /\ account.recognized_presences = FALSE
      /\ account.dispatching_started = FALSE /\ account.dispatcher_knows = FALSE
      /\ account.requested = 0
  BY <1>3, <1>6 DEF ConnFields
<1>9. /\ account.tp = [t \in Tp |-> UnusedTp] /\ account.orphaned = 0
      /\ account.online = online /\ account.registry_ready = RegistryIsReady
  BY <1>4, <1>6 DEF OutsideFields
<1>10. Typed(account)
  <2>1. InitialReconnectionTime \in InitialReconnectionTime..MaximumReconnectionTime
    BY TimesAssumption
  <2>2. /\ account.req_presence \in Presence /\ account.tp_conn \in Tp \cup {None}
        /\ account.tasks_before_connect \in 0..2
        /\ account.reply \in [Request -> {"uncalled", "waiting", "ok", "error"}]
        /\ account.registry_ready \in BOOLEAN
    BY <1>7, <1>8, <1>9, NamesAssumption DEF Presence
  <2>3. account.tp \in [Tp -> TpType]
    BY <1>9, UnusedFields
  <2>4. /\ account.reconnect_interval \in InitialReconnectionTime..MaximumReconnectionTime
        /\ account.probation_drop_count \in Nat /\ account.requested \in Nat
        /\ account.orphaned \in Nat
    BY <1>8, <1>9, <2>1
  <2>5. /\ account.loaded \in BOOLEAN /\ account.enabled \in BOOLEAN /\ account.valid \in BOOLEAN
        /\ account.connect_automatically \in BOOLEAN /\ account.removed \in BOOLEAN
        /\ account.conn_status \in {"DISCONNECTED", "CONNECTING", "CONNECTED"}
        /\ account.connection_context \in BOOLEAN
        /\ account.waiting_for_connectivity \in BOOLEAN /\ account.connection \in BOOLEAN
        /\ account.online \in BOOLEAN
    BY <1>7, <1>9
  <2>6. /\ account.reconnect_timer \in BOOLEAN /\ account.probation_timer \in BOOLEAN
        /\ account.abort_requested \in BOOLEAN /\ account.connected \in BOOLEAN
        /\ account.has_presence_if \in BOOLEAN /\ account.recognized_presences \in BOOLEAN
        /\ account.dispatching_started \in BOOLEAN /\ account.dispatcher_knows \in BOOLEAN
    BY <1>8
  <2>7. \A f \in Fields : account[f] \in FieldType[f]
    BY <2>2, <2>3, <2>4, <2>5, <2>6, FieldTypes DEF Fields
  <2> QED BY <1>6, <2>7 DEF Typed
<1>11. Attempts(account)
  BY <1>7, <1>8 DEF Attempts
<1>12. InUse(account)
  BY <1>8 DEF InUse
<1>13. \A t \in Tp : account.tp[t] = UnusedTp
  BY <1>9
<1>14. Replies(account) /\ Histories(account) /\ Presences(account)
  <2>1. Replies(account)
    BY <1>13, UnusedFields DEF Replies
  <2>2. Histories(account)
    BY <1>13, UnusedFields DEF Histories
  <2>3. Presences(account)
    BY <1>8, <1>13, UnusedFields DEF Presences
  <2> QED BY <2>1, <2>2, <2>3
<1>15. Told(account) /\ Waits(account)
  BY <1>7, <1>8 DEF Told, Waits
<1> QED BY <1>10, <1>11, <1>12, <1>14, <1>15 DEF Good, Core

(* A user, a request or a storage plugin acts.                           *)
LEMMA UserActionStep ==
  ASSUME Good(account), UserAction
  PROVE  Good(account') /\ (Asks(account, account') \/ StorageReconnects)
<1>1. CASE \E presence \in Presence : SetRequestedPresence(presence)
  BY <1>1, SetRequestedPresenceStep
<1>2. CASE SetEnabled
  BY <1>2, SetEnabledStep
<1>3. CASE SetConnectAutomatically
  BY <1>3, SetConnectAutomaticallyStep
<1>4. CASE Reconnect
  BY <1>4, ReconnectStep
<1>5. CASE StorageReconnect
  BY <1>5, StorageReconnectStep
<1>6. CASE Remove
  BY <1>6, RemoveStep
<1>7. CASE \E valid \in BOOLEAN : UpdateParameters(valid)
  BY <1>7, UpdateParametersStep
<1>8. CASE \E r \in Request : OnlineRequest(r)
  BY <1>8, OnlineRequestStep
<1> QED BY <1>1, <1>2, <1>3, <1>4, <1>5, <1>6, <1>7, <1>8 DEF UserAction

(* A Connection replies, signals or ends.                                *)
LEMMA TpActionStep ==
  ASSUME Good(account), NEW t \in Tp, TpAction(t)
  PROVE  Good(account') /\ Asks(account, account')
<1>1. CASE RequestConnectionReturns(t)
  BY <1>1, RequestConnectionReturnsStep
<1>2. CASE OrphanReturns(t)
  BY <1>2, OrphanReturnsStep
<1>3. CASE \E error \in BOOLEAN : GetInterfacesReturns(t, error)
  BY <1>3, GetInterfacesStep
<1>4. CASE \E error \in BOOLEAN : EarlyStatusesReturns(t, error)
  BY <1>4, EarlyStatusesStep
<1>5. CASE \E error \in BOOLEAN : StatusesReturns(t, error)
  BY <1>5, StatusesStep
<1>6. CASE Prepared(t)
  BY <1>6, PreparedStep
<1>7. CASE ConnectionReady(t)
  BY <1>7, ConnectionReadyStep
<1>8. CASE PrepareFails(t)
  BY <1>8, PrepareFailsStep
<1>9. CASE TpStatusKnown(t)
  BY <1>9, TpStatusKnownStep
<1>10. CASE TpConnecting(t)
  BY <1>10, TpConnectingStep
<1>11. CASE TpConnected(t)
  BY <1>11, TpConnectedStep
<1>12. CASE \E kind \in Failures \cup {"requested"} : Invalidated(t, kind)
  BY <1>12, InvalidatedStep
<1> QED
  BY <1>1, <1>2, <1>3, <1>4, <1>5, <1>6, <1>7, <1>8, <1>9, <1>10, <1>11, <1>12
     DEF TpAction

(* Every step keeps the invariant and asks only for wanted Connections,  *)
(* unless storage plugins may ask for them.                              *)
LEMMA NextGood ==
  ASSUME Good(account), [Next]_vars
  PROVE  Good(account') /\ (Asks(account, account') \/ StorageReconnects)
<1>1. CASE \E valid \in BOOLEAN : Load(valid)
  BY <1>1, LoadStep
<1>2. CASE UserAction
  BY <1>2, UserActionStep
<1>3. CASE MonitorConnected
  BY <1>3, MonitorConnectedStep
<1>4. CASE MonitorDisconnected
  BY <1>4, MonitorDisconnectedStep
<1>5. CASE \E t \in Tp : TpAction(t)
  BY <1>5, TpActionStep
<1>6. CASE RequestConnectionFails
  BY <1>6, RequestConnectionFailsStep
<1>7. CASE OrphanFails
  BY <1>7, OrphanFailsStep
<1>8. CASE ReconnectTimer
  BY <1>8, ReconnectTimerStep
<1>9. CASE ProbationTimer
  BY <1>9, ProbationTimerStep
<1>10. CASE RegistryReady
  BY <1>10, RegistryReadyStep
<1>11. CASE UNCHANGED vars
  <2>1. account' = account
    BY <1>11 DEF vars
  <2>2. account.requested \in Nat
    BY TypedFields DEF Good, Core
  <2> QED BY <2>1, <2>2 DEF Asks
<1> QED
  BY <1>1, <1>2, <1>3, <1>4, <1>5, <1>6, <1>7, <1>8, <1>9, <1>10, <1>11 DEF Next

(* The inductive invariant as a predicate of the state.                  *)
IInv == Good(account)

(* It holds in every reachable state, for any number of Connections,     *)
(* presences and callers, any times, and any number of calls in flight.  *)
THEOREM InductiveInvariant == Spec => []IInv
<1>1. Init => IInv
  BY InitGood DEF IInv
<1>2. IInv /\ [Next]_vars => IInv'
  BY NextGood DEF IInv
<1> QED BY <1>1, <1>2, PTL DEF Spec

(* The type invariant: in particular tasks_before_connect is never       *)
(* negative and the reconnection interval stays within its bounds.       *)
THEOREM TypeCorrectness == Spec => []TypeOK
<1>1. IInv => TypeOK
  BY TypedIsType DEF IInv, Good, Core, TypeOK
<1> QED BY <1>1, InductiveInvariant, PTL

(* The account shows CONNECTED exactly while the Connection that MC uses *)
(* is, and nothing of an old Connection is taken for the new one         *)
(* (_mcd_account_set_connection_status, on_connection_status_changed).   *)
THEOREM StatusIsTruthful == Spec => []StatusTruthful
<1>1. IInv => StatusTruthful
  <2> SUFFICES ASSUME IInv PROVE StatusTruthful
    OBVIOUS
  <2>1. Attempts(account) /\ InUse(account)
    BY DEF IInv, Good, Core
  <2> QED BY <2>1 DEF Attempts, InUse, StatusTruthful
<1> QED BY <1>1, InductiveInvariant, PTL

(* MC never makes two attempts to connect an account at the same time    *)
(* (_mcd_connection_attempt, _mcd_connection_connect,                    *)
(* mcd_connection_reconnect).                                            *)
THEOREM AttemptsAreUnique == Spec => []OneAttempt
<1>1. IInv => OneAttempt
  <2> SUFFICES ASSUME IInv PROVE OneAttempt
    OBVIOUS
  <2>1. Attempts(account) /\ TypeOK
    BY TypedIsType DEF IInv, Good, Core, TypeOK
  <2> QED BY <2>1 DEF Attempts, OneAttempt
<1> QED BY <1>1, InductiveInvariant, PTL

(* A Connection that was seen connecting and that MC does not use any    *)
(* more was told to disconnect or is gone                                *)
(* (_mcd_connection_release_tp_connection).                              *)
THEOREM NoneStaysConnected == Spec => []SeenAreDisconnected
<1>1. IInv => SeenAreDisconnected
  BY DEF IInv, Good, Core, Histories, SeenAreDisconnected
<1> QED BY <1>1, InductiveInvariant, PTL

(* Once a Connection is set up, the last presence that MC told it is the *)
(* requested one (_mcd_connection_set_presence,                          *)
(* presence_get_statuses_cb).                                            *)
THEOREM PresenceIsTold == Spec => []PresenceTold
<1>1. IInv => PresenceTold
  BY DEF IInv, Good, Told, PresenceTold
<1> QED BY <1>1, InductiveInvariant, PTL

(* RequestConnection is called only for an account that is enabled and   *)
(* valid and is to be online, or for an attempt that waited for the      *)
(* network or a retry, provided that no storage plugin asks for a        *)
(* reconnection: _mcd_account_reconnect checks nothing of the kind.      *)
THEOREM ConnectionsAreWanted ==
  ASSUME ~StorageReconnects
  PROVE  Spec => OnlyWantedConnections
<1> DEFINE A == account'.requested > account.requested =>
       \/ account'.enabled /\ account'.valid /\ account'.req_presence # "offline"
       \/ account.waiting_for_connectivity \/ account.reconnect_timer
<1>1. IInv /\ [Next]_vars => [A]_vars
  <2> SUFFICES ASSUME IInv, [Next]_vars PROVE A
    OBVIOUS
  <2>1. Asks(account, account')
    BY NextGood DEF IInv
  <2> QED BY <2>1 DEF Asks, Wanted
<1> HIDE DEF A
<1>2. Spec => [][A]_vars
  BY <1>1, InductiveInvariant, PTL DEF Spec
<1> QED BY <1>2 DEF A, OnlyWantedConnections

===========================================================================
