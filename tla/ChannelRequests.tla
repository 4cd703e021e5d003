--------------------------- MODULE ChannelRequests ---------------------------
(* Requests for channels on one account: McdRequest (request.c) with its    *)
(* delays and the policy plugins that cause them, the code that brings the  *)
(* account online for them (mcd-account-requests.c), the calls to the       *)
(* connection manager and its answers and signals (mcd-connection.c), the   *)
(* McdChannel that stands for a request and then wraps a Channel or is a    *)
(* proxy for one that does (mcd-channel.c), and the dispatcher's part:      *)
(* CreateChannel, EnsureChannel, SendMessage, and what is done when a       *)
(* request gets a channel that is there already (mcd-dispatcher.c).         *)
(*                                                                          *)
(* One record is the state: a C function is an operator from records to     *)
(* records, an action is a callback of the main loop with all it calls.     *)
(* External: the account going online (AccountConnection has it), the       *)
(* dispatch operations (DispatchOperation has them), the connection         *)
(* manager.  All requests are for the same target, so that EnsureChannel    *)
(* finds the open channel if there is one.                                  *)
EXTENDS Integers, Sequences, FiniteSetsExt, SequencesExt

CONSTANTS
  MaxRequest,      \* requests are 1..MaxRequest, made in this order
  Path,            \* object paths of channels
  None,            \* no path, no channel
  Kinds,           \* the methods called: "create", "ensure", "message"
  Urgent,          \* the requests for an emergency number
  AlwaysDispatch,  \* the account always dispatches, whoever asked
  Incoming,        \* Requested, of the channels that MC did not ask for
  MaxEvents        \* bound on these channels and on lost connections together

ASSUME RequestsAssumption ==
  /\ MaxRequest \in Nat /\ MaxEvents \in Nat /\ AlwaysDispatch \in BOOLEAN
  /\ Kinds \subseteq {"create", "ensure", "message"}
  /\ Urgent \subseteq 1..MaxRequest /\ Incoming \subseteq BOOLEAN
  /\ None \notin Path

VARIABLE world
vars == <<world>>

-----------------------------------------------------------------------------
(* The state                                                                *)

Request == 1..MaxRequest

(* McdChannels: that of each request, and those made for other channels,    *)
(* which are named like their path.                                         *)
Channel == Request \cup Path

ChannelStatus ==
  {"undispatched", "request", "requested", "dispatching", "handler_invoked",
   "dispatched", "failed", "aborted"}

(* McdRequest.  outcome is is_complete with the signal that was emitted,    *)
(* connected the handlers of _mcd_account_create_request, internal the      *)
(* internal handler, plugin that a plugin delays it, answer what the caller *)
(* of SendMessage got; gone that it was disposed.                           *)
RequestType ==
  [kind : Kinds \cup {"none"}, delay : Nat, proceeding : BOOLEAN, cancellable : BOOLEAN,
   outcome : {"none", "succeeded", "failed"}, connected : BOOLEAN,
   internal : BOOLEAN, plugin : BOOLEAN,
   gone : BOOLEAN, answer : {"none", "waiting", "sent", "error"},
   close_after : BOOLEAN]

NoRequest ==
  [kind |-> "none", delay |-> 0, proceeding |-> FALSE, cancellable |-> FALSE,
   outcome |-> "none", connected |-> FALSE, internal |-> FALSE,
   plugin |-> FALSE, gone |-> FALSE, answer |-> "none",
   close_after |-> FALSE]

(* McdChannel.  source is the channel it is a proxy for, listening whether  *)
(* it copies the status of that channel; operation is how far the dispatch  *)
(* operation of the channel is.                                             *)
ChannelType ==
  [status : ChannelStatus, tp_chan : Path \cup {None}, is_proxy : BOOLEAN,
   source : Channel \cup {None}, listening : BOOLEAN, is_aborted : BOOLEAN,
   operation : {"none", "approval", "run", "handling", "internal"}]

NoChannel ==
  [status |-> "undispatched", tp_chan |-> None, is_proxy |-> FALSE,
   source |-> None, listening |-> FALSE, is_aborted |-> FALSE, operation |-> "none"]

(* What MC asks of the connection manager, and what this tells MC.          *)
CallType ==
  [op : {"create", "ensure", "send"}, by : Request, path : Path \cup {None}]
    \cup [op : {"close"}, by : {0}, path : Path]
MessageType ==
  [op : {"reply", "sent"}, to : Request, path : Path \cup {None}]
    \cup [op : {"new", "new_requested", "closed"}, to : {0}, path : Path]

(* missions are the channels of the connection, the latest first.           *)
(* connection is ready when the TpConnection is prepared as well.           *)
(* The remote channels that are ours were opened for a call of MC.          *)
WorldType ==
  [request : [Request -> RequestType], channel : [Channel -> ChannelType],
   account_locks : Nat, blocked_reqs : Seq(Request), online_requests : Seq(Request),
   missions : Seq(Channel), connection : {"down", "connected", "ready"},
   usable : BOOLEAN, requests_iface : BOOLEAN, events : 0..MaxEvents,
   calls : Seq(CallType), inbox : Seq(MessageType), remote : [Path -> {"unused", "open", "ours", "closed"}],
   pending : SUBSET Request, sending : SUBSET Request,
   reinvoked : SUBSET Request]

Init ==
  \E usable, iface \in BOOLEAN :
    world =
      [request |-> [r \in Request |-> NoRequest], channel |-> [x \in Channel |-> NoChannel],
       account_locks |-> 0, blocked_reqs |-> <<>>, online_requests |-> <<>>,
       missions |-> <<>>, connection |-> "down",
       usable |-> usable, requests_iface |-> iface, events |-> 0,
       calls |-> <<>>, inbox |-> <<>>, remote |-> [p \in Path |-> "unused"],
       pending |-> {}, sending |-> {}, reinvoked |-> {}]

-----------------------------------------------------------------------------
(* Who keeps whom: the handlers connected to a request hold its channel,    *)
(* which holds the request, until the request is complete.                  *)

Missions(s) == ToSet(s.missions)

ChannelAlive(s, x) ==
  \/ x \in Missions(s)
  \/ s.channel[x].operation # "none"
  \/ x \in Request /\ (s.request[x].connected \/ x \in ToSet(s.online_requests))

RequestAlive(s, r) ==
  LET x == s.channel[r].source IN
  \/ ChannelAlive(s, r)
  \/ s.request[r].delay > 0
  \/ x # None /\ ChannelAlive(s, x)

(* mcd_connection_find_channel_by_path                                      *)
FindChannelByPath(s, p) ==
  LET found == {x \in Missions(s) : s.channel[x].tp_chan = p /\ ~s.channel[x].is_proxy}
  IN  IF found = {} THEN None ELSE CHOOSE x \in found : TRUE

-----------------------------------------------------------------------------
(* Completion of a request, status of a channel                             *)

(* _mcd_request_set_success, _mcd_request_set_failure: once.  The handlers  *)
(* of _mcd_account_create_request disconnect all three.  AddRequest and     *)
(* RemoveRequest, which tell a client, are left out.                        *)
Complete(s, r, outcome) ==
  IF s.request[r].outcome # "none" THEN s
  ELSE [s EXCEPT !.request[r].outcome = outcome, !.request[r].cancellable = FALSE,
                 !.request[r].connected = FALSE]

(* mcd_channel_status_changed                                               *)
StatusChanged(s, x, status) ==
  LET t == [s EXCEPT !.channel[x].status = status] IN
  IF x \notin Request THEN t
  ELSE CASE status = "failed"          -> Complete(t, x, "failed")
         [] status = "dispatched"      -> Complete(t, x, "succeeded")
         [] status = "handler_invoked" -> [t EXCEPT !.request[x].cancellable =
                                             @ /\ t.request[x].outcome # "none"]
         [] OTHER                      -> t

(* A mutant: a channel that failed goes on.                                 *)
MutGoOn(s, x, status) == s.channel[x].status # status

(* The guard of _mcd_channel_set_status.                                    *)
MaySetStatus(s, x, status) ==
  /\ s.channel[x].status # status
  /\ status # "aborted" => s.channel[x].status # "failed"

(* Of a channel that nobody is a proxy for: _mcd_channel_set_status,        *)
(* mcd_mission_abort (with on_mission_abort and the dispatch operation's    *)
(* handler).                                                                *)
SetStatusAlone(s, x, status) ==
  IF MaySetStatus(s, x, status) THEN StatusChanged(s, x, status) ELSE s

IsRequestStatus(status) ==
  status \in {"request", "requested", "dispatching", "handler_invoked"}

Leave(s, x) ==
  [s EXCEPT !.missions = SelectSeq(@, LAMBDA y : y # x),
            !.channel[x].operation = "none"]

FailAlone(s, x) ==
  IF IsRequestStatus(s.channel[x].status) THEN SetStatusAlone(s, x, "failed") ELSE s

AbortAlone(s, x) ==
  IF s.channel[x].is_aborted THEN s
  ELSE Leave(SetStatusAlone(FailAlone([s EXCEPT !.channel[x].is_aborted = TRUE], x),
                            x, "aborted"), x)

(* copy_status to the proxy r, which needs its source no more at the end.   *)
(* A proxy that was disposed meanwhile is not touched in the model.         *)
StopAtTheEnd(s, r) ==
  IF s.channel[r].status \in {"failed", "dispatched"}
  THEN AbortAlone([s EXCEPT !.channel[r].listening = FALSE], r) ELSE s

CopyStatus(s, r) ==
  IF ~ChannelAlive(s, r) THEN s
  ELSE StopAtTheEnd(SetStatusAlone(s, r, s.channel[s.channel[r].source].status), r)

Proxies(s, x) == {r \in Request : s.channel[r].source = x /\ s.channel[r].listening}

(* _mcd_channel_set_status, and on_proxied_channel_status_changed of those  *)
(* that listen.                                                             *)
SetStatus(s, x, status) ==
  IF MaySetStatus(s, x, status)
  THEN FoldSet(LAMBDA r, t : CopyStatus(t, r), StatusChanged(s, x, status), Proxies(s, x))
  ELSE s

(* mcd_channel_take_error                                                   *)
TakeError(s, x) == SetStatus(s, x, "failed")

(* mcd_channel_abort                                                        *)
FailRequest(s, x) ==
  IF IsRequestStatus(s.channel[x].status) THEN TakeError(s, x) ELSE s

Abort(s, x) ==
  IF s.channel[x].is_aborted THEN s
  ELSE Leave(SetStatus(FailRequest([s EXCEPT !.channel[x].is_aborted = TRUE], x),
                       x, "aborted"), x)

(* The paths whose TpChannel is invalidated: MC knows that they are closed. *)
Invalidated(s) ==
  {p \in Path : s.remote[p] = "closed" /\ \A i \in DOMAIN s.inbox : s.inbox[i].path # p}

(* _mcd_channel_close, _mcd_channel_undispatchable, with the check of       *)
(* _mcd_tp_channel_should_close.                                            *)
Close(s, x) ==
  LET p == s.channel[x].tp_chan IN
  IF p = None \/ p \in Invalidated(s) THEN s
  ELSE [s EXCEPT !.calls = Append(@, [op |-> "close", by |-> 0, path |-> p])]

-----------------------------------------------------------------------------
(* From ready-to-request to the connection manager                          *)

(* _mcd_connection_request_channel                                          *)
RequestChannelNewIface(s, r) ==
  IF s.connection # "ready" THEN s
  ELSE IF ~s.requests_iface THEN Abort(TakeError(s, r), r)
  ELSE SetStatus([s EXCEPT !.calls = Append(@, [op |-> IF s.request[r].kind = "create"
                                                       THEN "create" ELSE "ensure",
                                                by |-> r, path |-> None]),
                           !.pending = @ \cup {r}],
                 r, "requested")

(* mcd_connection_request_channel                                           *)
ConnectionRequestChannel(s, r) ==
  IF s.channel[r].status = "failed" THEN Abort(Close(s, r), r)
  ELSE RequestChannelNewIface(IF r \in Missions(s) THEN s
                              ELSE [s EXCEPT !.missions = <<r>> \o @], r)

(* online_request_cb                                                        *)
OnlineRequestCb(s, r, failed) ==
  IF failed THEN TakeError(s, r)
  ELSE IF s.channel[r].status = "failed" THEN s
  ELSE ConnectionRequestChannel(s, r)

(* _mcd_account_online_request                                              *)
AccountOnlineRequest(s, r) ==
  IF s.connection = "down" /\ s.usable
  THEN [s EXCEPT !.online_requests = Append(@, r)]
  ELSE OnlineRequestCb(s, r, s.connection = "down")

(* ready_to_request_cb, if it is still connected.                           *)
ReadyToRequest(s, r) ==
  IF ~s.request[r].connected THEN s
  ELSE IF s.request[r].outcome = "failed" THEN TakeError(s, r)
  ELSE AccountOnlineRequest(s, r)

-----------------------------------------------------------------------------
(* Delays, and the lock of the account                                      *)

(* _mcd_request_start_delay, _mcd_request_end_delay                         *)
StartDelay(s, r) == [s EXCEPT !.request[r].delay = @ + 1]

EndDelay(s, r) ==
  LET t == [s EXCEPT !.request[r].delay = @ - 1] IN
  IF t.request[r].delay = 0 THEN ReadyToRequest(t, r) ELSE t

(* _mcd_request_block_account                                               *)
BlockAccount(s) ==
  [s EXCEPT !.account_locks = @ + 1]

(* _mcd_request_unblock_account                                             *)
UnblockAccount(s) ==
  CASE s.account_locks = 0 -> s
    [] s.account_locks = 1 ->
         [FoldLeft(EndDelay, [s EXCEPT !.account_locks = 0], s.blocked_reqs)
            EXCEPT !.blocked_reqs = <<>>]
    [] OTHER -> [s EXCEPT !.account_locks = @ - 1]

(* _queue_blocked_requests                                                  *)
QueueBlockedRequests(s, r) ==
  IF s.request[r].internal THEN BlockAccount(s)
  ELSE IF s.account_locks > 0
  THEN [StartDelay(s, r) EXCEPT !.blocked_reqs = Append(@, r)]
  ELSE s

(* mcp_request_policy_check of a plugin that denies or delays: deny fails   *)
(* the request, whose delays go on.                                         *)
CheckPolicy(s, r, policy) ==
  CASE policy = "deny"  -> Complete(s, r, "failed")
    [] policy = "delay" -> [StartDelay(s, r) EXCEPT !.request[r].plugin = TRUE]
    [] OTHER            -> s

(* _mcd_connection_target_id_is_urgent, which knows no emergency numbers    *)
(* without a connection.                                                    *)
IsUrgent(s, r) == s.connection # "down" /\ r \in Urgent

(* _mcd_request_proceed.  A second call changes nothing.                    *)
Proceed(s, r, policy) ==
  IF s.request[r].proceeding THEN s
  ELSE LET t == [s EXCEPT !.request[r].proceeding = TRUE] IN
       EndDelay(IF IsUrgent(s, r) THEN t
                ELSE CheckPolicy(QueueBlockedRequests(t, r), r, policy), r)

-----------------------------------------------------------------------------
(* Messages: requests that MC makes for itself                              *)

(* send_message_got_channel.  No caller passes NULL for the channel, so     *)
(* that its second try is never made.                                       *)
SendMessageGotChannel(s, r, close_after) ==
  [s EXCEPT !.request[r].close_after = close_after,
            !.calls = Append(@, [op |-> "send", by |-> r, path |-> s.channel[r].tp_chan]),
            !.sending = @ \cup {r}]

(* _mcd_request_handle_internally                                           *)
HandleInternally(s, r, close_after) ==
  IF s.request[r].internal THEN SendMessageGotChannel(s, r, close_after) ELSE s

(* _mcd_request_clear_internal_handler and message_context_free: a caller   *)
(* without an answer gets an error.                                         *)
ClearInternalHandler(s, r) ==
  [s EXCEPT !.request[r].internal = FALSE,
            !.request[r].answer = IF @ = "waiting" THEN "error" ELSE @]

(* send_message_submitted, not called once the channel is disposed          *)
SendMessageSubmitted(s, r, answer) ==
  LET t == ClearInternalHandler(UnblockAccount([s EXCEPT !.request[r].answer = answer]), r)
  IN  IF s.request[r].close_after THEN Close(t, r) ELSE t

(* A mutant: an internal request that fails keeps the account locked.       *)
MutDisposeOnly(s, r) == ClearInternalHandler([s EXCEPT !.request[r].gone = TRUE], r)

(* _mcd_request_dispose, _mcd_request_finalize                              *)
Dispose(s, r) ==
  LET t == [s EXCEPT !.request[r].gone = TRUE]
  IN  IF s.request[r].internal THEN ClearInternalHandler(UnblockAccount(t), r) ELSE t

Unreferenced(s) ==
  {r \in Request : s.request[r].kind # "none" /\ ~s.request[r].gone /\ ~RequestAlive(s, r)}

(* What is left of a request and of a channel that are disposed.            *)
Remains(s) ==
  [s EXCEPT
     !.request = [r \in Request |-> LET q == s.request[r] IN
        IF ~q.gone THEN q
        ELSE [NoRequest EXCEPT !.kind = q.kind, !.outcome = q.outcome, !.gone = TRUE,
                               !.proceeding = q.proceeding, !.answer = q.answer]],
     !.channel = [x \in Channel |->
        IF ChannelAlive(s, x) THEN s.channel[x]
        ELSE [NoChannel EXCEPT !.source =
                IF x \in Path \/ s.request[x].gone THEN None ELSE s.channel[x].source]]]

DisposeUnreferenced(s) == FoldSet(LAMBDA r, t : Dispose(t, r), s, Unreferenced(s))

(* Those that an unblock leaves without a reference are not internal.       *)
DropUnblocked(s) ==
  LET dropped == Unreferenced(s) IN
  [s EXCEPT !.request = [r \in Request |->
                           [@[r] EXCEPT !.gone = @ \/ r \in dropped]]]

(* The last references go when the callback returns.                        *)
Unref(s) == Remains(DropUnblocked(DisposeUnreferenced(s)))

-----------------------------------------------------------------------------
(* Channels for requests                                                    *)

(* mcd_dispatcher_finish_reinvocation                                       *)
FinishReinvocation(s, r) == Abort(SetStatus(s, r, "dispatched"), r)

(* _mcd_dispatcher_reinvoke_handler; found: _mcd_dispatcher_lookup_handler  *)
(* returns a handler.  _mcd_client_proxy_handle_channels sets the status.   *)
ReinvokeHandler(s, r, found) ==
  IF ~found THEN FinishReinvocation(s, r)
  ELSE SetStatus([s EXCEPT !.reinvoked = @ \cup {r}], r, "handler_invoked")

(* _mcd_channel_copy_details                                                *)
CopyDetails(s, r, x) ==
  [s EXCEPT !.channel[r].is_proxy = TRUE, !.channel[r].tp_chan = s.channel[x].tp_chan]

(* _mcd_channel_set_request_proxy                                           *)
SetRequestProxy(s, r, x) ==
  LET t == CopyStatus([CopyDetails(s, r, x) EXCEPT !.channel[r].source = x], r)
  IN  [t EXCEPT !.channel[r].listening = TRUE]

(* _mcd_dispatch_operation_approve, if find_operation_from_channel finds    *)
(* the operation: those of requested channels are not in the list.          *)
ApproveOperation(s, x) ==
  IF s.channel[x].operation = "approval"
  THEN [s EXCEPT !.channel[x].operation = "run"] ELSE s

(* _mcd_dispatcher_add_channel_request: x is there, r asks for it.          *)
AddChannelRequest(s, x, r, found) ==
  IF s.channel[x].status = "dispatched"
  THEN IF s.request[r].internal THEN HandleInternally(CopyDetails(s, r, x), r, FALSE)
       ELSE ReinvokeHandler(CopyDetails(s, r, x), r, found)
  ELSE IF s.request[r].internal THEN HandleInternally(SetRequestProxy(s, r, x), r, FALSE)
  ELSE IF s.channel[x].status = "dispatching"
  THEN ApproveOperation(SetRequestProxy(s, r, x), x)
  ELSE SetRequestProxy(s, r, x)

(* A mutant: a request that was cancelled leaves its channel open.          *)
MutForgetCancelled(s, r, p, found) ==
  LET x == IF s.request[r].kind = "create" THEN None ELSE FindChannelByPath(s, p)
      t == [s EXCEPT !.channel[r].tp_chan = p]
  IN  IF p = None THEN Abort(TakeError(s, r), r)
      ELSE IF x # None THEN AddChannelRequest(s, x, r, found)
      ELSE IF s.channel[r].status = "failed" THEN Abort(t, r) ELSE t

(* common_request_channel_cb: the connection manager answers with a path,   *)
(* or None for an error.                                                    *)
CommonRequestChannelCb(s, r, p, found) ==
  LET x == IF s.request[r].kind = "create" THEN None ELSE FindChannelByPath(s, p)
      t == [s EXCEPT !.channel[r].tp_chan = p]
  IN  IF p = None THEN Abort(TakeError(s, r), r)
      ELSE IF x # None THEN AddChannelRequest(s, x, r, found)
      ELSE IF s.channel[r].status = "failed" THEN Abort(Close(t, r), r) ELSE t

(* _mcd_dispatcher_add_channel and _mcd_dispatcher_enter_state_machine: a   *)
(* dispatch operation, which waits for approval if nobody asked.            *)
EnterStateMachine(s, x, requested) ==
  [SetStatus(s, x, "dispatching")
     EXCEPT !.channel[x].operation = IF requested THEN "run" ELSE "approval"]

AddChannel(s, x, requested, only_observe) ==
  IF only_observe THEN s ELSE EnterStateMachine(s, x, requested)

(* mcd_connection_need_dispatch                                             *)
NeedDispatch(s, p, requested) ==
  AlwaysDispatch \/ ~requested \/ FindChannelByPath(s, p) # None

(* on_new_channels                                                          *)
OnNewChannels(s, p, requested) ==
  LET x == FindChannelByPath(s, p)
      t == IF x # None THEN s
           ELSE [s EXCEPT !.missions = <<p>> \o @, !.channel[p].tp_chan = p]
  IN  AddChannel(t, FindChannelByPath(t, p), requested, ~NeedDispatch(s, p, requested))

(* proxy_destroyed, of all that wrap the channel                            *)
ChannelInvalidated(s, p) ==
  FoldSet(LAMBDA x, t : IF ChannelAlive(t, x) THEN Abort(t, x) ELSE t,
          s,
          {x \in Channel : s.channel[x].tp_chan = p /\ ~s.channel[x].is_proxy})

-----------------------------------------------------------------------------
(* Actions: the D-Bus methods and what plugins and handlers do              *)

Free(s, r) == s.request[r].kind = "none" /\ \A q \in 1..(r - 1) : s.request[q].kind # "none"

(* The ChannelRequest is on D-Bus.                                          *)
Registered(r) ==
  LET q == world.request[r] IN q.kind # "none" /\ q.outcome = "none" /\ ~q.gone

(* _mcd_account_create_request and _mcd_channel_new_request                 *)
CreateRequest(s, r, kind) ==
  [s EXCEPT !.request[r] = [NoRequest EXCEPT !.kind = kind, !.delay = 1,
                              !.cancellable = TRUE, !.connected = TRUE],
            !.channel[r].status = "request"]

(* dispatcher_request_channel, with _mcd_request_predict_handler            *)
RequestChannel(r) ==
  /\ Free(world, r)
  /\ \E kind \in Kinds \ {"message"} :
       world' = CreateRequest(world, r, kind)

(* messages_send_message_start                                              *)
SendMessage(r) ==
  /\ Free(world, r) /\ "message" \in Kinds
  /\ \E policy \in {"pass", "delay", "deny"} :
       LET s == [CreateRequest(world, r, "message")
                   EXCEPT !.request[r].internal = TRUE, !.request[r].answer = "waiting"]
       IN  world' = Unref(Proceed(s, r, policy))

(* channel_request_proceed, also once more                                  *)
CallProceed(r) ==
  /\ Registered(r) /\ world.request[r].kind # "message"
  /\ \E policy \in {"pass", "delay", "deny"} :
       /\ world.request[r].proceeding => policy = "pass"
       /\ world' = Unref(Proceed(world, r, policy))

(* channel_request_cancel, _mcd_request_cancel and                          *)
(* _mcd_channel_request_cancelling_cb                                       *)
Cancel(r) ==
  /\ Registered(r) /\ world.request[r].kind # "message"
  /\ world.request[r].cancellable
  /\ LET s == TakeError(world, r) IN
     world' = Unref(IF world.channel[r].status = "dispatching"
                    THEN Abort(Close(s, r), r) ELSE s)

(* plugin_req_end_delay, after plugin_req_deny or not                       *)
PluginEndsDelay(r) ==
  /\ world.request[r].plugin
  /\ \E deny \in BOOLEAN :
       LET s == IF deny THEN Complete(world, r, "failed") ELSE world
       IN  world' = Unref(EndDelay([s EXCEPT !.request[r].plugin = FALSE], r))

(* A dispatch operation is through with observers, and approvers if there   *)
(* are any: the internal handler or a handler gets the channel, or there is *)
(* none for it.                                                             *)
OperationProceeds(x) ==
  /\ world.channel[x].operation = "run"
  /\ IF x \in Request /\ world.request[x].kind = "message"
     THEN world' = HandleInternally([world EXCEPT !.channel[x].operation = "internal"], x, TRUE)
     ELSE \/ world' = [SetStatus(world, x, "handler_invoked")
                         EXCEPT !.channel[x].operation = "handling"]
          \/ world' = Unref(Close(TakeError([world EXCEPT !.channel[x].operation = "none"], x), x))

(* HandleChannels of the dispatch operation returns: the channel is handled *)
(* or, if no other handler is left, undispatchable.                         *)
HandlerReturns(x) ==
  /\ world.channel[x].operation = "handling"
  /\ LET s == [world EXCEPT !.channel[x].operation = "none"] IN
     \/ world' = Unref(SetStatus(s, x, "dispatched"))
     \/ world' = Unref(Close(TakeError(s, x), x))

UserApproves(p) ==
  /\ world.channel[p].operation = "approval"
  /\ world' = ApproveOperation(world, p)

(* reinvoke_handle_channels_cb, with or without an error.  It is not called *)
(* when the channel was disposed.                                           *)
ReinvokedReturns(r) ==
  /\ r \in world.reinvoked
  /\ LET s == [world EXCEPT !.reinvoked = @ \ {r}] IN
     world' = Unref(IF ChannelAlive(s, r) THEN FinishReinvocation(s, r) ELSE s)

-----------------------------------------------------------------------------
(* Actions: the account and its connection                                  *)

(* _mcd_account_online_request_completed.  What is appended meanwhile, by   *)
(* a request that was blocked by one that fails, is called as well.  Those  *)
(* that were cancelled have nothing to do here but lose their reference.    *)
CallOnlineRequests(s, failed) ==
  FoldLeft(LAMBDA t, r : IF ChannelAlive(t, r) THEN Unref(OnlineRequestCb(t, r, failed)) ELSE t,
           [s EXCEPT !.online_requests = <<>>], s.online_requests)

OnlineRequestsCompleted(s, failed) ==
  [CallOnlineRequests(CallOnlineRequests(s, failed), failed) EXCEPT !.online_requests = <<>>]

(* The account is connected.                                                *)
AccountConnected ==
  /\ world.connection = "down" /\ world.usable
  /\ world' = OnlineRequestsCompleted([world EXCEPT !.connection = "connected"], FALSE)

AbortMissions(s) == FoldLeft(Abort, s, s.missions)

(* It cannot connect, and an McdConnection that gives up is aborted with    *)
(* its missions.                                                            *)
AttemptFails ==
  /\ world.connection = "down" /\ world.events < MaxEvents
  /\ world.online_requests # <<>>
  /\ world' = Unref(AbortMissions(OnlineRequestsCompleted([world EXCEPT !.events = @ + 1], TRUE)))

(* A mutant: only what is requested later is requested.                     *)
MutForgetParked(s) == s

(* request_unrequested_channels                                             *)
RequestUnrequestedChannels(s) ==
  FoldLeft(LAMBDA t, x : IF t.channel[x].status = "request"
                         THEN ConnectionRequestChannel(t, x) ELSE t, s, s.missions)

(* on_connection_ready                                                      *)
ConnectionReady ==
  /\ world.connection = "connected"
  /\ world' = Unref(RequestUnrequestedChannels([world EXCEPT !.connection = "ready"]))

Opened(s) == {p \in Path : s.remote[p] \in {"open", "ours"}}

(* The connection is gone: every call to it fails, every channel of it is   *)
(* invalidated, and mcd_connection_invalidated_cb waits to reconnect or     *)
(* aborts the McdConnection and with it all its missions                    *)
(* (_mcd_operation_abort).  What the connection told before comes first.    *)
ConnectionLost ==
  /\ world.connection # "down" /\ world.events < MaxEvents /\ world.inbox = <<>>
  /\ \E abort \in BOOLEAN :
       LET s  == [world EXCEPT !.connection = "down", !.events = @ + 1, !.pending = {},
                               !.sending = {}, !.remote = [p \in Path |->
                                  IF p \in Opened(world) THEN "closed" ELSE @[p]]]
           s1 == FoldSet(LAMBDA r, t : IF ChannelAlive(t, r)
                                       THEN CommonRequestChannelCb(t, r, None, FALSE) ELSE t,
                         s, world.pending)
           s2 == FoldSet(LAMBDA r, t : IF ChannelAlive(t, r)
                                       THEN SendMessageSubmitted(t, r, "error") ELSE t,
                         s1, world.sending)
           s3 == FoldSet(LAMBDA p, t : ChannelInvalidated(t, p), s2, Opened(world))
       IN  world' = Unref([(IF abort THEN AbortMissions(s3) ELSE s3) EXCEPT !.calls = <<>>])

-----------------------------------------------------------------------------
(* Actions: the connection manager, and its messages to MC                  *)

Message(op, to, p) == [op |-> op, to |-> to, path |-> p]

(* The path of the next channel, while there are any: the paths are alike.  *)
NextPath(s) ==
  LET unused == {p \in Path : s.remote[p] = "unused"} IN
  IF unused = {} THEN {} ELSE {CHOOSE p \in unused : TRUE}

(* A channel for r: the reply, then NewChannels.                            *)
CmOpens(s, r) ==
  \E p \in NextPath(s) :
    world' = [s EXCEPT !.remote[p] = "ours",
                       !.inbox = @ \o <<Message("reply", r, p), Message("new_requested", 0, p)>>]

CmClosed(s, p) ==
  IF p \in Opened(s)
  THEN [s EXCEPT !.remote[p] = "closed", !.inbox = Append(@, Message("closed", 0, p))]
  ELSE s

CmHandlesCall ==
  /\ world.calls # <<>>
  /\ LET call == Head(world.calls)
         s    == [world EXCEPT !.calls = Tail(@)]
     IN  CASE call.op = "close" -> world' = CmClosed(s, call.path)
           [] call.op = "send" ->
                \/ world' = [s EXCEPT !.inbox = Append(@, Message("sent", call.by, None))]
                \/ /\ call.path \in Opened(s)
                   /\ world' = [s EXCEPT !.inbox = Append(@, Message("sent", call.by, call.path))]
           [] call.op \in {"create", "ensure"} ->
                \/ world' = [s EXCEPT !.inbox = Append(@, Message("reply", call.by, None))]
                \/ /\ call.op = "ensure"
                   /\ \E p \in Opened(s) :
                        world' = [s EXCEPT !.inbox = Append(@, Message("reply", call.by, p))]
                \/ (call.op = "create" \/ Opened(s) = {}) /\ CmOpens(s, call.by)

(* Somebody else opens a channel, requested or not; the other end closes    *)
(* one.                                                                     *)
ChannelOpened(requested) ==
  /\ world.connection = "ready" /\ requested \in Incoming
  /\ world.events < MaxEvents
  /\ \E p \in NextPath(world) :
       world' = [world EXCEPT !.remote[p] = "open", !.events = @ + 1,
                   !.inbox = Append(@, Message(IF requested THEN "new_requested" ELSE "new", 0, p))]

ChannelCloses(p) == p \in Opened(world) /\ world' = CmClosed(world, p)

(* MC handles the next message.  Replies to calls for a channel that was    *)
(* disposed are dropped.                                                    *)
Handled(s, m, found) ==
  CASE m.op = "reply" ->
         IF ChannelAlive(s, m.to) THEN CommonRequestChannelCb(s, m.to, m.path, found) ELSE s
    [] m.op = "sent" ->
         IF ChannelAlive(s, m.to)
         THEN SendMessageSubmitted(s, m.to, IF m.path = None THEN "error" ELSE "sent") ELSE s
    [] m.op = "closed" -> ChannelInvalidated(s, m.path)
    [] OTHER -> OnNewChannels(s, m.path, m.op = "new_requested")

HandleMessage ==
  /\ world.inbox # <<>>
  /\ LET m == Head(world.inbox)
         s == [world EXCEPT !.inbox = Tail(@),
                            !.pending = IF m.op = "reply" THEN @ \ {m.to} ELSE @,
                            !.sending = IF m.op = "sent" THEN @ \ {m.to} ELSE @]
     IN  \E found \in BOOLEAN :
           /\ m.op # "reply" => found
           /\ world' = Unref(Handled(s, m, found))

Next ==
  \/ \E r \in Request :
       RequestChannel(r) \/ SendMessage(r) \/ CallProceed(r) \/ Cancel(r)
         \/ PluginEndsDelay(r) \/ ReinvokedReturns(r)
  \/ \E x \in Channel : OperationProceeds(x) \/ HandlerReturns(x)
  \/ \E p \in Path : UserApproves(p) \/ ChannelCloses(p)
  \/ AccountConnected \/ AttemptFails \/ ConnectionReady \/ ConnectionLost
  \/ CmHandlesCall \/ HandleMessage
  \/ \E requested \in BOOLEAN : ChannelOpened(requested)

Spec == Init /\ [][Next]_vars

(* Calls are answered, the main loop runs, plugins end their delays, and an *)
(* account for which somebody waits goes online or fails to: weak fairness  *)
(* of these actions, each of which takes its turn out of what enables it.   *)
FairSpec ==
  /\ Spec
  /\ []<>(world.calls = <<>>) /\ []<>(world.inbox = <<>>)
  /\ []<>(world.connection # "connected")
  /\ []<>~(/\ world.connection = "down" /\ world.usable
           /\ world.online_requests # <<>> \/ world.missions # <<>>)
  /\ []<>(world.reinvoked = {})
  /\ \A r \in Request : []<>(~world.request[r].plugin)
  /\ \A x \in Channel : []<>(world.channel[x].operation \notin {"run", "handling"})

-----------------------------------------------------------------------------
(* Properties                                                               *)

TypeOK == world \in WorldType

(* The lock count of the account is the number of messages in flight, also  *)
(* when they are denied, fail or lose their channel, and nobody is blocked  *)
(* without such a message; no delay ends more often than it started.        *)
LocksExact ==
  /\ TypeOK
  /\ world.account_locks =
       Cardinality({r \in Request : world.request[r].internal /\ world.request[r].proceeding})
  /\ world.blocked_reqs # <<>> => world.account_locks > 0
  /\ \A r \in ToSet(world.blocked_reqs) : world.request[r].delay > 0 /\ ~world.request[r].gone

(* What the request was told is what becomes of its channel: a request that *)
(* failed, also by Cancel while answers and signals are on their way, never *)
(* goes further, and one that succeeded had its channel dispatched.         *)
StatusMatchesOutcome ==
  \A r \in Request : ChannelAlive(world, r) =>
    LET status == world.channel[r].status IN
    /\ world.request[r].outcome = "failed" => status \in {"request", "failed", "aborted"}
    /\ world.request[r].outcome = "succeeded" => status = "dispatched"
    /\ status = "dispatched" => world.request[r].outcome = "succeeded"

(* A channel that is opened for a request that was cancelled is closed:     *)
(* while it is open and its request does not wrap it, a close is on its way.*)
CancelledIsClosed ==
  \A p \in Path :
    world.remote[p] = "ours" /\ p \in Missions(world) =>
      \E i \in DOMAIN world.calls : world.calls[i].op = "close" /\ world.calls[i].path = p

(* A message whose request shares the channel of another one and succeeded  *)
(* with it before the message was sent: the McdChannel that waited for the  *)
(* answer is disposed, and the other channel keeps the request.             *)
Stranded(r) ==
  /\ world.request[r].internal /\ world.request[r].outcome # "none"
  /\ world.channel[r].source # None

(* A request has completed, and the caller of SendMessage has an answer.    *)
(* Excepted are a stranded message and the requests blocked behind it, and  *)
(* a request that got a channel that MC only observes.                      *)
Completed(r) ==
  IF world.request[r].kind = "message"
  THEN world.request[r].answer # "waiting" \/ Stranded(r)
  ELSE \/ world.request[r].outcome # "none"
       \/ world.channel[r].is_proxy /\ world.channel[r].status \in {"undispatched", "aborted"}
       \/ r \in ToSet(world.blocked_reqs) /\ \E m \in Request : Stranded(m)

(* A request for which Proceed was called completes, whatever becomes of    *)
(* its channel, its connection and the requests that it shares them with,   *)
(* and every caller of SendMessage is answered.                             *)
RequestCompletes == \A r \in Request : world.request[r].proceeding ~> Completed(r)

-----------------------------------------------------------------------------
(* What the comments promise                                                *)

(* "account_locks tracks the # of in-flight internal requests per account": *)
(* while there is a lock, a message is on its way, that is there is an      *)
(* McdChannel that waits for its answer.                                    *)
LocksAreInFlight ==
  world.account_locks > 0 =>
    \E r \in Request : world.request[r].internal /\ ChannelAlive(world, r)
=============================================================================
