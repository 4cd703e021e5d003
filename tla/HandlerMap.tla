----------------------------- MODULE HandlerMap -----------------------------
(***************************************************************************)
(* McdHandlerMap: which process handles each dispatched channel.  The map  *)
(* outlives the dispatch operations: it is what lets the dispatcher        *)
(* delegate or present a handled channel, recognise handled channels when  *)
(* MC restarts, and close the channels of a handler that leaves the bus.   *)
(*                                                                         *)
(* The actions are the callbacks that reach the map: the handler's reply   *)
(* or the Claim that ends a dispatch operation, a starting client's        *)
(* HandledChannels, the recovery of a connection's channels,               *)
(* DelegateChannels and its replies, the invalidation of a TpChannel, and  *)
(* the loss of a name owner.  Handlers are called by their well-known      *)
(* names, which come, go and change hands at any time; the map wants the   *)
(* process, which MC looks up when the reply is there.  The bus delivers   *)
(* its messages to MC in order: owner is the bus as far as MC has read it. *)
(*                                                                         *)
(* A definition named Mut... is a plausible bug in the definition after    *)
(* it; nothing uses it, the README says which property each one breaks.    *)
(***************************************************************************)
EXTENDS Naturals, FiniteSets

CONSTANTS
  Channel,      \* object paths of channels
  Process,      \* unique names on the bus, MC's own among them
  Self,         \* MC's own unique name
  Empty,        \* the empty unique name, of a client that is not running
  Client,       \* well-known names of Handler clients
  MayOwn,       \* who may have each name, Empty if it may be released
  MaxGivenUp,   \* bound: the names given up by processes that live on
  Invocation,   \* HandleChannels calls that are in flight at a time
  None          \* NULL, or no entry in a hash table

ASSUME MapAssumption ==
  /\ IsFiniteSet(Channel)
  /\ Self \in Process /\ Empty \notin Process
  /\ None \notin Process \cup {Empty} \cup Client
  /\ MayOwn \in [Client -> SUBSET (Process \cup {Empty})]
  /\ MaxGivenUp \in Nat

VARIABLES
  channel_processes,  \* handler of each channel
  channel_clients,    \* well-known name it was invoked by, if known
  handler_processes,  \* channels counted for each process; 0 is no entry
  watches,            \* name-owner watches on each process
  handled_channels,   \* keys of handled_channels and channel_accounts
  tp_channel,         \* the TpChannel with that object path
  closing,            \* channels on which MC has called Close
  calls,              \* the HandleChannels calls in flight
  dead,               \* processes that have left the bus
  owner,              \* unique_name of each McdClientProxy
  given_up,           \* history: who gave which name up, and lives on
  holder              \* history: the process that really has each channel

map == <<channel_processes, channel_clients, handler_processes, watches>>

vars == <<channel_processes, channel_clients, handler_processes, watches,
          handled_channels, tp_channel, closing, calls, dead, owner, given_up, holder>>

bus == <<dead, owner, given_up>>

(* What stands for a process in the map.                                   *)
Handler == Process \cup {Empty}

(* HandleChannels, called by a dispatch operation or for a                 *)
(* ChannelToDelegate: callee is the process that it was delivered to, the  *)
(* clients in left are tried if this one refuses.                          *)
Invoking == [path : Channel, why : {"dispatch", "delegate"}, client : Client,
             callee : Process \cup {None}, left : SUBSET Client]

-----------------------------------------------------------------------------
(* The map                                                                 *)

Counted(u) == {c \in Channel : channel_processes[c] = u}

(* The counters once channel c no longer counts for its old handler.       *)
Released(c) ==
  [u \in Handler |->
     IF u = channel_processes[c] THEN handler_processes[u] - 1 ELSE handler_processes[u]]

MutKeepClient(c, u, k) ==
  /\ channel_clients' = [channel_clients EXCEPT ![c] = IF k = None THEN @ ELSE k]
  /\ \/ /\ channel_processes[c] = u
        /\ UNCHANGED <<channel_processes, handler_processes, watches>>
     \/ /\ channel_processes[c] # u
        /\ channel_processes' = [channel_processes EXCEPT ![c] = u]
        /\ handler_processes' = [Released(c) EXCEPT ![u] = @ + 1]
        /\ UNCHANGED watches

MutKeepOldCount(c, u, k) ==
  /\ channel_clients' = [channel_clients EXCEPT ![c] = k]
  /\ channel_processes' = [channel_processes EXCEPT ![c] = u]
  /\ handler_processes' = [handler_processes EXCEPT ![u] = @ + 1]
  /\ watches' = [watches EXCEPT ![u] = IF handler_processes[u] = 0 THEN @ + 1 ELSE @]

MutCancelOldWatch(c, u, k) ==
  /\ channel_clients' = [channel_clients EXCEPT ![c] = k]
  /\ \/ /\ channel_processes[c] = u
        /\ UNCHANGED <<channel_processes, handler_processes, watches>>
     \/ /\ channel_processes[c] # u
        /\ channel_processes' = [channel_processes EXCEPT ![c] = u]
        /\ handler_processes' = [Released(c) EXCEPT ![u] = @ + 1]
        /\ watches' =
             [p \in Process |->
                CASE p = channel_processes[c] -> watches[p] - 1
                  [] p = u /\ handler_processes[u] = 0 -> watches[p] + 1
                  [] OTHER -> watches[p]]

(* _mcd_handler_map_set_path_handled.  No watch can be had on the empty    *)
(* name.                                                                   *)
SetPathHandled(c, u, k) ==
  /\ channel_clients' = [channel_clients EXCEPT ![c] = k]
  /\ \/ /\ channel_processes[c] = u
        /\ UNCHANGED <<channel_processes, handler_processes, watches>>
     \/ /\ channel_processes[c] # u
        /\ channel_processes' = [channel_processes EXCEPT ![c] = u]
        /\ handler_processes' = [Released(c) EXCEPT ![u] = @ + 1]
        /\ watches' =
             [p \in Process |->
                CASE p = channel_processes[c] /\ Released(c)[p] = 0 -> watches[p] - 1
                  [] p = u /\ handler_processes[u] = 0 -> watches[p] + 1
                  [] OTHER -> watches[p]]

(* _mcd_handler_map_set_channel_handled                                    *)
SetChannelHandled(c, u, k) ==
  /\ SetPathHandled(c, u, k)
  /\ handled_channels' = handled_channels \cup {c}

-----------------------------------------------------------------------------
(* Initial state                                                           *)

Init ==
  /\ channel_processes = [c \in Channel |-> None]
  /\ channel_clients = [c \in Channel |-> None]
  /\ handler_processes = [u \in Handler |-> 0]
  /\ watches = [u \in Process |-> 0]
  /\ handled_channels = {}
  /\ tp_channel = [c \in Channel |-> "absent"]
  /\ closing = {}
  /\ calls = [i \in Invocation |-> None]
  /\ dead = {}
  /\ owner = [k \in Client |-> Empty]
  /\ given_up = {}
  /\ holder = [c \in Channel |-> None]

-----------------------------------------------------------------------------
(* Actions                                                                 *)

(* A client that MC has just found says that it handles the path.  The     *)
(* answer is of the process that had the name when it was asked.           *)
ClientHandlesPath(c, k, u) ==
  /\ u = owner[k] \/ <<k, u>> \in given_up
  /\ u \notin dead /\ owner[k] # Empty
  /\ SetPathHandled(c, owner[k], k)
  /\ holder' = [holder EXCEPT ![c] = u]
  /\ UNCHANGED <<bus, handled_channels, tp_channel, closing, calls>>

(* A connection announces a new channel, which is to be dispatched.  No    *)
(* two channels have the same object path.                                 *)
ChannelAppears(c) ==
  /\ tp_channel[c] = "absent"
  /\ tp_channel' = [tp_channel EXCEPT ![c] = "open"]
  /\ UNCHANGED <<map, bus, handled_channels, closing, calls, holder>>

(* _mcd_dispatcher_recover_channel: a connection that MC found already     *)
(* connected has a channel which some client said it handles.              *)
ChannelRecovered(c) ==
  /\ tp_channel[c] = "absent"
  /\ channel_processes[c] # None
  /\ tp_channel' = [tp_channel EXCEPT ![c] = "open"]
  /\ SetChannelHandled(c, channel_processes[c], channel_clients[c])
  /\ UNCHANGED <<bus, closing, calls, holder>>

(* The channel is to be dispatched, and no handler is being tried.         *)
Undecided(c) ==
  /\ tp_channel[c] = "open" /\ c \notin handled_channels \cup closing
  /\ \A i \in Invocation :
       calls[i] # None => calls[i].path # c \/ calls[i].why # "dispatch"

(* A dispatch operation ends with a Claim by process u, which may have     *)
(* left since, or MC handles the channel itself.                           *)
Claimed(c, u) ==
  /\ Undecided(c)
  /\ SetChannelHandled(c, u, None)
  /\ holder' = [holder EXCEPT ![c] = u]
  /\ UNCHANGED <<bus, tp_channel, closing, calls>>

(* HandleChannels is called for one of the clients.                        *)
Invoke(i, c, why, clients) ==
  /\ calls[i] = None
  /\ \E k \in clients :
       calls' = [calls EXCEPT ![i] =
         [path |-> c, why |-> why, client |-> k, callee |-> None, left |-> clients \ {k}]]
  /\ UNCHANGED <<map, bus, handled_channels, tp_channel, closing, holder>>

(* A dispatch operation tries its handlers.                                *)
DispatchChannel(i, c, clients) == Undecided(c) /\ Invoke(i, c, "dispatch", clients)

(* dispatcher_delegate_channels, called by the handler of the channel, and *)
(* its first try_delegating; the caller's own clients are not considered.  *)
DelegateChannel(i, c, clients) ==
  /\ c \in handled_channels
  /\ channel_processes[c] \in Process \ (dead \cup {Self})
  /\ \A k \in clients : owner[k] # channel_processes[c]
  /\ Invoke(i, c, "delegate", clients)

(* The call reaches the process that has the name now.                     *)
HandlerIsCalled(i) ==
  /\ calls[i] # None
  /\ calls[i].callee = None /\ owner[calls[i].client] # Empty
  /\ calls' = [calls EXCEPT ![i].callee = owner[calls[i].client]]
  /\ UNCHANGED <<map, bus, handled_channels, tp_channel, closing, holder>>

(* delegate_channels_cb, of callee u: it records who has the name by now,  *)
(* which may be nobody.                                                    *)
DelegationAccepted(c, k, u) ==
  /\ SetPathHandled(c, owner[k], k)
  /\ holder' = [holder EXCEPT ![c] = u]
  /\ UNCHANGED <<handled_channels, closing>>

(* _mcd_dispatch_operation_handle_channels_cb: so does this one, but it    *)
(* closes the channel if nobody has the name.  It may be lost.             *)
DispatchAccepted(c, k, u) ==
  \/ /\ tp_channel[c] = "open" /\ owner[k] # Empty
     /\ SetChannelHandled(c, owner[k], k)
     /\ holder' = [holder EXCEPT ![c] = u]
     /\ UNCHANGED closing
  \/ /\ tp_channel[c] = "open" /\ owner[k] = Empty
     /\ closing' = closing \cup {c}
     /\ UNCHANGED <<map, handled_channels, holder>>
  \/ /\ tp_channel[c] # "open"
     /\ UNCHANGED <<map, handled_channels, closing, holder>>

HandlerAccepts(i) ==
  /\ calls[i] # None /\ calls[i].callee \notin dead \cup {None}
  /\ LET call == calls[i] IN
     \/ call.why = "delegate" /\ DelegationAccepted(call.path, call.client, call.callee)
     \/ call.why = "dispatch" /\ DispatchAccepted(call.path, call.client, call.callee)
  /\ calls' = [calls EXCEPT ![i] = None]
  /\ UNCHANGED <<bus, tp_channel>>

(* An error, of the handler or of the bus.  The next client is tried; a    *)
(* dispatch operation may wait for the user before, and the channel is     *)
(* closed if nobody is left to handle it.                                  *)
HandlerRefuses(i) ==
  /\ calls[i] # None
  /\ \/ \E k \in calls[i].left :
          /\ calls' = [calls EXCEPT ![i] =
               [calls[i] EXCEPT !.client = k, !.callee = None, !.left = @ \ {k}]]
          /\ UNCHANGED closing
     \/ /\ calls[i].left = {} \/ calls[i].why = "dispatch"
        /\ calls' = [calls EXCEPT ![i] = None]
        /\ closing' = IF calls[i].left = {} /\ calls[i].why = "dispatch"
                        /\ tp_channel[calls[i].path] = "open"
                      THEN closing \cup {calls[i].path} ELSE closing
  /\ UNCHANGED <<map, bus, handled_channels, tp_channel, holder>>

MutCancelWatch(c) ==
  /\ tp_channel[c] = "open"
  /\ tp_channel' = [tp_channel EXCEPT ![c] = "closed"]
  /\ closing' = closing \ {c}
  /\ IF c \in handled_channels /\ channel_processes[c] # None
     THEN /\ handler_processes' = Released(c)
          /\ channel_processes' = [channel_processes EXCEPT ![c] = None]
          /\ watches' = [watches EXCEPT ![channel_processes[c]] = @ - 1]
          /\ holder' = [holder EXCEPT ![c] = None]
     ELSE UNCHANGED <<handler_processes, channel_processes, watches, holder>>
  /\ handled_channels' = handled_channels \ {c}
  /\ UNCHANGED <<bus, channel_clients, calls>>

(* The TpChannel is invalidated; handled_channel_invalidated_cb is         *)
(* connected if the channel is in handled_channels.  It cancels no watch.  *)
ChannelInvalidated(c) ==
  /\ tp_channel[c] = "open"
  /\ tp_channel' = [tp_channel EXCEPT ![c] = "closed"]
  /\ closing' = closing \ {c}
  /\ IF c \in handled_channels
     THEN /\ handler_processes' = Released(c)
          /\ channel_processes' = [channel_processes EXCEPT ![c] = None]
          /\ holder' = [holder EXCEPT ![c] = None]
     ELSE UNCHANGED <<handler_processes, channel_processes, holder>>
  /\ handled_channels' = handled_channels \ {c}
  /\ UNCHANGED <<bus, channel_clients, watches, calls>>

(* A process leaves the bus, with its names.                               *)
ProcessDies(u) ==
  /\ u \notin dead \cup {Self}
  /\ dead' = dead \cup {u}
  /\ owner' = [k \in Client |-> IF owner[k] = u THEN Empty ELSE owner[k]]
  /\ UNCHANGED <<map, handled_channels, tp_channel, closing, calls, given_up, holder>>

(* A name is taken, or released or handed over by a process that lives on. *)
OwnerChanges(k, u) ==
  /\ u \in MayOwn[k] \ (dead \cup {Self, owner[k]})
  /\ owner[k] # Empty => Cardinality(given_up) < MaxGivenUp
  /\ owner' = [owner EXCEPT ![k] = u]
  /\ given_up' = IF owner[k] = Empty THEN given_up ELSE given_up \cup {<<k, owner[k]>>}
  /\ UNCHANGED <<map, handled_channels, tp_channel, closing, calls, dead, holder>>

MutCloseInvoked(u) ==
  /\ u \in dead /\ watches[u] > 0
  /\ handler_processes[u] > 0
  /\ watches' = [watches EXCEPT ![u] = @ - 1]
  /\ handler_processes' = [handler_processes EXCEPT ![u] = 0]
  /\ channel_processes' =
       [c \in Channel |-> IF c \in Counted(u) THEN None ELSE channel_processes[c]]
  /\ holder' = [c \in Channel |-> IF c \in Counted(u) THEN None ELSE holder[c]]
  /\ closing' = closing \cup {c \in Counted(u) \cap handled_channels : channel_clients[c] # None}
  /\ UNCHANGED <<bus, channel_clients, handled_channels, tp_channel, calls>>

(* mcd_handler_map_name_owner_cb, _mcd_handler_map_set_handler_crashed: a  *)
(* watch reports that the process is not on the bus, also when it had left *)
(* before the watch was added.                                             *)
HandlerCrashed(u) ==
  /\ u \in dead /\ watches[u] > 0
  /\ handler_processes[u] > 0
  /\ watches' = [watches EXCEPT ![u] = @ - 1]
  /\ handler_processes' = [handler_processes EXCEPT ![u] = 0]
  /\ channel_processes' =
       [c \in Channel |-> IF c \in Counted(u) THEN None ELSE channel_processes[c]]
  /\ holder' = [c \in Channel |-> IF c \in Counted(u) THEN None ELSE holder[c]]
  /\ closing' = closing \cup (Counted(u) \cap handled_channels)
  /\ UNCHANGED <<bus, channel_clients, handled_channels, tp_channel, calls>>

Next ==
  \/ \E c \in Channel, k \in Client, u \in Process : ClientHandlesPath(c, k, u)
  \/ \E c \in Channel : ChannelAppears(c) \/ ChannelRecovered(c) \/ ChannelInvalidated(c)
  \/ \E c \in Channel, u \in Process : Claimed(c, u)
  \/ \E i \in Invocation, c \in Channel, clients \in SUBSET Client :
       DispatchChannel(i, c, clients) \/ DelegateChannel(i, c, clients)
  \/ \E i \in Invocation : HandlerIsCalled(i) \/ HandlerAccepts(i) \/ HandlerRefuses(i)
  \/ \E k \in Client, u \in Handler : OwnerChanges(k, u)
  \/ \E u \in Process : ProcessDies(u) \/ HandlerCrashed(u)

(* The bus daemon reports every lost name to those who watch it.           *)
Fairness == \A u \in Process : WF_vars(HandlerCrashed(u))

Spec == Init /\ [][Next]_vars /\ Fairness

-----------------------------------------------------------------------------
(* Properties                                                              *)

(* The tables have their types: no counter and no number of watches is      *)
(* decremented below zero.                                                 *)
TypeOK ==
  /\ channel_processes \in [Channel -> Handler \cup {None}]
  /\ channel_clients \in [Channel -> Client \cup {None}]
  /\ handler_processes \in [Handler -> Nat]
  /\ watches \in [Process -> Nat]
  /\ handled_channels \in SUBSET Channel
  /\ tp_channel \in [Channel -> {"absent", "open", "closed"}]
  /\ closing \in SUBSET Channel
  /\ calls \in [Invocation -> Invoking \cup {None}]
  /\ dead \in SUBSET Process
  /\ owner \in [Client -> Handler \ dead]
  /\ given_up \in SUBSET (Client \X Process)
  /\ holder \in [Channel -> Process \cup {None}]

(* The reference counts of set_path_handled, handled_channel_invalidated_cb *)
(* and set_handler_crashed agree with the table they count: a counter that  *)
(* reached 0 early would leave a handler unwatched and be dereferenced as   *)
(* NULL by the next release, one that stays too high would watch for ever.  *)
CountersExact == \A u \in Handler : handler_processes[u] = Cardinality(Counted(u))

(* Every process that handles a channel is watched, so its crash is seen,   *)
(* whatever order its channels were handled, moved and closed in.           *)
HandlersWatched == \A u \in Process : handler_processes[u] > 0 => watches[u] > 0

(* The process that accepted the channel under that name, said that it has  *)
(* it or claimed it has given the name up since, without leaving the bus.   *)
NameGivenUp(c) == <<channel_clients[c], holder[c]>> \in given_up

(* A channel that was given to a process and is still open has a process    *)
(* responsible for it, or MC has asked the connection manager to close it,  *)
(* unless its handler has given up the name by which it was called.         *)
NoOrphan ==
  \A c \in handled_channels :
    channel_processes[c] \notin Process =>
      c \in closing \/ (channel_processes[c] = Empty /\ NameGivenUp(c))

(* The process that is recorded for a channel is the one that has it: the   *)
(* one that accepted it, although MC looks up only later who it is that has *)
(* accepted.  And the client that PresentChannel and a repeated request     *)
(* re-invoke is in that process now, also after delegations, restarts and   *)
(* crashes.  Both fail for a handler that gives its name up and lives on.   *)
ClientOfHandler ==
  \A c \in Channel :
    channel_processes[c] # None /\ ~NameGivenUp(c) =>
      /\ channel_processes[c] = holder[c]
      /\ channel_clients[c] # None /\ holder[c] \notin dead =>
           owner[channel_clients[c]] = holder[c]

(* A handler that has left the bus does not keep its channels.              *)
CrashIsNoticed ==
  \A u \in Process \ {Self} : u \in dead /\ Counted(u) # {} ~> Counted(u) = {}
=============================================================================
