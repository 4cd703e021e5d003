-------------------------- MODULE ChannelDispatch --------------------------
(***************************************************************************)
(* What a channel dispatch operation promises to those who call it: the    *)
(* channel gets one owner or is closed, that is decided once, and at that  *)
(* moment everybody who is waiting is told, truthfully, how it went.  How  *)
(* it is decided (Observers, Approvers, locks, the queue of approvals, the *)
(* handlers that are tried) is left to DispatchOperation, which implements *)
(* this specification when no plugin has a say.                            *)
(***************************************************************************)
EXTENDS FiniteSets, Naturals

CONSTANTS Handler, HandleWithCaller, ClaimCaller, None, Internal, BadName

Callers == HandleWithCaller \cup ClaimCaller

VARIABLES
  owner,     \* whose channel it is
  closed,    \* MC has closed the channel, or lost it
  decided,
  asked,     \* the handler each HandleWith names
  answer     \* what each caller has been told

vars == <<owner, closed, decided, asked, answer>>

Init ==
  /\ owner = None /\ closed = FALSE /\ decided = FALSE
  /\ asked = [c \in HandleWithCaller |-> None]
  /\ answer = [c \in Callers |-> "uncalled"]

Asks(c) ==
  /\ answer[c] = "uncalled"
  /\ IF c \in ClaimCaller THEN UNCHANGED asked
     ELSE \E name \in Handler \cup {None, BadName} :
            asked' = [asked EXCEPT ![c] = name]

(* A call is queued, or refused at once; nobody waits for a decision that  *)
(* has been taken.                                                         *)
Call(c) ==
  /\ Asks(c)
  /\ \E a \in {"waiting", "error"} :
       /\ decided => a = "error"
       /\ answer' = [answer EXCEPT ![c] = a]
  /\ UNCHANGED <<owner, closed, decided>>

(* The handler that some HandleWiths insist on has failed or is not there. *)
Refuse(cs) ==
  /\ \A c \in cs : answer[c] = "waiting"
  /\ answer' = [c \in Callers |-> IF c \in cs THEN "error" ELSE answer[c]]
  /\ UNCHANGED <<owner, closed, decided, asked>>

Won(c, taker) ==
  IF c \in ClaimCaller THEN c = taker
  ELSE taker \in Handler /\ asked'[c] \in {None, taker}

(* Everybody who waits, and who calls at this very moment, is answered.  A *)
(* handler that took the channel and is gone already does not own it.      *)
Decide(taker, calling) ==
  /\ ~decided /\ decided' = TRUE
  /\ IF calling = {} THEN UNCHANGED asked ELSE \A c \in calling : Asks(c)
  /\ owner' \in IF owner # None THEN {owner}
                ELSE IF taker \in ClaimCaller THEN {taker} ELSE {None, taker}
  /\ closed' \in BOOLEAN
  /\ owner' = None => closed'
  /\ answer' = [c \in Callers |->
                  IF answer[c] = "waiting" \/ c \in calling
                  THEN IF Won(c, taker) THEN "ok" ELSE "error"
                  ELSE answer[c]]

(* Mission Control keeps the channels of its own requests.                 *)
KeepInternal ==
  /\ ~decided /\ owner = None
  /\ owner' = Internal
  /\ UNCHANGED <<closed, decided, asked, answer>>

(* The channel of the owner is closed later.                               *)
Close ==
  /\ decided /\ ~closed
  /\ closed' = TRUE
  /\ UNCHANGED <<owner, decided, asked, answer>>

Next ==
  \/ \E c \in Callers : Call(c)
  \/ \E cs \in SUBSET HandleWithCaller : Refuse(cs)
  \/ \E taker \in Handler \cup ClaimCaller \cup {None},
        calling \in {{}} \cup {{c} : c \in Callers} : Decide(taker, calling)
  \/ KeepInternal
  \/ Close

Spec == Init /\ [][Next]_vars

-----------------------------------------------------------------------------
(* Properties                                                              *)

(* A decision leaves nobody waiting for a reply, and no open channel that  *)
(* nobody is responsible for (_mcd_dispatch_operation_finish).             *)
NobodyLeftBehind ==
  decided => (\A c \in Callers : answer[c] # "waiting") /\ (owner # None \/ closed)

(* A reply can be relied on: nobody is told ok before the decision; a Claim *)
(* is, if the claimer has the channel (next to MC itself, if it is one of  *)
(* its own), so that at most one is and none of a channel that a handler   *)
(* got; a HandleWith is, if no other handler than the one it named has it. *)
TruthfulReplies ==
  \A c \in Callers : answer[c] = "ok" =>
    /\ decided
    /\ c \in ClaimCaller => owner \in {c, Internal}
    /\ c \notin ClaimCaller => asked[c] = None \/ owner \in {None, Internal, asked[c]}
=============================================================================
