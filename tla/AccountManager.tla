--------------------------- MODULE AccountManager ---------------------------
(***************************************************************************)
(* McdAccountManager (mcd-account-manager.c) and the life of its           *)
(* McdAccounts (mcd-account.c), over the storage of AccountStorage: how    *)
(* accounts are loaded, created (by CreateAccount or by another process,   *)
(* in libaccounts), changed from both sides, removed from both sides, and  *)
(* what a crash and a restart make of all that.                            *)
(*                                                                         *)
(* mc is what a handler works on:                                          *)
(*   s      the storage, see AccountStorage                                *)
(*   obj    the McdAccounts of this life of the process; "for" says who    *)
(*          made one: _mcd_account_manager_setup, CreateAccount ("create") *)
(*          or a storage plugin's signal ("created")                       *)
(*   hash   McdAccountManager.accounts                                     *)
(*   lock   account_lock of _mcd_account_manager_setup                     *)
(*   onBus  dbus_registered                                                *)
(*   todo   the callbacks waiting for the connection manager (there is     *)
(*          one), the last one registered first; once it is ready they all *)
(*          run before anything else does                                  *)
(*   gone   history: the accounts whose removal was completed              *)
(*   failed history: the last write of accounts.cfg failed                 *)
(*   known  history: <<name, why>>, the accounts that ran into a defect    *)
(*          the README describes, or died when it could not be written     *)
(***************************************************************************)
EXTENDS AccountStorage, Sequences

CONSTANTS MaxObjects,   \* McdAccounts of one life of the process: at least
                        \* one for each name
          MaxCalls,     \* D-Bus calls
          MaxOutside,   \* changes made in libaccounts by other processes
          MaxCrashes,
          DiskMayFill   \* whether writing accounts.cfg can fail

ASSUME BoundsAssumption ==
    /\ MaxObjects \in Nat /\ Cardinality(Names) <= MaxObjects
    /\ MaxCalls \in Nat /\ MaxOutside \in Nat /\ MaxCrashes \in Nat
    /\ DiskMayFill \in BOOLEAN

VARIABLES up,       \* the process runs
          mc,
          mgr,      \* the connection manager: "unready", "ready" or "failed"
          events,   \* signals of libaccounts on their way
          full,     \* the disk of accounts.cfg is full
          spent     \* what of the bounds is used up

vars == <<up, mc, mgr, events, full, spent>>

Objs == 1..MaxObjects

NoObject ==
    [st |-> "none", name |-> None, for |-> "setup", given |-> None,
     enabled |-> FALSE, loaded |-> FALSE, valid |-> FALSE, reg |-> FALSE,
     removed |-> FALSE, timer |-> FALSE, reply |-> FALSE]

Freed == [NoObject EXCEPT !.st = "freed"]

OnBusNames(m) == {m.obj[o].name : o \in {x \in Objs : m.obj[x].reg}}
Fresh(m) == {o \in Objs : m.obj[o].st = "none"}

\* Everything that is not a callback waits for the ones that can run.
Idle == up /\ (mgr = "unready" \/ mc.todo = <<>>)

-----------------------------------------------------------------------------
(* Lifetime of an McdAccount: the table, the source that tells about       *)
(* changed properties and some of the callbacks hold references.  The      *)
(* callback of load_manager holds none.                                    *)

Held(m, o) ==
    \/ m.hash[m.obj[o].name] = o
    \/ m.obj[o].timer
    \/ \E i \in DOMAIN m.todo :
          /\ m.todo[i].obj = o
          /\ m.todo[i].cb # "account" \/ m.obj[o].for = "create"

ReleaseLoadAccountsLock(m) ==
    [m EXCEPT !.lock = @ - 1, !.onBus = @ \/ m.lock = 1]

\* Finalizing an account that was not loaded calls account_loaded with an
\* error.
Collect(m) ==
    LET lost == {o \in Objs : m.obj[o].st = "live" /\ ~Held(m, o)}
        mourned == Cardinality({o \in lost : m.obj[o].for = "setup"
                                             /\ ~m.obj[o].loaded})
    IN  [m EXCEPT !.obj = [o \in Objs |-> IF o \in lost THEN Freed ELSE @[o]],
                  !.lock = @ - mourned,
                  !.onBus = @ \/ (mourned > 0 /\ m.lock = mourned)]

\* A handler leaves mc as m.
Becomes(m) == mc' = Collect(m)

-----------------------------------------------------------------------------
(* What handlers are made of.                                              *)

\* mcd_account_manager_write_conf_async, mcd_storage_commit
Write(m) ==
    LET s == Commit(m.s, ~full)
    IN  [m EXCEPT !.s = s, !.failed = s.save]

\* mcd_account_check_parameters
ParametersOk(s, n) == mgr = "ready" /\ s.cache[n].val["param"] # None

\* mcd_account_check_validity: a change is told to the bus, a little later.
CheckValidity(m, o) ==
    LET ok == ParametersOk(m.s, m.obj[o].name)
    IN  [m EXCEPT !.obj[o].valid = ok,
                  !.obj[o].timer = @ \/ ok # m.obj[o].valid]

\* _mcd_account_set_enabled; the value is in the storage already ("stored"),
\* goes there ("cached"), or is written as well ("written").
SetEnabled(m, o, on, how) ==
    LET e == [m EXCEPT !.obj[o].enabled = on, !.obj[o].timer = TRUE]
        c == [e EXCEPT !.s = SetAttribute(@, m.obj[o].name, "Enabled",
                                          IF on THEN 2 ELSE 1)]
    IN  IF m.obj[o].enabled = on THEN m
        ELSE CASE how = "stored"  -> e
               [] how = "cached"  -> c
               [] how = "written" -> Write(c)

AddAccount(m, o) == [m EXCEPT !.hash[m.obj[o].name] = o]

\* on_account_removed, connected as long as the table has the account
OnAccountRemoved(m, o) ==
    LET n == m.obj[o].name
    IN  IF m.hash[n] # o THEN m
        ELSE Write([m EXCEPT !.hash[n] = None, !.s = DeleteAccount(@, n)])

\* mcd_account_delete.  "Removed" is emitted by the caller's callback or, if
\* that does not do it, at the end.
McdAccountDelete(m, o) ==
    LET n == m.obj[o].name
        off == SetEnabled(m, o, FALSE, "cached")
        del == Write([off EXCEPT !.s = DeleteAccount(@, n),
                                 !.obj[o].removed = TRUE])
    IN  [OnAccountRemoved(del, o) EXCEPT
            !.obj[o].reg = FALSE,
            !.gone = @ \cup {n},
            !.known = IF Owns(m.s, n) THEN @ \cup {<<n, "kept">>} ELSE @]

\* Mutant: an invalid new account is dropped, but its entry stays.
MutKeepInvalid(m, o) ==
    LET n == m.obj[o].name
        set == CheckValidity(
                  [m EXCEPT !.s = IF m.obj[o].given = None THEN @
                                  ELSE SetParameter(@, n, m.obj[o].given)], o)
    IN  Write(IF mgr = "failed" \/ ~set.obj[o].valid THEN m
              ELSE AddAccount(set, o))

\* complete_account_creation, from _mcd_account_set_parameters to the reply
CompleteAccountCreation(m, o) ==
    LET n == m.obj[o].name
        set == CheckValidity(
                  [m EXCEPT !.s = IF m.obj[o].given = None THEN @
                                  ELSE SetParameter(@, n, m.obj[o].given)], o)
        added == AddAccount(set, o)
    IN  Write(IF mgr = "failed" THEN McdAccountDelete(m, o)
              ELSE IF ~set.obj[o].valid THEN McdAccountDelete(added, o)
              ELSE added)

\* mcd_account_loaded and those who wait for it, the last one first:
\* complete_account_creation or account_loaded, then register_dbus_service
AccountLoaded(m, o) ==
    LET l == [m EXCEPT !.obj[o].loaded = TRUE]
        c == CASE m.obj[o].for = "setup"   -> ReleaseLoadAccountsLock(l)
               [] m.obj[o].for = "create"  -> CompleteAccountCreation(l, o)
               [] m.obj[o].for = "created" -> [l EXCEPT !.onBus = TRUE]
    IN  [c EXCEPT !.obj[o].reg = TRUE]

\* on_manager_ready
OnManagerReady(m, o) ==
    AccountLoaded([m EXCEPT !.obj[o].valid = ParametersOk(m.s, m.obj[o].name)],
                  o)

\* async_created_manager_cb, which runs before on_manager_ready when both
\* had to wait
AsyncCreatedManagerCb(m, o) == CheckValidity(AddAccount(m, o), o)

\* mcd_account_new for an account that is new to MC: mcd_account_setup also
\* stores an AutomaticPresence, and commits.
NewAccount(m, n, for, given) ==
    LET o == Min(Fresh(m))
        a == [m EXCEPT
                !.obj[o] = [NoObject EXCEPT
                              !.st = "live", !.name = n, !.for = for,
                              !.given = given,
                              !.enabled = m.s.cache[n].val["Enabled"] = 2],
                !.gone = @ \ {n},
                !.s = IF Owns(@, n) THEN [@ EXCEPT !.sso.save = TRUE]
                      ELSE [@ EXCEPT !.save = TRUE]]
        w == Write(a)
        later == IF for = "created"
                 THEN <<[cb |-> "created", obj |-> o, key |-> ""],
                        [cb |-> "account", obj |-> o, key |-> ""]>>
                 ELSE <<[cb |-> "account", obj |-> o, key |-> ""]>>
    IN  IF mgr = "unready" THEN [w EXCEPT !.todo = later \o @]
        ELSE IF for = "created"
             THEN AsyncCreatedManagerCb(OnManagerReady(w, o), o)
             ELSE OnManagerReady(w, o)

-----------------------------------------------------------------------------
(* Signals of libaccounts.                                                 *)

\* _sso_created and created_cb
SsoCreated(m) ==
    LET ag == m.s.ag
        n == IF ag.uid # None THEN ag.uid ELSE UniqueName(m.s, OnBusNames(m))
        \* _ag_accountid_to_mc_key has given it that name
        named == [m EXCEPT
                    !.s.ag.uid = n,
                    !.s.sso = [@ EXCEPT !.name = n, !.watch = TRUE,
                                        !.view = ag.val],
                    !.s.cache[n] = FromSso(@, ag.val)]
    IN  IF m.s.sso.name # None \/ ag.state # "present" THEN m
        ELSE IF ag.uid = None
                /\ ~(ag.complete /\ HasName(m.s, OnBusNames(m)))
             THEN [m EXCEPT !.s.sso.watch = TRUE]
        ELSE NewAccount(named, n, "created", None)

\* Mutant: the change of Enabled does not reach the account.
MutAlterIgnored(m, o, key) ==
    IF key = "param" THEN [m EXCEPT !.obj[o].timer = TRUE] ELSE m

\* mcd_account_altered_by_plugin: only Enabled and the parameters are
\* properties of an account, and the latter are not checked again.
AlteredByPlugin(m, o, key) ==
    LET v == m.s.cache[m.obj[o].name].val["Enabled"]
    IN  CASE key = "Enabled" /\ v # None -> SetEnabled(m, o, v = 2, "stored")
          [] key = "param" -> [m EXCEPT !.obj[o].timer = TRUE]
          [] OTHER -> m

\* An account that is not in the table yet, for its connection manager is
\* not ready, is not found.
Missed(m, n) == [m EXCEPT !.known = @ \cup {<<n, "missed">>}]

\* altered_one_cb
AlteredOne(m, n, key) ==
    LET o == m.hash[n]
    IN  IF o = None THEN Missed(m, n)
        ELSE IF mgr = "unready"
             THEN [m EXCEPT !.todo = <<[cb |-> "altered", obj |-> o,
                                        key |-> key]>> \o @]
             ELSE AlteredByPlugin(m, o, key)

\* Mutant: what was unset outside is not looked for.
MutIgnoreDeleted(m) ==
    LET n == m.s.sso.name
        view == m.s.sso.view
        c == m.s.cache[n]
        changed == {k \in Settings : view[k] # None /\ view[k] # c.val[k]}
        read == [m EXCEPT
                   !.s.cache[n].val = [k \in Keys |-> IF k \in changed THEN view[k]
                                                      ELSE @[k]],
                   !.known = @ \cup (IF view["param"] = None /\ c.escaped
                                     THEN {<<n, "unset">>} ELSE {})]
        Tell(x, key) == IF key \in changed THEN AlteredOne(x, n, key) ELSE x
    IN  IF ~m.s.sso.watch THEN m
        ELSE IF n = None THEN SsoCreated(m)
        ELSE Tell(Tell(read, "Enabled"), "param")

\* _sso_updated: what differs from the cache, then what is only in the cache;
\* the parameters are told last.
SsoUpdated(m) ==
    LET n == m.s.sso.name
        view == m.s.sso.view
        c == m.s.cache[n]
        changed == {k \in Settings : view[k] # None /\ view[k] # c.val[k]}
        deleted == {k \in Settings \cap ListKeys(c) : view[k] = None}
        told == changed \cup deleted
        read == [m EXCEPT
                   !.s.cache[n] =
                      [c EXCEPT !.val = [k \in Keys |-> IF k \in told THEN view[k]
                                                        ELSE c.val[k]],
                                !.escaped = IF "param" \in told
                                            THEN view["param"] # None ELSE @],
                   !.known = @ \cup
                      (IF "param" \in told THEN {<<n, "altered">>} ELSE {})
                      \cup (IF view["param"] = None /\ c.escaped
                            THEN {<<n, "unset">>} ELSE {})]
        Tell(x, key) == IF key \in told THEN AlteredOne(x, n, key) ELSE x
    IN  IF ~m.s.sso.watch THEN m
        ELSE IF n = None THEN SsoCreated(m)
        ELSE Tell(Tell(read, "Enabled"), "param")

\* _sso_toggled and toggled_cb
SsoToggled(m) ==
    LET n == m.s.sso.name
        on == m.s.sso.view["Enabled"] = 2
        set == [m EXCEPT !.s.cache[n] = SetValue(@, "Enabled",
                                                 IF on THEN 2 ELSE 1)]
    IN  IF n = None THEN m
        ELSE IF m.hash[n] = None THEN Missed(set, n)
        ELSE SetEnabled(set, m.hash[n], on, "cached")

\* _sso_deleted and deleted_cb, which only finds an account in the table
SsoDeleted(m) ==
    LET n == m.s.sso.name
        o == m.hash[n]
        forgot == [m EXCEPT !.s.sso = [@ EXCEPT !.name = None, !.dirty = {},
                                                !.watch = FALSE]]
    IN  IF n = None THEN [m EXCEPT !.s.sso.watch = FALSE]
        ELSE IF o = None
             THEN [forgot EXCEPT !.known = @ \cup {<<n, "ghost">>}]
        ELSE McdAccountDelete([forgot EXCEPT !.hash[n] = None], o)

-----------------------------------------------------------------------------
(* The process starts and dies.                                            *)

\* mcd_storage_load and _mcd_account_manager_setup
Setup(s) ==
    LET names == Plausible(s)
        ObjOf(n) == Cardinality({p \in names : p <= n})
        accounts ==
           [s |-> s,
            obj |-> [o \in Objs |->
                       LET n == CHOOSE p \in Names : p \in names /\ ObjOf(p) = o
                       IN  IF o > Cardinality(names) THEN NoObject
                           ELSE [NoObject EXCEPT
                                   !.st = "live", !.name = n,
                                   !.enabled = s.cache[n].val["Enabled"] = 2]],
            hash |-> [n \in Names |-> IF n \in names THEN ObjOf(n) ELSE None],
            lock |-> 1 + Cardinality(names), onBus |-> FALSE,
            todo |-> [i \in 1..Cardinality(names) |->
                        [cb |-> "account", obj |-> i, key |-> ""]],
            gone |-> mc.gone, known |-> mc.known, failed |-> s.save]
        uncorked == Write(accounts)
    IN  ReleaseLoadAccountsLock(IF s.ag.uid = None THEN SsoCreated(uncorked)
                                ELSE uncorked)

Start ==
    /\ ~up
    /\ up' = TRUE
    /\ Becomes(Setup(Load(mc.s, ~full)))
    /\ UNCHANGED <<mgr, events, full, spent>>

\* Nothing but what is stored survives.
Die ==
    /\ up' = FALSE
    /\ mc' = [s |-> Stopped(mc.s), obj |-> [o \in Objs |-> NoObject],
              hash |-> [n \in Names |-> None], lock |-> 0, onBus |-> FALSE,
              todo |-> <<>>, gone |-> mc.gone,
              known |-> mc.known \cup
                 {<<n, "unwritten">> : n \in
                    {x \in Names : mc.failed
                                   /\ mc.s.keys[x] # mc.s.disk.data[x]}},
              failed |-> FALSE]
    /\ mgr' = "unready"
    /\ events' = <<>>

Crash ==
    /\ Idle
    /\ spent.crashes < MaxCrashes
    /\ spent' = [spent EXCEPT !.crashes = @ + 1]
    /\ Die
    /\ UNCHANGED full

-----------------------------------------------------------------------------
(* The connection manager.                                                 *)

\* on_manager_ready of McdManager: introspected, or not
MgrReady ==
    /\ up /\ mgr = "unready" /\ mc.todo # <<>>
    /\ mgr' \in {"ready", "failed"}
    /\ UNCHANGED <<up, mc, events, full, spent>>

\* The next of its callbacks.  load_manager's may be for an account that has
\* been freed: undefined, it can do nothing or bring the process down.
RunCallback ==
    /\ up /\ mgr # "unready" /\ mc.todo # <<>>
    /\ LET call == Head(mc.todo)
           o == call.obj
           m == [mc EXCEPT !.todo = Tail(@)]
       IN  \/ /\ mc.obj[o].st = "live"
              /\ Becomes(CASE call.cb = "account" -> OnManagerReady(m, o)
                           [] call.cb = "created" -> AsyncCreatedManagerCb(m, o)
                           [] call.cb = "altered" ->
                                 AlteredByPlugin(m, o, call.key))
              /\ UNCHANGED <<up, mgr, events>>
           \/ /\ mc.obj[o].st = "freed"
              /\ \/ Becomes(m) /\ UNCHANGED <<up, mgr, events>>
                 \/ Die
    /\ UNCHANGED <<full, spent>>

-----------------------------------------------------------------------------
(* D-Bus calls; an account is called while its object is on the bus.       *)

Call ==
    /\ Idle
    /\ spent.calls < MaxCalls
    /\ spent' = [spent EXCEPT !.calls = @ + 1]
    /\ UNCHANGED <<up, mgr, events, full>>

Reachable(o) == mc.obj[o].st = "live" /\ mc.obj[o].reg

\* What is about to write settings of an account, though it may have been
\* removed: by a late reply, or by a call when it was removed before it was
\* loaded, and thereby put on the bus.
Touched(o) ==
    IF mc.obj[o].removed
    THEN [mc EXCEPT !.known = @ \cup {<<mc.obj[o].name, "zombie">>}]
    ELSE mc

\* Bound: a name is left for the account of libaccounts.
Room ==
    LET free == {n \in Names : ~Cached(mc.s, n) /\ n \notin OnBusNames(mc)}
        needed == mc.s.ag.uid = None /\ mc.s.ag.state # "deleted"
    IN  Cardinality(free) > IF needed THEN 1 ELSE 0

\* _mcd_account_manager_create_account; given is the required parameter.
AccountManagerCreateAccount(given) ==
    /\ Call
    /\ mc.onBus
    /\ Room /\ Fresh(mc) # {}
    /\ LET n == UniqueName(mc.s, OnBusNames(mc))
       IN  Becomes(NewAccount([mc EXCEPT !.s = CreateAccount(@, n)], n,
                              "create", given))

AccountRemove(o) ==
    /\ Call
    /\ Reachable(o)
    /\ Becomes(McdAccountDelete(mc, o))

\* Mutant: nothing is written.
MutUpdateUnwritten(o, v) ==
    /\ Call
    /\ Reachable(o)
    /\ LET set == [Touched(o) EXCEPT !.s = SetParameter(@, mc.obj[o].name, v)]
       IN  Becomes(IF mgr = "ready" THEN CheckValidity(set, o) ELSE mc)

\* account_update_parameters
AccountUpdateParameters(o, v) ==
    /\ Call
    /\ Reachable(o)
    /\ LET set == [Touched(o) EXCEPT !.s = SetParameter(@, mc.obj[o].name, v)]
           told == [CheckValidity(set, o) EXCEPT !.obj[o].timer = TRUE]
       IN  Becomes(IF mgr = "ready" THEN Write(told) ELSE mc)

AccountSetEnabled(o, on) ==
    /\ Call
    /\ Reachable(o)
    /\ Becomes(SetEnabled(Touched(o), o, on, "written"))

\* _mcd_account_set_avatar; on a connected account the avatar is sent on.
AccountSetAvatar(o, connected) ==
    /\ Call
    /\ Reachable(o)
    /\ Becomes(Write([Touched(o) EXCEPT
                         !.s = SetAttribute(@, mc.obj[o].name, "token", None),
                         !.obj[o].reply = @ \/ connected]))

\* avatars_set_avatar_cb: the account may have been removed since.
AvatarReply(o) ==
    /\ Idle
    /\ mc.obj[o].reply
    /\ LET heard == [Touched(o) EXCEPT !.obj[o].reply = FALSE]
           token == [heard EXCEPT !.s = SetAttribute(@, mc.obj[o].name,
                                                     "token", 1)]
       IN  Becomes(heard) \/ Becomes(Write(token))
    /\ UNCHANGED <<up, mgr, events, full, spent>>

\* emit_property_changed, 10 ms later
PropertiesTimeout(o) ==
    /\ Idle
    /\ mc.obj[o].timer
    /\ Becomes([mc EXCEPT !.obj[o].timer = FALSE])
    /\ UNCHANGED <<up, mgr, events, full, spent>>

\* _commit_real, 5 s later
SsoCommitTimeout ==
    /\ Idle
    /\ mc.s.sso.timer
    /\ Becomes([mc EXCEPT !.s = SsoCommitReal(@)])
    /\ UNCHANGED <<up, mgr, events, full, spent>>

-----------------------------------------------------------------------------
(* External: libaccounts, and the processes that use it.                   *)

Outside(ag, signals) ==
    /\ Idle \/ ~up
    /\ spent.outside < MaxOutside
    /\ spent' = [spent EXCEPT !.outside = @ + 1]
    /\ mc' = [mc EXCEPT !.s.ag = ag]
    /\ events' = IF up THEN events \o signals ELSE events
    /\ UNCHANGED <<up, mgr, full>>

OutsideCreate(complete) ==
    /\ mc.s.ag.state = "never"
    /\ Outside([mc.s.ag EXCEPT !.state = "present", !.complete = complete,
                               !.val = [k \in Settings |->
                                          CASE k = "Enabled" -> 2
                                            [] k = "param" -> 1
                                            [] OTHER -> None]],
               <<"created">>)

OutsideSet(k, v) ==
    /\ mc.s.ag.state = "present"
    /\ mc.s.ag.val[k] # v
    /\ Outside([mc.s.ag EXCEPT !.complete = TRUE, !.val[k] = v],
               IF k = "Enabled" THEN <<"updated", "toggled">>
               ELSE <<"updated">>)

OutsideDelete ==
    /\ mc.s.ag.state = "present"
    /\ Outside([mc.s.ag EXCEPT !.state = "deleted"], <<"deleted">>)

\* A signal arrives; the AgAccount shows what is stored by then, and its own
\* unstored changes.
Deliver ==
    /\ Idle
    /\ events # <<>>
    /\ events' = Tail(events)
    /\ Fresh(mc) # {}
    /\ LET s == mc.s
           m == [mc EXCEPT !.s.sso.view = [k \in Settings |->
                   IF k \in s.sso.dirty THEN s.sso.view[k] ELSE s.ag.val[k]]]
       IN  Becomes(CASE Head(events) = "created" -> SsoCreated(m)
                     [] Head(events) = "updated" -> SsoUpdated(m)
                     [] Head(events) = "toggled" -> SsoToggled(m)
                     [] Head(events) = "deleted" -> SsoDeleted(m))
    /\ UNCHANGED <<up, mgr, full, spent>>

\* The disk fills up or has room again.
DiskChanges ==
    /\ DiskMayFill
    /\ spent.outside < MaxOutside
    /\ spent' = [spent EXCEPT !.outside = @ + 1]
    /\ full' = ~full
    /\ UNCHANGED <<up, mc, mgr, events>>

-----------------------------------------------------------------------------
StartingDisks ==
    LET one == [n \in Names |-> IF n = Min(Names)
                  THEN [Nothing EXCEPT !["manager"] = 1, !["param"] = 1]
                  ELSE Nothing]
        empty == [n \in Names |-> Nothing]
    IN  {[kind |-> "good", data |-> one], [kind |-> "old", data |-> one],
         [kind |-> "missing", data |-> empty],
         [kind |-> "corrupt", data |-> empty]}

Init ==
    /\ up = FALSE
    /\ mgr = "unready"
    /\ events = <<>>
    /\ full = FALSE
    /\ spent = [calls |-> 0, outside |-> 0, crashes |-> 0]
    /\ \E disk \in StartingDisks :
          mc = [s |-> Stopped([cache |-> <<>>, keys |-> <<>>, save |-> FALSE,
                               disk |-> disk,
                               ag |-> [state |-> "never", complete |-> FALSE,
                                       uid |-> None, val |-> NoChange],
                               sso |-> <<>>]),
                obj |-> [o \in Objs |-> NoObject],
                hash |-> [n \in Names |-> None], lock |-> 0,
                onBus |-> FALSE, todo |-> <<>>, gone |-> {}, known |-> {},
                failed |-> FALSE]

AccountCall(o) ==
    \/ AccountRemove(o)
    \/ \E v \in {None, 1} : AccountUpdateParameters(o, v)
    \/ \E b \in BOOLEAN : AccountSetEnabled(o, b) \/ AccountSetAvatar(o, b)

OutsideStep ==
    \/ \E b \in BOOLEAN : OutsideCreate(b)
    \/ \E v \in {None, 2} : OutsideSet("param", v)
    \/ \E v \in {1, 2} : OutsideSet("Enabled", v)
    \/ OutsideDelete

Next ==
    \/ Start \/ Crash \/ MgrReady \/ RunCallback
    \/ \E g \in {None, 1} : AccountManagerCreateAccount(g)
    \/ \E o \in Objs : AccountCall(o) \/ AvatarReply(o) \/ PropertiesTimeout(o)
    \/ SsoCommitTimeout \/ Deliver
    \/ OutsideStep \/ DiskChanges

Spec == Init /\ [][Next]_vars

(* The process is activated again, tp-glib finishes every introspection,   *)
(* signals arrive and the main loop runs every source that is ready: weak  *)
(* fairness of these actions, each of which takes its turn out of what     *)
(* enables it.                                                             *)
FairSpec ==
    /\ Spec
    /\ []<>up
    /\ []<>(mc.todo = <<>>) /\ []<>(events = <<>>)
    /\ []<>~mc.s.sso.timer
    /\ \A o \in Objs : []<>~mc.obj[o].timer

-----------------------------------------------------------------------------
(* Properties                                                              *)

\* The defects and failures that an account can have met: see the README.
Why ==
    {"kept", "zombie", "ghost", "missed", "unset", "altered", "unwritten"}
Known(n, whys) == \E w \in whys : <<n, w>> \in mc.known

TypeOK ==
    /\ up \in BOOLEAN /\ full \in BOOLEAN
    /\ mgr \in {"unready", "ready", "failed"}
    /\ mc.s \in StoreType
    /\ mc.obj \in [Objs ->
          [st : {"none", "live", "freed"}, name : Names \cup {None},
           for : {"setup", "create", "created"}, given : {None, 1},
           enabled : BOOLEAN, loaded : BOOLEAN, valid : BOOLEAN,
           reg : BOOLEAN, removed : BOOLEAN, timer : BOOLEAN,
           reply : BOOLEAN]]
    /\ mc.hash \in [Names -> Objs \cup {None}]
    /\ mc.lock \in 0..Cardinality(Names) /\ mc.onBus \in BOOLEAN
    /\ \A i \in DOMAIN mc.todo : mc.todo[i].obj \in Objs
    /\ mc.gone \subseteq Names /\ mc.known \subseteq Names \X Why
    /\ mc.failed \in BOOLEAN
    /\ \A i \in DOMAIN events :
          events[i] \in {"created", "updated", "toggled", "deleted"}

\* Nothing is in flight between MC and its stores.
Flushed == Idle /\ ~mc.failed /\ ~mc.s.sso.timer /\ events = <<>>

(* Once nothing is in flight, a restart would load exactly the settings that*)
(* the cache has: whatever the calls and the signals of both sides, their  *)
(* order and the failed writes before, every change has been written by the*)
(* handler that made it, to the store it will be loaded from, and none is  *)
(* in the keyfile for an account of libaccounts, where it would shadow or  *)
(* outlive the one that is there.                                          *)
RestartFindsTheSame ==
    /\ Flushed =>
         LET again == LoadedCache(ReadKeyfile(mc.s))
         IN  \A n \in Names :
                \/ Known(n, {"kept", "ghost", "unset", "unwritten"})
                \/ again[n].val = mc.s.cache[n].val
    /\ \A n \in Names : Owns(mc.s, n) =>
         Known(n, {"kept", "unwritten"}) \/ mc.s.keys[n] = Nothing

(* An account that was removed, by a call or in libaccounts, is in neither *)
(* store nor in the cache any more, also after crashes and restarts.       *)
DeletedStaysDeleted ==
    Flushed => \A n \in mc.gone :
                  \/ Known(n, {"kept", "zombie", "unwritten"})
                  \/ /\ ~InSso(mc.s, n)
                     /\ mc.s.disk.data[n] = Nothing
                     /\ n \notin Accounts(mc.s)

Living(n) == {o \in Objs : /\ mc.obj[o].st = "live" /\ mc.obj[o].name = n
                           /\ ~mc.obj[o].removed}

(* A complete entry of the cache has exactly one McdAccount that is not    *)
(* removed, and an McdAccount has an entry: creations that fail half-way,  *)
(* callbacks that wait for the connection manager and removals from either *)
(* side leave neither behind, and the lock of the setup is released once   *)
(* for each.                                                               *)
EntryHasAccount ==
    /\ TypeOK
    /\ Idle => \A n \in Names :
         Cardinality(Living(n)) = IF n \in Plausible(mc.s) THEN 1 ELSE 0

(* Once the connection manager is ready the accounts of the table are loaded*)
(* and on the bus, and Valid says whether the parameters that MC has now are*)
(* enough (changes made by plugins are never checked again).  What an      *)
(* account thinks of Enabled is what is stored, whichever of the calls,    *)
(* "altered" and "toggled" came last.                                      *)
AccountIsCurrent ==
    Idle => \A n \in Names : mc.hash[n] # None =>
        LET account == mc.obj[mc.hash[n]]
        IN  /\ mgr # "unready" =>
                  /\ account.loaded /\ account.reg
                  /\ account.valid = ParametersOk(mc.s, n) \/ Known(n, {"altered"})
            /\ \/ \E i \in DOMAIN mc.todo : mc.todo[i].cb = "altered"
               \/ Known(n, {"missed"})
               \/ account.enabled = (mc.s.cache[n].val["Enabled"] = 2)

(* The name of the account manager gets on the bus, also when accounts fail*)
(* to load or are deleted while they load.  When the changes stop, MC has  *)
(* an account for a complete account of libaccounts and the two agree on   *)
(* its settings.                                                           *)
SettlesInSync ==
    /\ up ~> (mc.onBus \/ ~up)
    /\ <>[](up /\ mc.s.ag.state = "present" =>
              LET n == mc.s.sso.name
              IN  IF n = None
                  THEN \/ ~mc.s.ag.complete
                       \/ mc.s.ag.uid # None /\ Known(mc.s.ag.uid, {"kept"})
                       \/ ~HasName(mc.s, OnBusNames(mc))
                  ELSE \/ Known(n, Why \ {"altered", "missed"})
                       \/ \A k \in Settings :
                             mc.s.cache[n].val[k] = mc.s.ag.val[k])

(* The removal of an account leaves nothing of it in libaccounts:          *)
(* mcd_storage_delete_account "merely ensures that no trace of the account *)
(* remains in long term storage once mcd_storage_commit() has been called" *)
(* (mcd-storage.c:1955).  It does not hold: _delete marks the AgAccount as *)
(* deleted, but _commit_real stores only those still in the table.         *)
RemovalLeavesNoTrace ==
    Flushed => \A n \in mc.gone : ~InSso(mc.s, n)
=============================================================================
