--------------------------- MODULE AccountStorage ---------------------------
(***************************************************************************)
(* McdStorage (mcd-storage.c), the cache of every account's settings, over *)
(* its two compiled-in stores: libaccounts/SSO (mcd-account-manager-sso.c, *)
(* the higher priority), which other processes change too, and the keyfile *)
(* (mcd-account-manager-default.c).  What the stores do is given as        *)
(* operators on the record s, so that AccountManager can compose a whole   *)
(* handler out of the calls it makes:                                      *)
(*                                                                         *)
(*   cache  McdStorage.accounts: per name whether there is an entry, its   *)
(*          values and whether the parameter is kept as a variant or in    *)
(*          escaped_parameters                                             *)
(*   keys, save   the keyfile in memory, and "not written yet"             *)
(*   disk   accounts.cfg: where it was found (kind) and what it says       *)
(*   ag     the account in the libaccounts database                        *)
(*   sso    what the plugin knows of it: its name (accounts and            *)
(*          id_name_map), its AgAccount with the unstored changes (view,   *)
(*          dirty), the watch, the save flag and the commit timer          *)
(*                                                                         *)
(* A name stands for the unique name of an account; the settings are the   *)
(* ones the code treats differently.  No value is 0; Enabled is 1 (false)  *)
(* or 2 (true).                                                            *)
(***************************************************************************)
EXTENDS Naturals, FiniteSets, FiniteSetsExt

CONSTANT Names      \* the unique names, in the order unique_name tries them

ASSUME NamesAssumption == Names \subseteq Nat \ {0} /\ IsFiniteSet(Names)

None == 0

\* manager: attribute that makes a group an account (the protocol goes with
\* it); param: the one required parameter; token: an attribute that replies
\* of the connection write (AvatarToken).
Keys == {"manager", "Enabled", "param", "token"}
Attributes == Keys \ {"param"}
Settings == Keys \ {"manager"}          \* what libaccounts keeps of them

Nothing == [k \in Keys |-> None]
NoEntry == [in |-> FALSE, val |-> Nothing, escaped |-> FALSE]
NoChange == [k \in Settings |-> None]

Cached(s, n) == s.cache[n].in
Owns(s, n) == s.sso.name = n            \* get_ag_account finds it

-----------------------------------------------------------------------------
(* The stores.                                                             *)

\* _set of the SSO plugin (save_setting, _sso_account_enable) for a setting
\* that is not UNWRITABLE; unsetting is the same with no value.
SsoSet(s, n, k, v) ==
    IF ~Owns(s, n) \/ k \notin Settings \/ s.sso.view[k] = v THEN s
    ELSE [s EXCEPT !.sso.view[k] = v, !.sso.dirty = @ \cup {k},
                   !.sso.save = TRUE]

KeyfileSet(s, n, k, v) == [s EXCEPT !.keys[n][k] = v, !.save = TRUE]

KeyfileDelete(s, n, k) ==
    [s EXCEPT !.keys[n][k] = None, !.save = @ \/ s.keys[n][k] # None]

\* _delete without a key: the AgAccount is marked as deleted and then dropped
\* with its unstored changes, and no longer watched.
SsoDeleteAccount(s, n) ==
    IF ~Owns(s, n) THEN s
    ELSE [s EXCEPT !.sso = [@ EXCEPT !.name = None, !.dirty = {},
                                     !.watch = FALSE, !.save = TRUE]]

\* Mutant: the removal of a group is not a change to write.
MutDeleteUnsaved(s, n) == [s EXCEPT !.keys[n] = Nothing]

KeyfileDeleteAccount(s, n) ==
    [s EXCEPT !.keys[n] = Nothing, !.save = @ \/ s.keys[n] # Nothing]

\* _commit of the keyfile; the disk may be full.
KeyfileCommit(s, ok) ==
    IF s.save /\ ok
    THEN [s EXCEPT !.disk = [kind |-> "good", data |-> s.keys], !.save = FALSE]
    ELSE s

\* _commit of the SSO plugin only starts a timer ...
SsoCommit(s) == [s EXCEPT !.sso.timer = @ \/ s.sso.save]

\* ... and this is what it does when it fires: ag_account_store() for every
\* account that is still in the table.
SsoCommitReal(s) ==
    LET stored == IF s.sso.name = None \/ s.ag.state # "present" THEN s.ag
                  ELSE [s.ag EXCEPT !.uid = s.sso.name,
                                    !.val = [k \in Settings |->
                                               IF k \in s.sso.dirty
                                               THEN s.sso.view[k] ELSE @[k]]]
    IN  [s EXCEPT !.ag = stored,
                  !.sso = [@ EXCEPT !.timer = FALSE, !.save = FALSE,
                                    !.dirty = {}]]

\* mcp_account_storage_commit and _commit_one: neither plugin has both, so
\* that both are committed whatever MC asks for.
CommitStores(s, ok) == KeyfileCommit(SsoCommit(s), ok)

-----------------------------------------------------------------------------
(* McdStorage.                                                             *)

\* update_storage: the first store that claims the setting keeps it and the
\* ones after it forget it; a setting without a value leaves all of them.
UpdateStorage(s, n, k, v) ==
    IF v = None THEN KeyfileDelete(SsoSet(s, n, k, None), n, k)
    ELSE IF Owns(s, n) THEN KeyfileDelete(SsoSet(s, n, k, v), n, k)
    ELSE KeyfileSet(s, n, k, v)

\* mcd_storage_set_attribute (with ensure_account)
SetAttribute(s, n, k, v) ==
    IF s.cache[n].val[k] = v THEN [s EXCEPT !.cache[n].in = TRUE]
    ELSE UpdateStorage([s EXCEPT !.cache[n] = [@ EXCEPT !.in = TRUE,
                                                        !.val[k] = v]],
                       n, k, v)

\* mcd_storage_set_parameter: a new value is kept as a variant.
SetParameter(s, n, v) ==
    IF s.cache[n].val["param"] = v THEN [s EXCEPT !.cache[n].in = TRUE]
    ELSE UpdateStorage([s EXCEPT !.cache[n] =
                           [@ EXCEPT !.in = TRUE, !.escaped = FALSE,
                                     !.val["param"] = v]],
                       n, "param", v)

\* set_value, by which a plugin pushes what it has into the cache
SetValue(c, k, v) ==
    [c EXCEPT !.in = TRUE, !.val[k] = v,
              !.escaped = IF k = "param" THEN v # None ELSE @]

\* list_keys: the names of the escaped parameters are not listed.
ListKeys(c) ==
    {k \in Keys : c.val[k] # None /\ (k = "param" => ~c.escaped)}

\* unique_name: the first name with neither an entry nor an object on the bus
UniqueName(s, onBus) ==
    Min({n \in Names : ~Cached(s, n) /\ n \notin onBus})

HasName(s, onBus) == \E n \in Names : ~Cached(s, n) /\ n \notin onBus

\* mcd_storage_create_account: the SSO plugin creates none; the keyfile
\* only chooses the name.  Its caller then stores the manager (with it the
\* protocol).
CreateAccount(s, n) == SetAttribute(s, n, "manager", 1)

\* mcd_storage_delete_account
DeleteAccount(s, n) ==
    KeyfileDeleteAccount(SsoDeleteAccount([s EXCEPT !.cache[n] = NoEntry], n),
                         n)

\* mcd_storage_commit
Commit(s, ok) == CommitStores(s, ok)

-----------------------------------------------------------------------------
(* Loading.                                                                *)

\* _list of the keyfile, up to the write it may make
ReadKeyfile(s) ==
    [s EXCEPT !.keys = IF s.disk.kind \in {"good", "system", "old"}
                       THEN s.disk.data ELSE [n \in Names |-> Nothing],
              !.save = s.disk.kind \in {"old", "missing"}]

\* What add_account_from_plugin puts into the cache for the keyfile's groups
FromKeyfile(group) ==
    IF group = Nothing THEN NoEntry
    ELSE [in |-> TRUE, val |-> group, escaped |-> group["param"] # None]

\* ... and, over it, for an account of libaccounts that has its name
FromSso(c, val) ==
    [c EXCEPT !.in = TRUE,
              !.val = [k \in Keys |->
                         IF k = "manager" THEN 1
                         ELSE IF val[k] # None THEN val[k] ELSE @[k]],
              !.escaped = @ \/ val["param"] # None]

InSso(s, n) == s.ag.state = "present" /\ s.ag.uid = n

LoadedCache(s) ==
    [n \in Names |-> IF InSso(s, n) THEN FromSso(FromKeyfile(s.keys[n]), s.ag.val)
                     ELSE FromKeyfile(s.keys[n])]

\* _load_from_libaccounts
LoadSso(s) ==
    [s EXCEPT !.sso = [name |-> IF s.ag.state = "present" THEN s.ag.uid
                                ELSE None,
                       view |-> s.ag.val, dirty |-> {},
                       watch |-> s.ag.state = "present" /\ s.ag.uid # None,
                       save |-> FALSE, timer |-> FALSE]]

\* mcd_storage_load: lower priorities first.
Load(s, ok) ==
    LET r == LoadSso(KeyfileCommit(ReadKeyfile(s), ok))
    IN  [r EXCEPT !.cache = LoadedCache(r)]

\* mcd_storage_dup_accounts, and the ones of them _mcd_account_manager_setup
\* finds plausible
Accounts(s) == {n \in Names : \E k \in Attributes : s.cache[n].val[k] # None}
Plausible(s) == {n \in Accounts(s) : s.cache[n].val["manager"] # None}

\* Nothing of the process's memory survives it.
Stopped(s) ==
    [s EXCEPT !.cache = [n \in Names |-> NoEntry],
              !.keys = [n \in Names |-> Nothing], !.save = FALSE,
              !.sso = [name |-> None, view |-> NoChange, dirty |-> {},
                       watch |-> FALSE, save |-> FALSE, timer |-> FALSE]]

StoreType ==
    [cache : [Names -> [in : BOOLEAN, val : [Keys -> 0..2],
                        escaped : BOOLEAN]],
     keys : [Names -> [Keys -> 0..2]],
     save : BOOLEAN,
     disk : [kind : {"good", "corrupt", "missing", "system", "old"},
             data : [Names -> [Keys -> 0..2]]],
     ag : [state : {"never", "present", "deleted"}, complete : BOOLEAN,
           uid : Names \cup {None}, val : [Settings -> 0..2]],
     sso : [name : Names \cup {None}, view : [Settings -> 0..2],
            dirty : SUBSET Settings, watch : BOOLEAN, save : BOOLEAN,
            timer : BOOLEAN]]
=============================================================================
