-------------------------------- MODULE Accounts --------------------------------
(***************************************************************************)
(* Users, their keys and their settings: the account endpoints of           *)
(* bridge/main.py, bridge/auth, `llmctl users`, the dashboard's Users,      *)
(* Settings and Tier Overrides pages, and the copy of the keys that         *)
(* bridge/openwebui_sync keeps in the valves of the Open WebUI pipeline.    *)
(*                                                                         *)
(* Whoever serves one call is a client.  Each call loads rows in one        *)
(* statement and writes them back in another: SQLAlchemy updates only the   *)
(* columns whose value differs from the one it has loaded, so two calls     *)
(* that overlap may leave a row, or a pair of rows, that neither has asked  *)
(* for.                                                                     *)
(***************************************************************************)
EXTENDS Naturals, FiniteSets

CONSTANTS
  Clients,    \* calls that may be under way at the same time
  Calls,      \* the calls they may make, see Call
  Users,      \* bridge accounts; a user's email is the user
  Admin,      \* the account of the pipeline's fallback key
  Founders,   \* accounts that exist from the start, each with one key
  Keys,       \* API keys
  FirstKey,   \* the key each founder starts with
  Stray,      \* a string that is no key of the bridge
  MaxCalls,   \* bound on the calls in a behaviour
  None        \* Python's None

Values == 0..2      \* what a setting may be; 0 is NULL or the empty value

(***************************************************************************)
(* A call names the user it is about, a value for the form it fills in and  *)
(* a choice: to copy the new key to the pipeline, or to leave the key field *)
(* of the volume form blank.                                                *)
(***************************************************************************)
PreferForms == {"prefer_tiers", "prefer_providers"}
UserForms == {"deactivate", "suspend", "users_tiers", "storage"} \cup PreferForms
BudgetForms == {"users_budget", "save"}
RowForms == {"put_override", "put_volume", "volume_page"}
RowDeletes == {"delete_override", "delete_volume"}
KeyCalls == {"create_user", "add_key", "reset_key", "revoke_key", "sync"}
Call == [kind : UserForms \cup BudgetForms \cup RowForms \cup RowDeletes \cup KeyCalls
                \cup {"login", "jwt_request", "chat"},
         user : Users, value : Values, choice : BOOLEAN]

(* The rows of the tables.  A volume is saved with its key encrypted: no     *)
(* ciphertext is empty, and no form for a volume has the value 0.            *)
User == [active : BOOLEAN, budget : Values, tiers : Values, policy : Values,
         preferred : Values, disabled : Values, order : Values]
Override == [row : Nat, order : Values, disabled : Values, model : Values]
Volume == [row : Nat, id : Values, secret : Values]
ApiKey == [owner : Users, revoked : BOOLEAN]

ASSUME AccountsAssumption ==
  /\ IsFiniteSet(Clients) /\ IsFiniteSet(Users) /\ IsFiniteSet(Keys)
  /\ Calls \subseteq Call
  /\ Admin \in Founders /\ Founders \subseteq Users
  /\ FirstKey \in [Founders -> Keys]
  /\ \A u, v \in Founders : FirstKey[u] = FirstKey[v] => u = v
  /\ MaxCalls \in Nat
  /\ \A f \in Calls : f.kind \in {"put_volume", "volume_page"} => f.value # 0
  /\ None \notin Users /\ None \notin Keys /\ None \notin Call
  /\ Stray \notin Keys /\ Stray # None
  /\ None \notin User /\ None \notin Override /\ None \notin Volume /\ None \notin ApiKey

VARIABLES
  users,     \* the users table
  quotas,    \* quotas.usd_per_month
  override,  \* user_tier_overrides: the row of one user and tier
  volume,    \* user_volume_keys: the row of one user and provider
  keys,      \* api_keys
  valve,     \* user_key_map of the pipeline
  tokens,    \* users who hold a JWT (its expiry, after an hour, is left out)
  pc, call,  \* each client: where it is, and its call
  loaded,    \* each client: what its session or its HTTP request has read
  key,       \* each client: the API key it has made or carries
  calls,     \* calls begun so far
  raced,     \* rows written between the load and the commit of another call (history)
  put,       \* the last calls committed to override and volume, and the key given (history)
  posted,    \* each user: key of the last sync that took effect (history)
  overtaken, \* users whose last sync fell between fetch and post of another (history)
  typed,     \* users and keys an operator has given to a sync (history)
  served     \* requests let in (history)

tables == <<users, quotas, override, volume, keys, valve, tokens>>
clientVars == <<pc, call, loaded, key>>
history == <<raced, put, posted, overtaken, typed, served>>
vars == <<tables, clientVars, calls, history>>

KeyMap == [Users -> Keys \cup {Stray, None}]
Loaded == [page : User \cup {None}, user : User \cup {None}, quota : Values,
           override : Override \cup {None}, volume : Volume \cup {None}, keys : SUBSET Keys,
           valve : KeyMap]
RowNames == Users \cup {"override", "volume"}
Nothing == [page |-> None, user |-> None, quota |-> 0, override |-> None, volume |-> None, keys |-> {},
            valve |-> [u \in Users |-> None]]
NewUser(budget) == [active |-> TRUE, budget |-> budget, tiers |-> 0, policy |-> 1,
                    preferred |-> 0, disabled |-> 0, order |-> 0]

(* A key the bridge has made stays on record, revoked or not, for as long as *)
(* the map of the pipeline names it.                                         *)
TypeOK ==
  /\ users \in [Users -> User \cup {None}]
  /\ quotas \in [Users -> Values]
  /\ override \in Override \cup {None}
  /\ volume \in Volume \cup {None}
  /\ keys \in [Keys -> ApiKey \cup {None}]
  /\ \A k \in Keys : keys[k] # None => users[keys[k].owner] # None
  /\ valve \in KeyMap
  /\ \A u \in Users : valve[u] \in Keys => keys[valve[u]] # None
  /\ tokens \subseteq Users
  /\ pc \in [Clients -> {"idle", "reload", "commit", "fetch", "post", "lookup"}]
  /\ call \in [Clients -> Call \cup {None}]
  /\ \A c \in Clients : pc[c] # "idle" => call[c] # None
  /\ loaded \in [Clients -> Loaded]
  /\ key \in [Clients -> Keys \cup {Stray, None}]
  /\ calls \in 0..MaxCalls
  /\ raced \subseteq RowNames

Init ==
  /\ users = [u \in Users |-> IF u \in Founders THEN NewUser(1) ELSE None]
  /\ quotas = [u \in Users |-> IF u \in Founders THEN 1 ELSE 0]
  /\ override = None
  /\ volume = None
  /\ keys = [k \in Keys |->
       IF \E u \in Founders : FirstKey[u] = k
       THEN [owner |-> CHOOSE u \in Founders : FirstKey[u] = k, revoked |-> FALSE]
       ELSE None]
  /\ valve = [u \in Users |-> None]
  /\ tokens = {}
  /\ pc = [c \in Clients |-> "idle"]
  /\ call = [c \in Clients |-> None]
  /\ loaded = [c \in Clients |-> Nothing]
  /\ key = [c \in Clients |-> None]
  /\ calls = 0
  /\ raced = {}
  /\ put = [override |-> None, volume |-> None, secret |-> 0]
  /\ posted = [u \in Users |-> None]
  /\ overtaken = {}
  /\ typed = {}
  /\ served = {}

-----------------------------------------------------------------------------
(***************************************************************************)
(* What each form makes of the user row it has loaded.  The Settings page   *)
(* reads the row, and again in the session that saves: of the preferences   *)
(* the form is not about it writes back what the page has shown.            *)
(***************************************************************************)
Deactivate(old) == [old EXCEPT !.active = FALSE]
Suspend(old) == [old EXCEPT !.active = ~@]                \* not user.is_active
UsersTiers(old, v) == [old EXCEPT !.tiers = v]
Storage(old, v) == [old EXCEPT !.policy = v]              \* and local-access
UsersBudget(old, v) == [old EXCEPT !.budget = v]
SaveUser(old, v) == [old EXCEPT !.budget = v, !.tiers = v, !.policy = v]

(* "Save tier preferences" leaves provider_order to its default, None. *)
PreferTiers(old, page, v) ==
  [old EXCEPT !.preferred = v, !.disabled = page.disabled, !.order = 0]
PreferProviders(old, page, v) ==
  [old EXCEPT !.preferred = page.preferred, !.disabled = v, !.order = v]

Filled(old, page, f) ==
  CASE f.kind = "deactivate"       -> Deactivate(old)
    [] f.kind = "suspend"          -> Suspend(old)
    [] f.kind = "users_tiers"      -> UsersTiers(old, f.value)
    [] f.kind = "storage"          -> Storage(old, f.value)
    [] f.kind = "users_budget"     -> UsersBudget(old, f.value)
    [] f.kind = "save"             -> SaveUser(old, f.value)
    [] f.kind = "prefer_tiers"     -> PreferTiers(old, page, f.value)
    [] f.kind = "prefer_providers" -> PreferProviders(old, page, f.value)

(* Faulty variant: every column of the object is written back. *)
Merged_WholeRow(current, old, new) == [x \in DOMAIN current |-> new[x]]

(* The UPDATE that a commit sends: the columns the call has changed. *)
Merged(current, old, new) ==
  [x \in DOMAIN current |-> IF new[x] # old[x] THEN new[x] ELSE current[x]]

(***************************************************************************)
(* Clients.                                                                 *)
(***************************************************************************)
Idle(c) == pc[c] = "idle" /\ calls < MaxCalls
Opens(c, f, loc, seen) ==
  /\ pc' = [pc EXCEPT ![c] = loc]
  /\ call' = [call EXCEPT ![c] = f]
  /\ loaded' = [loaded EXCEPT ![c] = seen]
  /\ calls' = calls + 1
Goto(c, loc) == pc' = [pc EXCEPT ![c] = loc]
Returns(c) ==
  /\ Goto(c, "idle")
  /\ call' = [call EXCEPT ![c] = None]
  /\ loaded' = [loaded EXCEPT ![c] = Nothing]
  /\ key' = [key EXCEPT ![c] = None]
ReturnsAtOnce == calls' = calls + 1 /\ UNCHANGED clientVars
At(c, loc, kinds) == pc[c] = loc /\ call[c].kind \in kinds
Others(c, locs, kinds) == {d \in Clients \ {c} : pc[d] \in locs /\ call[d].kind \in kinds}
MarkRaced(row, rivals) == raced' = IF rivals = {} THEN raced ELSE raced \cup {row}

Saved(c) == Filled(loaded[c].user, loaded[c].page, call[c])

(* The UPDATE of users goes out before the quota is read (autoflush), and    *)
(* keeps the row locked until the commit.                                    *)
Locked(c, u) ==
  \E d \in Others(c, {"commit"}, BudgetForms) :
    call[d].user = u /\ Saved(d) # loaded[d].user

-----------------------------------------------------------------------------
(***************************************************************************)
(* Forms about a user.                                                      *)
(***************************************************************************)
LoadUser(c, f) ==
  /\ Idle(c) /\ f.kind \in UserForms \cup BudgetForms
  /\ IF users[f.user] = None
     THEN ReturnsAtOnce
     ELSE /\ Opens(c, f, IF f.kind \in BudgetForms \cup PreferForms THEN "reload" ELSE "commit",
                   [Nothing EXCEPT !.page = users[f.user], !.user = users[f.user]])
          /\ UNCHANGED key
  /\ UNCHANGED <<tables, history>>

ReloadUser(c) ==
  /\ At(c, "reload", PreferForms)
  /\ loaded' = [loaded EXCEPT ![c].user = users[call[c].user]]
  /\ Goto(c, "commit")
  /\ UNCHANGED <<tables, call, key, calls, history>>

LoadQuota(c) ==
  /\ At(c, "reload", BudgetForms)
  /\ LET f == call[c] IN
       /\ Saved(c) # loaded[c].user => ~Locked(c, f.user)
       /\ loaded' = [loaded EXCEPT ![c].quota = quotas[f.user]]
  /\ Goto(c, "commit")
  /\ UNCHANGED <<tables, call, key, calls, history>>

(* Faulty variant: the budget form of the CLI leaves the quota alone. *)
CommitUser_QuotaBySaveOnly(c) ==
  /\ At(c, "commit", UserForms \cup BudgetForms)
  /\ LET f == call[c]
         u == f.user
         new == Saved(c)
     IN
     /\ new # loaded[c].user => ~Locked(c, u)
     /\ users' = [users EXCEPT ![u] = Merged(users[u], loaded[c].user, new)]
     /\ quotas' = IF f.kind = "save" /\ f.value # loaded[c].quota
                  THEN [quotas EXCEPT ![u] = f.value] ELSE quotas
     /\ IF f.kind \in BudgetForms
        THEN MarkRaced(u, {d \in Others(c, {"reload", "commit"}, BudgetForms) : call[d].user = u})
        ELSE UNCHANGED raced
  /\ Returns(c)
  /\ UNCHANGED <<override, volume, keys, valve, tokens, calls, put, posted, overtaken, typed, served>>

CommitUser(c) ==
  /\ At(c, "commit", UserForms \cup BudgetForms)
  /\ LET f == call[c]
         u == f.user
         new == Saved(c)
     IN
     /\ new # loaded[c].user => ~Locked(c, u)
     /\ users' = [users EXCEPT ![u] = Merged(users[u], loaded[c].user, new)]
     /\ quotas' = IF f.kind \in BudgetForms /\ f.value # loaded[c].quota
                  THEN [quotas EXCEPT ![u] = f.value] ELSE quotas
     /\ IF f.kind \in BudgetForms
        THEN MarkRaced(u, {d \in Others(c, {"reload", "commit"}, BudgetForms) : call[d].user = u})
        ELSE UNCHANGED raced
  /\ Returns(c)
  /\ UNCHANGED <<override, volume, keys, valve, tokens, calls, put, posted, overtaken, typed, served>>

-----------------------------------------------------------------------------
(***************************************************************************)
(* Rows of their own: a tier override (the API) and a volume with the key   *)
(* of its owner's provider account (the API and the Settings page).         *)
(***************************************************************************)
OverrideCalls == {"put_override", "delete_override"}
VolumeCalls == {"put_volume", "volume_page", "delete_volume"}

LoadOverride(c, f) ==
  /\ Idle(c) /\ f.kind \in OverrideCalls
  /\ IF f.kind = "delete_override" /\ override = None
     THEN ReturnsAtOnce
     ELSE Opens(c, f, "commit", [Nothing EXCEPT !.override = override]) /\ UNCHANGED key
  /\ UNCHANGED <<tables, history>>

SameRow(old, current) ==
  (old = None /\ current = None) \/ (old # None /\ current # None /\ old.row = current.row)
RowId(old) == IF old = None THEN calls ELSE old.row

(* Faulty variant: fields that are null in the request keep their value. *)
OverrideForm_Patch(old, f) ==
  [row |-> RowId(old), order |-> f.value, model |-> f.value,
   disabled |-> IF f.choice THEN f.value ELSE IF old = None THEN 0 ELSE old.disabled]

(* A PUT assigns every column, whether the request names it or not. *)
OverrideForm(old, f) ==
  [row |-> RowId(old), order |-> f.value, model |-> f.value,
   disabled |-> IF f.choice THEN f.value ELSE 0]

(* An insert meets the unique constraint, an update a row that is gone:      *)
(* both answer 500 and write nothing.  A delete goes by the primary key of   *)
(* the row it has loaded and takes no other.                                 *)
CommitOverride(c) ==
  /\ At(c, "commit", OverrideCalls)
  /\ LET f == call[c]
         old == loaded[c].override
     IN
     IF f.kind = "delete_override" \/ SameRow(old, override)
     THEN /\ override' = IF ~SameRow(old, override) THEN override
                         ELSE IF f.kind = "delete_override" THEN None
                         ELSE IF old = None THEN OverrideForm(old, f)
                         ELSE Merged(override, old, OverrideForm(old, f))
          /\ put' = [put EXCEPT !.override = f]
          /\ MarkRaced("override", Others(c, {"commit"}, OverrideCalls))
     ELSE UNCHANGED <<override, put, raced>>
  /\ Returns(c)
  /\ UNCHANGED <<users, quotas, volume, keys, valve, tokens, calls, posted, overtaken, typed, served>>

(* The page takes a blank key for "keep the current one" only when it has    *)
(* seen a volume; then it validates the volume with RunPod, for seconds.     *)
LoadVolume(c, f) ==
  /\ Idle(c) /\ f.kind \in VolumeCalls
  /\ IF volume = None /\ (f.kind = "delete_volume" \/ (f.kind = "volume_page" /\ f.choice))
     THEN ReturnsAtOnce
     ELSE /\ Opens(c, f, IF f.kind = "volume_page" THEN "reload" ELSE "commit",
                   [Nothing EXCEPT !.volume = volume])
          /\ UNCHANGED key
  /\ UNCHANGED <<tables, history>>

ReloadVolume(c) ==
  /\ At(c, "reload", {"volume_page"})
  /\ loaded' = [loaded EXCEPT ![c].volume = volume]
  /\ Goto(c, "commit")
  /\ UNCHANGED <<tables, call, key, calls, history>>

(* upsert_user_volume_key: a blank key keeps the stored one, or is stored as *)
(* the empty string when there is no row to keep one from.                   *)
Blank(f) == f.kind = "volume_page" /\ f.choice
VolumeForm(old, f) ==
  [row |-> RowId(old), id |-> f.value,
   secret |-> IF ~Blank(f) THEN f.value ELSE IF old = None THEN 0 ELSE old.secret]

CommitVolume(c) ==
  /\ At(c, "commit", VolumeCalls)
  /\ LET f == call[c]
         old == loaded[c].volume
     IN
     IF f.kind = "delete_volume" \/ SameRow(old, volume)
     THEN /\ volume' = IF ~SameRow(old, volume) THEN volume
                       ELSE IF f.kind = "delete_volume" THEN None
                       ELSE IF old = None THEN VolumeForm(old, f)
                       ELSE Merged(volume, old, VolumeForm(old, f))
          /\ put' = [put EXCEPT !.volume = f, !.secret = IF Blank(f) THEN @ ELSE f.value]
          /\ MarkRaced("volume", Others(c, {"reload", "commit"}, VolumeCalls))
     ELSE UNCHANGED <<volume, put, raced>>
  /\ Returns(c)
  /\ UNCHANGED <<users, quotas, override, keys, valve, tokens, calls, posted, overtaken, typed, served>>

-----------------------------------------------------------------------------
(***************************************************************************)
(* Accounts and API keys.                                                   *)
(***************************************************************************)
Owned(u) == {k \in Keys : keys[k] # None /\ keys[k].owner = u}
Active(u) == {k \in Owned(u) : ~keys[k].revoked}
Unused == {k \in Keys : keys[k] = None}
Fresh(k) == k = CHOOSE x \in Unused : TRUE

(* The user whom create_user must not find, and add_key and reset_key must. *)
LoadAccount(c, f) ==
  /\ Idle(c) /\ f.kind \in {"create_user", "add_key", "reset_key"}
  /\ IF (f.kind = "create_user") = (users[f.user] # None)
     THEN ReturnsAtOnce
     ELSE Opens(c, f, "commit", [Nothing EXCEPT !.keys = Active(f.user)]) /\ UNCHANGED key
  /\ UNCHANGED <<tables, history>>

(* The new key reaches the pipeline when the caller has asked for it. *)
AfterNewKey(c, k) ==
  IF call[c].choice /\ call[c].kind # "reset_key"
  THEN Goto(c, "fetch") /\ key' = [key EXCEPT ![c] = k] /\ UNCHANGED <<call, loaded>>
  ELSE Returns(c)

(* User, quota and, if asked for, key in one commit; users.email is unique. *)
CreateUser(c) ==
  /\ At(c, "commit", {"create_user"})
  /\ LET u == call[c].user IN
     IF users[u] = None
     THEN /\ users' = [users EXCEPT ![u] = NewUser(call[c].value)]
          /\ quotas' = [quotas EXCEPT ![u] = call[c].value]
          /\ \/ \E k \in Unused :
                  /\ Fresh(k)
                  /\ keys' = [keys EXCEPT ![k] = [owner |-> u, revoked |-> FALSE]]
                  /\ AfterNewKey(c, k)
             \/ Returns(c) /\ UNCHANGED keys
     ELSE Returns(c) /\ UNCHANGED <<users, quotas, keys>>
  /\ UNCHANGED <<override, volume, valve, tokens, calls, history>>

CommitKey(c) ==
  /\ At(c, "commit", {"add_key", "reset_key"})
  /\ LET gone == IF call[c].kind = "reset_key" THEN loaded[c].keys ELSE {} IN
     \E k \in Unused :
       /\ Fresh(k)
       /\ keys' = [x \in Keys |-> IF x = k THEN [owner |-> call[c].user, revoked |-> FALSE]
                                  ELSE IF x \in gone THEN [keys[x] EXCEPT !.revoked = TRUE]
                                  ELSE keys[x]]
       /\ AfterNewKey(c, k)
  /\ UNCHANGED <<users, quotas, override, volume, valve, tokens, calls, history>>

(* Faulty variant: the row of the key goes. *)
RevokeKey_Deletes(c, f) ==
  /\ Idle(c) /\ f.kind = "revoke_key"
  /\ \E k \in Owned(f.user) : keys' = [keys EXCEPT ![k] = None]
  /\ ReturnsAtOnce
  /\ UNCHANGED <<users, quotas, override, volume, valve, tokens, history>>

(* A revoked key stays on record, and in the map of the pipeline. *)
RevokeKey(c, f) ==
  /\ Idle(c) /\ f.kind = "revoke_key"
  /\ \E k \in Owned(f.user) : keys' = [keys EXCEPT ![k].revoked = TRUE]
  /\ ReturnsAtOnce
  /\ UNCHANGED <<users, quotas, override, volume, valve, tokens, history>>

-----------------------------------------------------------------------------
(***************************************************************************)
(* update_pipeline_user_key_map: the whole map is fetched and posted back.  *)
(***************************************************************************)

(* POST /admin/sync-openwebui: an operator gives any email and any string:   *)
(* a key of the user, one of somebody else, or none at all.                  *)
SyncOpenwebui(c, f) ==
  /\ Idle(c) /\ f.kind = "sync"
  /\ \E k \in (Keys \ Unused) \cup {Stray} :
       /\ Opens(c, f, "fetch", Nothing)
       /\ key' = [key EXCEPT ![c] = k]
       /\ typed' = typed \cup {<<f.user, k>>}
  /\ UNCHANGED <<tables, raced, put, posted, overtaken, served>>

FetchValves(c) ==
  /\ pc[c] = "fetch"
  /\ \/ /\ loaded' = [loaded EXCEPT ![c].valve = valve]
        /\ Goto(c, "post")
        /\ UNCHANGED <<call, key>>
     \/ Returns(c)
  /\ UNCHANGED <<tables, calls, history>>

Overtakes(c) ==
  LET u == call[c].user IN
  overtaken' = IF \E d \in Clients \ {c} : pc[d] = "post" THEN overtaken \cup {u}
               ELSE overtaken \ {u}

(* Faulty variant: the map is built anew instead of being completed. *)
PostValves_NewMap(c) ==
  /\ pc[c] = "post"
  /\ LET u == call[c].user IN
     \/ /\ valve' = [v \in Users |-> IF v = u THEN key[c] ELSE None]
        /\ posted' = [posted EXCEPT ![u] = key[c]]
        /\ Overtakes(c)
     \/ UNCHANGED <<valve, posted, overtaken>>
  /\ Returns(c)
  /\ UNCHANGED <<users, quotas, override, volume, keys, tokens, calls, raced, put, typed, served>>

(* The map is posted, whether or not the answer arrives, or it is not. *)
PostValves(c) ==
  /\ pc[c] = "post"
  /\ LET u == call[c].user IN
     \/ /\ valve' = [loaded[c].valve EXCEPT ![u] = key[c]]
        /\ posted' = [posted EXCEPT ![u] = key[c]]
        /\ Overtakes(c)
     \/ UNCHANGED <<valve, posted, overtaken>>
  /\ Returns(c)
  /\ UNCHANGED <<users, quotas, override, volume, keys, tokens, calls, raced, put, typed, served>>

-----------------------------------------------------------------------------
(***************************************************************************)
(* Authentication: of the dashboard, with a JWT, and of a chat that comes   *)
(* through the pipeline, with an API key.                                   *)
(***************************************************************************)
Admits(u, owner, entry) == served' = served \cup {[user |-> u, as |-> owner, entry |-> entry]}

(* POST /auth/login. *)
Login(c, f) ==
  /\ Idle(c) /\ f.kind = "login"
  /\ users[f.user] # None /\ users[f.user].active
  /\ tokens' = tokens \cup {f.user}
  /\ ReturnsAtOnce
  /\ UNCHANGED <<users, quotas, override, volume, keys, valve, history>>

(* get_current_user with a JWT: the user is looked up at every request. *)
JwtRequest(c, f) ==
  /\ Idle(c) /\ f.kind = "jwt_request"
  /\ f.user \in tokens
  /\ IF users[f.user].active THEN Admits(f.user, f.user, None) ELSE UNCHANGED served
  /\ ReturnsAtOnce
  /\ UNCHANGED <<tables, raced, put, posted, overtaken, typed>>

(* _resolve_key: the sender's key, or the fallback key. *)
ResolveKey(u) == IF valve[u] # None THEN valve[u] ELSE FirstKey[Admin]

Chat(c, f) ==
  /\ Idle(c) /\ f.kind = "chat"
  /\ Opens(c, f, "lookup", [Nothing EXCEPT !.valve = valve])
  /\ key' = [key EXCEPT ![c] = ResolveKey(f.user)]
  /\ UNCHANGED <<tables, history>>

(* _lookup_api_key: the key is on record, not revoked, its owner is active. *)
LookupApiKey(c) ==
  /\ pc[c] = "lookup"
  /\ LET k == key[c]
         u == call[c].user
     IN IF k \in Keys \ Unused /\ ~keys[k].revoked /\ users[keys[k].owner].active
        THEN Admits(u, keys[k].owner, loaded[c].valve[u])
        ELSE UNCHANGED served
  /\ Returns(c)
  /\ UNCHANGED <<tables, calls, raced, put, posted, overtaken, typed>>

-----------------------------------------------------------------------------
Next ==
  \E c \in Clients :
    \/ ReloadUser(c) \/ LoadQuota(c) \/ CommitUser(c) \/ CommitOverride(c) \/ ReloadVolume(c) \/ CommitVolume(c)
    \/ CreateUser(c) \/ CommitKey(c) \/ FetchValves(c) \/ PostValves(c) \/ LookupApiKey(c)
    \/ \E f \in Calls :
         \/ LoadUser(c, f) \/ LoadOverride(c, f) \/ LoadVolume(c, f) \/ LoadAccount(c, f)
         \/ RevokeKey(c, f) \/ SyncOpenwebui(c, f)
         \/ Login(c, f) \/ JwtRequest(c, f) \/ Chat(c, f)

Spec == Init /\ [][Next]_vars

-----------------------------------------------------------------------------
(***************************************************************************)
(* The budget of a user and the one of its quota are two columns of two     *)
(* tables, set by every form together: they agree unless two budget forms   *)
(* for the same user have overlapped, whatever else was saved meanwhile.    *)
(***************************************************************************)
BudgetsAgree ==
  \A u \in Users : users[u] # None /\ u \notin raced => users[u].budget = quotas[u]

(***************************************************************************)
(* An override is what the last PUT said and nothing of the one before, and *)
(* a volume goes with the key it was saved with, never without one, unless  *)
(* the row was written between the load and the commit of another call.     *)
(***************************************************************************)
SettingsAreOneForm ==
  LET f == put.override
      g == put.volume
  IN
  /\ "override" \notin raced =>
       IF f = None \/ f.kind = "delete_override" THEN override = None
       ELSE /\ override.order = f.value /\ override.model = f.value
            /\ override.disabled = (IF f.choice THEN f.value ELSE 0)
  /\ "volume" \notin raced =>
       IF g = None \/ g.kind = "delete_volume" THEN volume = None
       ELSE volume.id = g.value /\ volume.secret = put.secret /\ volume.secret # 0

(***************************************************************************)
(* A suspended user stays out until somebody presses Activate: no form that *)
(* had loaded the row before brings it back, and neither the JWT nor the    *)
(* API keys of the user are accepted.                                       *)
(***************************************************************************)
SuspendedStaysOut ==
  [][/\ \A u \in Users : users[u] # None /\ ~users[u].active /\ users'[u].active =>
          \E c \in Clients : At(c, "commit", {"suspend"}) /\ call[c].user = u
     /\ \A b \in served' \ served : users[b.as].active]_vars

(***************************************************************************)
(* A chat from Open WebUI is billed to its sender, unless an operator has   *)
(* given the sender another key or the map does not name the sender; and    *)
(* the map names for every user the key of the last sync, however many      *)
(* syncs of others there were, unless that one was overtaken: another had   *)
(* fetched the map before it and posts it after.                            *)
(***************************************************************************)
ChatBillsSender ==
  /\ \A b \in served :
       b.entry # None => b.as = b.user \/ <<b.user, b.entry>> \in typed
  /\ \A u \in Users \ overtaken : valve[u] = posted[u]

=============================================================================
