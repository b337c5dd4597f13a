---------------------------- MODULE AccountsProofs ----------------------------
(***************************************************************************)
(* Proofs about Accounts, for any clients, users and keys, any calls, and   *)
(* any number of them.                                                      *)
(***************************************************************************)
EXTENDS Accounts, TLAPS

-----------------------------------------------------------------------------
(***************************************************************************)
(* The inductive invariant, table by table                                  *)
(***************************************************************************)

(* The calls under way that a commit may overlap with *)
Within(c, locs, kinds) == pc[c] \in locs /\ call[c].kind \in kinds
Forms(c) == Within(c, {"reload", "commit"}, UserForms \cup BudgetForms)
Budgets(c) == Within(c, {"reload", "commit"}, BudgetForms)
Overrides(c) == Within(c, {"commit"}, OverrideCalls)
Volumes(c) == Within(c, {"reload", "commit"}, VolumeCalls)

Put == [override : Call \cup {None}, volume : Call \cup {None}, secret : Values]
Served == [user : Users, as : Users, entry : Keys \cup {Stray, None}]

TableTypes ==
  /\ users \in [Users -> User \cup {None}] /\ quotas \in [Users -> Values]
  /\ override \in Override \cup {None} /\ volume \in Volume \cup {None}
  /\ keys \in [Keys -> ApiKey \cup {None}] /\ valve \in KeyMap /\ tokens \subseteq Users
Places == {"idle", "reload", "commit", "fetch", "post", "lookup"}
ClientTypes ==
  /\ pc \in [Clients -> Places] /\ call \in [Clients -> Calls \cup {None}]
  /\ \A c \in Clients : pc[c] # "idle" => call[c] \in Calls
  /\ loaded \in [Clients -> Loaded] /\ key \in [Clients -> Keys \cup {Stray, None}]
  /\ calls \in 0 .. MaxCalls
HistoryTypes ==
  /\ raced \subseteq RowNames /\ put \in Put /\ posted \in KeyMap /\ overtaken \subseteq Users
  /\ typed \subseteq Users \X (Keys \cup {Stray}) /\ served \subseteq Served
Types == TableTypes /\ ClientTypes /\ HistoryTypes

(* Budgets: what an open form has read is what the row still has. *)
FormOK(c) == Forms(c) =>
  LET u == call[c].user IN
  /\ users[u] # None /\ loaded[c].user # None /\ loaded[c].page # None
  /\ Budgets(c) /\ u \notin raced =>
       /\ loaded[c].user.budget = users[u].budget
       /\ pc[c] = "commit" => loaded[c].quota = quotas[u]
BudgetInv == BudgetsAgree /\ \A c \in Clients : FormOK(c)

OverrideIs(f) ==
  IF f = None \/ f.kind = "delete_override" THEN override = None
  ELSE /\ override # None
       /\ override.order = f.value /\ override.model = f.value
       /\ override.disabled = (IF f.choice THEN f.value ELSE 0)
OverrideSeen(c) == Overrides(c) => loaded[c].override = override
OverrideInv == "override" \notin raced =>
  OverrideIs(put.override) /\ \A c \in Clients : OverrideSeen(c)

VolumeIs(f, s) ==
  IF f = None \/ f.kind = "delete_volume" THEN volume = None
  ELSE volume # None /\ volume.id = f.value /\ volume.secret = s /\ s # 0
VolumeSeen(c) == Volumes(c) => loaded[c].volume = volume /\ (Blank(call[c]) => volume # None)
VolumeInv == "volume" \notin raced =>
  VolumeIs(put.volume, put.secret) /\ \A c \in Clients : VolumeSeen(c)

(* Keys: whoever has read one finds it on record, with the same owner; what *)
(* is sent to the pipeline for a user is a key of the user, unless an        *)
(* operator has typed it.                                                    *)
Given(k) == keys[k] # None
Sent(k, u) == k = Stray \/ (Given(k) /\ (keys[k].owner = u \/ <<u, k>> \in typed))
MapOK(m) == \A u \in Users : m[u] # None => Sent(m[u], u)
HolderOK(c) ==
  /\ MapOK(loaded[c].valve)
  /\ \A k \in loaded[c].keys : Given(k)
  /\ Within(c, {"commit"}, {"add_key", "reset_key"}) => users[call[c].user] # None
  /\ pc[c] \in {"fetch", "post"} => key[c] # None /\ Sent(key[c], call[c].user)
  /\ pc[c] = "lookup" =>
       (loaded[c].valve[call[c].user] # None => key[c] = loaded[c].valve[call[c].user])
Billed(b) == b.entry # None => b.as = b.user \/ <<b.user, b.entry>> \in typed
KeyInv ==
  /\ \A k \in Keys : Given(k) => users[keys[k].owner] # None
  /\ MapOK(valve)
  /\ \A c \in Clients : HolderOK(c)
  /\ \A b \in served : Billed(b)

ValveSeen(c) ==
  pc[c] = "post" => \A u \in Users \ overtaken : loaded[c].valve[u] = posted[u]
SyncInv ==
  /\ \A u \in Users \ overtaken : valve[u] = posted[u]
  /\ \A c \in Clients : ValveSeen(c)

TokenInv == \A u \in tokens : users[u] # None

AccountsInv == Types /\ BudgetInv /\ OverrideInv /\ VolumeInv /\ KeyInv /\ SyncInv /\ TokenInv

(* What the steps leave as it was *)
Same(c) == pc'[c] = pc[c] /\ call'[c] = call[c] /\ loaded'[c] = loaded[c] /\ key'[c] = key[c]
OthersSame(c) == \A d \in Clients \ {c} : Same(d)
UsersKept == \A u \in Users : users[u] # None => users'[u] # None
KeysKept ==
  /\ \A k \in Keys : keys[k] # None => keys'[k] # None /\ keys'[k].owner = keys[k].owner
  /\ typed \subseteq typed'

-----------------------------------------------------------------------------
(***************************************************************************)
(* Rows                                                                     *)
(***************************************************************************)

(* The UPDATE of a user row: of each column, what the form has changed. *)
LEMMA MergedUser ==
  ASSUME NEW current \in User, NEW old \in User, NEW new \in User
  PROVE  /\ Merged(current, old, new) \in User
         /\ Merged(current, old, new).budget =
              IF new.budget # old.budget THEN new.budget ELSE current.budget
         /\ Merged(current, old, new).active =
              IF new.active # old.active THEN new.active ELSE current.active
<1> DEFINE m == Merged(current, old, new)
           M(x) == IF new[x] # old[x] THEN new[x] ELSE current[x]
<1>1. m = [active |-> M("active"), budget |-> M("budget"), tiers |-> M("tiers"),
           policy |-> M("policy"), preferred |-> M("preferred"), disabled |-> M("disabled"),
           order |-> M("order")]
      BY DEF Merged, User
<1>2. M("active") \in BOOLEAN /\ M("budget") \in Values /\ M("tiers") \in Values
      /\ M("policy") \in Values /\ M("preferred") \in Values /\ M("disabled") \in Values
      /\ M("order") \in Values
      BY DEF User
<1> QED BY <1>1, <1>2 DEF User

LEMMA FilledUser ==
  ASSUME NEW old \in User, NEW page \in User, NEW f \in Call, f.kind \in UserForms \cup BudgetForms
  PROVE  /\ Filled(old, page, f) \in User
         /\ Filled(old, page, f).budget = IF f.kind \in BudgetForms THEN f.value ELSE old.budget
         /\ f.kind # "suspend" => Filled(old, page, f).active \in {old.active, FALSE}
<1>1. f.value \in Values
      BY DEF Call
<1>2. CASE f.kind = "deactivate"
      BY <1>2 DEF Filled, Deactivate, User, UserForms, PreferForms, BudgetForms
<1>3. CASE f.kind = "suspend"
      BY <1>3 DEF Filled, Suspend, User, UserForms, PreferForms, BudgetForms
<1>4. CASE f.kind = "users_tiers"
      BY <1>1, <1>4 DEF Filled, UsersTiers, User, UserForms, PreferForms, BudgetForms
<1>5. CASE f.kind = "storage"
      BY <1>1, <1>5 DEF Filled, Storage, User, UserForms, PreferForms, BudgetForms
<1>6. CASE f.kind = "users_budget"
      BY <1>1, <1>6 DEF Filled, UsersBudget, User, UserForms, PreferForms, BudgetForms
<1>7. CASE f.kind = "save"
      BY <1>1, <1>7 DEF Filled, SaveUser, User, UserForms, PreferForms, BudgetForms
<1>8. CASE f.kind = "prefer_tiers"
  <2>1. 0 \in Values
        BY DEF Values
  <2> QED BY <1>1, <1>8, <2>1 DEF Filled, PreferTiers, User, UserForms, PreferForms, BudgetForms
<1>9. CASE f.kind = "prefer_providers"
      BY <1>1, <1>9 DEF Filled, PreferProviders, User, UserForms, PreferForms, BudgetForms
<1> QED BY <1>2, <1>3, <1>4, <1>5, <1>6, <1>7, <1>8, <1>9 DEF UserForms, PreferForms, BudgetForms

LEMMA MergedOverride ==
  ASSUME NEW old \in Override, NEW new \in Override
  PROVE  Merged(old, old, new) = new
<1>1. Merged(old, old, new) = [x \in {"row", "order", "disabled", "model"} |-> new[x]]
      BY DEF Merged, Override
<1> QED BY <1>1 DEF Override

LEMMA MergedOverrideType ==
  ASSUME NEW current \in Override, NEW old \in Override, NEW new \in Override
  PROVE  Merged(current, old, new) \in Override
<1> DEFINE M(x) == IF new[x] # old[x] THEN new[x] ELSE current[x]
<1>1. Merged(current, old, new) =
        [row |-> M("row"), order |-> M("order"), disabled |-> M("disabled"), model |-> M("model")]
      BY DEF Merged, Override
<1>2. M("row") \in Nat /\ M("order") \in Values /\ M("disabled") \in Values /\ M("model") \in Values
      BY DEF Override
<1> QED BY <1>1, <1>2 DEF Override

LEMMA MergedVolume ==
  ASSUME NEW old \in Volume, NEW new \in Volume
  PROVE  Merged(old, old, new) = new
<1>1. Merged(old, old, new) = [x \in {"row", "id", "secret"} |-> new[x]]
      BY DEF Merged, Volume
<1> QED BY <1>1 DEF Volume

LEMMA MergedVolumeType ==
  ASSUME NEW current \in Volume, NEW old \in Volume, NEW new \in Volume
  PROVE  Merged(current, old, new) \in Volume
<1> DEFINE M(x) == IF new[x] # old[x] THEN new[x] ELSE current[x]
<1>1. Merged(current, old, new) = [row |-> M("row"), id |-> M("id"), secret |-> M("secret")]
      BY DEF Merged, Volume
<1>2. M("row") \in Nat /\ M("id") \in Values /\ M("secret") \in Values
      BY DEF Volume
<1> QED BY <1>1, <1>2 DEF Volume

-----------------------------------------------------------------------------
(***************************************************************************)
(* Clients                                                                  *)
(***************************************************************************)

LEMMA CallFacts ==
  ASSUME NEW f \in Calls
  PROVE  f \in Call /\ f.user \in Users /\ f.value \in Values /\ f.choice \in BOOLEAN /\ f # None
BY AccountsAssumption DEF Call

LEMMA NothingFacts ==
  /\ Nothing \in Loaded
  /\ \A u \in User \cup {None} : [Nothing EXCEPT !.page = u, !.user = u] \in Loaded
  /\ \A o \in Override \cup {None} : [Nothing EXCEPT !.override = o] \in Loaded
  /\ \A v \in Volume \cup {None} : [Nothing EXCEPT !.volume = v] \in Loaded
  /\ \A S \in SUBSET Keys : [Nothing EXCEPT !.keys = S] \in Loaded
  /\ \A m \in KeyMap : [Nothing EXCEPT !.valve = m] \in Loaded
<1>1. 0 \in Values
      BY DEF Values
<1>2. [u \in Users |-> None] \in KeyMap
      BY DEF KeyMap
<1> QED BY <1>1, <1>2 DEF Nothing, Loaded, KeyMap

LEMMA ReturnsFacts ==
  ASSUME ClientTypes, NEW c \in Clients, Returns(c), UNCHANGED calls
  PROVE  /\ ClientTypes' /\ pc'[c] = "idle" /\ loaded'[c] = Nothing
         /\ \A d \in Clients \ {c} : /\ pc'[d] = pc[d] /\ call'[d] = call[d]
                                     /\ loaded'[d] = loaded[d] /\ key'[d] = key[d]
BY NothingFacts DEF ClientTypes, Returns, Goto, Places

LEMMA OpensFacts ==
  ASSUME ClientTypes, NEW c \in Clients, NEW f \in Calls, NEW loc \in Places, NEW seen \in Loaded,
         Idle(c), Opens(c, f, loc, seen), key' \in [Clients -> Keys \cup {Stray, None}]
  PROVE  /\ ClientTypes' /\ pc'[c] = loc /\ call'[c] = f /\ loaded'[c] = seen
         /\ \A d \in Clients \ {c} : /\ pc'[d] = pc[d] /\ call'[d] = call[d]
                                     /\ loaded'[d] = loaded[d]
<1>1. calls' \in 0 .. MaxCalls
      BY AccountsAssumption DEF ClientTypes, Idle, Opens
<1> QED BY <1>1 DEF ClientTypes, Opens

LEMMA AtOnceFacts ==
  ASSUME ClientTypes, NEW c \in Clients, Idle(c), ReturnsAtOnce
  PROVE  ClientTypes' /\ UNCHANGED <<pc, call, loaded, key>>
<1>1. calls' \in 0 .. MaxCalls
      BY AccountsAssumption DEF ClientTypes, Idle, ReturnsAtOnce
<1> QED BY <1>1 DEF ClientTypes, ReturnsAtOnce, clientVars

(* One more step of a call: it has read something, and goes to loc. *)
LEMMA MovesFacts ==
  ASSUME ClientTypes, NEW c \in Clients, NEW loc \in Places, Goto(c, loc), pc[c] # "idle",
         UNCHANGED <<call, calls>>, loaded' \in [Clients -> Loaded],
         key' \in [Clients -> Keys \cup {Stray, None}]
  PROVE  /\ ClientTypes' /\ pc'[c] = loc
         /\ \A d \in Clients \ {c} : pc'[d] = pc[d]
BY DEF ClientTypes, Goto

LEMMA CallOf ==
  ASSUME ClientTypes, NEW c \in Clients, pc[c] # "idle"
  PROVE  call[c] \in Calls /\ call[c] \in Call /\ call[c].user \in Users /\ call[c].value \in Values
         /\ call[c].choice \in BOOLEAN /\ call[c] # None
BY CallFacts DEF ClientTypes

LEMMA SeenTypes ==
  ASSUME ClientTypes, NEW c \in Clients
  PROVE  /\ loaded[c].page \in User \cup {None}
         /\ loaded[c].user \in User \cup {None} /\ loaded[c].quota \in Values
         /\ loaded[c].override \in Override \cup {None} /\ loaded[c].volume \in Volume \cup {None}
         /\ loaded[c].keys \subseteq Keys /\ loaded[c].valve \in KeyMap
BY DEF ClientTypes, Loaded, KeyMap

LEMMA RacedType ==
  ASSUME HistoryTypes, NEW row \in RowNames, NEW rivals, MarkRaced(row, rivals)
  PROVE  raced' \subseteq RowNames /\ raced \subseteq raced' /\ (rivals # {} => row \in raced')
BY DEF HistoryTypes, MarkRaced

-----------------------------------------------------------------------------
(***************************************************************************)
(* Types                                                                    *)
(***************************************************************************)

LEMMA LoadUserTypes ==
  ASSUME Types, NEW c \in Clients, NEW f \in Calls, LoadUser(c, f)
  PROVE  Types'
<1>1. ClientTypes'
  <2>1. CASE users[f.user] = None
        BY <2>1, AtOnceFacts DEF Types, LoadUser
  <2>2. CASE users[f.user] # None
    <3> DEFINE loc == IF f.kind \in BudgetForms \cup PreferForms THEN "reload" ELSE "commit"
               seen == [Nothing EXCEPT !.page = users[f.user], !.user = users[f.user]]
    <3>1. loc \in Places /\ seen \in Loaded
          BY CallFacts, NothingFacts DEF Types, TableTypes, Places
    <3>2. Idle(c) /\ Opens(c, f, loc, seen) /\ key' = key
          BY <2>2 DEF LoadUser
    <3> HIDE DEF loc, seen
    <3> QED BY <3>1, <3>2, OpensFacts DEF Types, ClientTypes
  <2> QED BY <2>1, <2>2
<1>2. TableTypes' /\ HistoryTypes'
      BY DEF LoadUser, Types, TableTypes, HistoryTypes, tables, history
<1> QED BY <1>1, <1>2 DEF Types

LEMMA ReloadUserTypes ==
  ASSUME Types, NEW c \in Clients, ReloadUser(c)
  PROVE  Types'
<1>1. pc[c] # "idle" /\ Goto(c, "commit") /\ "commit" \in Places /\ UNCHANGED <<call, key, calls>>
      BY DEF ReloadUser, At, Places
<1>2. users[call[c].user] \in User \cup {None}
      BY <1>1, CallOf DEF Types, TableTypes
<1>3. loaded' \in [Clients -> Loaded]
  <2> DEFINE seen == [loaded[c] EXCEPT !.user = users[call[c].user]]
  <2>1. loaded[c] \in Loaded
        BY DEF Types, ClientTypes
  <2>2. seen \in Loaded
        BY <1>2, <2>1 DEF Loaded
  <2>3. loaded' = [loaded EXCEPT ![c] = seen]
        BY DEF ReloadUser, Types, ClientTypes
  <2> HIDE DEF seen
  <2> QED BY <2>2, <2>3 DEF Types, ClientTypes
<1>4. ClientTypes'
      BY <1>1, <1>3, MovesFacts DEF Types, ClientTypes
<1>5. TableTypes' /\ HistoryTypes'
      BY DEF ReloadUser, Types, TableTypes, HistoryTypes, tables, history
<1> QED BY <1>4, <1>5 DEF Types

LEMMA LoadQuotaTypes ==
  ASSUME Types, NEW c \in Clients, LoadQuota(c)
  PROVE  Types'
<1>1. pc[c] # "idle" /\ Goto(c, "commit") /\ "commit" \in Places /\ UNCHANGED <<call, key, calls>>
      BY DEF LoadQuota, At, Places
<1>2. quotas[call[c].user] \in Values
      BY <1>1, CallOf DEF Types, TableTypes
<1>3. loaded' \in [Clients -> Loaded]
  <2> DEFINE seen == [loaded[c] EXCEPT !.quota = quotas[call[c].user]]
  <2>1. loaded[c] \in Loaded
        BY DEF Types, ClientTypes
  <2>2. seen \in Loaded
        BY <1>2, <2>1 DEF Loaded
  <2>3. loaded' = [loaded EXCEPT ![c] = seen]
        BY DEF LoadQuota, Types, ClientTypes
  <2> HIDE DEF seen
  <2> QED BY <2>2, <2>3 DEF Types, ClientTypes
<1>4. ClientTypes'
      BY <1>1, <1>3, MovesFacts DEF Types, ClientTypes
<1>5. TableTypes' /\ HistoryTypes'
      BY DEF LoadQuota, Types, TableTypes, HistoryTypes, tables, history
<1> QED BY <1>4, <1>5 DEF Types

LEMMA CommitUserTypes ==
  ASSUME Types, BudgetInv, NEW c \in Clients, CommitUser(c)
  PROVE  Types'
<1> DEFINE u == call[c].user
           old == loaded[c].user
           new == Saved(c)
<1>1. pc[c] = "commit" /\ call[c].kind \in UserForms \cup BudgetForms
      BY DEF CommitUser, At
<1>2. call[c] \in Call /\ u \in Users /\ call[c].value \in Values
      BY <1>1, CallOf DEF Types
<1>3. users[u] \in User /\ old \in User /\ loaded[c].page \in User
      BY <1>1, <1>2, SeenTypes DEF BudgetInv, FormOK, Forms, Within, Types, TableTypes
<1>4. Merged(users[u], old, new) \in User
  <2>1. new \in User
        BY <1>1, <1>2, <1>3, FilledUser DEF Saved
  <2> QED BY <1>3, <2>1, MergedUser
<1>5. users' \in [Users -> User \cup {None}] /\ quotas' \in [Users -> Values]
  <2>1. users' = [users EXCEPT ![u] = Merged(users[u], old, new)]
        BY DEF CommitUser
  <2>2. quotas' = quotas \/ quotas' = [quotas EXCEPT ![u] = call[c].value]
        BY DEF CommitUser
  <2> QED BY <1>2, <1>4, <2>1, <2>2 DEF Types, TableTypes
<1>6. raced' \subseteq RowNames
      BY <1>2 DEF CommitUser, MarkRaced, Types, HistoryTypes, RowNames
<1>7. ClientTypes'
      BY ReturnsFacts DEF CommitUser, Types
<1>8. TableTypes' /\ HistoryTypes'
      BY <1>5, <1>6 DEF CommitUser, Types, TableTypes, HistoryTypes
<1> QED BY <1>7, <1>8 DEF Types

LEMMA RowIdType ==
  ASSUME ClientTypes, NEW old, old = None \/ old \in Override \/ old \in Volume
  PROVE  RowId(old) \in Nat
BY AccountsAssumption DEF RowId, ClientTypes, Override, Volume

LEMMA OverrideFormType ==
  ASSUME ClientTypes, NEW f \in Call, NEW old \in Override \cup {None}
  PROVE  /\ OverrideForm(old, f) \in Override
         /\ OverrideForm(old, f).order = f.value /\ OverrideForm(old, f).model = f.value
         /\ OverrideForm(old, f).disabled = IF f.choice THEN f.value ELSE 0
<1>1. RowId(old) \in Nat /\ f.value \in Values /\ 0 \in Values
      BY RowIdType DEF Call, Values
<1> QED BY <1>1 DEF OverrideForm, Override

LEMMA VolumeFormType ==
  ASSUME ClientTypes, NEW f \in Call, NEW old \in Volume \cup {None}
  PROVE  /\ VolumeForm(old, f) \in Volume /\ VolumeForm(old, f).id = f.value
         /\ VolumeForm(old, f).secret =
              IF ~Blank(f) THEN f.value ELSE IF old = None THEN 0 ELSE old.secret
<1> DEFINE s == IF ~Blank(f) THEN f.value ELSE IF old = None THEN 0 ELSE old.secret
<1>1. RowId(old) \in Nat /\ f.value \in Values /\ 0 \in Values
      BY RowIdType DEF Call, Values
<1>2. s \in Values
      BY <1>1 DEF Volume
<1>3. VolumeForm(old, f) = [row |-> RowId(old), id |-> f.value, secret |-> s]
      BY DEF VolumeForm
<1> HIDE DEF s
<1>4. VolumeForm(old, f) \in Volume /\ VolumeForm(old, f).id = f.value /\ VolumeForm(old, f).secret = s
      BY <1>1, <1>2, <1>3 DEF Volume
<1> QED BY <1>4 DEF s

LEMMA LoadOverrideTypes ==
  ASSUME Types, NEW c \in Clients, NEW f \in Calls, LoadOverride(c, f)
  PROVE  Types'
<1>1. ClientTypes'
  <2>1. CASE f.kind = "delete_override" /\ override = None
        BY <2>1, AtOnceFacts DEF Types, LoadOverride
  <2>2. CASE ~(f.kind = "delete_override" /\ override = None)
    <3> DEFINE seen == [Nothing EXCEPT !.override = override]
    <3>1. "commit" \in Places /\ seen \in Loaded
          BY NothingFacts DEF Types, TableTypes, Places
    <3>2. Idle(c) /\ Opens(c, f, "commit", seen) /\ key' = key
          BY <2>2 DEF LoadOverride
    <3> HIDE DEF seen
    <3> QED BY <3>1, <3>2, OpensFacts DEF Types, ClientTypes
  <2> QED BY <2>1, <2>2
<1>2. TableTypes' /\ HistoryTypes'
      BY DEF LoadOverride, Types, TableTypes, HistoryTypes, tables, history
<1> QED BY <1>1, <1>2 DEF Types

LEMMA LoadVolumeTypes ==
  ASSUME Types, NEW c \in Clients, NEW f \in Calls, LoadVolume(c, f)
  PROVE  Types'
<1> DEFINE none == volume = None /\ (f.kind = "delete_volume" \/ (f.kind = "volume_page" /\ f.choice))
<1>1. ClientTypes'
  <2>1. CASE none
        BY <2>1, AtOnceFacts DEF Types, LoadVolume
  <2>2. CASE ~none
    <3> DEFINE loc == IF f.kind = "volume_page" THEN "reload" ELSE "commit"
               seen == [Nothing EXCEPT !.volume = volume]
    <3>1. loc \in Places /\ seen \in Loaded
          BY NothingFacts DEF Types, TableTypes, Places
    <3>2. Idle(c) /\ Opens(c, f, loc, seen) /\ key' = key
          BY <2>2 DEF LoadVolume
    <3> HIDE DEF loc, seen
    <3> QED BY <3>1, <3>2, OpensFacts DEF Types, ClientTypes
  <2> QED BY <2>1, <2>2
<1>2. TableTypes' /\ HistoryTypes'
      BY DEF LoadVolume, Types, TableTypes, HistoryTypes, tables, history
<1> QED BY <1>1, <1>2 DEF Types

LEMMA ReloadVolumeTypes ==
  ASSUME Types, NEW c \in Clients, ReloadVolume(c)
  PROVE  Types'
<1>1. pc[c] # "idle" /\ Goto(c, "commit") /\ "commit" \in Places /\ UNCHANGED <<call, key, calls>>
      BY DEF ReloadVolume, At, Places
<1>2. loaded' \in [Clients -> Loaded]
  <2> DEFINE seen == [loaded[c] EXCEPT !.volume = volume]
  <2>1. loaded[c] \in Loaded /\ volume \in Volume \cup {None}
        BY DEF Types, TableTypes, ClientTypes
  <2>2. seen \in Loaded
        BY <2>1 DEF Loaded
  <2>3. loaded' = [loaded EXCEPT ![c] = seen]
        BY DEF ReloadVolume, Types, ClientTypes
  <2> HIDE DEF seen
  <2> QED BY <2>2, <2>3 DEF Types, ClientTypes
<1>3. ClientTypes'
      BY <1>1, <1>2, MovesFacts DEF Types, ClientTypes
<1>4. TableTypes' /\ HistoryTypes'
      BY DEF ReloadVolume, Types, TableTypes, HistoryTypes, tables, history
<1> QED BY <1>3, <1>4 DEF Types

LEMMA SameRowFacts ==
  ASSUME NEW T, NEW old \in T \cup {None}, NEW current \in T \cup {None}, SameRow(old, current)
  PROVE  old = None \/ (old \in T /\ current \in T)
BY DEF SameRow

LEMMA CommitOverrideTypes ==
  ASSUME Types, NEW c \in Clients, CommitOverride(c)
  PROVE  Types'
<1> DEFINE f == call[c]
           old == loaded[c].override
<1>1. pc[c] # "idle"
      BY DEF CommitOverride, At
<1>2. f \in Call /\ old \in Override \cup {None} /\ override \in Override \cup {None}
      BY <1>1, CallOf, SeenTypes DEF Types, TableTypes
<1>3. override' \in Override \cup {None} /\ put' \in Put /\ raced' \subseteq RowNames
  <2>1. CASE f.kind = "delete_override" \/ SameRow(old, override)
    <3>1. override' \in Override \cup {None}
      <4>1. CASE f.kind = "delete_override"
            BY <1>2, <2>1, <4>1 DEF CommitOverride
      <4>2. CASE f.kind # "delete_override" /\ old = None
        <5>1. override' = OverrideForm(old, f)
              BY <2>1, <4>2 DEF CommitOverride
        <5> QED BY <1>2, <5>1, OverrideFormType DEF Types
      <4>3. CASE f.kind # "delete_override" /\ old # None
        <5>1. override' = Merged(override, old, OverrideForm(old, f))
              BY <2>1, <4>3 DEF CommitOverride
        <5>2. old \in Override /\ override \in Override
              BY <1>2, <2>1, <4>3, SameRowFacts
        <5> QED BY <1>2, <5>1, <5>2, OverrideFormType, MergedOverrideType DEF Types
      <4> QED BY <4>1, <4>2, <4>3
    <3>2. put' \in Put /\ raced' \subseteq RowNames
          BY <1>2, <2>1 DEF CommitOverride, MarkRaced, Types, HistoryTypes, Put, RowNames
    <3> QED BY <3>1, <3>2
  <2>2. CASE ~(f.kind = "delete_override" \/ SameRow(old, override))
        BY <1>2, <2>2 DEF CommitOverride, Types, HistoryTypes
  <2> QED BY <2>1, <2>2
<1>4. ClientTypes'
      BY ReturnsFacts DEF CommitOverride, Types
<1>5. TableTypes' /\ HistoryTypes'
      BY <1>3 DEF CommitOverride, Types, TableTypes, HistoryTypes
<1> QED BY <1>4, <1>5 DEF Types

LEMMA CommitVolumeTypes ==
  ASSUME Types, NEW c \in Clients, CommitVolume(c)
  PROVE  Types'
<1> DEFINE f == call[c]
           old == loaded[c].volume
<1>1. pc[c] # "idle"
      BY DEF CommitVolume, At
<1>2. /\ f \in Call /\ f.value \in Values
      /\ old \in Volume \cup {None} /\ volume \in Volume \cup {None}
      BY <1>1, CallOf, SeenTypes DEF Types, TableTypes
<1>3. volume' \in Volume \cup {None} /\ put' \in Put /\ raced' \subseteq RowNames
  <2>1. CASE f.kind = "delete_volume" \/ SameRow(old, volume)
    <3>1. volume' \in Volume \cup {None}
      <4>1. CASE f.kind = "delete_volume"
            BY <1>2, <2>1, <4>1 DEF CommitVolume
      <4>2. CASE f.kind # "delete_volume" /\ old = None
        <5>1. volume' = VolumeForm(old, f)
              BY <2>1, <4>2 DEF CommitVolume
        <5> QED BY <1>2, <5>1, VolumeFormType DEF Types
      <4>3. CASE f.kind # "delete_volume" /\ old # None
        <5>1. volume' = Merged(volume, old, VolumeForm(old, f))
              BY <2>1, <4>3 DEF CommitVolume
        <5>2. old \in Volume /\ volume \in Volume
              BY <1>2, <2>1, <4>3, SameRowFacts
        <5> QED BY <1>2, <5>1, <5>2, VolumeFormType, MergedVolumeType DEF Types
      <4> QED BY <4>1, <4>2, <4>3
    <3>2. put' \in Put
          BY <1>2, <2>1 DEF CommitVolume, Types, HistoryTypes, Put
    <3>3. raced' \subseteq RowNames
          BY <2>1 DEF CommitVolume, MarkRaced, Types, HistoryTypes, RowNames
    <3> QED BY <3>1, <3>2, <3>3
  <2>2. CASE ~(f.kind = "delete_volume" \/ SameRow(old, volume))
        BY <1>2, <2>2 DEF CommitVolume, Types, HistoryTypes
  <2> QED BY <2>1, <2>2
<1>4. ClientTypes'
      BY ReturnsFacts DEF CommitVolume, Types
<1>5. TableTypes' /\ HistoryTypes'
      BY <1>3 DEF CommitVolume, Types, TableTypes, HistoryTypes
<1> QED BY <1>4, <1>5 DEF Types

LEMMA LoadAccountTypes ==
  ASSUME Types, NEW c \in Clients, NEW f \in Calls, LoadAccount(c, f)
  PROVE  Types'
<1> DEFINE found == (f.kind = "create_user") = (users[f.user] # None)
<1>1. ClientTypes'
  <2>1. CASE found
        BY <2>1, AtOnceFacts DEF Types, LoadAccount
  <2>2. CASE ~found
    <3> DEFINE seen == [Nothing EXCEPT !.keys = Active(f.user)]
    <3>1. "commit" \in Places /\ seen \in Loaded
          BY NothingFacts DEF Types, Places, Active, Owned
    <3>2. Idle(c) /\ Opens(c, f, "commit", seen) /\ key' = key
          BY <2>2 DEF LoadAccount
    <3> HIDE DEF seen
    <3> QED BY <3>1, <3>2, OpensFacts DEF Types, ClientTypes
  <2> QED BY <2>1, <2>2
<1>2. TableTypes' /\ HistoryTypes'
      BY DEF LoadAccount, Types, TableTypes, HistoryTypes, tables, history
<1> QED BY <1>1, <1>2 DEF Types

LEMMA AfterNewKeyFacts ==
  ASSUME ClientTypes, NEW c \in Clients, pc[c] = "commit", NEW k \in Keys, AfterNewKey(c, k),
         UNCHANGED calls
  PROVE  /\ ClientTypes'
         /\ \A d \in Clients \ {c} : /\ pc'[d] = pc[d] /\ call'[d] = call[d]
                                     /\ loaded'[d] = loaded[d] /\ key'[d] = key[d]
         /\ \/ pc'[c] = "idle" /\ loaded'[c] = Nothing
            \/ pc'[c] = "fetch" /\ call'[c] = call[c] /\ loaded'[c] = loaded[c] /\ key'[c] = k
<1>1. CASE Returns(c)
      BY <1>1, ReturnsFacts
<1>2. CASE Goto(c, "fetch") /\ key' = [key EXCEPT ![c] = k] /\ UNCHANGED <<call, loaded>>
      BY <1>2 DEF ClientTypes, Goto, Places
<1> QED BY <1>1, <1>2 DEF AfterNewKey

LEMMA CreateUserTypes ==
  ASSUME Types, NEW c \in Clients, CreateUser(c)
  PROVE  Types'
<1> DEFINE u == call[c].user
<1>1. pc[c] = "commit"
      BY DEF CreateUser, At
<1>2. u \in Users /\ call[c].value \in Values
      BY <1>1, CallOf DEF Types
<1>3. NewUser(call[c].value) \in User
  <2>1. 0 \in Values /\ 1 \in Values
        BY DEF Values
  <2> QED BY <1>2, <2>1 DEF NewUser, User
<1>4. users' \in [Users -> User \cup {None}] /\ quotas' \in [Users -> Values]
      BY <1>2, <1>3 DEF CreateUser, Types, TableTypes
<1>5. keys' \in [Keys -> ApiKey \cup {None}] /\ ClientTypes'
  <2>1. CASE Returns(c) /\ UNCHANGED keys
        BY <2>1, ReturnsFacts DEF CreateUser, Types, TableTypes
  <2>2. CASE \E k \in Unused : /\ keys' = [keys EXCEPT ![k] = [owner |-> u, revoked |-> FALSE]]
                               /\ AfterNewKey(c, k)
    <3>1. PICK k \in Keys : /\ keys' = [keys EXCEPT ![k] = [owner |-> u, revoked |-> FALSE]]
                            /\ AfterNewKey(c, k)
          BY <2>2 DEF Unused
    <3>2. [owner |-> u, revoked |-> FALSE] \in ApiKey
          BY <1>2 DEF ApiKey
    <3>3. keys' \in [Keys -> ApiKey \cup {None}]
          BY <3>1, <3>2 DEF Types, TableTypes
    <3> QED BY <1>1, <3>1, <3>3, AfterNewKeyFacts DEF CreateUser, Types
  <2> QED BY <2>1, <2>2 DEF CreateUser
<1>6. TableTypes' /\ HistoryTypes'
      BY <1>4, <1>5 DEF CreateUser, Types, TableTypes, HistoryTypes, history
<1> QED BY <1>5, <1>6 DEF Types


LEMMA KeyFacts ==
  ASSUME Types, KeyInv, NEW c \in Clients
  PROVE  /\ loaded[c].keys \subseteq Keys /\ \A k \in loaded[c].keys : keys[k] # None
         /\ \A k \in Keys : keys[k] # None => keys[k] \in ApiKey
BY SeenTypes DEF Types, TableTypes, KeyInv, HolderOK, Given

(* A key that is made, and the keys that are revoked with it. *)
LEMMA CommitKeyFacts ==
  ASSUME Types, KeyInv, NEW c \in Clients, CommitKey(c)
  PROVE  /\ pc[c] = "commit" /\ call[c].kind \in {"add_key", "reset_key"}
         /\ keys' \in [Keys -> ApiKey \cup {None}] /\ KeysKept
         /\ \E k \in Keys :
              /\ keys'[k] # None /\ keys'[k].owner = call[c].user /\ AfterNewKey(c, k)
              /\ \A x \in Keys : x # k /\ keys'[x] # None => keys[x] # None
<1> DEFINE gone == IF call[c].kind = "reset_key" THEN loaded[c].keys ELSE {}
           row == [owner |-> call[c].user, revoked |-> FALSE]
           new(k, x) == IF x = k THEN row
                        ELSE IF x \in gone THEN [keys[x] EXCEPT !.revoked = TRUE] ELSE keys[x]
<1>1. pc[c] = "commit" /\ call[c].kind \in {"add_key", "reset_key"}
      BY DEF CommitKey, At
<1>2. row \in ApiKey /\ row # None /\ row.owner = call[c].user
  <2>1. call[c].user \in Users
        BY <1>1, CallOf DEF Types
  <2>2. row \in ApiKey
        BY <2>1 DEF ApiKey
  <2> QED BY <2>2, AccountsAssumption
<1>3. \A x \in gone : keys[x] \in ApiKey
      BY KeyFacts
<1>4. PICK k \in Keys : keys[k] = None /\ keys' = [x \in Keys |-> new(k, x)] /\ AfterNewKey(c, k)
      BY DEF CommitKey, Unused
<1>5. \A x \in gone : /\ [keys[x] EXCEPT !.revoked = TRUE] \in ApiKey
                      /\ [keys[x] EXCEPT !.revoked = TRUE].owner = keys[x].owner
      BY <1>3 DEF ApiKey
<1>6. \A x \in Keys :
        /\ x = k => keys'[x] = row
        /\ x # k => \/ keys'[x] = keys[x]
                    \/ keys[x] # None /\ keys'[x] \in ApiKey /\ keys'[x].owner = keys[x].owner
      BY <1>3, <1>4, <1>5, AccountsAssumption
<1> HIDE DEF gone, row, new
<1>7. keys' \in [Keys -> ApiKey \cup {None}]
  <2>1. keys' = [x \in Keys |-> keys'[x]]
        BY <1>4
  <2>2. \A x \in Keys : keys'[x] \in ApiKey \cup {None}
        BY <1>2, <1>6 DEF Types, TableTypes
  <2> QED BY <2>1, <2>2
<1>8. KeysKept
  <2>1. typed' = typed
        BY DEF CommitKey, history
  <2> QED BY <1>4, <1>6, <2>1, AccountsAssumption DEF KeysKept
<1> QED BY <1>1, <1>2, <1>4, <1>6, <1>7, <1>8

LEMMA CommitKeyTypes ==
  ASSUME Types, KeyInv, NEW c \in Clients, CommitKey(c)
  PROVE  Types'
<1>1. ClientTypes'
      BY CommitKeyFacts, AfterNewKeyFacts DEF Types, CommitKey
<1>2. TableTypes' /\ HistoryTypes'
      BY CommitKeyFacts DEF CommitKey, Types, TableTypes, HistoryTypes, history
<1> QED BY <1>1, <1>2 DEF Types

LEMMA RevokeKeyFacts ==
  ASSUME Types, NEW c \in Clients, NEW f \in Calls, RevokeKey(c, f)
  PROVE  /\ keys' \in [Keys -> ApiKey \cup {None}] /\ KeysKept
         /\ \A x \in Keys : keys'[x] # None => keys[x] # None
<1>1. PICK k \in Keys : keys[k] # None /\ keys' = [keys EXCEPT ![k].revoked = TRUE]
      BY DEF RevokeKey, Owned
<1>2. keys[k] \in ApiKey /\ keys \in [Keys -> ApiKey \cup {None}]
      BY <1>1 DEF Types, TableTypes
<1> DEFINE row == [keys[k] EXCEPT !.revoked = TRUE]
<1>3. row \in ApiKey /\ row.owner = keys[k].owner /\ row # None
      BY <1>2, AccountsAssumption DEF ApiKey
<1>4. keys' = [keys EXCEPT ![k] = row]
      BY <1>1, <1>2
<1>5. typed' = typed
      BY DEF RevokeKey, history
<1> HIDE DEF row
<1> QED BY <1>1, <1>2, <1>3, <1>4, <1>5 DEF KeysKept

LEMMA RevokeKeyTypes ==
  ASSUME Types, NEW c \in Clients, NEW f \in Calls, RevokeKey(c, f)
  PROVE  Types'
<1>1. ClientTypes'
      BY AtOnceFacts DEF RevokeKey, Types
<1>2. TableTypes' /\ HistoryTypes'
      BY RevokeKeyFacts DEF RevokeKey, Types, TableTypes, HistoryTypes, history
<1> QED BY <1>1, <1>2 DEF Types

(* A call that begins by reading or making a key *)
LEMMA SyncFacts ==
  ASSUME Types, NEW c \in Clients, NEW f \in Calls, SyncOpenwebui(c, f)
  PROVE  /\ ClientTypes' /\ OthersSame(c)
         /\ pc'[c] = "fetch" /\ call'[c] = f /\ loaded'[c] = Nothing
         /\ key'[c] \in Keys \cup {Stray} /\ (key'[c] # Stray => keys[key'[c]] # None)
         /\ typed' = typed \cup {<<f.user, key'[c]>>}
         /\ UNCHANGED <<tables, raced, put, posted, overtaken, served>>
<1>1. PICK k \in Keys \cup {Stray} :
        /\ k # Stray => keys[k] # None
        /\ Opens(c, f, "fetch", Nothing) /\ key' = [key EXCEPT ![c] = k]
        /\ typed' = typed \cup {<<f.user, k>>}
      BY DEF SyncOpenwebui, Unused
<1>2. key' \in [Clients -> Keys \cup {Stray, None}] /\ key'[c] = k
      /\ \A d \in Clients \ {c} : key'[d] = key[d]
      BY <1>1 DEF Types, ClientTypes
<1>3. "fetch" \in Places /\ Idle(c) /\ UNCHANGED <<tables, raced, put, posted, overtaken, served>>
      BY DEF SyncOpenwebui, Places
<1>4. Nothing \in Loaded
      BY NothingFacts
<1>5. /\ ClientTypes' /\ pc'[c] = "fetch" /\ call'[c] = f /\ loaded'[c] = Nothing
      /\ \A d \in Clients \ {c} : pc'[d] = pc[d] /\ call'[d] = call[d] /\ loaded'[d] = loaded[d]
      BY <1>1, <1>2, <1>3, <1>4, OpensFacts DEF Types
<1> QED BY <1>1, <1>2, <1>3, <1>5 DEF OthersSame, Same

LEMMA SyncTypes ==
  ASSUME Types, NEW c \in Clients, NEW f \in Calls, SyncOpenwebui(c, f)
  PROVE  Types'
<1>1. TableTypes'
      BY DEF SyncOpenwebui, Types, TableTypes, tables
<1>2. typed' \subseteq Users \X (Keys \cup {Stray})
      BY SyncFacts, CallFacts DEF Types, HistoryTypes
<1>3. HistoryTypes'
      BY <1>2, SyncFacts DEF Types, HistoryTypes
<1> QED BY <1>1, <1>3, SyncFacts DEF Types

LEMMA FetchFacts ==
  ASSUME Types, NEW c \in Clients, FetchValves(c)
  PROVE  /\ ClientTypes' /\ OthersSame(c) /\ pc[c] = "fetch"
         /\ \/ pc'[c] = "idle" /\ loaded'[c] = Nothing
            \/ pc'[c] = "post" /\ call'[c] = call[c] /\ key'[c] = key[c]
               /\ loaded'[c].valve = valve /\ loaded'[c].keys = loaded[c].keys
<1>1. pc[c] = "fetch" /\ calls' = calls
      BY DEF FetchValves
<1>2. CASE Returns(c)
      BY <1>1, <1>2, ReturnsFacts DEF Types, OthersSame, Same
<1>3. CASE loaded' = [loaded EXCEPT ![c].valve = valve] /\ Goto(c, "post") /\ UNCHANGED <<call, key>>
  <2> DEFINE seen == [loaded[c] EXCEPT !.valve = valve]
  <2>1. loaded[c] \in Loaded /\ valve \in KeyMap
        BY DEF Types, TableTypes, ClientTypes
  <2>2. seen \in Loaded /\ seen.valve = valve /\ seen.keys = loaded[c].keys
        BY <2>1 DEF Loaded
  <2>3. loaded' = [loaded EXCEPT ![c] = seen]
        BY <1>3 DEF Types, ClientTypes
  <2> HIDE DEF seen
  <2>4. loaded' \in [Clients -> Loaded] /\ loaded'[c] = seen
        /\ \A d \in Clients \ {c} : loaded'[d] = loaded[d]
        BY <2>2, <2>3 DEF Types, ClientTypes
  <2>5. "post" \in Places /\ key' \in [Clients -> Keys \cup {Stray, None}]
        BY <1>3 DEF Places, Types, ClientTypes
  <2>6. ClientTypes' /\ pc'[c] = "post" /\ \A d \in Clients \ {c} : pc'[d] = pc[d]
        BY <1>1, <1>3, <2>4, <2>5, MovesFacts DEF Types
  <2> QED BY <1>1, <1>3, <2>2, <2>4, <2>6 DEF OthersSame, Same
<1> QED BY <1>2, <1>3 DEF FetchValves

LEMMA FetchTypes ==
  ASSUME Types, NEW c \in Clients, FetchValves(c)
  PROVE  Types'
<1>1. TableTypes' /\ HistoryTypes'
      BY DEF FetchValves, Types, TableTypes, HistoryTypes, tables, history
<1> QED BY <1>1, FetchFacts DEF Types

LEMMA PostTypes ==
  ASSUME Types, NEW c \in Clients, PostValves(c)
  PROVE  Types'
<1> DEFINE u == call[c].user
<1>1. /\ pc[c] = "post" /\ u \in Users /\ key[c] \in Keys \cup {Stray, None}
      /\ loaded[c].valve \in KeyMap
      BY CallOf, SeenTypes DEF PostValves, Types, ClientTypes
<1>2. [loaded[c].valve EXCEPT ![u] = key[c]] \in KeyMap /\ [posted EXCEPT ![u] = key[c]] \in KeyMap
      BY <1>1 DEF KeyMap, Types, HistoryTypes
<1>3. valve' \in KeyMap /\ posted' \in KeyMap
      BY <1>2 DEF PostValves, Types, TableTypes, HistoryTypes
<1>4. overtaken' \subseteq Users
      BY <1>1 DEF PostValves, Overtakes, Types, HistoryTypes
<1>5. ClientTypes'
      BY ReturnsFacts DEF PostValves, Types
<1>6. TableTypes' /\ HistoryTypes'
      BY <1>3, <1>4 DEF PostValves, Types, TableTypes, HistoryTypes
<1> QED BY <1>5, <1>6 DEF Types

LEMMA LoginTypes ==
  ASSUME Types, NEW c \in Clients, NEW f \in Calls, Login(c, f)
  PROVE  Types'
<1>1. ClientTypes'
      BY AtOnceFacts DEF Login, Types
<1>2. TableTypes' /\ HistoryTypes'
      BY CallFacts DEF Login, Types, TableTypes, HistoryTypes, history
<1> QED BY <1>1, <1>2 DEF Types

LEMMA JwtTypes ==
  ASSUME Types, NEW c \in Clients, NEW f \in Calls, JwtRequest(c, f)
  PROVE  Types'
<1>1. ClientTypes'
      BY AtOnceFacts DEF JwtRequest, Types
<1> DEFINE b == [user |-> f.user, as |-> f.user, entry |-> None]
<1>10. b \in Served
      BY CallFacts DEF Served
<1>11. served' = served \/ served' = served \cup {b}
      BY DEF JwtRequest, Admits
<1>2. served' \subseteq Served
      BY <1>10, <1>11 DEF Types, HistoryTypes
<1>3. TableTypes' /\ HistoryTypes'
      BY <1>2 DEF JwtRequest, Types, TableTypes, HistoryTypes, tables
<1> QED BY <1>1, <1>3 DEF Types

LEMMA ChatFacts ==
  ASSUME Types, NEW c \in Clients, NEW f \in Calls, Chat(c, f)
  PROVE  /\ ClientTypes' /\ OthersSame(c)
         /\ pc'[c] = "lookup" /\ call'[c] = f /\ loaded'[c].valve = valve /\ loaded'[c].keys = {}
         /\ valve[f.user] # None => key'[c] = valve[f.user]
<1> DEFINE k == ResolveKey(f.user)
           seen == [Nothing EXCEPT !.valve = valve]
<1>1. f.user \in Users /\ valve \in KeyMap
      BY CallFacts DEF Types, TableTypes
<1>2. k \in Keys \cup {Stray} /\ (valve[f.user] # None => k = valve[f.user])
      BY <1>1, AccountsAssumption DEF ResolveKey, KeyMap
<1>3. seen \in Loaded /\ seen.valve = valve /\ seen.keys = {} /\ "lookup" \in Places
      BY <1>1, NothingFacts DEF Nothing, Places
<1>4. Idle(c) /\ Opens(c, f, "lookup", seen) /\ key' = [key EXCEPT ![c] = k]
      BY DEF Chat
<1> HIDE DEF k, seen
<1>5. key' \in [Clients -> Keys \cup {Stray, None}] /\ key'[c] = k
      /\ \A d \in Clients \ {c} : key'[d] = key[d]
      BY <1>2, <1>4 DEF Types, ClientTypes
<1> QED BY <1>2, <1>3, <1>4, <1>5, OpensFacts DEF Types, OthersSame, Same

LEMMA ChatTypes ==
  ASSUME Types, NEW c \in Clients, NEW f \in Calls, Chat(c, f)
  PROVE  Types'
<1>1. TableTypes' /\ HistoryTypes'
      BY DEF Chat, Types, TableTypes, HistoryTypes, tables, history
<1> QED BY <1>1, ChatFacts DEF Types

LEMMA LookupTypes ==
  ASSUME Types, NEW c \in Clients, LookupApiKey(c)
  PROVE  Types'
<1> DEFINE k == key[c]
           u == call[c].user
           b == [user |-> u, as |-> keys[k].owner, entry |-> loaded[c].valve[u]]
<1>1. u \in Users /\ loaded[c].valve \in KeyMap
      BY CallOf, SeenTypes DEF LookupApiKey, Types
<1>2. k \in Keys \ Unused => b \in Served
  <2>1. k \in Keys \ Unused => keys[k].owner \in Users
        BY DEF Unused, Types, TableTypes, ApiKey
  <2> QED BY <1>1, <2>1 DEF Served, KeyMap
<1>3. served' = served \/ (k \in Keys \ Unused /\ served' = served \cup {b})
      BY DEF LookupApiKey, Admits
<1>4. served' \subseteq Served
      BY <1>2, <1>3 DEF Types, HistoryTypes
<1>5. ClientTypes'
      BY ReturnsFacts DEF LookupApiKey, Types
<1>6. TableTypes' /\ HistoryTypes'
      BY <1>4 DEF LookupApiKey, Types, TableTypes, HistoryTypes, tables
<1> QED BY <1>5, <1>6 DEF Types

-----------------------------------------------------------------------------
(***************************************************************************)
(* Each part of the invariant is kept by a step of c that leaves alone the  *)
(* tables of the part, and whose call is not, or remains, one of its calls. *)
(***************************************************************************)

(* A client that is not between the load and the commit of a form. *)
LEMMA QuietFacts ==
  ASSUME NEW c \in Clients, pc'[c] \in {"idle", "fetch", "post", "lookup"}
  PROVE  FormOK(c)' /\ OverrideSeen(c)' /\ VolumeSeen(c)' /\ (pc'[c] # "post" => ValveSeen(c)')
BY DEF FormOK, OverrideSeen, VolumeSeen, ValveSeen, Forms, Overrides, Volumes, Within

LEMMA FormKept ==
  ASSUME NEW d \in Clients, FormOK(d), Same(d), UNCHANGED <<users, quotas>>, raced \subseteq raced'
  PROVE  FormOK(d)'
BY DEF FormOK, Forms, Budgets, Within, Same

LEMMA SeenKept ==
  ASSUME NEW d \in Clients, Same(d)
  PROVE  /\ OverrideSeen(d) /\ UNCHANGED override => OverrideSeen(d)'
         /\ VolumeSeen(d) /\ UNCHANGED volume => VolumeSeen(d)'
         /\ ValveSeen(d) /\ UNCHANGED <<posted, overtaken>> => ValveSeen(d)'
BY DEF OverrideSeen, VolumeSeen, ValveSeen, Overrides, Volumes, Within, Same, Blank

LEMMA BudgetKept ==
  ASSUME BudgetInv, NEW c \in Clients, OthersSame(c), Same(c) \/ FormOK(c)',
         UNCHANGED <<users, quotas>>, raced \subseteq raced'
  PROVE  BudgetInv'
<1>1. BudgetsAgree'
      BY DEF BudgetInv, BudgetsAgree
<1>2. \A d \in Clients : FormOK(d)'
      BY FormKept DEF BudgetInv, OthersSame
<1> QED BY <1>1, <1>2 DEF BudgetInv

LEMMA OverrideKept ==
  ASSUME OverrideInv, NEW c \in Clients, OthersSame(c), Same(c) \/ OverrideSeen(c)',
         UNCHANGED override, put'.override = put.override, raced \subseteq raced'
  PROVE  OverrideInv'
<1> SUFFICES ASSUME "override" \notin raced'
             PROVE  OverrideIs(put.override)' /\ \A d \in Clients : OverrideSeen(d)'
    BY DEF OverrideInv
<1>1. OverrideIs(put.override)'
      BY DEF OverrideInv, OverrideIs
<1>2. \A d \in Clients : OverrideSeen(d)'
      BY SeenKept DEF OverrideInv, OthersSame
<1> QED BY <1>1, <1>2

LEMMA VolumeKept ==
  ASSUME VolumeInv, NEW c \in Clients, OthersSame(c), Same(c) \/ "volume" \in raced' \/ VolumeSeen(c)',
         UNCHANGED volume, put'.volume = put.volume, put'.secret = put.secret, raced \subseteq raced'
  PROVE  VolumeInv'
<1> SUFFICES ASSUME "volume" \notin raced'
             PROVE  VolumeIs(put.volume, put.secret)' /\ \A d \in Clients : VolumeSeen(d)'
    BY DEF VolumeInv
<1>1. VolumeIs(put.volume, put.secret)'
      BY DEF VolumeInv, VolumeIs
<1>2. \A d \in Clients : VolumeSeen(d)'
      BY SeenKept DEF VolumeInv, OthersSame
<1> QED BY <1>1, <1>2

LEMMA SentKept ==
  ASSUME KeysKept, NEW k \in Keys \cup {Stray}, NEW u, Sent(k, u)
  PROVE  k = Stray \/ (keys'[k] # None /\ (keys'[k].owner = u \/ <<u, k>> \in typed'))
BY DEF KeysKept, Sent, Given

LEMMA MapKept ==
  ASSUME KeysKept, NEW m \in KeyMap, MapOK(m)
  PROVE  \A u \in Users : m[u] # None =>
           \/ m[u] = Stray
           \/ keys'[m[u]] # None /\ (keys'[m[u]].owner = u \/ <<u, m[u]>> \in typed')
<1> SUFFICES ASSUME NEW u \in Users, m[u] # None
             PROVE  \/ m[u] = Stray
                    \/ keys'[m[u]] # None /\ (keys'[m[u]].owner = u \/ <<u, m[u]>> \in typed')
    OBVIOUS
<1>1. m[u] \in Keys \cup {Stray} /\ Sent(m[u], u)
      BY DEF KeyMap, MapOK
<1> QED BY <1>1, SentKept

LEMMA HolderKept ==
  ASSUME Types, NEW d \in Clients, HolderOK(d), Same(d), UsersKept, KeysKept
  PROVE  HolderOK(d)'
<1>1. loaded[d].valve \in KeyMap /\ loaded[d].keys \subseteq Keys /\ key[d] \in Keys \cup {Stray, None}
      BY SeenTypes DEF Types, ClientTypes
<1>2. MapOK(loaded[d].valve)'
  <2>1. MapOK(loaded[d].valve)
        BY DEF HolderOK
  <2> QED BY <1>1, <2>1, MapKept DEF Same, MapOK, Sent, Given
<1>3. \A k \in loaded'[d].keys : keys'[k] # None
      BY <1>1 DEF HolderOK, Same, KeysKept, Given
<1>4. ASSUME pc[d] # "idle"
      PROVE  Within(d, {"commit"}, {"add_key", "reset_key"}) => users'[call[d].user] # None
  <2>1. call[d].user \in Users
        BY <1>4, CallOf DEF Types
  <2> QED BY <2>1 DEF HolderOK, UsersKept
<1>5. Within(d, {"commit"}, {"add_key", "reset_key"})' => users'[call'[d].user] # None
      BY <1>4 DEF Within, Same
<1>6. pc[d] \in {"fetch", "post"} => key[d] # None /\ Sent(key[d], call[d].user)
      BY DEF HolderOK
<1>7. pc[d] \in {"fetch", "post"} => key'[d] # None /\ Sent(key[d], call[d].user)'
      BY <1>1, <1>6, SentKept DEF Same, Sent, Given
<1>8. pc[d] = "lookup" =>
        (loaded[d].valve[call[d].user] # None => key[d] = loaded[d].valve[call[d].user])
      BY DEF HolderOK
<1> QED BY <1>2, <1>3, <1>5, <1>7, <1>8 DEF HolderOK, Same, Given

LEMMA HolderDone ==
  ASSUME NEW c \in Clients, pc'[c] = "idle", loaded'[c] = Nothing
  PROVE  HolderOK(c)'
BY DEF HolderOK, Within, Nothing, MapOK

LEMMA KeyKept ==
  ASSUME Types, KeyInv, NEW c \in Clients, OthersSame(c), HolderOK(c)',
         UNCHANGED <<keys, valve, served>>, UsersKept, typed \subseteq typed'
  PROVE  KeyInv'
<1>1. KeysKept
      BY DEF KeysKept
<1>2. \A d \in Clients : HolderOK(d)'
      BY <1>1, HolderKept DEF KeyInv, OthersSame
<1>3. \A k \in Keys : Given(k)' => users'[keys'[k].owner] # None
  <2> SUFFICES ASSUME NEW k \in Keys, keys[k] # None PROVE users'[keys[k].owner] # None
      BY DEF Given
  <2>1. keys[k].owner \in Users
        BY KeyFacts DEF ApiKey, Types, TableTypes
  <2> QED BY <2>1 DEF KeyInv, Given, UsersKept
<1>4. MapOK(valve)'
  <2>1. valve \in KeyMap /\ MapOK(valve)
        BY DEF Types, TableTypes, KeyInv
  <2> QED BY <1>1, <2>1, MapKept DEF MapOK, Sent, Given
<1>5. (\A b \in served : Billed(b))'
      BY DEF KeyInv, Billed
<1> QED BY <1>2, <1>3, <1>4, <1>5 DEF KeyInv

LEMMA SyncKept ==
  ASSUME SyncInv, NEW c \in Clients, OthersSame(c), Same(c) \/ ValveSeen(c)',
         UNCHANGED <<valve, posted, overtaken>>
  PROVE  SyncInv'
<1>1. \A d \in Clients : ValveSeen(d)'
      BY SeenKept DEF SyncInv, OthersSame
<1> QED BY <1>1 DEF SyncInv

LEMMA TokenKept ==
  ASSUME Types, TokenInv, UNCHANGED tokens, UsersKept
  PROVE  TokenInv'
BY DEF TokenInv, UsersKept, Types, TableTypes

-----------------------------------------------------------------------------
(***************************************************************************)
(* Calls that only read                                                     *)
(***************************************************************************)
LEMMA TypingStep ==
  ASSUME AccountsInv, Types', NEW c \in Clients, OthersSame(c),
         UNCHANGED <<tables, raced, put, posted, overtaken, served>>, typed \subseteq typed',
         Same(c) \/ (FormOK(c)' /\ OverrideSeen(c)' /\ ("volume" \in raced \/ VolumeSeen(c)')
                     /\ ValveSeen(c)'),
         HolderOK(c)'
  PROVE  AccountsInv'
<1>1. UNCHANGED <<users, quotas, override, volume, keys, valve, tokens, raced, put, posted,
                  overtaken, served>>
      /\ UsersKept
      BY DEF tables, UsersKept
<1>2. BudgetInv' /\ OverrideInv' /\ VolumeInv'
      BY <1>1, BudgetKept, OverrideKept, VolumeKept DEF AccountsInv
<1>3. KeyInv' /\ SyncInv' /\ TokenInv'
      BY <1>1, KeyKept, SyncKept, TokenKept DEF AccountsInv
<1> QED BY <1>2, <1>3 DEF AccountsInv

LEMMA ReadingStep ==
  ASSUME AccountsInv, Types', NEW c \in Clients, OthersSame(c), UNCHANGED <<tables, history>>,
         Same(c) \/ (FormOK(c)' /\ OverrideSeen(c)' /\ ("volume" \in raced \/ VolumeSeen(c)')
                     /\ ValveSeen(c)'),
         HolderOK(c)'
  PROVE  AccountsInv'
BY TypingStep DEF history

LEMMA AtOnceSame ==
  ASSUME NEW c \in Clients, ReturnsAtOnce
  PROVE  \A d \in Clients : Same(d)
BY DEF ReturnsAtOnce, Same, clientVars

(* A call that ends at once, and changes nothing. *)
LEMMA AtOnceStep ==
  ASSUME AccountsInv, Types', NEW c \in Clients, ReturnsAtOnce, UNCHANGED <<tables, history>>
  PROVE  AccountsInv'
<1>1. OthersSame(c) /\ Same(c)
      BY AtOnceSame DEF OthersSame
<1>2. UsersKept /\ KeysKept
      BY DEF UsersKept, KeysKept, tables, history
<1>3. HolderOK(c)'
      BY <1>1, <1>2, HolderKept DEF AccountsInv, KeyInv
<1> QED BY <1>1, <1>3, ReadingStep

(* A call that begins, with one row read and no key. *)
LEMMA OpensSame ==
  ASSUME Types, NEW c \in Clients, NEW f \in Calls, NEW loc, NEW seen, Opens(c, f, loc, seen),
         UNCHANGED key
  PROVE  OthersSame(c) /\ pc'[c] = loc /\ call'[c] = f /\ loaded'[c] = seen
BY DEF Opens, OthersSame, Same, Types, ClientTypes

LEMMA OpensHolder ==
  ASSUME NEW c \in Clients, pc'[c] \in {"reload", "commit"},
         call'[c].kind \notin {"add_key", "reset_key"},
         MapOK(loaded[c].valve)', loaded'[c].keys = {}
  PROVE  HolderOK(c)'
BY DEF HolderOK, Within

LEMMA NothingRead ==
  /\ \A u : /\ [Nothing EXCEPT !.page = u, !.user = u].user = u
            /\ [Nothing EXCEPT !.page = u, !.user = u].page = u
            /\ [Nothing EXCEPT !.page = u, !.user = u].keys = {}
            /\ MapOK([Nothing EXCEPT !.page = u, !.user = u].valve)'
  /\ \A o : [Nothing EXCEPT !.override = o].override = o /\ [Nothing EXCEPT !.override = o].keys = {}
            /\ MapOK([Nothing EXCEPT !.override = o].valve)'
  /\ \A v : [Nothing EXCEPT !.volume = v].volume = v /\ [Nothing EXCEPT !.volume = v].keys = {}
            /\ MapOK([Nothing EXCEPT !.volume = v].valve)'
  /\ \A S : [Nothing EXCEPT !.keys = S].keys = S /\ MapOK([Nothing EXCEPT !.keys = S].valve)'
BY DEF Nothing, MapOK

LEMMA LoadUserStep ==
  ASSUME AccountsInv, Types', NEW c \in Clients, NEW f \in Calls, LoadUser(c, f)
  PROVE  AccountsInv'
<1>1. f.kind \in UserForms \cup BudgetForms /\ UNCHANGED <<tables, history>>
      BY DEF LoadUser
<1>2. CASE users[f.user] = None
      BY <1>1, <1>2, AtOnceStep DEF LoadUser
<1>3. CASE users[f.user] # None
  <2> DEFINE loc == IF f.kind \in BudgetForms \cup PreferForms THEN "reload" ELSE "commit"
             seen == [Nothing EXCEPT !.page = users[f.user], !.user = users[f.user]]
  <2>1. Opens(c, f, loc, seen) /\ key' = key
        BY <1>3 DEF LoadUser
  <2>2. OthersSame(c) /\ pc'[c] = loc /\ call'[c] = f /\ loaded'[c] = seen
        BY <2>1, OpensSame DEF AccountsInv
  <2>3. users' = users /\ loaded'[c].user = users[f.user] /\ loaded'[c].page = users[f.user]
        /\ loaded'[c].keys = {}
        /\ MapOK(loaded[c].valve)'
        BY <1>1, <2>2, NothingRead DEF tables
  <2>4. FormOK(c)'
        BY <1>3, <2>2, <2>3 DEF FormOK, Forms, Budgets, Within
  <2>5. OverrideSeen(c)' /\ VolumeSeen(c)' /\ ValveSeen(c)'
        BY <1>1, <2>2 DEF OverrideSeen, VolumeSeen, ValveSeen, Overrides, Volumes, Within,
                          UserForms, PreferForms, BudgetForms, OverrideCalls, VolumeCalls
  <2>6. HolderOK(c)'
        BY <1>1, <2>2, <2>3, OpensHolder DEF UserForms, PreferForms, BudgetForms
  <2> QED BY <1>1, <2>2, <2>4, <2>5, <2>6, ReadingStep
<1> QED BY <1>2, <1>3

LEMMA LoadOverrideStep ==
  ASSUME AccountsInv, Types', NEW c \in Clients, NEW f \in Calls, LoadOverride(c, f)
  PROVE  AccountsInv'
<1>1. f.kind \in OverrideCalls /\ UNCHANGED <<tables, history>>
      BY DEF LoadOverride
<1>2. CASE f.kind = "delete_override" /\ override = None
      BY <1>1, <1>2, AtOnceStep DEF LoadOverride
<1>3. CASE ~(f.kind = "delete_override" /\ override = None)
  <2> DEFINE seen == [Nothing EXCEPT !.override = override]
  <2>1. Opens(c, f, "commit", seen) /\ key' = key
        BY <1>3 DEF LoadOverride
  <2>2. OthersSame(c) /\ pc'[c] = "commit" /\ call'[c] = f /\ loaded'[c] = seen
        BY <2>1, OpensSame DEF AccountsInv
  <2>3. override' = override /\ loaded'[c].override = override /\ loaded'[c].keys = {}
        /\ MapOK(loaded[c].valve)'
        BY <1>1, <2>2, NothingRead DEF tables
  <2>4. FormOK(c)'
        BY <1>1, <2>2 DEF FormOK, Forms, Within, UserForms, PreferForms, BudgetForms, OverrideCalls
  <2>5. OverrideSeen(c)' /\ VolumeSeen(c)' /\ ValveSeen(c)'
        BY <1>1, <2>2, <2>3 DEF OverrideSeen, VolumeSeen, ValveSeen, Volumes, Within,
                                OverrideCalls, VolumeCalls
  <2>6. HolderOK(c)'
        BY <1>1, <2>2, <2>3, OpensHolder DEF OverrideCalls
  <2> QED BY <1>1, <2>2, <2>4, <2>5, <2>6, ReadingStep
<1> QED BY <1>2, <1>3

LEMMA LoadVolumeStep ==
  ASSUME AccountsInv, Types', NEW c \in Clients, NEW f \in Calls, LoadVolume(c, f)
  PROVE  AccountsInv'
<1> DEFINE none == volume = None /\ (f.kind = "delete_volume" \/ (f.kind = "volume_page" /\ f.choice))
<1>1. f.kind \in VolumeCalls /\ UNCHANGED <<tables, history>>
      BY DEF LoadVolume
<1>2. CASE none
      BY <1>1, <1>2, AtOnceStep DEF LoadVolume
<1>3. CASE ~none
  <2> DEFINE loc == IF f.kind = "volume_page" THEN "reload" ELSE "commit"
             seen == [Nothing EXCEPT !.volume = volume]
  <2>1. Opens(c, f, loc, seen) /\ key' = key
        BY <1>3 DEF LoadVolume
  <2>2. OthersSame(c) /\ pc'[c] = loc /\ call'[c] = f /\ loaded'[c] = seen
        BY <2>1, OpensSame DEF AccountsInv
  <2>3. volume' = volume /\ loaded'[c].volume = volume /\ loaded'[c].keys = {}
        /\ MapOK(loaded[c].valve)'
        BY <1>1, <2>2, NothingRead DEF tables
  <2>4. FormOK(c)'
        BY <1>1, <2>2 DEF FormOK, Forms, Within, UserForms, PreferForms, BudgetForms, VolumeCalls
  <2>5. OverrideSeen(c)' /\ ValveSeen(c)'
        BY <1>1, <2>2 DEF OverrideSeen, ValveSeen, Overrides, Within, OverrideCalls, VolumeCalls
  <2>6. VolumeSeen(c)'
        BY <1>3, <2>2, <2>3 DEF VolumeSeen, Blank
  <2>7. HolderOK(c)'
        BY <1>1, <2>2, <2>3, OpensHolder DEF VolumeCalls
  <2> QED BY <1>1, <2>2, <2>4, <2>5, <2>6, <2>7, ReadingStep
<1> QED BY <1>2, <1>3

LEMMA LoadAccountStep ==
  ASSUME AccountsInv, Types', NEW c \in Clients, NEW f \in Calls, LoadAccount(c, f)
  PROVE  AccountsInv'
<1> DEFINE found == (f.kind = "create_user") = (users[f.user] # None)
<1>1. f.kind \in {"create_user", "add_key", "reset_key"} /\ UNCHANGED <<tables, history>>
      BY DEF LoadAccount
<1>2. CASE found
      BY <1>1, <1>2, AtOnceStep DEF LoadAccount
<1>3. CASE ~found
  <2> DEFINE seen == [Nothing EXCEPT !.keys = Active(f.user)]
  <2>1. Opens(c, f, "commit", seen) /\ key' = key
        BY <1>3 DEF LoadAccount
  <2>2. OthersSame(c) /\ pc'[c] = "commit" /\ call'[c] = f /\ loaded'[c] = seen
        BY <2>1, OpensSame DEF AccountsInv
  <2>3. users' = users /\ keys' = keys /\ loaded'[c].keys = Active(f.user)
        /\ MapOK(loaded[c].valve)'
        BY <1>1, <2>2, NothingRead DEF tables
  <2>4. FormOK(c)' /\ OverrideSeen(c)' /\ VolumeSeen(c)' /\ ValveSeen(c)'
        BY <1>1, <2>2 DEF FormOK, Forms, OverrideSeen, VolumeSeen, ValveSeen, Overrides, Volumes,
                          Within, UserForms, PreferForms, BudgetForms, OverrideCalls, VolumeCalls
  <2>5. HolderOK(c)'
    <3>1. \A k \in Active(f.user) : keys[k] # None
          BY DEF Active, Owned
    <3>2. f.kind # "create_user" => users[f.user] # None
          BY <1>3
    <3> QED BY <1>1, <2>2, <2>3, <3>1, <3>2 DEF HolderOK, Within, Given
  <2> QED BY <1>1, <2>2, <2>4, <2>5, ReadingStep
<1> QED BY <1>2, <1>3

(* A step that reads one more row *)
LEMMA MoreSame ==
  ASSUME ClientTypes, NEW c \in Clients, Goto(c, "commit"), NEW seen,
         loaded' = [loaded EXCEPT ![c] = seen], UNCHANGED <<call, key>>
  PROVE  OthersSame(c) /\ pc'[c] = "commit" /\ loaded'[c] = seen /\ call'[c] = call[c]
BY DEF Goto, OthersSame, Same, ClientTypes

LEMMA ReloadUserStep ==
  ASSUME AccountsInv, Types', NEW c \in Clients, ReloadUser(c)
  PROVE  AccountsInv'
<1> DEFINE u == call[c].user
           seen == [loaded[c] EXCEPT !.user = users[u]]
<1>1. /\ pc[c] = "reload" /\ call[c].kind \in PreferForms /\ UNCHANGED <<tables, history>>
      /\ call[c].kind \notin BudgetForms
      BY DEF ReloadUser, At, PreferForms, BudgetForms
<1>2. loaded[c] \in Loaded /\ loaded' = [loaded EXCEPT ![c] = seen]
      BY DEF ReloadUser, AccountsInv, Types, ClientTypes
<1>3. seen.user = users[u] /\ seen.page = loaded[c].page /\ seen.keys = loaded[c].keys
      /\ seen.valve = loaded[c].valve
      BY <1>2 DEF Loaded
<1> HIDE DEF seen
<1>4. OthersSame(c) /\ pc'[c] = "commit" /\ loaded'[c] = seen /\ call'[c] = call[c]
      BY <1>2, MoreSame DEF ReloadUser, AccountsInv, Types
<1>5. FormOK(c)'
  <2>1. FormOK(c)
        BY DEF AccountsInv, BudgetInv
  <2>2. users[u] # None /\ loaded[c].page # None
        BY <1>1, <2>1 DEF FormOK, Forms, Within, UserForms
  <2>3. users' = users
        BY <1>1 DEF tables
  <2> QED BY <1>1, <1>3, <1>4, <2>2, <2>3 DEF FormOK, Forms, Budgets, Within
<1>6. OverrideSeen(c)' /\ VolumeSeen(c)' /\ ValveSeen(c)'
      BY <1>1, <1>4 DEF OverrideSeen, VolumeSeen, ValveSeen, Overrides, Volumes, Within,
                        PreferForms, OverrideCalls, VolumeCalls
<1>7. HolderOK(c)'
  <2>1. keys' = keys /\ typed' = typed /\ HolderOK(c)
        BY <1>1 DEF tables, history, AccountsInv, KeyInv
  <2> QED BY <1>1, <1>3, <1>4, <2>1 DEF HolderOK, Within, PreferForms, MapOK, Sent, Given
<1> QED BY <1>1, <1>4, <1>5, <1>6, <1>7, ReadingStep

LEMMA LoadQuotaStep ==
  ASSUME AccountsInv, Types', NEW c \in Clients, LoadQuota(c)
  PROVE  AccountsInv'
<1> DEFINE u == call[c].user
           seen == [loaded[c] EXCEPT !.quota = quotas[u]]
<1>1. pc[c] = "reload" /\ call[c].kind \in BudgetForms /\ UNCHANGED <<tables, history>>
      BY DEF LoadQuota, At
<1>2. loaded[c] \in Loaded /\ loaded' = [loaded EXCEPT ![c] = seen]
      BY DEF LoadQuota, AccountsInv, Types, ClientTypes
<1>3. seen.quota = quotas[u] /\ seen.user = loaded[c].user /\ seen.page = loaded[c].page
      /\ seen.keys = loaded[c].keys
      /\ seen.valve = loaded[c].valve
      BY <1>2 DEF Loaded
<1> HIDE DEF seen
<1>4. OthersSame(c) /\ pc'[c] = "commit" /\ loaded'[c] = seen /\ call'[c] = call[c]
      BY <1>2, MoreSame DEF LoadQuota, AccountsInv, Types
<1>5. FormOK(c)'
  <2>1. FormOK(c)
        BY DEF AccountsInv, BudgetInv
  <2>2. users' = users /\ quotas' = quotas /\ raced' = raced
        BY <1>1 DEF tables, history
  <2> QED BY <1>1, <1>3, <1>4, <2>1, <2>2 DEF FormOK, Forms, Budgets, Within
<1>6. OverrideSeen(c)' /\ VolumeSeen(c)' /\ ValveSeen(c)'
      BY <1>1, <1>4 DEF OverrideSeen, VolumeSeen, ValveSeen, Overrides, Volumes, Within,
                        BudgetForms, OverrideCalls, VolumeCalls
<1>7. HolderOK(c)'
  <2>1. keys' = keys /\ typed' = typed /\ HolderOK(c)
        BY <1>1 DEF tables, history, AccountsInv, KeyInv
  <2> QED BY <1>1, <1>3, <1>4, <2>1 DEF HolderOK, Within, BudgetForms, MapOK, Sent, Given
<1> QED BY <1>1, <1>4, <1>5, <1>6, <1>7, ReadingStep

LEMMA ReloadVolumeStep ==
  ASSUME AccountsInv, Types', NEW c \in Clients, ReloadVolume(c)
  PROVE  AccountsInv'
<1> DEFINE seen == [loaded[c] EXCEPT !.volume = volume]
<1>1. pc[c] = "reload" /\ call[c].kind = "volume_page" /\ UNCHANGED <<tables, history>>
      BY DEF ReloadVolume, At
<1>2. loaded[c] \in Loaded /\ loaded' = [loaded EXCEPT ![c] = seen]
      BY DEF ReloadVolume, AccountsInv, Types, ClientTypes
<1>3. seen.volume = volume /\ seen.keys = loaded[c].keys /\ seen.valve = loaded[c].valve
      BY <1>2 DEF Loaded
<1> HIDE DEF seen
<1>4. OthersSame(c) /\ pc'[c] = "commit" /\ loaded'[c] = seen /\ call'[c] = call[c]
      BY <1>2, MoreSame DEF ReloadVolume, AccountsInv, Types
<1>5. FormOK(c)' /\ OverrideSeen(c)' /\ ValveSeen(c)'
      BY <1>1, <1>4 DEF FormOK, Forms, OverrideSeen, ValveSeen, Overrides, Within,
                        UserForms, PreferForms, BudgetForms, OverrideCalls
<1>6. volume' = volume /\ raced' = raced
      BY <1>1 DEF tables, history
<1>7. "volume" \notin raced => VolumeSeen(c)'
  <2>1. "volume" \notin raced => VolumeSeen(c)
        BY DEF AccountsInv, VolumeInv
  <2> QED BY <1>1, <1>3, <1>4, <1>6, <2>1 DEF VolumeSeen, Volumes, Within, VolumeCalls
<1>8. HolderOK(c)'
  <2>1. keys' = keys /\ typed' = typed /\ HolderOK(c)
        BY <1>1 DEF tables, history, AccountsInv, KeyInv
  <2> QED BY <1>1, <1>3, <1>4, <2>1 DEF HolderOK, Within, MapOK, Sent, Given
<1> QED BY <1>1, <1>4, <1>5, <1>6, <1>7, <1>8, ReadingStep

LEMMA SyncStep ==
  ASSUME AccountsInv, Types', NEW c \in Clients, NEW f \in Calls, SyncOpenwebui(c, f)
  PROVE  AccountsInv'
<1>1. /\ OthersSame(c) /\ UNCHANGED <<tables, raced, put, posted, overtaken, served>>
      /\ pc'[c] = "fetch" /\ call'[c] = f /\ loaded'[c] = Nothing
      /\ key'[c] \in Keys \cup {Stray} /\ (key'[c] # Stray => keys[key'[c]] # None)
      /\ typed' = typed \cup {<<f.user, key'[c]>>}
      BY SyncFacts DEF AccountsInv
<1>2. FormOK(c)' /\ OverrideSeen(c)' /\ VolumeSeen(c)' /\ ValveSeen(c)'
      BY <1>1, QuietFacts
<1>3. HolderOK(c)'
  <2>1. keys' = keys /\ key'[c] # None
        BY <1>1, AccountsAssumption DEF tables
  <2>2. Sent(key[c], call[c].user)'
        BY <1>1, <2>1 DEF Sent, Given
  <2>3. MapOK(loaded[c].valve)' /\ loaded'[c].keys = {}
        BY <1>1 DEF Nothing, MapOK
  <2> QED BY <1>1, <2>1, <2>2, <2>3 DEF HolderOK, Within
<1> QED BY <1>1, <1>2, <1>3, TypingStep

LEMMA FetchStep ==
  ASSUME AccountsInv, Types', NEW c \in Clients, FetchValves(c)
  PROVE  AccountsInv'
<1>1. OthersSame(c) /\ UNCHANGED <<tables, history>> /\ pc[c] = "fetch"
      BY FetchFacts DEF FetchValves, AccountsInv
<1>2. /\ UNCHANGED <<keys, valve, typed, posted, overtaken>> /\ HolderOK(c) /\ MapOK(valve)
      /\ \A u \in Users \ overtaken : valve[u] = posted[u]
      BY <1>1 DEF tables, history, AccountsInv, KeyInv, SyncInv
<1>3. CASE pc'[c] = "idle" /\ loaded'[c] = Nothing
      BY <1>1, <1>3, QuietFacts, HolderDone, ReadingStep
<1>4. CASE /\ pc'[c] = "post" /\ call'[c] = call[c] /\ key'[c] = key[c]
           /\ loaded'[c].valve = valve /\ loaded'[c].keys = loaded[c].keys
  <2>1. FormOK(c)' /\ OverrideSeen(c)' /\ VolumeSeen(c)' /\ ValveSeen(c)'
        BY <1>2, <1>4, QuietFacts DEF ValveSeen
  <2>2. HolderOK(c)'
        BY <1>1, <1>2, <1>4 DEF HolderOK, Within, MapOK, Sent, Given
  <2> QED BY <1>1, <2>1, <2>2, ReadingStep
<1> QED BY <1>3, <1>4, FetchFacts DEF AccountsInv

LEMMA ChatStep ==
  ASSUME AccountsInv, Types', NEW c \in Clients, NEW f \in Calls, Chat(c, f)
  PROVE  AccountsInv'
<1>1. /\ OthersSame(c) /\ UNCHANGED <<tables, history>>
      /\ pc'[c] = "lookup" /\ call'[c] = f /\ loaded'[c].valve = valve /\ loaded'[c].keys = {}
      /\ valve[f.user] # None => key'[c] = valve[f.user]
      BY ChatFacts DEF Chat, AccountsInv
<1>2. FormOK(c)' /\ OverrideSeen(c)' /\ VolumeSeen(c)' /\ ValveSeen(c)'
      BY <1>1, QuietFacts
<1>3. HolderOK(c)'
  <2>1. keys' = keys /\ typed' = typed /\ MapOK(valve)
        BY <1>1 DEF tables, history, AccountsInv, KeyInv
  <2> QED BY <1>1, <2>1 DEF HolderOK, Within, MapOK, Sent, Given
<1> QED BY <1>1, <1>2, <1>3, ReadingStep

-----------------------------------------------------------------------------
(***************************************************************************)
(* Authentication                                                           *)
(***************************************************************************)

(* A step that lets a request in: the rows stay, and so do the calls, but   *)
(* for the one that ends.                                                   *)
LEMMA AdmittingStep ==
  ASSUME AccountsInv, Types', NEW c \in Clients, OthersSame(c),
         UNCHANGED <<tables, raced, put, posted, overtaken, typed>>,
         Same(c) \/ (pc'[c] = "idle" /\ loaded'[c] = Nothing),
         \A b \in served' \ served : Billed(b)
  PROVE  AccountsInv'
<1>1. UNCHANGED <<users, quotas, override, volume, keys, valve, tokens>> /\ UsersKept /\ KeysKept
      BY DEF tables, UsersKept, KeysKept
<1>2. pc'[c] = "idle" => FormOK(c)' /\ OverrideSeen(c)' /\ VolumeSeen(c)' /\ ValveSeen(c)'
      BY QuietFacts
<1>3. BudgetInv' /\ OverrideInv' /\ VolumeInv'
      BY <1>1, <1>2, BudgetKept, OverrideKept, VolumeKept DEF AccountsInv
<1>4. SyncInv' /\ TokenInv'
      BY <1>1, <1>2, SyncKept, TokenKept DEF AccountsInv
<1>5. \A d \in Clients : HolderOK(d)'
      BY <1>1, HolderKept, HolderDone DEF AccountsInv, KeyInv, OthersSame
<1>6. (\A b \in served : Billed(b))'
  <2> SUFFICES ASSUME NEW b \in served' PROVE Billed(b)
      BY DEF Billed
  <2> QED BY DEF AccountsInv, KeyInv
<1>7. KeyInv'
      BY <1>1, <1>5, <1>6 DEF AccountsInv, KeyInv, Given, MapOK, Sent
<1> QED BY <1>3, <1>4, <1>7 DEF AccountsInv

LEMMA LoginStep ==
  ASSUME AccountsInv, Types', NEW c \in Clients, NEW f \in Calls, Login(c, f)
  PROVE  AccountsInv'
<1>1. /\ UNCHANGED <<users, quotas, override, volume, keys, valve, raced, put, posted, overtaken,
                     typed, served>>
      /\ UsersKept /\ KeysKept
      BY DEF Login, history, UsersKept, KeysKept
<1>2. OthersSame(c) /\ Same(c)
      BY AtOnceSame DEF Login, OthersSame
<1>3. BudgetInv' /\ OverrideInv' /\ VolumeInv' /\ SyncInv'
      BY <1>1, <1>2, BudgetKept, OverrideKept, VolumeKept, SyncKept DEF AccountsInv
<1>4. HolderOK(c)'
      BY <1>1, <1>2, HolderKept DEF AccountsInv, KeyInv
<1>5. KeyInv'
      BY <1>1, <1>2, <1>4, KeyKept DEF AccountsInv
<1>6. TokenInv'
      BY <1>1 DEF Login, AccountsInv, TokenInv
<1> QED BY <1>3, <1>5, <1>6 DEF AccountsInv

LEMMA JwtStep ==
  ASSUME AccountsInv, Types', NEW c \in Clients, NEW f \in Calls, JwtRequest(c, f)
  PROVE  AccountsInv'
<1>1. OthersSame(c) /\ Same(c)
      BY AtOnceSame DEF JwtRequest, OthersSame
<1>2. \A b \in served' \ served : Billed(b)
      BY DEF JwtRequest, Admits, Billed
<1> QED BY <1>1, <1>2, AdmittingStep DEF JwtRequest

LEMMA ReturnsSame ==
  ASSUME ClientTypes, NEW c \in Clients, Returns(c)
  PROVE  OthersSame(c) /\ pc'[c] = "idle" /\ loaded'[c] = Nothing
BY DEF ClientTypes, Returns, Goto, OthersSame, Same

LEMMA LookupStep ==
  ASSUME AccountsInv, Types', NEW c \in Clients, LookupApiKey(c)
  PROVE  AccountsInv'
<1> DEFINE u == call[c].user
           k == key[c]
           entry == loaded[c].valve[u]
           new == [user |-> u, as |-> keys[k].owner, entry |-> entry]
<1>1. OthersSame(c) /\ pc'[c] = "idle" /\ loaded'[c] = Nothing
      BY ReturnsSame DEF LookupApiKey, AccountsInv, Types
<1>2. pc[c] = "lookup" /\ HolderOK(c)
      BY DEF LookupApiKey, AccountsInv, KeyInv
<1>3. u \in Users
      BY <1>2, CallOf DEF AccountsInv, Types
<1>4. k \in Keys /\ entry # None => keys[k].owner = u \/ <<u, entry>> \in typed
  <2> SUFFICES ASSUME k \in Keys, entry # None PROVE keys[k].owner = u \/ <<u, entry>> \in typed
      OBVIOUS
  <2>1. entry = k /\ Sent(entry, u)
        BY <1>2, <1>3 DEF HolderOK, MapOK
  <2> QED BY <2>1, AccountsAssumption DEF Sent
<1>5. served' = served \/ (k \in Keys /\ served' = served \cup {new})
      BY DEF LookupApiKey, Admits
<1>6. k \in Keys => Billed(new)
      BY <1>4 DEF Billed
<1> HIDE DEF new
<1>7. \A b \in served' \ served : Billed(b)
      BY <1>5, <1>6
<1> QED BY <1>1, <1>7, AdmittingStep DEF LookupApiKey

-----------------------------------------------------------------------------
(***************************************************************************)
(* Accounts and keys                                                        *)
(***************************************************************************)

(* A step that makes or revokes keys. *)
LEMMA KeyStep ==
  ASSUME AccountsInv, Types', NEW c \in Clients, OthersSame(c), UsersKept, KeysKept,
         UNCHANGED <<override, volume, valve, tokens, history>>,
         UNCHANGED <<users, quotas>> \/ BudgetInv',
         Same(c) \/ pc'[c] \in {"idle", "fetch"}, HolderOK(c)',
         \A k \in Keys : keys'[k] # None => keys[k] # None \/ users'[keys'[k].owner] # None
  PROVE  AccountsInv'
<1>1. UNCHANGED <<raced, put, posted, overtaken, typed, served>>
      BY DEF history
<1>2. pc'[c] \in {"idle", "fetch"} => FormOK(c)' /\ OverrideSeen(c)' /\ VolumeSeen(c)' /\ ValveSeen(c)'
      BY QuietFacts
<1>3. BudgetInv' /\ OverrideInv' /\ VolumeInv'
      BY <1>1, <1>2, BudgetKept, OverrideKept, VolumeKept DEF AccountsInv
<1>4. SyncInv' /\ TokenInv'
      BY <1>1, <1>2, SyncKept, TokenKept DEF AccountsInv
<1>5. \A d \in Clients : HolderOK(d)'
      BY HolderKept DEF AccountsInv, KeyInv, OthersSame
<1>6. \A k \in Keys : Given(k)' => users'[keys'[k].owner] # None
  <2> SUFFICES ASSUME NEW k \in Keys, keys'[k] # None, keys[k] # None
               PROVE  users'[keys'[k].owner] # None
      BY DEF Given
  <2>1. keys[k].owner \in Users /\ users[keys[k].owner] # None
        BY KeyFacts DEF AccountsInv, KeyInv, Given, ApiKey
  <2> QED BY <2>1 DEF KeysKept, UsersKept
<1>7. MapOK(valve)'
  <2>1. valve \in KeyMap /\ MapOK(valve)
        BY DEF AccountsInv, KeyInv, Types, TableTypes
  <2> QED BY <2>1, MapKept DEF MapOK, Sent, Given
<1>8. KeyInv'
      BY <1>1, <1>5, <1>6, <1>7 DEF KeyInv, AccountsInv, Billed
<1> QED BY <1>3, <1>4, <1>8 DEF AccountsInv

LEMMA RevokeKeyStep ==
  ASSUME AccountsInv, Types', NEW c \in Clients, NEW f \in Calls, RevokeKey(c, f)
  PROVE  AccountsInv'
<1>1. UsersKept /\ UNCHANGED <<users, quotas, override, volume, valve, tokens, history>>
      BY DEF RevokeKey, UsersKept
<1>2. KeysKept /\ \A x \in Keys : keys'[x] # None => keys[x] # None
      BY RevokeKeyFacts DEF AccountsInv
<1>3. OthersSame(c) /\ Same(c)
      BY AtOnceSame DEF RevokeKey, OthersSame
<1>4. HolderOK(c)'
      BY <1>1, <1>2, <1>3, HolderKept DEF AccountsInv, KeyInv
<1> QED BY <1>1, <1>2, <1>3, <1>4, KeyStep

(* The client once it has a new key: done, or about to copy the key. *)
LEMMA NewKeyHolder ==
  ASSUME Types, KeyInv, NEW c \in Clients, pc[c] = "commit", NEW k \in Keys, AfterNewKey(c, k),
         UNCHANGED calls, KeysKept, keys'[k] # None, keys'[k].owner = call[c].user
  PROVE  OthersSame(c) /\ pc'[c] \in {"idle", "fetch"} /\ HolderOK(c)'
<1>1. /\ OthersSame(c)
      /\ \/ pc'[c] = "idle" /\ loaded'[c] = Nothing
         \/ pc'[c] = "fetch" /\ call'[c] = call[c] /\ loaded'[c] = loaded[c] /\ key'[c] = k
      BY AfterNewKeyFacts DEF Types, OthersSame, Same
<1>2. CASE pc'[c] = "idle" /\ loaded'[c] = Nothing
      BY <1>1, <1>2, HolderDone
<1>3. CASE pc'[c] = "fetch" /\ call'[c] = call[c] /\ loaded'[c] = loaded[c] /\ key'[c] = k
  <2>1. loaded[c].valve \in KeyMap /\ loaded[c].keys \subseteq Keys /\ k # None
        BY SeenTypes, AccountsAssumption DEF Types
  <2>2. MapOK(loaded[c].valve)' /\ \A x \in loaded[c].keys : keys'[x] # None
    <3>1. HolderOK(c)
          BY DEF KeyInv
    <3> QED BY <1>3, <2>1, <3>1, MapKept DEF HolderOK, MapOK, Sent, Given, KeysKept
  <2> QED BY <1>1, <1>3, <2>1, <2>2 DEF HolderOK, Within, Sent, Given
<1> QED BY <1>1, <1>2, <1>3

LEMMA CommitKeyStep ==
  ASSUME AccountsInv, Types', NEW c \in Clients, CommitKey(c)
  PROVE  AccountsInv'
<1>1. /\ UNCHANGED <<users, quotas, override, volume, valve, tokens, calls, history>> /\ UsersKept
      /\ KeysKept /\ pc[c] = "commit" /\ call[c].kind \in {"add_key", "reset_key"}
      BY CommitKeyFacts DEF CommitKey, AccountsInv, UsersKept
<1>2. PICK k \in Keys :
        /\ keys'[k] # None /\ keys'[k].owner = call[c].user /\ AfterNewKey(c, k)
        /\ \A x \in Keys : x # k /\ keys'[x] # None => keys[x] # None
      BY CommitKeyFacts DEF AccountsInv
<1>3. OthersSame(c) /\ pc'[c] \in {"idle", "fetch"} /\ HolderOK(c)'
      BY <1>1, <1>2, NewKeyHolder DEF AccountsInv
<1>4. users[call[c].user] # None
      BY <1>1 DEF AccountsInv, KeyInv, HolderOK, Within
<1> QED BY <1>1, <1>2, <1>3, <1>4, KeyStep

LEMMA CreateUserStep ==
  ASSUME AccountsInv, Types', NEW c \in Clients, CreateUser(c)
  PROVE  AccountsInv'
<1> DEFINE u == call[c].user
           new == NewUser(call[c].value)
<1>1. /\ UNCHANGED <<override, volume, valve, tokens, calls, history>>
      /\ pc[c] = "commit" /\ call[c].kind = "create_user"
      BY DEF CreateUser, At
<1>2. u \in Users /\ new # None /\ new.budget = call[c].value
  <2>1. u \in Users
        BY <1>1, CallOf DEF AccountsInv, Types
  <2>2. call[c].value \in Values /\ 0 \in Values /\ 1 \in Values
        BY <1>1, CallOf DEF AccountsInv, Types, Values
  <2>3. new \in User /\ new.budget = call[c].value
        BY <2>2 DEF NewUser, User
  <2> QED BY <2>1, <2>3, AccountsAssumption
<1> HIDE DEF new
<1>3. CASE users[u] # None
  <2>1. Returns(c) /\ UNCHANGED <<users, quotas, keys>>
        BY <1>3 DEF CreateUser
  <2>2. UsersKept /\ KeysKept
        BY <1>1, <2>1 DEF UsersKept, KeysKept, history
  <2>3. OthersSame(c) /\ pc'[c] = "idle" /\ HolderOK(c)'
        BY <2>1, ReturnsSame, HolderDone DEF AccountsInv, Types
  <2> QED BY <1>1, <2>1, <2>2, <2>3, KeyStep
<1>4. CASE users[u] = None
  <2>1. /\ users' = [users EXCEPT ![u] = new] /\ quotas' = [quotas EXCEPT ![u] = call[c].value]
        /\ \/ \E k \in Keys : /\ keys[k] = None
                              /\ keys' = [keys EXCEPT ![k] = [owner |-> u, revoked |-> FALSE]]
                              /\ AfterNewKey(c, k)
           \/ Returns(c) /\ UNCHANGED keys
        BY <1>4 DEF CreateUser, Unused, new
  <2>2. users \in [Users -> User \cup {None}] /\ quotas \in [Users -> Values]
        /\ keys \in [Keys -> ApiKey \cup {None}]
        BY DEF AccountsInv, Types, TableTypes
  <2>3. UsersKept /\ users'[u] # None
        BY <1>2, <2>1, <2>2 DEF UsersKept
  <2>4. /\ KeysKept /\ OthersSame(c) /\ pc'[c] \in {"idle", "fetch"} /\ HolderOK(c)'
        /\ \A k \in Keys : keys'[k] # None => keys[k] # None \/ keys'[k].owner = u
    <3>1. CASE Returns(c) /\ UNCHANGED keys
      <4>1. KeysKept
            BY <1>1, <3>1 DEF KeysKept, history
      <4> QED BY <3>1, <4>1, ReturnsSame, HolderDone DEF AccountsInv, Types
    <3>2. ASSUME NEW k \in Keys, keys[k] = None, AfterNewKey(c, k),
                 keys' = [keys EXCEPT ![k] = [owner |-> u, revoked |-> FALSE]]
          PROVE  /\ KeysKept /\ OthersSame(c) /\ pc'[c] \in {"idle", "fetch"} /\ HolderOK(c)'
                 /\ \A x \in Keys : keys'[x] # None => keys[x] # None \/ keys'[x].owner = u
      <4> DEFINE row == [owner |-> u, revoked |-> FALSE]
      <4>1. row \in ApiKey /\ row.owner = u
            BY <1>2 DEF ApiKey
      <4>2. row # None
            BY <4>1, AccountsAssumption
      <4>3. keys' = [keys EXCEPT ![k] = row]
            BY <3>2
      <4> HIDE DEF row
      <4>4. /\ KeysKept /\ keys'[k] # None /\ keys'[k].owner = u
            /\ \A x \in Keys : keys'[x] # None => keys[x] # None \/ keys'[x].owner = u
            BY <1>1, <2>2, <3>2, <4>1, <4>2, <4>3 DEF KeysKept, history
      <4> QED BY <1>1, <3>2, <4>4, NewKeyHolder DEF AccountsInv
    <3> QED BY <2>1, <3>1, <3>2
  <2>5. BudgetInv'
    <3>1. BudgetsAgree'
          BY <1>2, <1>1, <2>1, <2>2 DEF AccountsInv, BudgetInv, BudgetsAgree, history
    <3>2. FormOK(c)'
          BY <2>4, QuietFacts
    <3>3. ASSUME NEW d \in Clients \ {c} PROVE FormOK(d)'
      <4>1. FormOK(d) /\ Same(d) /\ raced' = raced
            BY <1>1, <2>4 DEF AccountsInv, BudgetInv, OthersSame, history
      <4>2. Forms(d) => call[d].user \in Users /\ call[d].user # u
            BY <1>4, <4>1, CallOf DEF AccountsInv, Types, FormOK, Forms, Within
      <4>3. Forms(d) => users'[call[d].user] = users[call[d].user]
                        /\ quotas'[call[d].user] = quotas[call[d].user]
            BY <2>1, <2>2, <4>2
      <4> QED BY <4>1, <4>3 DEF FormOK, Forms, Budgets, Within, Same
    <3> QED BY <3>1, <3>2, <3>3 DEF BudgetInv
  <2> QED BY <1>1, <2>3, <2>4, <2>5, KeyStep
<1> QED BY <1>3, <1>4

-----------------------------------------------------------------------------
(***************************************************************************)
(* Commits                                                                  *)
(***************************************************************************)

(* The parts that a commit of rows of its own leaves alone. *)
LEMMA CommitRest ==
  ASSUME AccountsInv, Types', NEW c \in Clients, OthersSame(c), pc'[c] = "idle",
         loaded'[c] = Nothing, raced \subseteq raced', UsersKept,
         UNCHANGED <<keys, tokens, typed, served>>
  PROVE  /\ UNCHANGED <<valve, posted, overtaken>> => KeyInv' /\ SyncInv'
         /\ UNCHANGED <<users, quotas>> => BudgetInv'
         /\ UNCHANGED override /\ put'.override = put.override => OverrideInv'
         /\ UNCHANGED volume /\ put'.volume = put.volume /\ put'.secret = put.secret => VolumeInv'
         /\ TokenInv'
<1>1. FormOK(c)' /\ OverrideSeen(c)' /\ VolumeSeen(c)' /\ ValveSeen(c)' /\ HolderOK(c)'
      BY QuietFacts, HolderDone
<1> QED BY <1>1, BudgetKept, OverrideKept, VolumeKept, KeyKept, SyncKept, TokenKept DEF AccountsInv

LEMMA CommitUserShape ==
  ASSUME AccountsInv, NEW c \in Clients, CommitUser(c)
  PROVE  LET f == call[c]
             u == f.user
             old == loaded[c].user
         IN
         /\ pc[c] = "commit" /\ f.kind \in UserForms \cup BudgetForms /\ f \in Call /\ u \in Users
         /\ users[u] \in User /\ old \in User
         /\ users' = [users EXCEPT ![u] = Merged(users[u], old, Saved(c))]
         /\ Merged(users[u], old, Saved(c)) \in User
         /\ Merged(users[u], old, Saved(c)).budget =
              IF f.kind \in BudgetForms /\ f.value # old.budget THEN f.value ELSE users[u].budget
         /\ users[u].active = FALSE /\ f.kind # "suspend" =>
              Merged(users[u], old, Saved(c)).active = FALSE
<1> DEFINE f == call[c]
           u == f.user
           old == loaded[c].user
           new == Saved(c)
<1>1. pc[c] = "commit" /\ f.kind \in UserForms \cup BudgetForms
      BY DEF CommitUser, At
<1>2. f \in Call /\ u \in Users
      BY <1>1, CallOf DEF AccountsInv, Types
<1>3. users[u] \in User /\ old \in User /\ loaded[c].page \in User
      BY <1>1, <1>2, SeenTypes DEF AccountsInv, BudgetInv, FormOK, Forms, Within, Types, TableTypes
<1>4. new \in User /\ new.budget = (IF f.kind \in BudgetForms THEN f.value ELSE old.budget)
      /\ (f.kind # "suspend" => new.active \in {old.active, FALSE})
      BY <1>1, <1>2, <1>3, FilledUser DEF Saved
<1>5. users' = [users EXCEPT ![u] = Merged(users[u], old, new)]
      BY DEF CommitUser
<1> HIDE DEF new
<1> DEFINE row == Merged(users[u], old, new)
<1>6. /\ row \in User
      /\ row.budget = IF new.budget # old.budget THEN new.budget ELSE users[u].budget
      /\ row.active = IF new.active # old.active THEN new.active ELSE users[u].active
      BY <1>3, <1>4, MergedUser
<1> HIDE DEF row
<1>7. row.budget = IF f.kind \in BudgetForms /\ f.value # old.budget THEN f.value ELSE users[u].budget
      BY <1>4, <1>6
<1>8. users[u].active = FALSE /\ f.kind # "suspend" => row.active = FALSE
      BY <1>4, <1>6
<1> QED BY <1>1, <1>2, <1>3, <1>5, <1>6, <1>7, <1>8 DEF row, new

LEMMA CommitUserStep ==
  ASSUME AccountsInv, Types', NEW c \in Clients, CommitUser(c)
  PROVE  AccountsInv'
<1> DEFINE f == call[c]
           u == f.user
           old == loaded[c].user
           row == Merged(users[u], old, Saved(c))
           rivals == {d \in Others(c, {"reload", "commit"}, BudgetForms) : call[d].user = u}
<1>1. /\ pc[c] = "commit" /\ f.kind \in UserForms \cup BudgetForms /\ u \in Users
      /\ users' = [users EXCEPT ![u] = row] /\ row \in User /\ row # None
      /\ row.budget = IF f.kind \in BudgetForms /\ f.value # old.budget THEN f.value ELSE users[u].budget
      BY CommitUserShape, AccountsAssumption
<1>2. quotas' = IF f.kind \in BudgetForms /\ f.value # loaded[c].quota
                THEN [quotas EXCEPT ![u] = f.value] ELSE quotas
      BY DEF CommitUser
<1>3. /\ raced \subseteq raced'
      /\ f.kind \in BudgetForms /\ rivals # {} => u \in raced'
      BY DEF CommitUser, MarkRaced
<1>4. OthersSame(c) /\ pc'[c] = "idle" /\ loaded'[c] = Nothing
      BY ReturnsSame DEF CommitUser, AccountsInv, Types
<1>5. users \in [Users -> User \cup {None}] /\ quotas \in [Users -> Values]
      BY DEF AccountsInv, Types, TableTypes
<1>6. FormOK(c) /\ Forms(c) /\ (f.kind \in BudgetForms => Budgets(c))
      BY <1>1 DEF AccountsInv, BudgetInv, Forms, Budgets, Within
<1> HIDE DEF row
<1>7. users'[u] = row /\ \A v \in Users : v # u => users'[v] = users[v] /\ quotas'[v] = quotas[v]
      BY <1>1, <1>2, <1>5
<1>8. quotas'[u] = IF f.kind \in BudgetForms /\ f.value # loaded[c].quota THEN f.value ELSE quotas[u]
      BY <1>1, <1>2, <1>5
<1>9. BudgetInv'
  <2>1. u \notin raced' => users'[u].budget = quotas'[u]
    <3> SUFFICES ASSUME u \notin raced' PROVE row.budget = quotas'[u]
        BY <1>7
    <3>1. u \notin raced /\ users[u] # None /\ users[u].budget = quotas[u]
          BY <1>1, <1>3, <1>6 DEF AccountsInv, BudgetInv, BudgetsAgree, FormOK
    <3>2. CASE f.kind \in BudgetForms
      <4>1. old.budget = users[u].budget /\ loaded[c].quota = quotas[u]
            BY <1>1, <1>6, <3>1, <3>2 DEF FormOK
      <4> QED BY <1>1, <1>8, <3>1, <3>2, <4>1
    <3>3. CASE f.kind \notin BudgetForms
          BY <1>1, <1>8, <3>1, <3>3
    <3> QED BY <3>2, <3>3
  <2>2. BudgetsAgree'
    <3> SUFFICES ASSUME NEW v \in Users, users'[v] # None, v \notin raced'
                 PROVE  users'[v].budget = quotas'[v]
        BY DEF BudgetsAgree
    <3> QED BY <1>3, <1>7, <2>1 DEF AccountsInv, BudgetInv, BudgetsAgree
  <2>3. FormOK(c)'
        BY <1>4, QuietFacts
  <2>4. ASSUME NEW d \in Clients \ {c} PROVE FormOK(d)'
    <3> SUFFICES ASSUME Forms(d)' PROVE FormOK(d)'
        BY DEF FormOK
    <3> DEFINE v == call[d].user
    <3>1. Same(d) /\ FormOK(d) /\ Forms(d)
          BY <1>4 DEF OthersSame, Same, AccountsInv, BudgetInv, Forms, Within
    <3>2. v \in Users /\ users[v] # None /\ loaded[d].user # None /\ loaded[d].page # None
          BY <3>1, CallOf DEF AccountsInv, Types, FormOK, Forms, Within
    <3>3. users'[v] # None
          BY <1>1, <1>7, <3>2
    <3>4. ASSUME Budgets(d), v \notin raced'
          PROVE  users'[v].budget = users[v].budget /\ quotas'[v] = quotas[v]
      <4>1. CASE v # u
            BY <1>7, <3>2, <4>1
      <4>2. CASE v = u
        <5>1. f.kind \notin BudgetForms
          <6>1. d \in rivals \/ v # u
                BY <3>4 DEF Others, Budgets, Within
          <6> QED BY <1>3, <3>4, <4>2, <6>1
        <5> QED BY <1>1, <1>7, <1>8, <4>2, <5>1
      <4> QED BY <4>1, <4>2
    <3>5. Budgets(d)' => Budgets(d)
          BY <3>1 DEF Budgets, Within, Same
    <3> QED BY <1>3, <3>1, <3>2, <3>3, <3>4, <3>5 DEF FormOK, Same
  <2> QED BY <2>2, <2>3, <2>4 DEF BudgetInv
<1>10. UsersKept
      BY <1>1, <1>7 DEF UsersKept
<1> QED BY <1>3, <1>4, <1>9, <1>10, CommitRest DEF CommitUser, AccountsInv

LEMMA CommitOverrideStep ==
  ASSUME AccountsInv, Types', NEW c \in Clients, CommitOverride(c)
  PROVE  AccountsInv'
<1> DEFINE f == call[c]
           old == loaded[c].override
           rivals == Others(c, {"commit"}, OverrideCalls)
<1>1. /\ pc[c] = "commit" /\ f.kind \in OverrideCalls
      /\ UNCHANGED <<users, quotas, volume, keys, valve, tokens, calls, posted, overtaken, typed, served>>
      /\ UsersKept
      BY DEF CommitOverride, At, UsersKept
<1>2. f \in Call /\ f # None /\ old \in Override \cup {None} /\ put \in Put
      BY <1>1, CallOf, SeenTypes DEF AccountsInv, Types, HistoryTypes
<1>3. OthersSame(c) /\ pc'[c] = "idle" /\ loaded'[c] = Nothing
      BY ReturnsSame DEF CommitOverride, AccountsInv, Types
<1>4. /\ raced \subseteq raced' /\ put'.volume = put.volume /\ put'.secret = put.secret
      BY <1>2 DEF CommitOverride, MarkRaced, Put
<1>5. OverrideInv'
  <2>1. CASE f.kind = "delete_override" \/ SameRow(old, override)
    <3> SUFFICES ASSUME "override" \notin raced'
                 PROVE  OverrideIs(put.override)' /\ \A d \in Clients : OverrideSeen(d)'
        BY DEF OverrideInv
    <3>1. raced' = IF rivals = {} THEN raced ELSE raced \cup {"override"}
          BY <2>1 DEF CommitOverride, MarkRaced
    <3>2. put'.override = f
          BY <1>2, <2>1 DEF CommitOverride, Put
    <3>3. rivals = {} /\ "override" \notin raced
          BY <3>1
    <3>4. old = override
          BY <1>1, <3>3 DEF AccountsInv, OverrideInv, OverrideSeen, Overrides, Within
    <3>5. OverrideIs(put.override)'
      <4>1. CASE f.kind = "delete_override"
        <5>1. SameRow(old, override)
              BY <1>2, <3>4 DEF SameRow
        <5> QED BY <2>1, <3>2, <4>1, <5>1 DEF CommitOverride, OverrideIs
      <4>2. CASE f.kind # "delete_override"
        <5> DEFINE new == OverrideForm(old, f)
        <5>1. /\ new \in Override /\ new.order = f.value /\ new.model = f.value
              /\ new.disabled = IF f.choice THEN f.value ELSE 0
              BY <1>2, OverrideFormType DEF AccountsInv, Types
        <5>2. override' = IF old = None THEN new ELSE Merged(override, old, new)
              BY <2>1, <4>2 DEF CommitOverride
        <5> HIDE DEF new
        <5>3. override' = new
              BY <1>2, <3>4, <5>1, <5>2, MergedOverride
        <5> QED BY <1>2, <3>2, <4>2, <5>1, <5>3, AccountsAssumption DEF OverrideIs
      <4> QED BY <4>1, <4>2
    <3>6. ASSUME NEW d \in Clients PROVE OverrideSeen(d)'
      <4>1. CASE d = c
            BY <1>3, <4>1, QuietFacts
      <4>2. CASE d # c
            BY <1>3, <3>3, <4>2 DEF OverrideSeen, Overrides, Within, Others, OthersSame, Same
      <4> QED BY <4>1, <4>2
    <3> QED BY <3>5, <3>6
  <2>2. CASE ~(f.kind = "delete_override" \/ SameRow(old, override))
    <3>1. UNCHANGED <<override, put>>
          BY <2>2 DEF CommitOverride
    <3> QED BY <1>1, <1>3, <1>4, <3>1, CommitRest
  <2> QED BY <2>1, <2>2
<1>6. BudgetInv' /\ VolumeInv' /\ KeyInv' /\ SyncInv' /\ TokenInv'
      BY <1>1, <1>3, <1>4, CommitRest
<1> QED BY <1>5, <1>6 DEF AccountsInv

LEMMA CommitVolumeStep ==
  ASSUME AccountsInv, Types', NEW c \in Clients, CommitVolume(c)
  PROVE  AccountsInv'
<1> DEFINE f == call[c]
           old == loaded[c].volume
           rivals == Others(c, {"reload", "commit"}, VolumeCalls)
<1>1. /\ pc[c] = "commit" /\ f.kind \in VolumeCalls
      /\ UNCHANGED <<users, quotas, override, keys, valve, tokens, calls, posted, overtaken, typed, served>>
      /\ UsersKept
      BY DEF CommitVolume, At, UsersKept
<1>2. f \in Calls /\ f \in Call /\ f # None /\ old \in Volume \cup {None} /\ put \in Put
      BY <1>1, CallOf, SeenTypes DEF AccountsInv, Types, HistoryTypes
<1>3. OthersSame(c) /\ pc'[c] = "idle" /\ loaded'[c] = Nothing
      BY ReturnsSame DEF CommitVolume, AccountsInv, Types
<1>4. raced \subseteq raced' /\ put'.override = put.override
      BY <1>2 DEF CommitVolume, MarkRaced, Put
<1>5. VolumeInv'
  <2>1. CASE f.kind = "delete_volume" \/ SameRow(old, volume)
    <3> SUFFICES ASSUME "volume" \notin raced'
                 PROVE  VolumeIs(put.volume, put.secret)' /\ \A d \in Clients : VolumeSeen(d)'
        BY DEF VolumeInv
    <3>1. raced' = IF rivals = {} THEN raced ELSE raced \cup {"volume"}
          BY <2>1 DEF CommitVolume, MarkRaced
    <3>2. put'.volume = f /\ put'.secret = IF Blank(f) THEN put.secret ELSE f.value
          BY <1>2, <2>1 DEF CommitVolume, Put
    <3>3. rivals = {} /\ "volume" \notin raced
          BY <3>1
    <3>4. old = volume /\ (Blank(f) => volume # None) /\ VolumeIs(put.volume, put.secret)
          BY <1>1, <3>3 DEF AccountsInv, VolumeInv, VolumeSeen, Volumes, Within
    <3>5. VolumeIs(put.volume, put.secret)'
      <4>1. CASE f.kind = "delete_volume"
        <5>1. SameRow(old, volume)
              BY <1>2, <3>4 DEF SameRow
        <5> QED BY <2>1, <3>2, <4>1, <5>1 DEF CommitVolume, VolumeIs
      <4>2. CASE f.kind # "delete_volume"
        <5> DEFINE new == VolumeForm(old, f)
        <5>1. /\ new \in Volume /\ new.id = f.value
              /\ new.secret = IF ~Blank(f) THEN f.value ELSE IF old = None THEN 0 ELSE old.secret
              BY <1>2, VolumeFormType DEF AccountsInv, Types
        <5>2. volume' = IF old = None THEN new ELSE Merged(volume, old, new)
              BY <2>1, <4>2 DEF CommitVolume
        <5> HIDE DEF new
        <5>3. volume' = new
              BY <1>2, <3>4, <5>1, <5>2, MergedVolume
        <5>4. f.value # 0
              BY <1>1, <1>2, <4>2, AccountsAssumption DEF VolumeCalls
        <5>5. Blank(f) => old.secret = put.secret /\ put.secret # 0 /\ old # None
              BY <3>4 DEF VolumeIs
        <5> QED BY <1>2, <3>2, <4>2, <5>1, <5>3, <5>4, <5>5, AccountsAssumption DEF VolumeIs
      <4> QED BY <4>1, <4>2
    <3>6. ASSUME NEW d \in Clients PROVE VolumeSeen(d)'
      <4>1. CASE d = c
            BY <1>3, <4>1, QuietFacts
      <4>2. CASE d # c
            BY <1>3, <3>3, <4>2 DEF VolumeSeen, Volumes, Within, Others, OthersSame, Same
      <4> QED BY <4>1, <4>2
    <3> QED BY <3>5, <3>6
  <2>2. CASE ~(f.kind = "delete_volume" \/ SameRow(old, volume))
    <3>1. UNCHANGED <<volume, put>>
          BY <2>2 DEF CommitVolume
    <3> QED BY <1>1, <1>3, <1>4, <3>1, CommitRest
  <2> QED BY <2>1, <2>2
<1>6. BudgetInv' /\ OverrideInv' /\ KeyInv' /\ SyncInv' /\ TokenInv'
      BY <1>1, <1>3, <1>4, CommitRest
<1> QED BY <1>5, <1>6 DEF AccountsInv

LEMMA PostStep ==
  ASSUME AccountsInv, Types', NEW c \in Clients, PostValves(c)
  PROVE  AccountsInv'
<1> DEFINE u == call[c].user
<1>1. /\ pc[c] = "post"
      /\ UNCHANGED <<users, quotas, override, volume, keys, tokens, calls, raced, put, typed, served>>
      /\ UsersKept /\ KeysKept
      BY DEF PostValves, UsersKept, KeysKept
<1>2. u \in Users /\ loaded[c].valve \in KeyMap /\ posted \in KeyMap
      BY <1>1, CallOf, SeenTypes DEF AccountsInv, Types, HistoryTypes
<1>3. OthersSame(c) /\ pc'[c] = "idle" /\ loaded'[c] = Nothing
      BY ReturnsSame DEF PostValves, AccountsInv, Types
<1>4. BudgetInv' /\ OverrideInv' /\ VolumeInv' /\ TokenInv'
      BY <1>1, <1>3, CommitRest
<1>5. CASE UNCHANGED <<valve, posted, overtaken>>
      BY <1>1, <1>3, <1>4, <1>5, CommitRest DEF AccountsInv
<1>6. CASE /\ valve' = [loaded[c].valve EXCEPT ![u] = key[c]]
           /\ posted' = [posted EXCEPT ![u] = key[c]]
           /\ Overtakes(c)
  <2>1. /\ valve'[u] = key[c] /\ posted'[u] = key[c]
        /\ \A v \in Users : v # u => valve'[v] = loaded[c].valve[v] /\ posted'[v] = posted[v]
        BY <1>2, <1>6 DEF KeyMap
  <2>2. HolderOK(c)
        BY DEF AccountsInv, KeyInv
  <2>3. key[c] # None /\ Sent(key[c], u) /\ MapOK(loaded[c].valve)
        BY <1>1, <2>2 DEF HolderOK
  <2>4. KeyInv'
    <3>1. MapOK(valve)'
          BY <1>1, <2>1, <2>3 DEF MapOK, Sent, Given
    <3>2. \A d \in Clients : HolderOK(d)'
          BY <1>1, <1>3, HolderKept, HolderDone DEF AccountsInv, KeyInv, OthersSame
    <3> QED BY <1>1, <3>1, <3>2 DEF AccountsInv, KeyInv, Given, Billed
  <2>5. SyncInv'
    <3>1. /\ \A v \in Users \ overtaken' : v # u => v \notin overtaken
          /\ u \notin overtaken' => \A d \in Clients \ {c} : pc[d] # "post"
          BY <1>6 DEF Overtakes
    <3>2. \A d \in Clients : ValveSeen(d)
          BY DEF AccountsInv, SyncInv
    <3>3. \A v \in Users \ overtaken' : valve'[v] = posted'[v]
      <4> SUFFICES ASSUME NEW v \in Users \ overtaken', v # u PROVE valve'[v] = posted'[v]
          BY <2>1
      <4> QED BY <1>1, <2>1, <3>1, <3>2 DEF ValveSeen
    <3>4. ASSUME NEW d \in Clients PROVE ValveSeen(d)'
      <4>1. CASE d = c
            BY <1>3, <4>1 DEF ValveSeen
      <4>2. CASE d # c
        <5> SUFFICES ASSUME pc[d] = "post", NEW v \in Users \ overtaken'
                     PROVE  loaded[d].valve[v] = posted'[v]
            BY <1>3, <4>2 DEF ValveSeen, OthersSame, Same
        <5>1. v # u /\ v \notin overtaken
              BY <3>1, <4>2
        <5> QED BY <2>1, <3>2, <5>1 DEF ValveSeen
      <4> QED BY <4>1, <4>2
    <3> QED BY <3>3, <3>4 DEF SyncInv
  <2> QED BY <1>4, <2>4, <2>5 DEF AccountsInv
<1> QED BY <1>5, <1>6 DEF PostValves

-----------------------------------------------------------------------------
(***************************************************************************)
(* The theorems                                                             *)
(***************************************************************************)
LEMMA InitOK == Init => AccountsInv
<1> SUFFICES ASSUME Init PROVE AccountsInv
    OBVIOUS
<1>1. 0 \in Values /\ 1 \in Values
      BY DEF Values
<1>2. NewUser(1) \in User /\ NewUser(1) # None /\ NewUser(1).budget = 1
  <2>1. NewUser(1) \in User /\ NewUser(1).budget = 1
        BY <1>1 DEF NewUser, User
  <2> QED BY <2>1, AccountsAssumption
<1>3. /\ users \in [Users -> User \cup {None}] /\ quotas \in [Users -> Values]
      /\ \A u \in Users : users[u] # None => users[u].budget = quotas[u]
      /\ \A u \in Founders : users[u] # None
      BY <1>1, <1>2, AccountsAssumption DEF Init
<1>4. \A k \in Keys : keys[k] # None => keys[k] \in ApiKey /\ keys[k].owner \in Founders
  <2> SUFFICES ASSUME NEW k \in Keys, keys[k] # None
               PROVE  keys[k] \in ApiKey /\ keys[k].owner \in Founders
      OBVIOUS
  <2> DEFINE owner == CHOOSE u \in Founders : FirstKey[u] = k
  <2>1. (\E u \in Founders : FirstKey[u] = k) /\ keys[k] = [owner |-> owner, revoked |-> FALSE]
        BY DEF Init
  <2>2. owner \in Founders
        BY <2>1
  <2> HIDE DEF owner
  <2> QED BY <2>1, <2>2, AccountsAssumption DEF ApiKey
<1>5. keys \in [Keys -> ApiKey \cup {None}]
  <2>1. keys = [k \in Keys |-> keys[k]]
        BY DEF Init
  <2> QED BY <1>4, <2>1
<1>6. [u \in Users |-> None] \in KeyMap
      BY DEF KeyMap
<1>7. TableTypes
      BY <1>3, <1>5, <1>6 DEF Init, TableTypes
<1>8. ClientTypes
  <2>1. Nothing \in Loaded
        BY NothingFacts
  <2> QED BY <2>1, AccountsAssumption DEF Init, ClientTypes, Places
<1>9. HistoryTypes
       BY <1>1, <1>6 DEF Init, HistoryTypes, Put
<1>10. BudgetInv /\ OverrideInv /\ VolumeInv /\ SyncInv /\ TokenInv
       BY <1>3 DEF Init, BudgetInv, BudgetsAgree, FormOK, Forms, Within, OverrideInv, OverrideIs,
                   OverrideSeen, Overrides, VolumeInv, VolumeIs, VolumeSeen, Volumes, SyncInv,
                   ValveSeen, TokenInv
<1>11. \A c \in Clients : HolderOK(c)
       BY DEF Init, HolderOK, Within, Nothing, MapOK
<1>12. KeyInv
       BY <1>3, <1>4, <1>11 DEF Init, KeyInv, Given, MapOK, Billed
<1> QED BY <1>7, <1>8, <1>9, <1>10, <1>12 DEF AccountsInv, Types

LEMMA NextOK == AccountsInv /\ [Next]_vars => AccountsInv'
<1> SUFFICES ASSUME AccountsInv, [Next]_vars PROVE AccountsInv'
    OBVIOUS
<1>1. Types /\ BudgetInv /\ KeyInv
      BY DEF AccountsInv
<1>2. ASSUME NEW c \in Clients, NEW f \in Calls, LoadUser(c, f) PROVE AccountsInv'
      BY <1>1, <1>2, LoadUserTypes, LoadUserStep
<1>3. ASSUME NEW c \in Clients, ReloadUser(c) PROVE AccountsInv'
      BY <1>1, <1>3, ReloadUserTypes, ReloadUserStep
<1>4. ASSUME NEW c \in Clients, LoadQuota(c) PROVE AccountsInv'
      BY <1>1, <1>4, LoadQuotaTypes, LoadQuotaStep
<1>5. ASSUME NEW c \in Clients, CommitUser(c) PROVE AccountsInv'
      BY <1>1, <1>5, CommitUserTypes, CommitUserStep
<1>6. ASSUME NEW c \in Clients, NEW f \in Calls, LoadOverride(c, f) PROVE AccountsInv'
      BY <1>1, <1>6, LoadOverrideTypes, LoadOverrideStep
<1>7. ASSUME NEW c \in Clients, CommitOverride(c) PROVE AccountsInv'
      BY <1>1, <1>7, CommitOverrideTypes, CommitOverrideStep
<1>8. ASSUME NEW c \in Clients, NEW f \in Calls, LoadVolume(c, f) PROVE AccountsInv'
      BY <1>1, <1>8, LoadVolumeTypes, LoadVolumeStep
<1>9. ASSUME NEW c \in Clients, ReloadVolume(c) PROVE AccountsInv'
      BY <1>1, <1>9, ReloadVolumeTypes, ReloadVolumeStep
<1>10. ASSUME NEW c \in Clients, CommitVolume(c) PROVE AccountsInv'
      BY <1>1, <1>10, CommitVolumeTypes, CommitVolumeStep
<1>11. ASSUME NEW c \in Clients, NEW f \in Calls, LoadAccount(c, f) PROVE AccountsInv'
       BY <1>1, <1>11, LoadAccountTypes, LoadAccountStep
<1>12. ASSUME NEW c \in Clients, CreateUser(c) PROVE AccountsInv'
       BY <1>1, <1>12, CreateUserTypes, CreateUserStep
<1>13. ASSUME NEW c \in Clients, CommitKey(c) PROVE AccountsInv'
       BY <1>1, <1>13, CommitKeyTypes, CommitKeyStep
<1>14. ASSUME NEW c \in Clients, NEW f \in Calls, RevokeKey(c, f) PROVE AccountsInv'
       BY <1>1, <1>14, RevokeKeyTypes, RevokeKeyStep
<1>15. ASSUME NEW c \in Clients, NEW f \in Calls, SyncOpenwebui(c, f) PROVE AccountsInv'
       BY <1>1, <1>15, SyncTypes, SyncStep
<1>16. ASSUME NEW c \in Clients, FetchValves(c) PROVE AccountsInv'
       BY <1>1, <1>16, FetchTypes, FetchStep
<1>17. ASSUME NEW c \in Clients, PostValves(c) PROVE AccountsInv'
       BY <1>1, <1>17, PostTypes, PostStep
<1>18. ASSUME NEW c \in Clients, NEW f \in Calls, Login(c, f) PROVE AccountsInv'
       BY <1>1, <1>18, LoginTypes, LoginStep
<1>19. ASSUME NEW c \in Clients, NEW f \in Calls, JwtRequest(c, f) PROVE AccountsInv'
       BY <1>1, <1>19, JwtTypes, JwtStep
<1>20. ASSUME NEW c \in Clients, NEW f \in Calls, Chat(c, f) PROVE AccountsInv'
       BY <1>1, <1>20, ChatTypes, ChatStep
<1>21. ASSUME NEW c \in Clients, LookupApiKey(c) PROVE AccountsInv'
       BY <1>1, <1>21, LookupTypes, LookupStep
<1>22. CASE UNCHANGED vars
  <2>1. UNCHANGED <<users, quotas, override, volume, keys, valve, tokens, pc, call, loaded, key,
                    calls, raced, put, posted, overtaken, typed, served>>
        BY <1>22 DEF vars, tables, clientVars, history
  <2>2. Types'
        BY <1>1, <2>1 DEF Types, TableTypes, ClientTypes, HistoryTypes
  <2>3. (\A c \in Clients : Same(c)) /\ UsersKept /\ KeysKept
        BY <2>1 DEF Same, UsersKept, KeysKept
  <2>4. (\A c \in Clients : FormOK(c)' /\ HolderOK(c)')
        BY <1>1, <2>1, <2>3, FormKept, HolderKept DEF BudgetInv, KeyInv
  <2>5. BudgetInv' /\ KeyInv'
        BY <1>1, <2>1, <2>4 DEF BudgetInv, BudgetsAgree, KeyInv, Given, MapOK, Sent, Billed
  <2>6. OverrideInv' /\ VolumeInv' /\ SyncInv' /\ TokenInv'
        BY <2>1, <2>3, SeenKept DEF AccountsInv, OverrideInv, OverrideIs, VolumeInv, VolumeIs,
                                    SyncInv, TokenInv
  <2> QED BY <2>2, <2>5, <2>6 DEF AccountsInv
<1> QED BY <1>2, <1>4, <1>5, <1>6, <1>7, <1>8, <1>9, <1>10, <1>11, <1>12, <1>13, <1>14, <1>15,
           <1>16, <1>17, <1>18, <1>19, <1>20, <1>21, <1>22, <1>3 DEF Next

(* In every reachable state the tables, the open calls and the history fit   *)
(* together: main.py's account endpoints, the dashboard's pages, `llmctl     *)
(* users` and openwebui_sync keep the inductive invariant.                   *)
THEOREM AccountsInvHolds == Spec => []AccountsInv
BY InitOK, NextOK, PTL DEF Spec

(* Tables, calls and sessions have their types, every key has an owner on    *)
(* record, and what the pipeline's map names is a key on record, revoked or  *)
(* not, or else a string that an operator has given to POST                  *)
(* /admin/sync-openwebui and that never was a key.                           *)
THEOREM TypesHold == Spec => []TypeOK
<1>1. AccountsInv => TypeOK
  <2> SUFFICES ASSUME AccountsInv PROVE TypeOK
      OBVIOUS
  <2>1. Types /\ KeyInv
        BY DEF AccountsInv
  <2>2. \A u \in Users : valve[u] \in Keys => keys[valve[u]] # None
        BY <2>1, AccountsAssumption DEF KeyInv, MapOK, Sent, Given
  <2>3. \A k \in Keys : keys[k] # None => users[keys[k].owner] # None
        BY <2>1 DEF KeyInv, Given
  <2>4. call \in [Clients -> Call \cup {None}] /\ \A c \in Clients : pc[c] # "idle" => call[c] # None
        BY <2>1, AccountsAssumption DEF Types, ClientTypes
  <2> QED BY <2>1, <2>2, <2>3, <2>4 DEF Types, TableTypes, ClientTypes, HistoryTypes, Places, KeyMap, TypeOK
<1> QED BY <1>1, AccountsInvHolds, PTL

(* users.monthly_budget_usd and quotas.usd_per_month agree, unless two       *)
(* budget forms for the same user have overlapped.                           *)
THEOREM BudgetsAgreeHolds == Spec => []BudgetsAgree
<1>1. AccountsInv => BudgetsAgree
      BY DEF AccountsInv, BudgetInv
<1> QED BY <1>1, AccountsInvHolds, PTL

(* The override of a tier and the volume of a user are what one call asked   *)
(* for, and the volume has the key it was saved with, unless calls for the   *)
(* row have overlapped.                                                      *)
THEOREM SettingsHold == Spec => []SettingsAreOneForm
<1>1. AccountsInv => SettingsAreOneForm
  <2> SUFFICES ASSUME AccountsInv PROVE SettingsAreOneForm
      OBVIOUS
  <2>1. "override" \notin raced => OverrideIs(put.override)
        BY DEF AccountsInv, OverrideInv
  <2>2. "volume" \notin raced => VolumeIs(put.volume, put.secret)
        BY DEF AccountsInv, VolumeInv
  <2> QED BY <2>1, <2>2 DEF SettingsAreOneForm, OverrideIs, VolumeIs
<1> QED BY <1>1, AccountsInvHolds, PTL

(* A chat from Open WebUI whose sender the pipeline's map named when it was   *)
(* sent is billed to the sender, or to the owner of the key that an operator *)
(* has given the sender; and the map keeps, through the syncs of others, the *)
(* key of the last sync of each user whom none of those has overtaken.       *)
THEOREM ChatBills == Spec => []ChatBillsSender
<1>1. AccountsInv => ChatBillsSender
      BY DEF AccountsInv, KeyInv, SyncInv, Billed, ChatBillsSender
<1> QED BY <1>1, AccountsInvHolds, PTL

(* Which steps write user rows, and which let a request in. *)
LEMMA WhoWrites ==
  ASSUME [Next]_vars
  PROVE  /\ users' = users \/ \E c \in Clients : CommitUser(c) \/ CreateUser(c)
         /\ served' = served \/ \E c \in Clients : LookupApiKey(c) \/ \E f \in Calls : JwtRequest(c, f)
<1>1. \A c \in Clients : ReloadUser(c) \/ LoadQuota(c) \/ ReloadVolume(c) \/ FetchValves(c)
                         => UNCHANGED <<users, served>>
      BY DEF ReloadUser, LoadQuota, ReloadVolume, FetchValves, tables, history
<1>2. \A c \in Clients : CommitOverride(c) \/ CommitVolume(c) \/ PostValves(c) => UNCHANGED <<users, served>>
      BY DEF CommitOverride, CommitVolume, PostValves
<1>3. \A c \in Clients : CommitKey(c) => UNCHANGED <<users, served>>
      BY DEF CommitKey, history
<1>4. \A c \in Clients : LookupApiKey(c) => UNCHANGED users
      BY DEF LookupApiKey, tables
<1>5. \A c \in Clients : CommitUser(c) => UNCHANGED served
      BY DEF CommitUser
<1>6. \A c \in Clients : CreateUser(c) => UNCHANGED served
      BY DEF CreateUser, history
<1>7. \A c \in Clients, f \in Calls : LoadUser(c, f) \/ LoadOverride(c, f) \/ LoadVolume(c, f)
                                     \/ LoadAccount(c, f) => UNCHANGED <<users, served>>
      BY DEF LoadUser, LoadOverride, LoadVolume, LoadAccount, tables, history
<1>8. \A c \in Clients, f \in Calls : RevokeKey(c, f) \/ SyncOpenwebui(c, f) \/ Login(c, f)
                                     \/ Chat(c, f) => UNCHANGED <<users, served>>
      BY DEF RevokeKey, SyncOpenwebui, Login, Chat, tables, history
<1>9. \A c \in Clients, f \in Calls : JwtRequest(c, f) => UNCHANGED users
      BY DEF JwtRequest, tables
<1>10. CASE UNCHANGED vars
       BY <1>10 DEF vars, tables, history
<1>11. CASE Next
       BY <1>1, <1>2, <1>3, <1>4, <1>5, <1>6, <1>7, <1>8, <1>9, <1>11 DEF Next
<1> QED BY <1>10, <1>11

LEMMA ActivatedBySuspend ==
  ASSUME AccountsInv, [Next]_vars, NEW u \in Users, users[u] # None, ~users[u].active, users'[u].active
  PROVE  \E c \in Clients : At(c, "commit", {"suspend"}) /\ call[c].user = u
<1>1. users \in [Users -> User \cup {None}]
      BY DEF AccountsInv, Types, TableTypes
<1>2. users[u] \in User /\ users[u].active = FALSE /\ users' # users
      BY <1>1 DEF User
<1>3. CASE \E c \in Clients : CommitUser(c)
  <2>1. PICK c \in Clients : CommitUser(c)
        BY <1>3
  <2> DEFINE row == Merged(users[call[c].user], loaded[c].user, Saved(c))
  <2>2. /\ pc[c] = "commit" /\ users' = [users EXCEPT ![call[c].user] = row]
        /\ users[call[c].user].active = FALSE /\ call[c].kind # "suspend" => row.active = FALSE
        BY <2>1, CommitUserShape
  <2> HIDE DEF row
  <2>3. call[c].user = u
        BY <1>1, <2>2
  <2>4. users'[u] = row
        BY <1>1, <2>2, <2>3
  <2>5. call[c].kind = "suspend"
        BY <1>2, <2>2, <2>3, <2>4
  <2> QED BY <2>2, <2>3, <2>5 DEF At
<1>4. CASE \E c \in Clients : CreateUser(c)
  <2>1. PICK c \in Clients : CreateUser(c)
        BY <1>4
  <2>2. users[call[c].user] = None /\ users' = [users EXCEPT ![call[c].user] = NewUser(call[c].value)]
        BY <1>2, <2>1 DEF CreateUser
  <2>3. users'[u] = users[u]
        BY <1>1, <2>2
  <2> QED BY <1>2, <2>3
<1>5. CASE ~ \E c \in Clients : CommitUser(c) \/ CreateUser(c)
  <2>1. users' = users
        BY <1>5, WhoWrites
  <2> QED BY <1>2, <2>1
<1> QED BY <1>3, <1>4, <1>5

LEMMA OnlyActiveAdmitted ==
  ASSUME AccountsInv, [Next]_vars, NEW b \in served' \ served
  PROVE  users[b.as].active
<1>1. served' # served
      OBVIOUS
<1>2. CASE \E c \in Clients, f \in Calls : JwtRequest(c, f)
      BY <1>2 DEF JwtRequest, Admits
<1>3. CASE \E c \in Clients : LookupApiKey(c)
  <2>1. PICK c \in Clients : LookupApiKey(c)
        BY <1>3
  <2> DEFINE owner == keys[key[c]].owner
             new == [user |-> call[c].user, as |-> owner,
                     entry |-> loaded[c].valve[call[c].user]]
  <2>2. served' = served \/ (users[owner].active /\ served' = served \cup {new})
        BY <2>1 DEF LookupApiKey, Admits
  <2>3. new.as = owner
        OBVIOUS
  <2> HIDE DEF new, owner
  <2> QED BY <2>2, <2>3
<1>4. CASE ~ \E c \in Clients : LookupApiKey(c) \/ \E f \in Calls : JwtRequest(c, f)
  <2>1. served' = served
        BY <1>4, WhoWrites
  <2> QED BY <1>1, <2>1
<1> QED BY <1>2, <1>3, <1>4

(* A suspended user is brought back by Activate alone, and no request of a   *)
(* suspended user is let in, by JWT or by API key.                           *)
THEOREM SuspendedHold == Spec => SuspendedStaysOut
<1> DEFINE Out ==
      /\ \A u \in Users : users[u] # None /\ ~users[u].active /\ users'[u].active =>
           \E c \in Clients : At(c, "commit", {"suspend"}) /\ call[c].user = u
      /\ \A b \in served' \ served : users[b.as].active
<1>1. AccountsInv /\ [Next]_vars => [Out]_vars
      BY ActivatedBySuspend, OnlyActiveAdmitted
<1>2. [][Out]_vars => SuspendedStaysOut
      BY DEF SuspendedStaysOut
<1> HIDE DEF Out
<1> QED BY <1>1, <1>2, AccountsInvHolds, PTL DEF Spec
=============================================================================
