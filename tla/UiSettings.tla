----------------------------- MODULE UiSettings -----------------------------
(***************************************************************************)
(* The persisted UI settings: the tenant's and the users' versioned rows   *)
(* (UiSettingsRepository behind UiSettingsService and its routes), and     *)
(* the browser tabs that show and edit them (UiCustomizationProvider over  *)
(* httpUiSettingsSource).                                                  *)
(*                                                                         *)
(* One load of a tab is five separate transactions: the effective route    *)
(* reads the platform, tenant and user layers concurrently, and the two    *)
(* layer routes read the tenant's and the user's row once more.  The       *)
(* platform row is read-only to the application and is a constant here.    *)
(* Other tabs may write between any two of those reads, and between the    *)
(* load and the edit that is based on it.                                  *)
(***************************************************************************)
EXTENDS Naturals

CONSTANTS
    Tabs,         \* browser tabs with the provider mounted
    Users,        \* users of one tenant
    Tenant,       \* names the tenant's row
    UserOf,       \* the user signed in at each tab
    Managers,     \* users holding tenant.ui_settings.manage
    Keys,         \* UiSettingKey
    Values,       \* preset identifiers
    BuiltIn,      \* BUILT_IN_UI_SETTINGS: a value for every key
    Scopes,       \* the editable layers in use; the others have no row
    Platform,     \* the patch of app.platform_ui_settings
    MaxEdits,     \* bound: edits the tabs start, together
    MaxReloads,   \* bound: reloads asked for by the users, together
    MaxEvents     \* bound: auth events at one tab

Patches == UNION {[ks -> Values] : ks \in SUBSET Keys}
Owners == Users \cup {Tenant}

ASSUME ScopeAssumption == Scopes \subseteq {"user", "tenant"}
ASSUME NamesAssumption == Tenant \notin Users
ASSUME UserAssumption == UserOf \in [Tabs -> Users] /\ Managers \subseteq Users
ASSUME PlatformAssumption == BuiltIn \in [Keys -> Values] /\ Platform \in Patches
ASSUME BoundAssumption == /\ MaxEdits \in Nat
                          /\ MaxReloads \in Nat
                          /\ MaxEvents \in Nat

VARIABLES
    rows,       \* app.tenant_ui_settings and app.user_ui_settings
    sequence,   \* sequence.current of each tab
    status,     \* what the tab shows about itself
    available,  \* available.current: edits may start from the snapshot
    busy,       \* busy.current: an edit is under way
    snapshot,   \* the settings, layers and permissions the tab shows
    loads,      \* source.load() calls under way
    writes,     \* PUT and DELETE requests under way
    edits,      \* how many edits have started
    reloads,    \* how many reloads the users asked for
    events      \* how many auth events each tab has received

tabVars == <<sequence, status, available, busy, snapshot>>
counters == <<edits, reloads, events>>
vars == <<rows, tabVars, loads, writes, counters>>

-----------------------------------------------------------------------------
(* Rows.  Version 0 stands for no row.  `births` is not a column: it       *)
(* counts the rows the owner has had, and only the properties read it.     *)

(* The patch, or the answers so far, with one more entry.                  *)
With(f, x, v) == [y \in DOMAIN f \cup {x} |-> IF y = x THEN v ELSE f[y]]

NoPatch == [k \in {} |-> BuiltIn[k]]
NoRow(births) == [settings |-> NoPatch, version |-> 0, births |-> births]
Exists(r) == r.version > 0

Owner(t, scope) == IF scope = "user" THEN UserOf[t] ELSE Tenant
Allowed(t, scope) == scope = "user" \/ UserOf[t] \in Managers

(* INSERT .. ON CONFLICT DO NOTHING when no version is expected, UPDATE .. *)
(* or DELETE .. WHERE version = expected otherwise: a statement that       *)
(* matches no row changes nothing, and the service answers 409.            *)
Matches(r, expected) == IF expected = 0 THEN ~Exists(r) ELSE r.version = expected

Created(r, patch) == [settings |-> patch, version |-> 1, births |-> r.births + 1]

UpdatedKeepingVersion(r, patch) == [r EXCEPT !.settings = patch]

Updated(r, patch) == [r EXCEPT !.settings = patch, !.version = r.version + 1]

Put(r, patch) == IF Exists(r) THEN Updated(r, patch) ELSE Created(r, patch)

Delete(r) == NoRow(r.births)

(* UiSettingsService.resolve: start from the built-in values and let each  *)
(* layer in turn override the keys it sets.                                *)
OverForgetting(values, patch) == patch

Over(values, patch) ==
    [k \in Keys |-> IF k \in DOMAIN patch THEN patch[k] ELSE values[k]]

ResolvePlatformLast(tenant, user) == Over(Over(Over(BuiltIn, tenant), user), Platform)

Resolve(tenant, user) == Over(Over(Over(BuiltIn, Platform), tenant), user)

-----------------------------------------------------------------------------
(* Tabs.                                                                   *)

(* TEMPORARY: the built-in values, nothing editable.  `merged` keeps the   *)
(* rows the effective route merged and `since` the auth events the tab had *)
(* seen when it asked for them, for the properties.                        *)
Temporary == [settings |-> BuiltIn,
              layers |-> [s \in Scopes |-> NoRow(0)],
              merged |-> [s \in Scopes |-> NoRow(0)],
              allowed |-> [s \in Scopes |-> FALSE],
              since |-> 0]

(* The reads of one load that can differ: the effective route's and the    *)
(* layer routes' read of each editable layer.                              *)
Reads == {"effective", "layer"} \X Scopes

Load(t, seq, since) ==
    [tab |-> t, seq |-> seq, since |-> since, got |-> [x \in {} |-> NoRow(0)]]

Init ==
    /\ rows = [o \in Owners |-> NoRow(0)]
    /\ sequence = [t \in Tabs |-> 1]
    /\ status = [t \in Tabs |-> "loading"]
    /\ available = [t \in Tabs |-> FALSE]
    /\ busy = [t \in Tabs |-> FALSE]
    /\ snapshot = [t \in Tabs |-> Temporary]
    /\ loads = {Load(t, 1, 0) : t \in Tabs}
    /\ writes = {}
    /\ edits = 0
    /\ reloads = 0
    /\ events = [t \in Tabs |-> 0]

(* An answer counts only while nothing newer has started at its tab.       *)
CurrentAlways(t, seq) == seq > 0

Current(t, seq) == sequence[t] = seq

Reset(t, next) ==
    /\ available' = [available EXCEPT ![t] = FALSE]
    /\ snapshot' = [snapshot EXCEPT ![t] = Temporary]
    /\ status' = [status EXCEPT ![t] = next]

Idle(t) == busy' = [busy EXCEPT ![t] = FALSE]

(* reload: a new sequence number, no edit under way, a new load.  `rest`   *)
(* are the loads that stay, `ahead` the numbers the caller used up.        *)
Reload(t, ahead, rest, since) ==
    LET seq == sequence[t] + ahead + 1 IN
    /\ sequence' = [sequence EXCEPT ![t] = seq]
    /\ Idle(t)
    /\ Reset(t, "loading")
    /\ loads' = rest \cup {Load(t, seq, since)}

(* The user asks for the settings again.                                   *)
AskReload(t) ==
    /\ reloads < MaxReloads
    /\ reloads' = reloads + 1
    /\ Reload(t, 0, loads, events[t])
    /\ UNCHANGED <<rows, writes, edits, events>>

(* The auth client reports that the trusted context changed, or that the   *)
(* session is gone.                                                        *)
Noticed(t) ==
    /\ events[t] < MaxEvents
    /\ events' = [events EXCEPT ![t] = @ + 1]
    /\ UNCHANGED <<rows, writes, edits, reloads>>

Changed(t) ==
    /\ Noticed(t)
    /\ Reload(t, 1, loads, events[t] + 1)

InvalidStayingBusy(t) ==
    /\ Noticed(t)
    /\ sequence' = [sequence EXCEPT ![t] = @ + 1]
    /\ Reset(t, "unauthorized")
    /\ UNCHANGED <<busy, loads>>

Invalid(t) ==
    /\ Noticed(t)
    /\ sequence' = [sequence EXCEPT ![t] = @ + 1]
    /\ Idle(t)
    /\ Reset(t, "unauthorized")
    /\ UNCHANGED loads
-----------------------------------------------------------------------------
(* source.load: each read is a transaction of its own.  A caller without   *)
(* the permission is told 403 and shows no layer.  What an overtaken load  *)
(* would still read is dropped with it, so it reads no more here.          *)
Read(l, route, scope) ==
    /\ sequence[l.tab] = l.seq
    /\ <<route, scope>> \notin DOMAIN l.got
    /\ LET owner == Owner(l.tab, scope)
           found == IF route = "layer" /\ ~Allowed(l.tab, scope)
                    THEN NoRow(0) ELSE rows[owner]
       IN loads' = (loads \ {l}) \cup
                     {[l EXCEPT !.got = With(@, <<route, scope>>, found)]}
    /\ UNCHANGED <<rows, tabVars, writes, counters>>

(* The load is refused when a layer's version is not the one the effective *)
(* settings were merged from.                                              *)
AgreeAlways(l) == l.seq > 0

Agree(l) ==
    \A s \in Scopes : Allowed(l.tab, s) =>
        l.got[<<"effective", s>>].version = l.got[<<"layer", s>>].version

Show(l) ==
    LET t == l.tab
        of(route) == [s \in Scopes |-> l.got[<<route, s>>]]
        patch(s) == IF s \in Scopes THEN l.got[<<"effective", s>>].settings ELSE NoPatch
    IN /\ snapshot' = [snapshot EXCEPT ![t] =
             [settings |-> Resolve(patch("tenant"), patch("user")),
              layers |-> of("layer"),
              merged |-> of("effective"),
              allowed |-> [s \in Scopes |-> Allowed(t, s)],
              since |-> l.since]]
       /\ available' = [available EXCEPT ![t] = TRUE]
       /\ status' = [status EXCEPT ![t] = "ready"]

FinishLoad(l) ==
    /\ DOMAIN l.got = Reads \/ ~Current(l.tab, l.seq)
    /\ loads' = loads \ {l}
    /\ \/ /\ Current(l.tab, l.seq)
          /\ IF Agree(l) THEN Show(l) ELSE Reset(l.tab, "conflict")
       \/ /\ ~Current(l.tab, l.seq)
          /\ UNCHANGED <<status, available, snapshot>>
    /\ UNCHANGED <<rows, sequence, busy, writes, counters>>

(* Some request of the load fails.                                         *)
FailLoad(l) ==
    /\ loads' = loads \ {l}
    /\ IF Current(l.tab, l.seq) THEN Reset(l.tab, "error")
                                ELSE UNCHANGED <<status, available, snapshot>>
    /\ UNCHANGED <<rows, sequence, busy, writes, counters>>

-----------------------------------------------------------------------------
(* persist: the whole layer is replaced, and an empty one removed, under   *)
(* the version the tab shows.                                              *)
Persist(t, scope, next) ==
    LET layer == snapshot[t].layers[scope]
        seq == sequence[t] + 1
        request == [tab |-> t, seq |-> seq, scope |-> scope, patch |-> next,
                    base |-> layer, expected |-> layer.version, answer |-> "none"]
    IN /\ available[t] /\ ~busy[t] /\ snapshot[t].allowed[scope]
       /\ edits < MaxEdits
       /\ edits' = edits + 1
       /\ \/ /\ DOMAIN next # {} \/ Exists(layer)
             /\ sequence' = [sequence EXCEPT ![t] = seq]
             /\ busy' = [busy EXCEPT ![t] = TRUE]
             /\ status' = [status EXCEPT ![t] = "saving"]
             /\ writes' = writes \cup {request}
             /\ UNCHANGED <<available, snapshot, loads>>
          \/ /\ DOMAIN next = {} /\ ~Exists(layer)
             /\ Reload(t, 1, loads, events[t])
             /\ UNCHANGED writes
       /\ UNCHANGED <<rows, reloads, events>>

SetSetting(t, scope, k, v) ==
    Persist(t, scope, With(snapshot[t].layers[scope].settings, k, v))

ClearSetting(t, scope, k) ==
    LET shown == snapshot[t].layers[scope].settings
    IN Persist(t, scope, [j \in DOMAIN shown \ {k} |-> shown[j]])

(* The server executes the statement.                                      *)
Serve(w) ==
    LET owner == Owner(w.tab, w.scope)
        r == rows[owner]
        answered(result) == writes' = (writes \ {w}) \cup {[w EXCEPT !.answer = result]}
    IN /\ w.answer = "none"
       /\ \/ /\ Matches(r, w.expected)
             /\ rows' = [rows EXCEPT ![owner] =
                           IF DOMAIN w.patch = {} THEN Delete(r) ELSE Put(r, w.patch)]
             /\ answered("ok")
          \/ /\ ~Matches(r, w.expected)
             /\ answered("conflict")
             /\ UNCHANGED rows
       /\ UNCHANGED <<tabVars, loads, counters>>

(* The answer reaches the tab: reload after a success, and keep nothing    *)
(* after a failure.                                                        *)
Answer(w) ==
    /\ w.answer # "none"
    /\ writes' = writes \ {w}
    /\ \/ /\ Current(w.tab, w.seq) /\ w.answer = "ok"
          /\ Reload(w.tab, 0, loads, events[w.tab])
       \/ /\ Current(w.tab, w.seq) /\ w.answer = "conflict"
          /\ Reset(w.tab, "conflict")
          /\ Idle(w.tab)
          /\ UNCHANGED <<sequence, loads>>
       \/ /\ ~Current(w.tab, w.seq)
          /\ UNCHANGED <<tabVars, loads>>
    /\ UNCHANGED <<rows, counters>>

(* The request fails at the tab; the server may never see it, or may still *)
(* execute it with nobody waiting (sequence number 0).                     *)
FailWrite(w) ==
    /\ w.seq > 0
    /\ \/ writes' = writes \ {w}
       \/ /\ w.answer = "none"
          /\ writes' = (writes \ {w}) \cup {[w EXCEPT !.seq = 0]}
    /\ IF Current(w.tab, w.seq)
       THEN Reset(w.tab, "error") /\ Idle(w.tab)
       ELSE UNCHANGED <<status, available, busy, snapshot>>
    /\ UNCHANGED <<rows, sequence, loads, counters>>

Network ==
    \/ \E l \in loads : \/ \E route \in {"effective", "layer"}, s \in Scopes : Read(l, route, s)
                        \/ FinishLoad(l)
                        \/ FailLoad(l)
    \/ \E w \in writes : Serve(w) \/ Answer(w) \/ FailWrite(w)

Person ==
    \E t \in Tabs :
        \/ AskReload(t)
        \/ Changed(t)
        \/ Invalid(t)
        \/ \E s \in Scopes, k \in Keys :
               \/ \E v \in Values : SetSetting(t, s, k, v)
               \/ ClearSetting(t, s, k)

Next == Network \/ Person

Spec == Init /\ [][Next]_vars

(* Every request of a tab is answered or fails: the browser settles each   *)
(* fetch.  Nobody has to edit or reload.                                   *)
FairSpec == Spec /\ WF_vars(Network)

-----------------------------------------------------------------------------
Rows == [settings : Patches, version : Nat, births : Nat]

(* Types of the rows, the tabs and the requests under way; a missing row   *)
(* has no settings, and what a tab shows has a value for every key.        *)
TypeOK ==
    /\ rows \in [Owners -> Rows]
    /\ \A o \in Owners : Exists(rows[o]) \/ rows[o].settings = NoPatch
    /\ sequence \in [Tabs -> Nat]
    /\ status \in [Tabs -> {"loading", "ready", "saving", "conflict", "error",
                            "unauthorized"}]
    /\ available \in [Tabs -> BOOLEAN] /\ busy \in [Tabs -> BOOLEAN]
    /\ snapshot \in [Tabs -> [settings : [Keys -> Values],
                              layers : [Scopes -> Rows],
                              merged : [Scopes -> Rows],
                              allowed : [Scopes -> BOOLEAN],
                              since : Nat]]
    /\ \A l \in loads : l.tab \in Tabs /\ l.seq \in Nat /\ DOMAIN l.got \subseteq Reads
    /\ \A w \in writes : w.tab \in Tabs /\ w.patch \in Patches /\ w.base \in Rows
    /\ edits \in 0..MaxEdits /\ reloads \in 0..MaxReloads
    /\ events \in [Tabs -> 0..MaxEvents]

(* The value of a key in the most specific layer that sets it.             *)
Effective(k, tenant, user) ==
    CASE k \in DOMAIN user -> user[k]
      [] k \in DOMAIN tenant /\ k \notin DOMAIN user -> tenant[k]
      [] k \in DOMAIN Platform /\ k \notin DOMAIN tenant \cup DOMAIN user -> Platform[k]
      [] OTHER -> BuiltIn[k]

SameRow(t, s) == snapshot[t].merged[s].births = snapshot[t].layers[s].births

(* The settings a tab shows are the ones its own editable layers produce:  *)
(* five reads in separate transactions and the version comparison of       *)
(* httpUiSettingsSource.load never show a value from one state of a layer  *)
(* beside the patch of another, as long as the row was not deleted and     *)
(* created again between the reads.                                        *)
ShownIsCoherent ==
    \A t \in Tabs :
        status[t] \in {"ready", "saving"} =>
            LET used(s) == CASE s \notin Scopes -> NoPatch
                             [] s \in Scopes /\ snapshot[t].allowed[s] /\ SameRow(t, s) ->
                                    snapshot[t].layers[s].settings
                             [] OTHER -> snapshot[t].merged[s].settings
            IN \A k \in Keys :
                 snapshot[t].settings[k] = Effective(k, used("tenant"), used("user"))

(* A tab never shows settings it asked for before the last auth event it   *)
(* received: a late answer of an overtaken load is dropped.                *)
NothingFromBeforeAnEvent ==
    \A t \in Tabs :
        status[t] \in {"ready", "saving"} => snapshot[t].since = events[t]

(* A PUT or DELETE that takes effect replaces exactly the row its tab      *)
(* showed when the user made the edit, as long as that row was not deleted *)
(* and created again in between; an insert replaces nothing.               *)
WriteReplacesWhatWasShown ==
    [][\A w \in writes :
         (Serve(w) /\ rows' # rows) =>
             LET r == rows[Owner(w.tab, w.scope)]
             IN r.births = w.base.births => r = w.base]_vars

(* An edit always ends: busy never stays set, whatever answers, failures   *)
(* and auth events meet it.                                                *)
EditsEnd == \A t \in Tabs : busy[t] ~> ~busy[t]
=============================================================================
