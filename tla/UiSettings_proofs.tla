-------------------------- MODULE UiSettings_proofs --------------------------
(***************************************************************************)
(* Safety of UiSettings for every set of tabs, users, keys and values.     *)
(*                                                                         *)
(* A row is known by its owner, by which of the owner's rows it is, and by *)
(* its version.  The invariant says that whatever was read of a row is the *)
(* row as it is now, or an earlier state of it that can never return, and  *)
(* that a load which still counts was started after the last auth event.   *)
(***************************************************************************)
EXTENDS UiSettings, TLAPS

(* g is the state r of a row, or one the row has left for good.            *)
Past(g, r) ==
    \/ g.births < r.births
    \/ /\ g.births = r.births
       /\ \/ g = r
          \/ g.version > 0 /\ (r.version = 0 \/ g.version < r.version)

Gots == UNION {[D -> Rows] : D \in SUBSET Reads}
Snapshots == [settings : [Keys -> Values], layers : [Scopes -> Rows],
              merged : [Scopes -> Rows], allowed : [Scopes -> BOOLEAN], since : Nat]
Statuses == {"loading", "ready", "saving", "conflict", "error", "unauthorized"}

LoadRequests == [tab : Tabs, seq : Nat, since : Nat, got : Gots]
WriteRequests == [tab : Tabs, seq : Nat, scope : Scopes, patch : Patches, base : Rows,
                  expected : Nat, answer : {"none", "ok", "conflict"}]

(* Types of every request under way, which TypeOK leaves open in part.     *)
RequestTypes == loads \subseteq LoadRequests /\ writes \subseteq WriteRequests

(* A tab shows its snapshot exactly while edits may start from it.         *)
ShownIsAvailable == \A t \in Tabs : available[t] <=> status[t] \in {"ready", "saving"}

(* A load that still counts, and what a tab shows, come after the last     *)
(* auth event.                                                             *)
LoadsAreRecent ==
    \A l \in loads : /\ l.seq <= sequence[l.tab]
                     /\ l.seq = sequence[l.tab] => l.since = events[l.tab]
ShownIsRecent == \A t \in Tabs : available[t] => snapshot[t].since = events[t]

(* What a load has read is past, and two reads of one state of a row are   *)
(* equal.                                                                  *)
ReadIsPast(l, x, table) ==
    x[1] = "effective" \/ Allowed(l.tab, x[2]) => Past(l.got[x], table[Owner(l.tab, x[2])])
ReadsAgree(l, s) ==
    LET e == <<"effective", s>> y == <<"layer", s>> IN
    /\ {e, y} \subseteq DOMAIN l.got /\ Allowed(l.tab, s)
    /\ l.got[e].births = l.got[y].births /\ l.got[e].version = l.got[y].version
    => l.got[e] = l.got[y]
ReadsArePast ==
    \A l \in loads : /\ \A x \in DOMAIN l.got : ReadIsPast(l, x, rows)
                     /\ \A s \in Scopes : ReadsAgree(l, s)

(* What a tab shows of an editable layer is past, agrees with the settings *)
(* it was merged into, and a write is based on it.                         *)
LayerIsPast(t, s, shown, table) == shown.allowed[s] => Past(shown.layers[s], table[Owner(t, s)])
Merged(shown, s) == IF s \in Scopes THEN shown.merged[s].settings ELSE NoPatch
ShownIsMerged(shown) ==
    /\ shown.settings = Resolve(Merged(shown, "tenant"), Merged(shown, "user"))
    /\ \A s \in Scopes :
          shown.allowed[s] /\ shown.merged[s].births = shown.layers[s].births =>
              shown.merged[s].settings = shown.layers[s].settings
ShownIsPast ==
    \A t \in Tabs : /\ \A s \in Scopes : LayerIsPast(t, s, snapshot[t], rows)
                    /\ available[t] => ShownIsMerged(snapshot[t])
BasesArePast ==
    \A w \in writes : /\ w.expected = w.base.version
                      /\ Past(w.base, rows[Owner(w.tab, w.scope)])

IndInv ==
    /\ TypeOK
    /\ RequestTypes
    /\ ShownIsAvailable
    /\ LoadsAreRecent
    /\ ShownIsRecent
    /\ ReadsArePast
    /\ ShownIsPast
    /\ BasesArePast

-----------------------------------------------------------------------------
(* Patches, answers and rows.                                              *)

(* A function from some keys to values is a patch, and a patch is one.     *)
LEMMA PatchForm ==
    ASSUME NEW p
    PROVE  /\ (\E ks \in SUBSET Keys : p \in [ks -> Values]) => p \in Patches
           /\ p \in Patches => /\ DOMAIN p \subseteq Keys
                               /\ \A k \in DOMAIN p : p[k] \in Values
                               /\ p = [k \in DOMAIN p |-> p[k]]
BY DEF Patches

(* The same of the answers a load has collected.                           *)
LEMMA GotForm ==
    ASSUME NEW g
    PROVE  /\ (\E D \in SUBSET Reads : g \in [D -> Rows]) => g \in Gots
           /\ g \in Gots => /\ DOMAIN g \subseteq Reads
                            /\ \A x \in DOMAIN g : g[x] \in Rows
                            /\ g = [x \in DOMAIN g |-> g[x]]
BY DEF Gots

(* An entry added to a patch, or to the answers, makes a patch, or answers. *)
LEMMA WithKeepsForm ==
    /\ \A p \in Patches, k \in Keys, v \in Values : With(p, k, v) \in Patches
    /\ \A g \in Gots, x \in Reads, r \in Rows : With(g, x, r) \in Gots
<1>1. ASSUME NEW p \in Patches, NEW k \in Keys, NEW v \in Values
      PROVE  With(p, k, v) \in Patches
  <2>1. /\ DOMAIN p \cup {k} \in SUBSET Keys
        /\ With(p, k, v) \in [DOMAIN p \cup {k} -> Values]
    BY PatchForm DEF With
  <2> QED BY <2>1, PatchForm
<1>2. ASSUME NEW g \in Gots, NEW x \in Reads, NEW r \in Rows
      PROVE  With(g, x, r) \in Gots
  <2>1. /\ DOMAIN g \cup {x} \in SUBSET Reads
        /\ With(g, x, r) \in [DOMAIN g \cup {x} -> Rows]
    BY GotForm DEF With
  <2> QED BY <2>1, GotForm
<1> QED BY <1>1, <1>2

(* A key removed from a patch leaves a patch.                              *)
LEMMA WithoutKeepsForm ==
    ASSUME NEW p \in Patches, NEW k
    PROVE  [j \in DOMAIN p \ {k} |-> p[j]] \in Patches
<1>1. /\ DOMAIN p \ {k} \in SUBSET Keys
      /\ [j \in DOMAIN p \ {k} |-> p[j]] \in [DOMAIN p \ {k} -> Values]
  BY PatchForm
<1> QED BY <1>1, PatchForm

(* No row is a row without settings.                                       *)
LEMMA NoRowForm ==
    /\ NoPatch \in Patches /\ DOMAIN NoPatch = {}
    /\ \A n \in Nat : NoRow(n) \in Rows
<1>1. NoPatch \in [{} -> Values] /\ {} \in SUBSET Keys /\ DOMAIN NoPatch = {}
  BY DEF NoPatch
<1>2. NoPatch \in Patches
  BY <1>1, PatchForm
<1> QED BY <1>1, <1>2 DEF NoRow, Rows

(* What a statement that matched leaves is a row, or no row.               *)
LEMMA StatementForm ==
    ASSUME NEW r \in Rows, NEW patch \in Patches
    PROVE  /\ Put(r, patch) \in Rows /\ Exists(Put(r, patch))
           /\ Delete(r) \in Rows /\ Delete(r).settings = NoPatch
<1>1. Put(r, patch) \in Rows /\ Exists(Put(r, patch))
  <2>1. CASE Exists(r)
    <3>1. PICK n \in Nat : n = r.version + 1
      BY DEF Rows
    <3>2. Updated(r, patch) = [r EXCEPT !.settings = patch, !.version = n]
      BY <3>1 DEF Updated
    <3>3. Updated(r, patch) \in Rows /\ Updated(r, patch).version = n
      BY <3>2 DEF Rows
    <3> QED BY <2>1, <3>1, <3>3 DEF Put, Exists, Rows
  <2>2. CASE ~Exists(r)
    BY <2>2 DEF Put, Created, Exists, Rows
  <2> QED BY <2>1, <2>2
<1>2. Delete(r) \in Rows /\ Delete(r).settings = NoPatch
  BY NoRowForm DEF Delete, NoRow, Rows
<1> QED BY <1>1, <1>2

(* What a row has left it has left for good: an update raises the version, *)
(* a deletion ends the row, an insert makes another one.                   *)
LEMMA PastStays ==
    ASSUME NEW g \in Rows, NEW r \in Rows, NEW patch \in Patches, Past(g, r),
           Exists(r) \/ r.settings = NoPatch
    PROVE  Past(g, Put(r, patch)) /\ Past(g, Delete(r))
<1>1. Past(g, Put(r, patch))
  BY DEF Past, Put, Updated, Created, Exists, Rows
<1>2. Past(g, Delete(r))
  BY DEF Past, Delete, NoRow, Exists, Rows
<1> QED BY <1>1, <1>2

(* A past state with the number and the version of the row is the row.     *)
LEMMA PastIsPresent ==
    ASSUME NEW g \in Rows, NEW r \in Rows, Past(g, r),
           g.births = r.births, g.version = r.version
    PROVE  g = r
BY DEF Past, Rows

(* The merge gives every key a value.                                      *)
LEMMA ResolveForm ==
    ASSUME NEW tenant \in Patches, NEW user \in Patches
    PROVE  Resolve(tenant, user) \in [Keys -> Values]
<1>1. ASSUME NEW values \in [Keys -> Values], NEW patch \in Patches
      PROVE  Over(values, patch) \in [Keys -> Values]
  BY <1>1, PatchForm DEF Over
<1> QED BY <1>1, PlatformAssumption DEF Resolve

(* UiSettingsService.resolve: merging layer by layer gives each key the    *)
(* value of the most specific layer that sets it.                          *)
LEMMA ResolveIsEffective ==
    ASSUME NEW tenant, NEW user, NEW k \in Keys
    PROVE  Resolve(tenant, user)[k] = Effective(k, tenant, user)
BY DEF Resolve, Over, Effective

-----------------------------------------------------------------------------
(* Steps that leave the rows alone.                                        *)

(* Every write under way was under way before, on the same base.           *)
WritesKept ==
    /\ writes' \subseteq WriteRequests
    /\ \A v \in writes' : \E w \in writes : /\ v.tab = w.tab /\ v.scope = w.scope
                                          /\ v.base = w.base /\ v.expected = w.expected

(* A fresh load has read nothing.                                          *)
LEMMA FreshLoad ==
    ASSUME NEW t \in Tabs, NEW seq \in Nat, NEW since \in Nat
    PROVE  /\ Load(t, seq, since) \in LoadRequests
           /\ DOMAIN Load(t, seq, since).got = {}
           /\ Load(t, seq, since).seq = seq /\ Load(t, seq, since).since = since
           /\ Load(t, seq, since).tab = t
<1>1. /\ [x \in {} |-> NoRow(0)] \in [{} -> Rows] /\ {} \in SUBSET Reads
      /\ DOMAIN [x \in {} |-> NoRow(0)] = {}
  OBVIOUS
<1>2. [x \in {} |-> NoRow(0)] \in Gots
  BY <1>1, GotForm
<1> QED BY <1>1, <1>2 DEF Load, LoadRequests

(* The built-in values are a snapshot from which nothing can be edited.    *)
LEMMA TemporaryForm ==
    Temporary \in Snapshots /\ \A s \in Scopes : ~Temporary.allowed[s]
BY NoRowForm, PlatformAssumption DEF Temporary, Snapshots

(* A tab that shows nothing any more, because it reloads, lost its session *)
(* or saw a failure, keeps the invariant; a load it starts is its newest   *)
(* and is asked for after the events it has seen.                          *)
LEMMA ResetKeeps ==
    ASSUME IndInv, NEW t \in Tabs,
           NEW next \in {"loading", "conflict", "error", "unauthorized"},
           Reset(t, next), rows' = rows, busy' \in [Tabs -> BOOLEAN],
           sequence' \in [Tabs -> Nat], \A q \in Tabs : sequence[q] <= sequence'[q],
           events' \in [Tabs -> 0..MaxEvents],
           \A q \in Tabs : q # t \/ sequence'[q] = sequence[q] => events'[q] = events[q],
           edits' \in 0..MaxEdits, reloads' \in 0..MaxReloads,
           loads' \subseteq loads \cup {Load(t, sequence'[t], events'[t])},
           WritesKept
    PROVE  IndInv'
<1> DEFINE L == Load(t, sequence'[t], events'[t])
<1>1. /\ L \in LoadRequests /\ L.tab = t /\ DOMAIN L.got = {}
      /\ L.seq = sequence'[t] /\ L.since = events'[t]
  <2>1. sequence'[t] \in Nat /\ events'[t] \in Nat
    BY BoundAssumption
  <2> QED BY <2>1, FreshLoad
<1>2. loads' \subseteq loads \cup {L}
  OBVIOUS
<1> HIDE DEF L
<1>3. RequestTypes'
  BY <1>1, <1>2 DEF IndInv, RequestTypes, WritesKept
<1>4. /\ ~available'[t] /\ snapshot'[t] = Temporary /\ status'[t] = next
      /\ \A q \in Tabs \ {t} : /\ available'[q] = available[q] /\ snapshot'[q] = snapshot[q]
                              /\ status'[q] = status[q]
  BY DEF Reset, IndInv, TypeOK
<1>5. TypeOK'
  <2>1. /\ snapshot' \in [Tabs -> Snapshots] /\ available' \in [Tabs -> BOOLEAN]
        /\ status' \in [Tabs -> Statuses]
    BY TemporaryForm DEF Reset, IndInv, TypeOK, Statuses, Snapshots
  <2>2. \A l \in loads' : l.tab \in Tabs /\ l.seq \in Nat /\ DOMAIN l.got \subseteq Reads
    BY <1>3, GotForm DEF RequestTypes, LoadRequests
  <2>3. \A w \in writes' : w.tab \in Tabs /\ w.patch \in Patches /\ w.base \in Rows
    BY <1>3 DEF RequestTypes, WriteRequests
  <2>4. rows' \in [Owners -> Rows] /\ \A o \in Owners : Exists(rows'[o]) \/ rows'[o].settings = NoPatch
    BY DEF IndInv, TypeOK
  <2> QED BY <2>1, <2>2, <2>3, <2>4 DEF TypeOK, Statuses, Snapshots
<1>6. ShownIsAvailable'
  BY <1>4 DEF IndInv, ShownIsAvailable
<1>7. LoadsAreRecent'
  <2> SUFFICES ASSUME NEW l \in loads'
               PROVE  /\ l.seq <= sequence'[l.tab]
                      /\ l.seq = sequence'[l.tab] => l.since = events'[l.tab]
    BY DEF LoadsAreRecent
  <2>1. CASE l = L
    BY <2>1, <1>1
  <2>2. CASE l \in loads
    <3>1. /\ l.seq <= sequence[l.tab]
          /\ l.seq = sequence[l.tab] => l.since = events[l.tab]
          /\ l.tab \in Tabs /\ l.seq \in Nat
      BY <2>2 DEF IndInv, LoadsAreRecent, TypeOK
    <3>2. sequence[l.tab] <= sequence'[l.tab] /\ sequence[l.tab] \in Nat /\ sequence'[l.tab] \in Nat
      BY <3>1 DEF IndInv, TypeOK
    <3>3. l.seq = sequence'[l.tab] => sequence'[l.tab] = sequence[l.tab]
      BY <3>1, <3>2
    <3> QED BY <3>1, <3>2, <3>3
  <2> QED BY <2>1, <2>2, <1>2
<1>8. ShownIsRecent'
  <2> SUFFICES ASSUME NEW q \in Tabs, available'[q]
               PROVE  snapshot'[q].since = events'[q]
    BY DEF ShownIsRecent
  <2>1. q # t /\ available[q] /\ snapshot'[q] = snapshot[q] /\ events'[q] = events[q]
    BY <1>4
  <2> QED BY <2>1 DEF IndInv, ShownIsRecent
<1>9. ReadsArePast'
  <2> SUFFICES ASSUME NEW l \in loads'
               PROVE  /\ \A x \in DOMAIN l.got : ReadIsPast(l, x, rows')
                      /\ \A s \in Scopes : ReadsAgree(l, s)
    BY DEF ReadsArePast
  <2>1. CASE l = L
    BY <2>1, <1>1 DEF ReadsAgree
  <2>2. CASE l \in loads
    BY <2>2 DEF IndInv, ReadsArePast
  <2> QED BY <2>1, <2>2, <1>2
<1>10. ShownIsPast'
  <2> SUFFICES ASSUME NEW q \in Tabs
               PROVE  /\ \A s \in Scopes : LayerIsPast(q, s, snapshot'[q], rows')
                      /\ available'[q] => ShownIsMerged(snapshot'[q])
    BY DEF ShownIsPast
  <2>1. CASE q = t
    BY <2>1, <1>4, TemporaryForm DEF LayerIsPast
  <2>2. CASE q # t
    <3>1. snapshot'[q] = snapshot[q] /\ available'[q] = available[q]
      BY <2>2, <1>4
    <3> QED BY <3>1 DEF IndInv, ShownIsPast
  <2> QED BY <2>1, <2>2
<1>11. BasesArePast'
  BY DEF IndInv, BasesArePast, WritesKept
<1> QED BY <1>3, <1>5, <1>6, <1>7, <1>8, <1>9, <1>10, <1>11 DEF IndInv

(* An answer nobody waits for any more changes nothing but the requests.   *)
LEMMA QuietKeeps ==
    ASSUME IndInv, UNCHANGED <<rows, tabVars, counters>>, loads' \subseteq loads, WritesKept
    PROVE  IndInv'
<1>1. RequestTypes'
  BY DEF IndInv, RequestTypes, WritesKept
<1>2. TypeOK'
  <2>1. \A w \in writes' : w.tab \in Tabs /\ w.patch \in Patches /\ w.base \in Rows
    BY <1>1 DEF RequestTypes, WriteRequests
  <2> QED BY <2>1 DEF IndInv, TypeOK, tabVars, counters
<1>3. ShownIsAvailable' /\ LoadsAreRecent' /\ ShownIsRecent'
  BY DEF IndInv, ShownIsAvailable, LoadsAreRecent, ShownIsRecent, tabVars, counters
<1>4. ReadsArePast' /\ ShownIsPast'
  BY DEF IndInv, ReadsArePast, ShownIsPast, tabVars
<1>5. BasesArePast'
  BY DEF IndInv, BasesArePast, WritesKept
<1> QED BY <1>1, <1>2, <1>3, <1>4, <1>5 DEF IndInv

(* A failure at its tab, and a write that goes on with nobody waiting, are *)
(* on the base the write had.                                              *)
LEMMA WritesKeptWhen ==
    ASSUME IndInv, NEW w \in writes,
           \/ writes' = writes
           \/ writes' = writes \ {w}
           \/ writes' = (writes \ {w}) \cup {[w EXCEPT !.seq = 0]}
    PROVE  WritesKept
<1>1. w \in WriteRequests /\ writes \subseteq WriteRequests
  BY DEF IndInv, RequestTypes
<1> DEFINE v == [w EXCEPT !.seq = 0]
<1>2. /\ v \in WriteRequests /\ v.tab = w.tab /\ v.scope = w.scope
      /\ v.base = w.base /\ v.expected = w.expected
  BY <1>1 DEF WriteRequests
<1>3. writes' \subseteq writes \cup {v}
  OBVIOUS
<1> HIDE DEF v
<1> QED BY <1>1, <1>2, <1>3 DEF WritesKept

(* UiCustomizationProvider.reload keeps the invariant.                     *)
LEMMA ReloadKeeps ==
    ASSUME IndInv, NEW t \in Tabs, NEW ahead \in Nat, NEW since,
           Reload(t, ahead, loads, since), rows' = rows, since = events'[t],
           events' \in [Tabs -> 0..MaxEvents], \A q \in Tabs \ {t} : events'[q] = events[q],
           edits' \in 0..MaxEdits, reloads' \in 0..MaxReloads, WritesKept
    PROVE  IndInv'
<1>1. /\ sequence' \in [Tabs -> Nat] /\ sequence'[t] = sequence[t] + ahead + 1
      /\ \A q \in Tabs \ {t} : sequence'[q] = sequence[q]
  BY DEF Reload, IndInv, TypeOK
<1>2. \A q \in Tabs : sequence[q] <= sequence'[q]
  <2>1. \A q \in Tabs : sequence[q] \in Nat
    BY DEF IndInv, TypeOK
  <2>2. sequence[t] <= sequence[t] + ahead + 1
    BY <2>1
  <2> QED BY <1>1, <2>1, <2>2
<1>3. sequence'[t] # sequence[t]
  BY <1>1 DEF IndInv, TypeOK
<1>4. busy' \in [Tabs -> BOOLEAN] /\ Reset(t, "loading")
  BY DEF Reload, Idle, IndInv, TypeOK
<1>5. loads' = loads \cup {Load(t, sequence'[t], events'[t])}
  BY <1>1 DEF Reload
<1> QED BY <1>1, <1>2, <1>3, <1>4, <1>5, ResetKeeps

(* AskReload, Changed and Invalid keep the invariant.                      *)
LEMMA EventsKeep ==
    ASSUME IndInv, NEW t \in Tabs, AskReload(t) \/ Changed(t) \/ Invalid(t)
    PROVE  IndInv'
<1>1. ASSUME writes' = writes PROVE WritesKept
  BY <1>1 DEF WritesKept, IndInv, RequestTypes
<1>2. ASSUME Noticed(t)
      PROVE  /\ events' \in [Tabs -> 0..MaxEvents] /\ events'[t] = events[t] + 1
             /\ \A q \in Tabs \ {t} : events'[q] = events[q]
             /\ rows' = rows /\ WritesKept /\ edits' \in 0..MaxEdits /\ reloads' \in 0..MaxReloads
  BY <1>1, <1>2, BoundAssumption DEF Noticed, IndInv, TypeOK
<1>3. CASE AskReload(t)
  <2>1. /\ Reload(t, 0, loads, events[t]) /\ rows' = rows /\ events' = events /\ writes' = writes
        /\ edits' \in 0..MaxEdits /\ reloads' \in 0..MaxReloads
    BY <1>3, BoundAssumption DEF AskReload, IndInv, TypeOK
  <2>2. events' \in [Tabs -> 0..MaxEvents]
    BY <2>1 DEF IndInv, TypeOK
  <2> QED BY <1>1, <2>1, <2>2, ReloadKeeps
<1>4. CASE Changed(t)
  <2>1. Reload(t, 1, loads, events[t] + 1)
    BY <1>4 DEF Changed
  <2> QED BY <1>2, <1>4, <2>1, ReloadKeeps DEF Changed
<1>5. CASE Invalid(t)
  <2>1. /\ sequence' \in [Tabs -> Nat] /\ sequence'[t] = sequence[t] + 1
        /\ \A q \in Tabs \ {t} : sequence'[q] = sequence[q]
    BY <1>5 DEF Invalid, IndInv, TypeOK
  <2>2. /\ \A q \in Tabs : sequence[q] <= sequence'[q]
        /\ sequence'[t] # sequence[t]
    <3>1. \A q \in Tabs : sequence[q] \in Nat
      BY DEF IndInv, TypeOK
    <3>2. sequence[t] <= sequence[t] + 1 /\ sequence[t] # sequence[t] + 1
      BY <3>1
    <3> QED BY <2>1, <3>1, <3>2
  <2>3. busy' \in [Tabs -> BOOLEAN] /\ Reset(t, "unauthorized") /\ loads' = loads
    BY <1>5 DEF Invalid, Idle, IndInv, TypeOK
  <2> QED BY <1>2, <1>5, <2>1, <2>2, <2>3, ResetKeeps DEF Invalid
<1> QED BY <1>3, <1>4, <1>5

(* A read takes the row as it is, so it agrees with an earlier read of the *)
(* same state.                                                             *)
LEMMA ReadKeeps ==
    ASSUME IndInv, NEW l \in loads, NEW route \in {"effective", "layer"}, NEW s \in Scopes,
           Read(l, route, s)
    PROVE  IndInv'
<1> DEFINE x == <<route, s>>
           found == IF route = "layer" /\ ~Allowed(l.tab, s) THEN NoRow(0)
                    ELSE rows[Owner(l.tab, s)]
           n == [l EXCEPT !.got = With(@, x, found)]
<1>1. /\ loads' = (loads \ {l}) \cup {n} /\ x \notin DOMAIN l.got
      /\ UNCHANGED <<rows, tabVars, writes, counters>>
  BY DEF Read
<1>2. l \in LoadRequests /\ l.got \in Gots /\ l.tab \in Tabs /\ Owner(l.tab, s) \in Owners
  BY UserAssumption DEF IndInv, RequestTypes, LoadRequests, Owner, Owners
<1>3. found \in Rows /\ x \in Reads
  <2>1. rows[Owner(l.tab, s)] \in Rows
    BY <1>2 DEF IndInv, TypeOK
  <2>2. x \in Reads
    BY DEF Reads
  <2> QED BY <2>1, <2>2, NoRowForm
<1>4. With(l.got, x, found) \in Gots
  BY <1>2, <1>3, WithKeepsForm
<1>5. /\ n \in LoadRequests /\ n.tab = l.tab /\ n.seq = l.seq /\ n.since = l.since
      /\ n.got = With(l.got, x, found)
  BY <1>2, <1>4 DEF LoadRequests
<1>6. /\ DOMAIN n.got = DOMAIN l.got \cup {x} /\ n.got[x] = found
      /\ \A y \in DOMAIN l.got : n.got[y] = l.got[y]
  BY <1>1, <1>5 DEF With
<1>7. route = "effective" \/ Allowed(l.tab, s) => found = rows[Owner(l.tab, s)]
  OBVIOUS
<1>8. x[1] = route /\ x[2] = s
  OBVIOUS
<1> HIDE DEF n, found
<1>9. RequestTypes'
  BY <1>1, <1>5 DEF IndInv, RequestTypes
<1>10. TypeOK'
  <2>1. \A m \in loads' : m.tab \in Tabs /\ m.seq \in Nat /\ DOMAIN m.got \subseteq Reads
    BY <1>9, GotForm DEF RequestTypes, LoadRequests
  <2> QED BY <1>1, <2>1 DEF IndInv, TypeOK, tabVars, counters
<1>11. ShownIsAvailable' /\ ShownIsRecent' /\ ShownIsPast' /\ BasesArePast'
  BY <1>1 DEF IndInv, ShownIsAvailable, ShownIsRecent, ShownIsPast, BasesArePast, tabVars, counters
<1>12. LoadsAreRecent'
  BY <1>1, <1>5 DEF IndInv, LoadsAreRecent, tabVars, counters
<1>13. ReadsArePast'
  <2> SUFFICES /\ \A y \in DOMAIN n.got : ReadIsPast(n, y, rows)
               /\ \A q \in Scopes : ReadsAgree(n, q)
    BY <1>1 DEF IndInv, ReadsArePast
  <2>1. /\ \A y \in DOMAIN l.got : ReadIsPast(l, y, rows)
        /\ \A q \in Scopes : ReadsAgree(l, q)
    BY DEF IndInv, ReadsArePast
  <2>2. ASSUME NEW y \in DOMAIN n.got PROVE ReadIsPast(n, y, rows)
    <3>1. CASE y = x
      <4> SUFFICES ASSUME route = "effective" \/ Allowed(l.tab, s)
                   PROVE  Past(found, rows[Owner(l.tab, s)])
        BY <3>1, <1>5, <1>6, <1>8 DEF ReadIsPast
      <4> QED BY <1>7 DEF Past
    <3>2. CASE y \in DOMAIN l.got
      BY <3>2, <2>1, <1>5, <1>6 DEF ReadIsPast
    <3> QED BY <3>1, <3>2, <1>6
  <2>3. ASSUME NEW q \in Scopes PROVE ReadsAgree(n, q)
    <3> DEFINE e == <<"effective", q>>
               y == <<"layer", q>>
    <3> SUFFICES ASSUME e \in DOMAIN n.got, y \in DOMAIN n.got, Allowed(n.tab, q),
                        n.got[e].births = n.got[y].births, n.got[e].version = n.got[y].version
                 PROVE  n.got[e] = n.got[y]
      BY DEF ReadsAgree
    <3>1. CASE e \in DOMAIN l.got /\ y \in DOMAIN l.got
      BY <3>1, <2>1, <1>5, <1>6 DEF ReadsAgree
    <3>2. e # y /\ e[1] = "effective" /\ y[1] = "layer" /\ e[2] = q /\ y[2] = q
      OBVIOUS
    <3>3. n.got[e] \in Rows /\ n.got[y] \in Rows
      BY <1>4, <1>5, GotForm
    <3> HIDE DEF e, y
    <3>4. CASE x = y
      <4>1. e \in DOMAIN l.got /\ q = s /\ route = "layer"
        BY <3>4, <3>2, <1>6, <1>8
      <4>2. n.got[y] = rows[Owner(l.tab, s)]
        BY <3>4, <4>1, <1>5, <1>6, <1>7
      <4>3. Past(n.got[e], n.got[y])
        BY <4>1, <4>2, <2>1, <3>2, <1>6 DEF ReadIsPast
      <4> QED BY <4>3, <3>3, PastIsPresent
    <3>5. CASE x = e
      <4>1. y \in DOMAIN l.got /\ q = s /\ route = "effective"
        BY <3>5, <3>2, <1>6, <1>8
      <4>2. n.got[e] = rows[Owner(l.tab, s)]
        BY <3>5, <4>1, <1>6, <1>7
      <4>3. Past(n.got[y], n.got[e])
        BY <4>1, <4>2, <2>1, <3>2, <1>5, <1>6 DEF ReadIsPast
      <4> QED BY <4>3, <3>3, PastIsPresent
    <3> QED BY <3>1, <3>4, <3>5, <1>6
  <2> QED BY <2>2, <2>3
<1> QED BY <1>9, <1>10, <1>11, <1>12, <1>13 DEF IndInv

(* A load that counts and whose layers agree is shown: what it shows of an *)
(* editable layer is the patch that was merged, or a patch of another row. *)
LEMMA ShowKeeps ==
    ASSUME IndInv, NEW l \in loads, Current(l.tab, l.seq), DOMAIN l.got = Reads,
           Agree(l), Show(l), loads' = loads \ {l},
           UNCHANGED <<rows, sequence, busy, writes, counters>>
    PROVE  IndInv'
<1> DEFINE t == l.tab
           of(route) == [s \in Scopes |-> l.got[<<route, s>>]]
           patch(s) == IF s \in Scopes THEN l.got[<<"effective", s>>].settings ELSE NoPatch
           shown == [settings |-> Resolve(patch("tenant"), patch("user")),
                     layers |-> of("layer"), merged |-> of("effective"),
                     allowed |-> [s \in Scopes |-> Allowed(t, s)], since |-> l.since]
<1>1. /\ snapshot' = [snapshot EXCEPT ![t] = shown]
      /\ available' = [available EXCEPT ![t] = TRUE]
      /\ status' = [status EXCEPT ![t] = "ready"]
  BY DEF Show
<1>2. l \in LoadRequests /\ l.got \in Gots /\ t \in Tabs /\ l.since \in Nat
  BY DEF IndInv, RequestTypes, LoadRequests
<1>3. \A s \in Scopes : /\ <<"effective", s>> \in Reads /\ <<"layer", s>> \in Reads
                        /\ l.got[<<"effective", s>>] \in Rows
                        /\ l.got[<<"layer", s>>] \in Rows
  <2>1. \A s \in Scopes : <<"effective", s>> \in Reads /\ <<"layer", s>> \in Reads
    BY DEF Reads
  <2> QED BY <2>1, <1>2, GotForm
<1>4. patch("tenant") \in Patches /\ patch("user") \in Patches
  BY <1>3, NoRowForm DEF Rows
<1>5. shown \in Snapshots
  <2>1. Resolve(patch("tenant"), patch("user")) \in [Keys -> Values]
    BY <1>4, ResolveForm
  <2>2. of("layer") \in [Scopes -> Rows] /\ of("effective") \in [Scopes -> Rows]
    BY <1>3
  <2>3. [s \in Scopes |-> Allowed(t, s)] \in [Scopes -> BOOLEAN]
    BY DEF Allowed
  <2> HIDE DEF of, patch
  <2> QED BY <2>1, <2>2, <2>3, <1>2 DEF Snapshots
<1>6. /\ shown.since = l.since
      /\ \A s \in Scopes : /\ shown.allowed[s] = Allowed(t, s)
                           /\ shown.layers[s] = l.got[<<"layer", s>>]
                           /\ shown.merged[s] = l.got[<<"effective", s>>]
      /\ shown.settings = Resolve(patch("tenant"), patch("user"))
  OBVIOUS
<1>7. \A s : Merged(shown, s) = patch(s)
  BY DEF Merged
<1> HIDE DEF shown, patch, of
<1>8. ShownIsMerged(shown)
  <2>1. shown.settings = Resolve(Merged(shown, "tenant"), Merged(shown, "user"))
    BY <1>6, <1>7
  <2>2. ASSUME NEW s \in Scopes, shown.allowed[s], shown.merged[s].births = shown.layers[s].births
        PROVE  shown.merged[s].settings = shown.layers[s].settings
    <3>1. ReadsAgree(l, s)
      BY DEF IndInv, ReadsArePast
    <3>2. l.got[<<"effective", s>>].version = l.got[<<"layer", s>>].version /\ Allowed(t, s)
      BY <2>2, <1>6 DEF Agree
    <3> QED BY <3>1, <3>2, <2>2, <1>3, <1>6 DEF ReadsAgree
  <2> QED BY <2>1, <2>2 DEF ShownIsMerged
<1>9. \A s \in Scopes : LayerIsPast(t, s, shown, rows)
  <2> SUFFICES ASSUME NEW s \in Scopes, Allowed(t, s)
               PROVE  Past(l.got[<<"layer", s>>], rows[Owner(t, s)])
    BY <1>6 DEF LayerIsPast
  <2>1. ReadIsPast(l, <<"layer", s>>, rows)
    BY <1>3 DEF IndInv, ReadsArePast
  <2> QED BY <2>1 DEF ReadIsPast
<1>10. l.since = events[t]
  BY DEF IndInv, LoadsAreRecent, Current
<1>11. /\ snapshot'[t] = shown /\ available'[t] /\ status'[t] = "ready"
       /\ \A q \in Tabs \ {t} : /\ snapshot'[q] = snapshot[q] /\ available'[q] = available[q]
                               /\ status'[q] = status[q]
  BY <1>1, <1>2 DEF IndInv, TypeOK
<1>12. TypeOK'
  <2>1. /\ snapshot' \in [Tabs -> Snapshots] /\ available' \in [Tabs -> BOOLEAN]
        /\ status' \in [Tabs -> Statuses]
    BY <1>1, <1>5 DEF IndInv, TypeOK, Snapshots, Statuses
  <2> QED BY <2>1 DEF IndInv, TypeOK, Snapshots, Statuses, counters
<1>13. RequestTypes' /\ LoadsAreRecent' /\ ReadsArePast' /\ BasesArePast'
  BY DEF IndInv, RequestTypes, LoadsAreRecent, ReadsArePast, BasesArePast, counters
<1>14. ShownIsAvailable'
  BY <1>11 DEF IndInv, ShownIsAvailable
<1>15. ShownIsRecent'
  <2> SUFFICES ASSUME NEW q \in Tabs, available'[q]
               PROVE  snapshot'[q].since = events'[q]
    BY DEF ShownIsRecent
  <2>1. CASE q = t
    BY <2>1, <1>6, <1>10, <1>11 DEF counters
  <2>2. CASE q # t
    <3>1. available[q] /\ snapshot'[q] = snapshot[q] /\ events'[q] = events[q]
      BY <2>2, <1>11 DEF counters
    <3> QED BY <3>1 DEF IndInv, ShownIsRecent
  <2> QED BY <2>1, <2>2
<1>16. ShownIsPast'
  <2> SUFFICES ASSUME NEW q \in Tabs
               PROVE  /\ \A s \in Scopes : LayerIsPast(q, s, snapshot'[q], rows)
                      /\ available'[q] => ShownIsMerged(snapshot'[q])
    BY DEF ShownIsPast
  <2>1. CASE q = t
    BY <2>1, <1>8, <1>9, <1>11
  <2>2. CASE q # t
    <3>1. snapshot'[q] = snapshot[q] /\ available'[q] = available[q]
      BY <2>2, <1>11
    <3> QED BY <3>1 DEF IndInv, ShownIsPast
  <2> QED BY <2>1, <2>2
<1> QED BY <1>12, <1>13, <1>14, <1>15, <1>16 DEF IndInv

(* A load that ends, shown, refused, overtaken or failed.                  *)
LEMMA LoadEndsKeep ==
    ASSUME IndInv, NEW l \in loads, FinishLoad(l) \/ FailLoad(l)
    PROVE  IndInv'
<1>1. /\ loads' = loads \ {l} /\ UNCHANGED <<rows, sequence, busy, writes, counters>>
      /\ l.tab \in Tabs
  BY DEF FinishLoad, FailLoad, IndInv, TypeOK
<1>2. WritesKept
  BY <1>1 DEF WritesKept, IndInv, RequestTypes
<1>3. ASSUME NEW next \in {"conflict", "error"}, Reset(l.tab, next)
      PROVE  IndInv'
  <2>1. /\ sequence' \in [Tabs -> Nat] /\ \A q \in Tabs : sequence[q] <= sequence'[q]
        /\ busy' \in [Tabs -> BOOLEAN] /\ events' = events /\ events' \in [Tabs -> 0..MaxEvents]
        /\ edits' \in 0..MaxEdits /\ reloads' \in 0..MaxReloads
        /\ loads' \subseteq loads \cup {Load(l.tab, sequence'[l.tab], events'[l.tab])}
    BY <1>1 DEF IndInv, TypeOK, counters
  <2> QED BY <1>1, <1>2, <1>3, <2>1, ResetKeeps
<1>4. ASSUME UNCHANGED <<status, available, snapshot>>
      PROVE  IndInv'
  BY <1>1, <1>2, <1>4, QuietKeeps DEF tabVars
<1>5. CASE FailLoad(l)
  BY <1>3, <1>4, <1>5 DEF FailLoad
<1>6. CASE FinishLoad(l)
  <2>1. CASE ~Current(l.tab, l.seq)
    BY <1>4, <1>6, <2>1 DEF FinishLoad
  <2>2. CASE Current(l.tab, l.seq) /\ ~Agree(l)
    BY <1>3, <1>6, <2>2 DEF FinishLoad
  <2>3. CASE Current(l.tab, l.seq) /\ Agree(l)
    BY <1>1, <1>6, <2>3, ShowKeeps DEF FinishLoad
  <2> QED BY <2>1, <2>2, <2>3
<1> QED BY <1>5, <1>6

(* An edit is based on what its tab shows; an edit with nothing to write   *)
(* reloads.                                                                *)
LEMMA PersistKeeps ==
    ASSUME IndInv, NEW t \in Tabs, NEW s \in Scopes, NEW next \in Patches,
           Persist(t, s, next)
    PROVE  IndInv'
<1> DEFINE layer == snapshot[t].layers[s]
           seq == sequence[t] + 1
           request == [tab |-> t, seq |-> seq, scope |-> s, patch |-> next,
                       base |-> layer, expected |-> layer.version, answer |-> "none"]
<1>1. /\ available[t] /\ snapshot[t].allowed[s]
      /\ edits' \in 0..MaxEdits /\ UNCHANGED <<rows, reloads, events>>
  BY BoundAssumption DEF Persist, IndInv, TypeOK
<1>2. layer \in Rows /\ seq \in Nat /\ Past(layer, rows[Owner(t, s)])
  BY <1>1 DEF IndInv, TypeOK, ShownIsPast, LayerIsPast
<1>3. CASE /\ DOMAIN next = {} /\ ~Exists(layer)
           /\ Reload(t, 1, loads, events[t]) /\ UNCHANGED writes
  <2>1. WritesKept
    BY <1>3 DEF WritesKept, IndInv, RequestTypes
  <2>2. reloads' \in 0..MaxReloads /\ events' \in [Tabs -> 0..MaxEvents] /\ events'[t] = events[t]
    BY <1>1 DEF IndInv, TypeOK
  <2> QED BY <1>1, <1>3, <2>1, <2>2, ReloadKeeps
<1>4. CASE /\ sequence' = [sequence EXCEPT ![t] = seq]
           /\ busy' = [busy EXCEPT ![t] = TRUE]
           /\ status' = [status EXCEPT ![t] = "saving"]
           /\ writes' = writes \cup {request}
           /\ UNCHANGED <<available, snapshot, loads>>
  <2>1. /\ request \in WriteRequests /\ request.tab = t /\ request.scope = s
        /\ request.base = layer /\ request.expected = layer.version
    BY <1>2 DEF WriteRequests, Rows
  <2> HIDE DEF request, layer
  <2>2. RequestTypes'
    BY <1>4, <2>1 DEF IndInv, RequestTypes
  <2>3. BasesArePast'
    BY <1>1, <1>2, <1>4, <2>1 DEF IndInv, BasesArePast
  <2>4. /\ sequence' \in [Tabs -> Nat] /\ busy' \in [Tabs -> BOOLEAN]
        /\ status' \in [Tabs -> Statuses] /\ sequence'[t] = sequence[t] + 1
        /\ status'[t] = "saving"
        /\ \A q \in Tabs \ {t} : sequence'[q] = sequence[q] /\ status'[q] = status[q]
    BY <1>2, <1>4 DEF IndInv, TypeOK, Statuses
  <2>5. TypeOK'
    <3>1. \A w \in writes' : w.tab \in Tabs /\ w.patch \in Patches /\ w.base \in Rows
      BY <2>2 DEF RequestTypes, WriteRequests
    <3> QED BY <1>1, <1>4, <2>4, <3>1 DEF IndInv, TypeOK, Statuses
  <2>6. ShownIsAvailable'
    BY <1>1, <1>4, <2>4 DEF IndInv, ShownIsAvailable
  <2>7. LoadsAreRecent'
    <3> SUFFICES ASSUME NEW l \in loads
                 PROVE  /\ l.seq <= sequence'[l.tab]
                        /\ l.seq = sequence'[l.tab] => l.since = events[l.tab]
      BY <1>1, <1>4 DEF LoadsAreRecent
    <3>1. /\ l.seq <= sequence[l.tab] /\ l.tab \in Tabs /\ l.seq \in Nat
          /\ sequence[l.tab] \in Nat
          /\ l.seq = sequence[l.tab] => l.since = events[l.tab]
      BY DEF IndInv, LoadsAreRecent, TypeOK
    <3>2. CASE l.tab = t
      BY <2>4, <3>1, <3>2
    <3>3. CASE l.tab # t
      BY <2>4, <3>1, <3>3
    <3> QED BY <3>2, <3>3
  <2>8. ShownIsRecent' /\ ReadsArePast' /\ ShownIsPast'
    BY <1>1, <1>4 DEF IndInv, ShownIsRecent, ReadsArePast, ShownIsPast
  <2> QED BY <2>2, <2>3, <2>5, <2>6, <2>7, <2>8 DEF IndInv
<1> QED BY <1>3, <1>4 DEF Persist

(* The patch of an edit is a patch.                                        *)
LEMMA EditsKeep ==
    ASSUME IndInv, NEW t \in Tabs, NEW s \in Scopes, NEW k \in Keys,
           (\E v \in Values : SetSetting(t, s, k, v)) \/ ClearSetting(t, s, k)
    PROVE  IndInv'
<1>1. snapshot[t].layers[s].settings \in Patches
  BY DEF IndInv, TypeOK, Rows
<1>2. CASE \E v \in Values : SetSetting(t, s, k, v)
  BY <1>1, <1>2, WithKeepsForm, PersistKeeps DEF SetSetting
<1>3. CASE ClearSetting(t, s, k)
  BY <1>1, <1>3, WithoutKeepsForm, PersistKeeps DEF ClearSetting
<1> QED BY <1>2, <1>3

(* A statement moves its row to a state it never had.                      *)
LEMMA ServeKeeps ==
    ASSUME IndInv, NEW w \in writes, Serve(w)
    PROVE  IndInv'
<1> DEFINE owner == Owner(w.tab, w.scope)
           r == rows[owner]
<1>1. /\ w \in WriteRequests /\ owner \in Owners /\ r \in Rows
      /\ Exists(r) \/ r.settings = NoPatch
  BY UserAssumption DEF IndInv, RequestTypes, WriteRequests, TypeOK, Owner, Owners
<1>2. UNCHANGED <<tabVars, loads, counters>>
  BY DEF Serve
<1>3. PICK result \in {"ok", "conflict"} :
          writes' = (writes \ {w}) \cup {[w EXCEPT !.answer = result]}
  BY DEF Serve
<1> DEFINE v == [w EXCEPT !.answer = result]
<1>4. /\ v \in WriteRequests /\ v.tab = w.tab /\ v.scope = w.scope
      /\ v.base = w.base /\ v.expected = w.expected
  BY <1>1 DEF WriteRequests
<1>5. WritesKept
  <2> HIDE DEF v
  <2>1. writes' \subseteq writes \cup {v}
    BY <1>3 DEF v
  <2> QED BY <1>4, <2>1 DEF WritesKept, IndInv, RequestTypes
<1>6. \/ rows' = rows
      \/ /\ w.patch \in Patches
         /\ \/ rows' = [rows EXCEPT ![owner] = Delete(r)]
            \/ rows' = [rows EXCEPT ![owner] = Put(r, w.patch)]
  BY <1>1 DEF Serve, WriteRequests
<1>7. CASE rows' = rows
  BY <1>2, <1>5, <1>7, QuietKeeps
<1>8. ASSUME NEW n \in Rows, Exists(n) \/ n.settings = NoPatch,
             \A g \in Rows : Past(g, r) => Past(g, n),
             rows' = [rows EXCEPT ![owner] = n]
      PROVE  IndInv'
  <2> HIDE DEF owner
  <2>1. /\ rows' \in [Owners -> Rows]
        /\ \A o \in Owners : Exists(rows'[o]) \/ rows'[o].settings = NoPatch
    BY <1>1, <1>8 DEF IndInv, TypeOK
  <2>2. ASSUME NEW g \in Rows, NEW o \in Owners, Past(g, rows[o])
        PROVE  Past(g, rows'[o])
    BY <1>1, <1>8, <2>2 DEF IndInv, TypeOK
  <2>3. \A t \in Tabs : \A s : Owner(t, s) \in Owners
    BY UserAssumption DEF Owner, Owners
  <2>4. RequestTypes'
    BY <1>2, <1>5 DEF WritesKept, IndInv, RequestTypes
  <2>5. TypeOK'
    <3>1. \A u \in writes' : u.tab \in Tabs /\ u.patch \in Patches /\ u.base \in Rows
      BY <2>4 DEF RequestTypes, WriteRequests
    <3> QED BY <1>2, <2>1, <3>1 DEF IndInv, TypeOK, tabVars, counters
  <2>6. ShownIsAvailable' /\ LoadsAreRecent' /\ ShownIsRecent'
    BY <1>2 DEF IndInv, ShownIsAvailable, LoadsAreRecent, ShownIsRecent, tabVars, counters
  <2>7. ReadsArePast'
    <3> SUFFICES ASSUME NEW l \in loads, NEW x \in DOMAIN l.got
                 PROVE  ReadIsPast(l, x, rows')
      BY <1>2 DEF IndInv, ReadsArePast
    <3>1. l.tab \in Tabs /\ l.got[x] \in Rows
      BY GotForm DEF IndInv, RequestTypes, LoadRequests
    <3>2. ReadIsPast(l, x, rows)
      BY DEF IndInv, ReadsArePast
    <3> QED BY <3>1, <3>2, <2>2, <2>3 DEF ReadIsPast
  <2>8. ShownIsPast'
    <3> SUFFICES ASSUME NEW t \in Tabs, NEW s \in Scopes
                 PROVE  LayerIsPast(t, s, snapshot[t], rows')
      BY <1>2 DEF IndInv, ShownIsPast, tabVars
    <3>1. snapshot[t].layers[s] \in Rows /\ LayerIsPast(t, s, snapshot[t], rows)
      BY DEF IndInv, TypeOK, ShownIsPast
    <3> QED BY <3>1, <2>2, <2>3 DEF LayerIsPast
  <2>9. BasesArePast'
    <3> SUFFICES ASSUME NEW u \in writes'
                 PROVE  /\ u.expected = u.base.version
                        /\ Past(u.base, rows'[Owner(u.tab, u.scope)])
      BY DEF BasesArePast
    <3>1. PICK q \in writes : /\ u.tab = q.tab /\ u.scope = q.scope
                             /\ u.base = q.base /\ u.expected = q.expected
      BY <1>5 DEF WritesKept
    <3>2. q.tab \in Tabs /\ q.base \in Rows
      BY DEF IndInv, RequestTypes, WriteRequests
    <3> QED BY <3>1, <3>2, <2>2, <2>3 DEF IndInv, BasesArePast
  <2> QED BY <2>4, <2>5, <2>6, <2>7, <2>8, <2>9 DEF IndInv
<1>9. CASE w.patch \in Patches /\ rows' = [rows EXCEPT ![owner] = Delete(r)]
  BY <1>1, <1>8, <1>9, StatementForm, PastStays
<1>10. CASE w.patch \in Patches /\ rows' = [rows EXCEPT ![owner] = Put(r, w.patch)]
  BY <1>1, <1>8, <1>10, StatementForm, PastStays
<1> QED BY <1>6, <1>7, <1>9, <1>10

(* The answer to a write, or its failure, reaches the tab.                 *)
LEMMA AnswersKeep ==
    ASSUME IndInv, NEW w \in writes, Answer(w) \/ FailWrite(w)
    PROVE  IndInv'
<1>1. /\ WritesKept /\ UNCHANGED <<rows, counters>> /\ w.tab \in Tabs
      /\ edits' \in 0..MaxEdits /\ reloads' \in 0..MaxReloads
      /\ events' \in [Tabs -> 0..MaxEvents] /\ events' = events
  <2>1. WritesKept
    BY WritesKeptWhen DEF Answer, FailWrite
  <2> QED BY <2>1 DEF Answer, FailWrite, IndInv, TypeOK, counters
<1>2. ASSUME NEW next \in {"conflict", "error"}, Reset(w.tab, next), Idle(w.tab),
             UNCHANGED <<sequence, loads>>
      PROVE  IndInv'
  <2>1. /\ sequence' \in [Tabs -> Nat] /\ \A q \in Tabs : sequence[q] <= sequence'[q]
        /\ busy' \in [Tabs -> BOOLEAN]
    BY <1>2 DEF Idle, IndInv, TypeOK
  <2> QED BY <1>1, <1>2, <2>1, ResetKeeps
<1>3. ASSUME UNCHANGED <<tabVars, loads>>
      PROVE  IndInv'
  BY <1>1, <1>3, QuietKeeps
<1>4. CASE Answer(w)
  <2>1. ASSUME Reload(w.tab, 0, loads, events[w.tab]) PROVE IndInv'
    BY <1>1, <2>1, ReloadKeeps
  <2> QED BY <1>2, <1>3, <1>4, <2>1 DEF Answer
<1>5. CASE FailWrite(w)
  BY <1>2, <1>3, <1>5 DEF FailWrite, tabVars
<1> QED BY <1>4, <1>5

(* Every step keeps the invariant, and the first state has it.             *)
LEMMA StepKeeps == IndInv /\ [Next]_vars => IndInv'
<1> SUFFICES ASSUME IndInv, [Next]_vars PROVE IndInv'
  OBVIOUS
<1>1. CASE UNCHANGED vars
  <2>1. WritesKept
    BY <1>1 DEF vars, WritesKept, IndInv, RequestTypes
  <2> QED BY <1>1, <2>1, QuietKeeps DEF vars
<1>2. CASE Network
  BY <1>2, ReadKeeps, LoadEndsKeep, ServeKeeps, AnswersKeep DEF Network
<1>3. CASE Person
  BY <1>3, EventsKeep, EditsKeep DEF Person
<1> QED BY <1>1, <1>2, <1>3 DEF Next

(* At first no row exists, nothing is shown and every tab loads.           *)
LEMMA InitHolds == Init => IndInv
<1> SUFFICES ASSUME Init PROVE IndInv
  OBVIOUS
<1>1. RequestTypes /\ \A l \in loads : DOMAIN l.got = {} /\ l.seq = 1 /\ l.since = 0
  <2>1. ASSUME NEW t \in Tabs
        PROVE  /\ Load(t, 1, 0) \in LoadRequests
               /\ DOMAIN Load(t, 1, 0).got = {}
               /\ Load(t, 1, 0).seq = 1 /\ Load(t, 1, 0).since = 0
    <3>1. 1 \in Nat /\ 0 \in Nat
      OBVIOUS
    <3>2. \A seq \in Nat, since \in Nat :
              /\ Load(t, seq, since) \in LoadRequests
              /\ DOMAIN Load(t, seq, since).got = {}
              /\ Load(t, seq, since).seq = seq /\ Load(t, seq, since).since = since
      BY FreshLoad
    <3> QED BY <3>1, <3>2
  <2> QED BY <2>1 DEF Init, RequestTypes
<1>2. \A l \in loads : l.tab \in Tabs
  BY <1>1 DEF RequestTypes, LoadRequests
<1>3. TypeOK
  <2>1. rows \in [Owners -> Rows] /\ \A o \in Owners : rows[o].settings = NoPatch
    BY NoRowForm DEF Init, NoRow
  <2>2. snapshot \in [Tabs -> Snapshots]
    BY TemporaryForm DEF Init
  <2>3. \A l \in loads : l.tab \in Tabs /\ l.seq \in Nat /\ DOMAIN l.got \subseteq Reads
    BY <1>1, <1>2
  <2>4. writes = {} /\ edits \in 0..MaxEdits /\ reloads \in 0..MaxReloads
    BY BoundAssumption DEF Init
  <2>5. /\ sequence \in [Tabs -> Nat] /\ available \in [Tabs -> BOOLEAN]
        /\ busy \in [Tabs -> BOOLEAN] /\ events \in [Tabs -> 0..MaxEvents]
    BY BoundAssumption DEF Init
  <2> QED BY <2>1, <2>2, <2>3, <2>4, <2>5 DEF TypeOK, Snapshots, Init
<1>4. ShownIsAvailable /\ ShownIsRecent
  BY DEF Init, ShownIsAvailable, ShownIsRecent
<1>5. LoadsAreRecent
  BY <1>1, <1>2 DEF LoadsAreRecent, Init
<1>6. ReadsArePast
  BY <1>1 DEF ReadsArePast, ReadsAgree
<1>7. ShownIsPast /\ BasesArePast
  BY TemporaryForm DEF Init, ShownIsPast, BasesArePast, LayerIsPast
<1> QED BY <1>1, <1>3, <1>4, <1>5, <1>6, <1>7 DEF IndInv

(* The invariant holds in every state.                                     *)
LEMMA IndInvAlways == Spec => []IndInv
BY InitHolds, StepKeeps, PTL DEF Spec

-----------------------------------------------------------------------------
(* The rows, what the tabs show and the requests under way keep their      *)
(* types: whatever answers arrive in whatever order, a tab has a value for *)
(* every key.                                                              *)
THEOREM TypeCorrect == Spec => []TypeOK
<1>1. IndInv => TypeOK
  BY DEF IndInv
<1> QED BY <1>1, IndInvAlways, PTL

(* httpUiSettingsSource.load compares versions read in separate            *)
(* transactions; that is enough for a tab to show the settings its own     *)
(* editable layers produce, unless a row was deleted and created again     *)
(* between the reads.                                                      *)
THEOREM ShownSettingsCohere == Spec => []ShownIsCoherent
<1>1. IndInv => ShownIsCoherent
  <2> SUFFICES ASSUME IndInv, NEW t \in Tabs, status[t] \in {"ready", "saving"}, NEW k \in Keys
               PROVE  LET used(s) == CASE s \notin Scopes -> NoPatch
                                       [] s \in Scopes /\ snapshot[t].allowed[s] /\ SameRow(t, s) ->
                                              snapshot[t].layers[s].settings
                                       [] OTHER -> snapshot[t].merged[s].settings
                      IN snapshot[t].settings[k] = Effective(k, used("tenant"), used("user"))
    BY DEF ShownIsCoherent
  <2> DEFINE used(s) == CASE s \notin Scopes -> NoPatch
                          [] s \in Scopes /\ snapshot[t].allowed[s] /\ SameRow(t, s) ->
                                 snapshot[t].layers[s].settings
                          [] OTHER -> snapshot[t].merged[s].settings
  <2>1. ShownIsMerged(snapshot[t])
    BY DEF IndInv, ShownIsAvailable, ShownIsPast
  <2>2. \A s : used(s) = Merged(snapshot[t], s)
    BY <2>1 DEF ShownIsMerged, Merged, SameRow
  <2> HIDE DEF used
  <2>3. snapshot[t].settings = Resolve(used("tenant"), used("user"))
    BY <2>1, <2>2 DEF ShownIsMerged
  <2>4. snapshot[t].settings[k] = Effective(k, used("tenant"), used("user"))
    BY <2>3, ResolveIsEffective
  <2> QED BY <2>4 DEF used
<1> QED BY <1>1, IndInvAlways, PTL

(* The sequence numbers of UiCustomizationProvider drop every answer of a  *)
(* load asked for before the last auth event its tab received.             *)
THEOREM EventsAreNotOvertaken == Spec => []NothingFromBeforeAnEvent
<1>1. IndInv => NothingFromBeforeAnEvent
  BY DEF IndInv, ShownIsAvailable, ShownIsRecent, NothingFromBeforeAnEvent
<1> QED BY <1>1, IndInvAlways, PTL

(* A PUT or DELETE under the version the tab shows replaces exactly the    *)
(* row it showed, unless that row was deleted and created again.           *)
THEOREM WritesAreCompareAndSwap == Spec => WriteReplacesWhatWasShown
<1>1. ASSUME IndInv, NEW w \in writes, Serve(w), rows' # rows,
             rows[Owner(w.tab, w.scope)].births = w.base.births
      PROVE  rows[Owner(w.tab, w.scope)] = w.base
  <2> DEFINE r == rows[Owner(w.tab, w.scope)]
  <2>1. r \in Rows /\ w.base \in Rows
    BY <1>1, UserAssumption DEF IndInv, RequestTypes, WriteRequests, TypeOK, Owner, Owners
  <2>2. w.expected = w.base.version /\ Past(w.base, r)
    BY <1>1 DEF IndInv, BasesArePast
  <2>3. Matches(r, w.expected)
    BY <1>1 DEF Serve
  <2>4. r.version = w.base.version
    BY <2>1, <2>2, <2>3 DEF Matches, Exists, Rows
  <2> QED BY <1>1, <2>1, <2>2, <2>4, PastIsPresent
<1>2. IndInv /\ [Next]_vars =>
        [\A w \in writes :
           (Serve(w) /\ rows' # rows) =>
               LET r == rows[Owner(w.tab, w.scope)]
               IN r.births = w.base.births => r = w.base]_vars
  BY <1>1
<1> QED BY <1>2, IndInvAlways, PTL DEF Spec, WriteReplacesWhatWasShown

-----------------------------------------------------------------------------
(* Waiting.  What the end of every edit rests on: a tab that waits has the *)
(* request it waits for under way.                                         *)

Awaited(requests, t, seq) == \E x \in requests : x.tab = t /\ x.seq = seq

(* A tab that shows "loading" has a load under way that still counts, one  *)
(* that shows "saving" is busy and has its write under way, and no other   *)
(* tab is busy.                                                            *)
NoTabIsStuck ==
    \A t \in Tabs :
        /\ status[t] = "loading" => Awaited(loads, t, sequence[t])
        /\ status[t] = "saving" <=> busy[t]
        /\ busy[t] => Awaited(writes, t, sequence[t])

(* No load can answer a tab whose edit is under way.                       *)
Waits(t) ==
    /\ status[t] = "loading" => Awaited(loads, t, sequence[t])
    /\ status[t] = "saving" <=> busy[t]
    /\ busy[t] => Awaited(writes, t, sequence[t]) /\ ~Awaited(loads, t, sequence[t])

EveryTabWaits == \A t \in Tabs : Waits(t)

(* A tab that nothing happens to goes on waiting.                          *)
LEMMA WaitsStay ==
    ASSUME NEW q \in Tabs, Waits(q), status'[q] = status[q], busy'[q] = busy[q],
           sequence'[q] = sequence[q],
           Awaited(writes, q, sequence[q]) => Awaited(writes', q, sequence[q]),
           Awaited(loads, q, sequence[q]) <=> Awaited(loads', q, sequence[q])
    PROVE  Waits(q)'
BY DEF Waits

(* One tab stops to wait; requests of the other tabs stay.                 *)
LEMMA WaitEnds ==
    ASSUME EveryTabWaits, NEW t \in Tabs, status'[t] \notin {"loading", "saving"}, busy'[t] = FALSE,
           \A q \in Tabs \ {t} : /\ status'[q] = status[q] /\ busy'[q] = busy[q]
                                 /\ sequence'[q] = sequence[q],
           \A w \in writes : w.tab # t => w \in writes',
           \A l \in loads : l.tab # t => l \in loads',
           loads' \subseteq loads
    PROVE  EveryTabWaits'
<1>1. Waits(t)'
  BY DEF Waits
<1>2. ASSUME NEW q \in Tabs \ {t} PROVE Waits(q)'
  <2>1. Waits(q)
    BY DEF EveryTabWaits
  <2>2. /\ Awaited(writes, q, sequence[q]) => Awaited(writes', q, sequence[q])
        /\ Awaited(loads, q, sequence[q]) <=> Awaited(loads', q, sequence[q])
    BY <1>2 DEF Awaited
  <2> QED BY <1>2, <2>1, <2>2, WaitsStay
<1> QED BY <1>1, <1>2 DEF EveryTabWaits

(* reload starts the load that its tab waits for.                          *)
LEMMA ReloadWaits ==
    ASSUME IndInv, EveryTabWaits, NEW t \in Tabs, NEW ahead \in Nat, NEW since,
           Reload(t, ahead, loads, since), \A w \in writes : w.tab # t => w \in writes'
    PROVE  EveryTabWaits'
<1>1. /\ sequence'[t] = sequence[t] + ahead + 1 /\ status'[t] = "loading" /\ busy'[t] = FALSE
      /\ \A q \in Tabs \ {t} : /\ status'[q] = status[q] /\ busy'[q] = busy[q]
                               /\ sequence'[q] = sequence[q]
  BY DEF Reload, Idle, Reset, IndInv, TypeOK
<1>2. PICK L : L = Load(t, sequence[t] + ahead + 1, since)
  OBVIOUS
<1>3. loads' = loads \cup {L} /\ L.tab = t /\ L.seq = sequence'[t]
  BY <1>1, <1>2 DEF Reload, Load
<1>4. Waits(t)'
  BY <1>1, <1>3 DEF Waits, Awaited
<1>5. ASSUME NEW q \in Tabs \ {t} PROVE Waits(q)'
  <2>1. Waits(q)
    BY DEF EveryTabWaits
  <2>2. /\ Awaited(writes, q, sequence[q]) => Awaited(writes', q, sequence[q])
        /\ Awaited(loads, q, sequence[q]) <=> Awaited(loads', q, sequence[q])
    BY <1>3, <1>5 DEF Awaited
  <2> QED BY <1>1, <1>5, <2>1, <2>2, WaitsStay
<1> QED BY <1>4, <1>5 DEF EveryTabWaits

(* The requests change, and no tab: each request that counts is still      *)
(* there, in some form.                                                    *)
LEMMA RequestsMove ==
    ASSUME EveryTabWaits, UNCHANGED <<status, busy, sequence>>,
           \A q \in Tabs : Awaited(writes, q, sequence[q]) => Awaited(writes', q, sequence[q]),
           \A q \in Tabs : Awaited(loads, q, sequence[q]) <=> Awaited(loads', q, sequence[q])
    PROVE  EveryTabWaits'
<1> SUFFICES ASSUME NEW q \in Tabs PROVE Waits(q)'
  BY DEF EveryTabWaits
<1>1. Waits(q)
  BY DEF EveryTabWaits
<1> QED BY <1>1, WaitsStay

(* A load reads on, is shown, is dropped or fails.                         *)
LEMMA LoadsWait ==
    ASSUME IndInv, EveryTabWaits, NEW l \in loads,
           \/ \E route \in {"effective", "layer"}, s \in Scopes : Read(l, route, s)
           \/ FinishLoad(l)
           \/ FailLoad(l)
    PROVE  EveryTabWaits'
<1>0. l \in LoadRequests /\ l.tab \in Tabs
  BY DEF IndInv, RequestTypes, LoadRequests
<1>1. ASSUME NEW route \in {"effective", "layer"}, NEW s \in Scopes, Read(l, route, s)
      PROVE  EveryTabWaits'
  <2>1. PICK v : /\ loads' = (loads \ {l}) \cup {v}
                 /\ \E g : v = [l EXCEPT !.got = g]
    BY <1>1 DEF Read
  <2>2. v.tab = l.tab /\ v.seq = l.seq
    BY <1>0, <2>1 DEF LoadRequests
  <2>3. \A q \in Tabs : Awaited(loads, q, sequence[q]) <=> Awaited(loads', q, sequence[q])
    BY <2>1, <2>2 DEF Awaited
  <2>4. UNCHANGED <<status, busy, sequence, writes>>
    BY <1>1 DEF Read, tabVars
  <2> QED BY <2>3, <2>4, RequestsMove
<1>2. ASSUME FinishLoad(l) \/ FailLoad(l) PROVE EveryTabWaits'
  <2>0. loads' = loads \ {l} /\ UNCHANGED <<sequence, busy, writes>>
    BY <1>2 DEF FinishLoad, FailLoad
  <2>1. CASE Current(l.tab, l.seq)
    <3>1. ~busy[l.tab]
      <4>1. Waits(l.tab) /\ Awaited(loads, l.tab, sequence[l.tab])
        BY <1>0, <2>1 DEF EveryTabWaits, Awaited, Current
      <4> QED BY <4>1 DEF Waits
    <3>2. /\ status'[l.tab] \notin {"loading", "saving"}
          /\ \A q \in Tabs \ {l.tab} : status'[q] = status[q]
      <4>1. Show(l) \/ Reset(l.tab, "conflict") \/ Reset(l.tab, "error")
        BY <1>2, <2>1 DEF FinishLoad, FailLoad
      <4>2. PICK next \in {"ready", "conflict", "error"} : status' = [status EXCEPT ![l.tab] = next]
        BY <4>1 DEF Show, Reset
      <4> QED BY <1>0, <4>2 DEF IndInv, TypeOK
    <3>3. busy'[l.tab] = FALSE
      BY <1>0, <2>0, <3>1 DEF IndInv, TypeOK
    <3> QED BY <1>0, <2>0, <3>2, <3>3, WaitEnds
  <2>2. CASE ~Current(l.tab, l.seq)
    <3>1. UNCHANGED status
      BY <1>2, <2>2 DEF FinishLoad, FailLoad
    <3>2. \A q \in Tabs : Awaited(loads, q, sequence[q]) <=> Awaited(loads', q, sequence[q])
      BY <2>0, <2>2 DEF Awaited, Current
    <3> QED BY <2>0, <3>1, <3>2, RequestsMove
  <2> QED BY <2>1, <2>2
<1> QED BY <1>1, <1>2

(* A write is executed, answered or fails.                                 *)
LEMMA WritesWait ==
    ASSUME IndInv, EveryTabWaits, NEW w \in writes, Serve(w) \/ Answer(w) \/ FailWrite(w)
    PROVE  EveryTabWaits'
<1>0. w \in WriteRequests /\ w.tab \in Tabs /\ writes \subseteq WriteRequests
  BY DEF IndInv, RequestTypes, WriteRequests
<1>1. CASE Serve(w)
  <2>1. PICK result : writes' = (writes \ {w}) \cup {[w EXCEPT !.answer = result]}
    BY <1>1 DEF Serve
  <2>2. PICK v : v = [w EXCEPT !.answer = result]
    OBVIOUS
  <2>3. v.tab = w.tab /\ v.seq = w.seq /\ v \in writes' /\ \A x \in writes : x = w \/ x \in writes'
    BY <1>0, <2>1, <2>2 DEF WriteRequests
  <2>4. \A q \in Tabs : Awaited(writes, q, sequence[q]) => Awaited(writes', q, sequence[q])
    BY <2>3 DEF Awaited
  <2>5. UNCHANGED <<status, busy, sequence, loads>>
    BY <1>1 DEF Serve, tabVars
  <2> QED BY <2>4, <2>5, RequestsMove
<1>2. ASSUME Answer(w) \/ FailWrite(w)
      PROVE  \A x \in writes : x = w \/ x \in writes'
  BY <1>2 DEF Answer, FailWrite
<1>3. CASE (Answer(w) \/ FailWrite(w)) /\ ~Current(w.tab, w.seq)
  <2>1. UNCHANGED <<status, busy, sequence, loads>>
    BY <1>3 DEF Answer, FailWrite, tabVars
  <2>2. \A q \in Tabs : Awaited(writes, q, sequence[q]) => Awaited(writes', q, sequence[q])
    BY <1>2, <1>3 DEF Awaited, Current
  <2> QED BY <2>1, <2>2, RequestsMove
<1>4. CASE Answer(w) /\ Current(w.tab, w.seq) /\ w.answer = "ok"
  <2>1. Reload(w.tab, 0, loads, events[w.tab])
    BY <1>4 DEF Answer
  <2>2. \A x \in writes : x.tab # w.tab => x \in writes'
    BY <1>2, <1>4
  <2> QED BY <1>0, <2>1, <2>2, ReloadWaits
<1>5. CASE /\ Current(w.tab, w.seq)
           /\ (Answer(w) /\ w.answer # "ok") \/ FailWrite(w)
  <2>1. PICK next \in {"conflict", "error"} : Reset(w.tab, next)
    BY <1>5 DEF Answer, FailWrite
  <2>2. Idle(w.tab) /\ UNCHANGED <<sequence, loads>>
    BY <1>5 DEF Answer, FailWrite
  <2>3. /\ status'[w.tab] = next /\ busy'[w.tab] = FALSE
        /\ \A q \in Tabs \ {w.tab} : status'[q] = status[q] /\ busy'[q] = busy[q]
    BY <1>0, <2>1, <2>2 DEF Reset, Idle, IndInv, TypeOK
  <2>4. \A x \in writes : x.tab # w.tab => x \in writes'
    BY <1>2, <1>5
  <2> QED BY <1>0, <2>2, <2>3, <2>4, WaitEnds
<1> QED BY <1>1, <1>3, <1>4, <1>5

(* persist sends the write its tab waits for, or reloads.                  *)
LEMMA PersistWaits ==
    ASSUME IndInv, EveryTabWaits, NEW t \in Tabs, NEW scope \in Scopes, NEW next,
           Persist(t, scope, next)
    PROVE  EveryTabWaits'
<1>1. CASE Reload(t, 1, loads, events[t]) /\ UNCHANGED writes
  BY <1>1, ReloadWaits
<1>2. CASE /\ sequence' = [sequence EXCEPT ![t] = sequence[t] + 1]
           /\ busy' = [busy EXCEPT ![t] = TRUE]
           /\ status' = [status EXCEPT ![t] = "saving"]
           /\ UNCHANGED loads
           /\ \E w : writes' = writes \cup {w} /\ w.tab = t /\ w.seq = sequence[t] + 1
  <2>1. /\ sequence'[t] = sequence[t] + 1 /\ busy'[t] = TRUE /\ status'[t] = "saving"
        /\ \A q \in Tabs \ {t} : /\ status'[q] = status[q] /\ busy'[q] = busy[q]
                                 /\ sequence'[q] = sequence[q]
    BY <1>2 DEF IndInv, TypeOK
  <2>2. Awaited(writes', t, sequence'[t])
    BY <1>2, <2>1 DEF Awaited
  <2>3. \A l \in loads : l.tab = t => l.seq \in Nat /\ l.seq <= sequence[t] /\ sequence[t] \in Nat
    BY DEF IndInv, LoadsAreRecent, TypeOK
  <2>4. ~Awaited(loads', t, sequence'[t])
    BY <1>2, <2>1, <2>3 DEF Awaited
  <2>5. Waits(t)'
    BY <2>1, <2>2, <2>4 DEF Waits
  <2>6. ASSUME NEW q \in Tabs \ {t} PROVE Waits(q)'
    <3>1. Waits(q)
      BY DEF EveryTabWaits
    <3>2. Awaited(writes, q, sequence[q]) => Awaited(writes', q, sequence[q])
      BY <1>2 DEF Awaited
    <3> QED BY <1>2, <2>1, <2>6, <3>1, <3>2, WaitsStay
  <2> QED BY <2>5, <2>6 DEF EveryTabWaits
<1>3. PICK request :
        /\ request.tab = t /\ request.seq = sequence[t] + 1
        /\ \/ /\ sequence' = [sequence EXCEPT ![t] = sequence[t] + 1]
              /\ busy' = [busy EXCEPT ![t] = TRUE]
              /\ status' = [status EXCEPT ![t] = "saving"]
              /\ writes' = writes \cup {request} /\ UNCHANGED loads
           \/ Reload(t, 1, loads, events[t]) /\ UNCHANGED writes
  <2>1. PICK r : r = [tab |-> t, seq |-> sequence[t] + 1, scope |-> scope, patch |-> next,
                      base |-> snapshot[t].layers[scope],
                      expected |-> snapshot[t].layers[scope].version, answer |-> "none"]
    OBVIOUS
  <2>2. r.tab = t /\ r.seq = sequence[t] + 1
    BY <2>1
  <2>3. \/ /\ sequence' = [sequence EXCEPT ![t] = sequence[t] + 1]
           /\ busy' = [busy EXCEPT ![t] = TRUE]
           /\ status' = [status EXCEPT ![t] = "saving"]
           /\ writes' = writes \cup {r} /\ UNCHANGED loads
        \/ Reload(t, 1, loads, events[t]) /\ UNCHANGED writes
    BY <2>1 DEF Persist
  <2> QED BY <2>2, <2>3
<1> QED BY <1>1, <1>2, <1>3

(* However loads, edits, answers, failures and auth events meet, no tab is *)
(* left loading without a load, busy without a write, or unable to edit    *)
(* after its edit ended: the request that ends the wait is under way and   *)
(* still counts (UiCustomizationProvider's sequence, busy and status).     *)
THEOREM TabsAreNeverStuck == Spec => []NoTabIsStuck
<1>1. Init => EveryTabWaits
  <2> SUFFICES ASSUME Init, NEW t \in Tabs PROVE Waits(t)
    BY DEF EveryTabWaits
  <2>1. Load(t, 1, 0).tab = t /\ Load(t, 1, 0).seq = 1 /\ Load(t, 1, 0) \in loads
    BY DEF Init, Load
  <2>2. status[t] = "loading" /\ busy[t] = FALSE /\ sequence[t] = 1
    BY DEF Init
  <2> QED BY <2>1, <2>2 DEF Waits, Awaited
<1>2. IndInv /\ EveryTabWaits /\ [Next]_vars => EveryTabWaits'
  <2> SUFFICES ASSUME IndInv, EveryTabWaits, [Next]_vars PROVE EveryTabWaits'
    OBVIOUS
  <2>1. CASE Network
    BY <2>1, LoadsWait, WritesWait DEF Network
  <2>2. ASSUME NEW t \in Tabs, AskReload(t) PROVE EveryTabWaits'
    BY <2>2, ReloadWaits DEF AskReload
  <2>3. ASSUME NEW t \in Tabs, Changed(t) PROVE EveryTabWaits'
    BY <2>3, ReloadWaits DEF Changed, Noticed
  <2>4. ASSUME NEW t \in Tabs, Invalid(t) PROVE EveryTabWaits'
    <3>1. /\ status'[t] = "unauthorized" /\ busy'[t] = FALSE
          /\ \A q \in Tabs \ {t} : /\ status'[q] = status[q] /\ busy'[q] = busy[q]
                                   /\ sequence'[q] = sequence[q]
          /\ UNCHANGED <<loads, writes>>
      BY <2>4 DEF Invalid, Noticed, Reset, Idle, IndInv, TypeOK
    <3> QED BY <2>4, <3>1, WaitEnds
  <2>5. ASSUME NEW t \in Tabs, NEW s \in Scopes, NEW k \in Keys,
               (\E v \in Values : SetSetting(t, s, k, v)) \/ ClearSetting(t, s, k)
        PROVE  EveryTabWaits'
    BY <2>5, PersistWaits DEF SetSetting, ClearSetting
  <2>6. CASE UNCHANGED vars
    BY <2>6, RequestsMove DEF vars, tabVars
  <2> QED BY <2>1, <2>2, <2>3, <2>4, <2>5, <2>6 DEF Next, Person
<1>3. EveryTabWaits => NoTabIsStuck
  BY DEF EveryTabWaits, Waits, NoTabIsStuck
<1> QED BY <1>1, <1>2, <1>3, IndInvAlways, PTL DEF Spec
=============================================================================
