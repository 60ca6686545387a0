------------------------- MODULE ModelSettings_proofs -------------------------
(***************************************************************************)
(* What the two resolvers have cached is what the tables say, unless a      *)
(* resolution was overtaken or a query failed: for any number of tenants,   *)
(* models, profiles, concurrent resolutions and edits.                      *)
(***************************************************************************)
EXTENDS ModelSettings, FiniteSetTheorems, TLAPS

Stages ==
    {"idle", "askPlatform", "gotPlatform", "lookup", "askModel", "askThinking", "gotSettings"}
        \cup ProfileSteps

Locals ==
    [pc : Stages, tenant : Unset(Tenants), forced : Unset(Models), model : Unset(Models),
     think : Unset(BOOLEAN), late : BOOLEAN,
     fetch : {"cache", "ask", "got", "have"}, common : Unset(SUBSET AllRows), lateCommon : BOOLEAN,
     own : Unset(SUBSET AllRows), lateOwn : BOOLEAN]

Tables ==
    /\ rows \in [Scopes -> SUBSET AllRows] /\ \A s \in Scopes : rows[s] \subseteq Profiles[s]
    /\ choice \in [Scopes -> Unset(Models)] /\ thinking \in [Tenants -> BOOLEAN]
    /\ owed \subseteq {"settings", "profiles"} \X Scopes

Caches ==
    /\ settings \in [Tenants -> Unset(Flagged(Models \X BOOLEAN))]
    /\ platformModel \in Unset(Flagged(Unset(Models)))
    /\ DOMAIN profiles = Keys
    /\ \A k \in Keys : profiles[k] # None => DOMAIN profiles[k].value = Fields
    /\ platformRows \in Unset(Flagged(SUBSET Profiles[Platform]))

(* The rows of the platform are cached for themselves, and go into the      *)
(* profiles of every tenant.                                                *)
RowsAreCurrent ==
    platformRows # None /\ ~platformRows.late /\ Settled("profiles", {Platform}) =>
        platformRows.value = rows[Platform]

(* What a resolution has read: numbers and rows of the right kind, and what *)
(* the tables say now unless it was overtaken, had a query fail, or is      *)
(* about to be overtaken.                                                   *)
ReadSettings(v) ==
    /\ v.pc \in ProfileSteps \cup {"askThinking", "gotSettings"} => v.model \in Models
    /\ v.pc = "gotSettings" => v.think \in BOOLEAN
    /\ ~v.late /\ Settled("settings", {v.tenant}) =>
        /\ v.pc \in {"askThinking", "gotSettings"} => v.model = OwnModel(v.tenant)
        /\ v.pc = "gotSettings" => v.think = thinking[v.tenant]

ReadRows(v) ==
    /\ HasCommon(v) => v.common \in SUBSET Profiles[Platform]
    /\ v.own # None => v.own \in SUBSET Profiles[v.tenant]
    /\ HasCommon(v) /\ ~v.lateCommon /\ Settled("profiles", {Platform}) => v.common = rows[Platform]
    /\ v.own # None /\ ~v.lateOwn /\ Settled("profiles", {v.tenant}) => v.own = rows[v.tenant]

Unread(v) == v.fetch = "cache" /\ v.own = None

Reads(v) ==
    /\ v.pc # "idle" => v.tenant \in Tenants
    /\ v.pc # "gather" => Unread(v)
    /\ ReadSettings(v)
    /\ ReadRows(v)

Resolutions == caller \in [Callers -> Locals] /\ \A c \in Callers : Reads(caller[c])

IInv == Tables /\ Caches /\ CacheIsCurrent /\ RowsAreCurrent /\ Resolutions

-----------------------------------------------------------------------------
LEMMA UnreadRows == \A v : Unread(v) => ReadRows(v)
  BY DEF Unread, ReadRows, HasCommon

LEMMA IdleCaller ==
    /\ NoCaller \in Locals /\ NoCaller.pc = "idle" /\ ~NoCaller.late /\ Unread(NoCaller)
    /\ Reads(NoCaller)
  <1>1. NoCaller \in Locals /\ NoCaller.pc = "idle" /\ ~NoCaller.late /\ Unread(NoCaller)
    BY DEF NoCaller, Locals, Stages, Unset, Unread
  <1> QED
    BY <1>1, UnreadRows DEF Reads, ReadSettings, ProfileSteps

LEMMA InitInv == Init => IInv
  <1> SUFFICES ASSUME Init PROVE IInv
    OBVIOUS
  <1>1. Tables
    BY DEF Init, Tables, Unset, AllRows
  <1>2. Caches
    BY DEF Init, Caches, Unset
  <1>3. CacheIsCurrent /\ RowsAreCurrent
    BY DEF Init, CacheIsCurrent, RowsAreCurrent
  <1>4. Resolutions
    BY IdleCaller DEF Init, Resolutions
  <1> QED
    BY <1>1, <1>2, <1>3, <1>4 DEF IInv

-----------------------------------------------------------------------------
(* The tables, the caches and what is owed stay; one resolution moves.      *)
LEMMA TablesStay ==
    ASSUME Tables, UNCHANGED <<db, owed>>
    PROVE  Tables' /\ \A v : Reads(v) => Reads(v)'
  BY DEF Tables, db, Reads, ReadSettings, ReadRows, Unread, HasCommon, Settled, OwnModel

LEMMA CallerMoves ==
    ASSUME IInv, NEW c \in Callers, NEW v \in Locals, Step(c, v), Reads(v),
           UNCHANGED <<db, owed>>
    PROVE  Tables' /\ Resolutions'
  <1>1. Tables' /\ \A u : Reads(u) => Reads(u)'
    BY TablesStay DEF IInv
  <1>2. /\ caller' \in [Callers -> Locals] /\ caller'[c] = v
        /\ \A d \in Callers \ {c} : caller'[d] = caller[d]
    BY DEF Step, IInv, Resolutions
  <1>3. ASSUME NEW d \in Callers PROVE Reads(caller[d])'
    <2>1. PICK u : u = caller'[d]
      OBVIOUS
    <2>2. Reads(u)
      BY <1>2, <2>1 DEF IInv, Resolutions
    <2>3. Reads(u)'
      BY <1>1, <2>2
    <2> QED
      BY <2>1, <2>3 DEF Reads, ReadSettings, ReadRows, Unread, HasCommon
  <1> QED
    BY <1>1, <1>2, <1>3 DEF Resolutions

LEMMA Moves ==
    ASSUME IInv, NEW c \in Callers, NEW v \in Locals, Step(c, v), Reads(v),
           UNCHANGED <<db, caches, owed>>
    PROVE  IInv'
  <1>1. Tables' /\ Resolutions'
    BY CallerMoves
  <1>2. Caches' /\ CacheIsCurrent' /\ RowsAreCurrent'
    BY DEF IInv, Caches, CacheIsCurrent, RowsAreCurrent, db, caches, Settled, OwnModel
  <1> QED
    BY <1>1, <1>2 DEF IInv

(* A query of the database answers, or the fallback is used and marked.     *)
LEMMA FetchedIs ==
    ASSUME NEW v, NEW fallback, NEW a \in Fetched(v, fallback)
    PROVE  \/ a.value = v /\ a.failed = FALSE
           \/ a.value = fallback /\ a.failed = TRUE
  BY DEF Fetched

LEMMA TookIs ==
    ASSUME NEW c, NEW a, a.failed \in BOOLEAN, NEW v \in Locals, Took(c, a, v)
    PROVE  \E w \in Locals :
              /\ Step(c, w) /\ w = [v EXCEPT !.late = v.late \/ a.failed]
              /\ w.late = (v.late \/ a.failed)
              /\ w.pc = v.pc /\ w.tenant = v.tenant /\ w.model = v.model /\ w.think = v.think
              /\ w.fetch = v.fetch /\ w.own = v.own /\ w.forced = v.forced
  <1> DEFINE w == [v EXCEPT !.late = v.late \/ a.failed]
  <1>1. Step(c, w)
    BY DEF Took
  <1>2. w \in Locals
    BY DEF Locals
  <1>3. /\ w.late = (v.late \/ a.failed)
        /\ w.pc = v.pc /\ w.tenant = v.tenant /\ w.model = v.model /\ w.think = v.think
        /\ w.fetch = v.fetch /\ w.own = v.own /\ w.forced = v.forced
    BY DEF Locals
  <1> QED
    BY <1>1, <1>2, <1>3

(* The locals of a resolution that is under way.                            *)
LEMMA Working ==
    ASSUME IInv, NEW c \in Callers
    PROVE  caller[c] \in Locals /\ Reads(caller[c])
  BY DEF IInv, Resolutions

(* A resolution that has read no table yet may be marked or not.            *)
LEMMA ReadsNothing ==
    ASSUME NEW v, v.pc \in {"askPlatform", "gotPlatform", "lookup", "askModel"}, v.tenant \in Tenants,
           Unread(v)
    PROVE  Reads(v)
  BY UnreadRows DEF Reads, ReadSettings, ProfileSteps

LEMMA ReadsForProfile ==
    ASSUME NEW v, v.pc = "profile" \/ v.pc = "gather", v.tenant \in Tenants, v.model \in Models, Unread(v)
    PROVE  Reads(v)
  BY UnreadRows DEF Reads, ReadSettings

-----------------------------------------------------------------------------
(* TenantModelResolver.                                                     *)

LEMMA AskStep == ASSUME IInv, NEW c \in Callers, NEW t \in Tenants, Ask(c, t) PROVE IInv'
  <1>1. CASE platformModel # None
    <2> DEFINE v == [NoCaller EXCEPT !.pc = "lookup", !.tenant = t, !.forced = platformModel.value]
    <2>1. platformModel.value \in Unset(Models)
      BY <1>1 DEF IInv, Caches, Unset, Flagged
    <2>2. v \in Locals /\ v.pc = "lookup" /\ v.tenant = t /\ Unread(v)
      BY <2>1, IdleCaller DEF Locals, Stages, Unset, Unread
    <2>3. Step(c, v) /\ UNCHANGED <<db, caches, owed>>
      BY <1>1 DEF Ask
    <2> HIDE DEF v
    <2> QED
      BY <2>2, <2>3, ReadsNothing, Moves
  <1>2. CASE platformModel = None
    <2> DEFINE v == [NoCaller EXCEPT !.pc = "askPlatform", !.tenant = t]
    <2>1. v \in Locals /\ v.pc = "askPlatform" /\ v.tenant = t /\ Unread(v)
      BY IdleCaller DEF Locals, Stages, Unset, Unread
    <2>2. Step(c, v) /\ UNCHANGED <<db, caches, owed>>
      BY <1>2 DEF Ask
    <2> HIDE DEF v
    <2> QED
      BY <2>1, <2>2, ReadsNothing, Moves
  <1> QED
    BY <1>1, <1>2

LEMMA ReadPlatformModelStep == ASSUME IInv, NEW c \in Callers, ReadPlatformModel(c) PROVE IInv'
  <1>1. caller[c].pc = "askPlatform" /\ UNCHANGED <<db, caches, owed>>
    BY DEF ReadPlatformModel
  <1>2. PICK a \in Fetched(choice[Platform], None) :
            Took(c, a, [caller[c] EXCEPT !.pc = "gotPlatform", !.forced = a.value])
    BY DEF ReadPlatformModel
  <1> DEFINE v == [caller[c] EXCEPT !.pc = "gotPlatform", !.forced = a.value]
  <1>3. a.failed \in BOOLEAN /\ a.value \in Unset(Models)
    BY FetchedIs DEF IInv, Tables, Scopes, Unset
  <1>4. caller[c] \in Locals /\ caller[c].tenant \in Tenants /\ Unread(caller[c])
    BY <1>1, Working DEF Reads
  <1>5. v \in Locals /\ v.pc = "gotPlatform" /\ v.tenant = caller[c].tenant /\ Unread(v)
    BY <1>3, <1>4 DEF Locals, Stages, Unread
  <1>6. Took(c, a, v)
    BY <1>2
  <1> HIDE DEF v
  <1>7. PICK w \in Locals : Step(c, w) /\ w.pc = "gotPlatform" /\ w.tenant \in Tenants /\ Unread(w)
    BY <1>3, <1>4, <1>5, <1>6, TookIs DEF Unread
  <1> QED
    BY <1>1, <1>7, ReadsNothing, Moves

LEMMA KeepPlatformModelStep == ASSUME IInv, NEW c \in Callers, KeepPlatformModel(c) PROVE IInv'
  <1> DEFINE v == [caller[c] EXCEPT !.pc = "lookup", !.late = FALSE]
  <1>1. /\ caller[c].pc = "gotPlatform" /\ Step(c, v)
        /\ platformModel' = [value |-> caller[c].forced, late |-> caller[c].late]
        /\ UNCHANGED <<db, settings, profiles, platformRows, owed>>
    BY DEF KeepPlatformModel
  <1>2. caller[c] \in Locals /\ caller[c].tenant \in Tenants /\ Unread(caller[c])
    BY <1>1, Working DEF Reads
  <1>3. v \in Locals /\ v.pc = "lookup" /\ v.tenant \in Tenants /\ Unread(v)
    BY <1>2 DEF Locals, Stages, Unread
  <1>4. platformModel' \in Unset(Flagged(Unset(Models)))
    BY <1>1, <1>2 DEF Locals, Flagged, Unset
  <1> HIDE DEF v
  <1>5. Tables' /\ Resolutions'
    BY <1>1, <1>3, ReadsNothing, CallerMoves
  <1>6. Caches' /\ CacheIsCurrent' /\ RowsAreCurrent'
    BY <1>1, <1>4 DEF IInv, Caches, CacheIsCurrent, RowsAreCurrent, db, Settled, OwnModel
  <1> QED
    BY <1>5, <1>6 DEF IInv

LEMMA EffectiveIs ==
    ASSUME NEW forced \in Unset(Models), NEW own \in Models PROVE Effective(forced, own) \in Models
  BY DEF Effective, Unset

LEMMA LookupStep == ASSUME IInv, NEW c \in Callers, Lookup(c) PROVE IInv'
  <1>1. caller[c].pc = "lookup" /\ UNCHANGED <<db, caches, owed>>
    BY DEF Lookup
  <1>2. /\ caller[c] \in Locals /\ caller[c].tenant \in Tenants /\ caller[c].forced \in Unset(Models)
        /\ Unread(caller[c])
    BY <1>1, Working DEF Reads, Locals
  <1>3. CASE settings[Own(c)] = None
    <2> DEFINE v == [caller[c] EXCEPT !.pc = "askModel"]
    <2>1. v \in Locals /\ v.pc = "askModel" /\ v.tenant \in Tenants /\ Unread(v)
      BY <1>2 DEF Locals, Stages, Unread
    <2>2. Step(c, v)
      BY <1>3 DEF Lookup
    <2> HIDE DEF v
    <2> QED
      BY <1>1, <2>1, <2>2, ReadsNothing, Moves
  <1>4. CASE settings[Own(c)] # None
    <2> DEFINE m == Effective(caller[c].forced, settings[Own(c)].value[1])
               v == [NoCaller EXCEPT !.pc = "profile", !.tenant = Own(c), !.model = m]
    <2>1. m \in Models
      <3>1. settings[Own(c)].value[1] \in Models
        BY <1>2, <1>4 DEF IInv, Caches, Own, Unset, Flagged
      <3> QED
        BY <1>2, <3>1, EffectiveIs
    <2>2. Step(c, v)
      BY <1>4 DEF Lookup
    <2> HIDE DEF m
    <2>3. v \in Locals /\ v.pc = "profile" /\ v.tenant \in Tenants /\ v.model \in Models /\ Unread(v)
      BY <1>2, <2>1, IdleCaller DEF Locals, Stages, ProfileSteps, Unset, Own, Unread
    <2> HIDE DEF v
    <2> QED
      BY <1>1, <2>2, <2>3, ReadsForProfile, Moves
  <1> QED
    BY <1>3, <1>4

LEMMA ReadTenantModelStep == ASSUME IInv, NEW c \in Callers, ReadTenantModel(c) PROVE IInv'
  <1>1. caller[c].pc = "askModel" /\ UNCHANGED <<db, caches, owed>>
    BY DEF ReadTenantModel
  <1>2. PICK a \in Fetched(OwnModel(Own(c)), DefaultModel) :
            Took(c, a, [caller[c] EXCEPT !.pc = "askThinking", !.model = a.value])
    BY DEF ReadTenantModel
  <1> DEFINE v == [caller[c] EXCEPT !.pc = "askThinking", !.model = a.value]
  <1>3. caller[c] \in Locals /\ Own(c) \in Tenants /\ Own(c) = caller[c].tenant /\ Unread(caller[c])
    BY <1>1, Working DEF Reads, Own
  <1>4. /\ a.failed \in BOOLEAN /\ a.value \in Models
        /\ ~a.failed => a.value = OwnModel(Own(c))
    <2>1. OwnModel(Own(c)) \in Models /\ DefaultModel \in Models
      BY <1>3, SettingsAssumption DEF OwnModel, IInv, Tables, Scopes, Unset
    <2> QED
      BY <2>1, FetchedIs
  <1>5. v \in Locals /\ v.pc = "askThinking" /\ v.tenant = Own(c) /\ v.model = a.value /\ Unread(v)
    BY <1>3, <1>4 DEF Locals, Stages, Unset, Unread
  <1>6. Took(c, a, v)
    BY <1>2
  <1> HIDE DEF v
  <1>7. PICK w \in Locals :
            /\ Step(c, w) /\ w.pc = "askThinking" /\ w.tenant = Own(c) /\ w.model = a.value
            /\ Unread(w) /\ (~w.late => ~a.failed)
    BY <1>4, <1>5, <1>6, TookIs DEF Unread
  <1>8. Reads(w)
    BY <1>3, <1>4, <1>7, UnreadRows DEF Reads, ReadSettings
  <1> QED
    BY <1>1, <1>7, <1>8, Moves

LEMMA ReadThinkingStep == ASSUME IInv, NEW c \in Callers, ReadThinking(c) PROVE IInv'
  <1>1. caller[c].pc = "askThinking" /\ UNCHANGED <<db, caches, owed>>
    BY DEF ReadThinking
  <1>2. PICK a \in Fetched(thinking[Own(c)], FALSE) :
            Took(c, a, [caller[c] EXCEPT !.pc = "gotSettings", !.think = a.value])
    BY DEF ReadThinking
  <1> DEFINE v == [caller[c] EXCEPT !.pc = "gotSettings", !.think = a.value]
  <1>3. /\ caller[c] \in Locals /\ Own(c) \in Tenants /\ Own(c) = caller[c].tenant
        /\ ReadSettings(caller[c]) /\ Unread(caller[c])
    BY <1>1, Working DEF Reads, Own
  <1>4. /\ a.failed \in BOOLEAN /\ a.value \in BOOLEAN
        /\ ~a.failed => a.value = thinking[Own(c)]
    <2>1. thinking[Own(c)] \in BOOLEAN
      BY <1>3 DEF IInv, Tables
    <2>2. \/ a.value = thinking[Own(c)] /\ a.failed = FALSE
          \/ a.value = FALSE /\ a.failed = TRUE
      BY FetchedIs
    <2>3. CASE a.failed = FALSE
      BY <2>1, <2>2, <2>3, Zenon
    <2>4. CASE a.failed = TRUE
      BY <2>1, <2>2, <2>4, Zenon
    <2> QED
      BY <2>2, <2>3, <2>4, Zenon
  <1>5. /\ v \in Locals /\ v.pc = "gotSettings" /\ v.tenant = Own(c) /\ v.model = caller[c].model
        /\ v.think = a.value /\ v.late = caller[c].late /\ v.fetch = "cache" /\ v.own = None
    BY <1>3, <1>4 DEF Locals, Stages, Unset, Unread
  <1>6. Took(c, a, v)
    BY <1>2
  <1> HIDE DEF v
  <1>7. PICK w \in Locals :
            /\ Step(c, w) /\ w.pc = "gotSettings" /\ w.tenant = Own(c) /\ w.model = caller[c].model
            /\ w.think = a.value /\ w.fetch = "cache" /\ w.own = None
            /\ ~w.late => ~a.failed /\ ~caller[c].late
    <2>1. PICK w \in Locals :
              /\ Step(c, w) /\ w.late = (v.late \/ a.failed)
              /\ w.pc = v.pc /\ w.tenant = v.tenant /\ w.model = v.model /\ w.think = v.think
              /\ w.fetch = v.fetch /\ w.own = v.own
      BY <1>4, <1>5, <1>6, TookIs
    <2>2. ~w.late => ~a.failed /\ ~caller[c].late
      BY <1>5, <2>1, Zenon
    <2>3. w.think = a.value
      BY <1>5, <2>1, Zenon
    <2> QED
      BY <1>5, <2>1, <2>2, <2>3, Zenon
  <1>8. Unread(w)
    BY <1>7 DEF Unread
  <1>9. Reads(w)
    BY <1>1, <1>3, <1>4, <1>7, <1>8, UnreadRows DEF Reads, ReadSettings
  <1> QED
    BY <1>1, <1>7, <1>9, Moves

LEMMA KeepSettingsStep == ASSUME IInv, NEW c \in Callers, KeepSettings(c) PROVE IInv'
  <1> DEFINE u == caller[c]
             m == Effective(u.forced, u.model)
             v == [NoCaller EXCEPT !.pc = "profile", !.tenant = u.tenant, !.model = m]
             e == [value |-> <<u.model, u.think>>, late |-> u.late]
  <1>1. /\ u.pc = "gotSettings" /\ Step(c, v) /\ settings' = [settings EXCEPT ![u.tenant] = e]
        /\ UNCHANGED <<db, platformModel, profiles, platformRows, owed>>
    BY DEF KeepSettings
  <1>2. /\ u \in Locals /\ u.tenant \in Tenants /\ u.model \in Models /\ u.think \in BOOLEAN
        /\ u.late \in BOOLEAN /\ u.forced \in Unset(Models) /\ ReadSettings(u)
    BY <1>1, Working DEF Reads, ReadSettings, Locals
  <1>3. m \in Models
    BY <1>2, EffectiveIs
  <1>4. e \in Flagged(Models \X BOOLEAN) /\ e.value = <<u.model, u.think>> /\ e.late = u.late
    BY <1>2 DEF Flagged
  <1>5. ~e.late /\ Settled("settings", {u.tenant}) => e.value = <<OwnModel(u.tenant), thinking[u.tenant]>>
    BY <1>1, <1>2, <1>4 DEF ReadSettings
  <1> HIDE DEF u, m, e
  <1>6. v \in Locals /\ v.pc = "profile" /\ v.tenant \in Tenants /\ v.model \in Models /\ Unread(v)
    BY <1>2, <1>3, IdleCaller DEF Locals, Stages, ProfileSteps, Unset, Unread
  <1> HIDE DEF v
  <1>7. Tables' /\ Resolutions'
    BY <1>1, <1>6, ReadsForProfile, CallerMoves
  <1>8. Caches'
    BY <1>1, <1>2, <1>4 DEF IInv, Caches, Unset
  <1>9. CacheIsCurrent' /\ RowsAreCurrent'
    <2>1. RowsAreCurrent'
      BY <1>1 DEF IInv, RowsAreCurrent, db, Settled
    <2>2. ASSUME NEW t \in Tenants, settings'[t] # None, ~settings'[t].late, Settled("settings", {t})'
          PROVE  settings'[t].value = <<OwnModel(t)', thinking'[t]>>
      <3>1. CASE t = u.tenant
        BY <1>1, <1>2, <1>5, <2>2, <3>1 DEF IInv, Caches, db, Settled, OwnModel
      <3>2. CASE t # u.tenant
        BY <1>1, <1>2, <2>2, <3>2 DEF IInv, Caches, CacheIsCurrent, db, Settled, OwnModel
      <3> QED
        BY <3>1, <3>2
    <2> QED
      BY <1>1, <2>1, <2>2 DEF IInv, CacheIsCurrent, db, Settled
  <1> QED
    BY <1>7, <1>8, <1>9 DEF IInv

-----------------------------------------------------------------------------
(* ModelProfileResolver.                                                    *)

LEMMA AskProfileStep ==
    ASSUME IInv, NEW c \in Callers, NEW t \in Tenants, NEW m \in Named, AskProfile(c, t, m)
    PROVE  IInv'
  <1> DEFINE v == [NoCaller EXCEPT !.pc = "profile", !.tenant = t, !.model = m]
  <1>1. m \in Models
    BY SettingsAssumption
  <1>2. v \in Locals /\ v.pc = "profile" /\ v.tenant \in Tenants /\ v.model \in Models /\ Unread(v)
    BY <1>1, IdleCaller DEF Locals, Stages, ProfileSteps, Unset, Unread
  <1>3. Step(c, v) /\ UNCHANGED <<db, caches, owed>>
    BY DEF AskProfile
  <1> HIDE DEF v
  <1> QED
    BY <1>2, <1>3, ReadsForProfile, Moves

LEMMA LookupProfileStep == ASSUME IInv, NEW c \in Callers, LookupProfile(c) PROVE IInv'
  <1>1. caller[c].pc = "profile" /\ UNCHANGED <<db, caches, owed>>
    BY DEF LookupProfile
  <1>2. /\ caller[c] \in Locals /\ caller[c].tenant \in Tenants /\ caller[c].model \in Models
        /\ Unread(caller[c])
    BY <1>1, Working DEF Reads, ReadSettings, ProfileSteps
  <1>3. CASE Step(c, NoCaller)
    BY <1>1, <1>3, IdleCaller, Moves
  <1>4. CASE Step(c, [caller[c] EXCEPT !.pc = "gather"])
    <2> DEFINE v == [caller[c] EXCEPT !.pc = "gather"]
    <2>1. v \in Locals /\ v.pc = "gather" /\ v.tenant \in Tenants /\ v.model \in Models /\ Unread(v)
      BY <1>2 DEF Locals, Stages, ProfileSteps, Unread
    <2>2. Step(c, v)
      BY <1>4
    <2> HIDE DEF v
    <2> QED
      BY <1>1, <2>1, <2>2, ReadsForProfile, Moves
  <1> QED
    BY <1>3, <1>4 DEF LookupProfile

(* A resolution that gathers has read the rows of one scope, or of both, or *)
(* none: each of the two reads leaves the other as it is.                   *)
LEMMA Gathering ==
    ASSUME IInv, NEW c \in Callers, caller[c].pc = "gather"
    PROVE  /\ caller[c] \in Locals /\ caller[c].tenant \in Tenants /\ caller[c].model \in Models
           /\ ReadRows(caller[c])
  BY Working DEF Reads, ReadSettings, ProfileSteps

LEMMA CommonRead ==
    ASSUME IInv, NEW c \in Callers, caller[c].pc = "gather",
           NEW fetch \in {"got", "have"}, NEW common \in SUBSET Profiles[Platform], NEW late \in BOOLEAN,
           NEW v, v = [caller[c] EXCEPT !.fetch = fetch, !.common = common, !.lateCommon = late],
           ~late /\ Settled("profiles", {Platform}) => common = rows[Platform]
    PROVE  v \in Locals /\ Reads(v)
  <1>1. /\ caller[c] \in Locals /\ caller[c].tenant \in Tenants /\ caller[c].model \in Models
        /\ ReadRows(caller[c])
    BY Gathering
  <1>2. common \in Unset(SUBSET AllRows)
    BY DEF Unset, AllRows, Scopes
  <1>3. /\ v \in Locals /\ v.pc = "gather" /\ v.tenant = caller[c].tenant /\ v.model = caller[c].model
        /\ v.fetch = fetch /\ v.common = common /\ v.lateCommon = late
        /\ v.own = caller[c].own /\ v.lateOwn = caller[c].lateOwn
    BY <1>1, <1>2 DEF Locals
  <1>4. ReadSettings(v)
    BY <1>1, <1>3 DEF ReadSettings
  <1>5. ReadRows(v)
    <2>1. HasCommon(v) /\ (~v.lateCommon <=> ~late)
      BY <1>3 DEF HasCommon
    <2>2. v.own # None => v.own \in SUBSET Profiles[v.tenant]
      BY <1>1, <1>3 DEF ReadRows
    <2>3. v.own # None /\ ~v.lateOwn /\ Settled("profiles", {v.tenant}) => v.own = rows[v.tenant]
      BY <1>1, <1>3 DEF ReadRows
    <2> QED
      BY <1>3, <2>1, <2>2, <2>3 DEF ReadRows
  <1> QED
    BY <1>1, <1>3, <1>4, <1>5 DEF Reads

LEMMA LookupPlatformRowsStep == ASSUME IInv, NEW c \in Callers, LookupPlatformRows(c) PROVE IInv'
  <1>1. caller[c].pc = "gather" /\ caller[c].fetch = "cache" /\ UNCHANGED <<db, caches, owed>>
    BY DEF LookupPlatformRows, Fetching
  <1>2. CASE platformRows = None
    <2> DEFINE v == [caller[c] EXCEPT !.fetch = "ask"]
    <2>1. /\ caller[c] \in Locals /\ caller[c].tenant \in Tenants /\ caller[c].model \in Models
          /\ ReadRows(caller[c])
      BY <1>1, Gathering
    <2>2. /\ v \in Locals /\ v.pc = "gather" /\ v.tenant = caller[c].tenant /\ v.model = caller[c].model
          /\ v.fetch = "ask" /\ v.own = caller[c].own /\ v.lateOwn = caller[c].lateOwn
      BY <1>1, <2>1 DEF Locals
    <2>3. Step(c, v)
      BY <1>2 DEF LookupPlatformRows
    <2> HIDE DEF v
    <2>4. Reads(v)
      BY <2>1, <2>2 DEF Reads, ReadSettings, ReadRows, HasCommon
    <2> QED
      BY <1>1, <2>2, <2>3, <2>4, Moves
  <1>3. CASE platformRows # None
    <2> DEFINE v == [caller[c] EXCEPT !.fetch = "have", !.common = platformRows.value,
                                      !.lateCommon = platformRows.late]
    <2>1. platformRows.value \in SUBSET Profiles[Platform] /\ platformRows.late \in BOOLEAN
      BY <1>3 DEF IInv, Caches, Unset, Flagged
    <2>2. Step(c, v)
      BY <1>3 DEF LookupPlatformRows
    <2>3. ~platformRows.late /\ Settled("profiles", {Platform}) => platformRows.value = rows[Platform]
      BY <1>3 DEF IInv, RowsAreCurrent
    <2>4. v \in Locals /\ Reads(v)
      BY <1>1, <2>1, <2>3, CommonRead
    <2> HIDE DEF v
    <2> QED
      BY <1>1, <2>2, <2>4, Moves
  <1> QED
    BY <1>2, <1>3

LEMMA ReadPlatformRowsStep == ASSUME IInv, NEW c \in Callers, ReadPlatformRows(c) PROVE IInv'
  <1>1. caller[c].pc = "gather" /\ UNCHANGED <<db, caches, owed>>
    BY DEF ReadPlatformRows, Fetching
  <1>2. PICK a \in Fetched(rows[Platform], {}) :
            Step(c, [caller[c] EXCEPT !.fetch = "got", !.common = a.value, !.lateCommon = a.failed])
    BY DEF ReadPlatformRows
  <1> DEFINE v == [caller[c] EXCEPT !.fetch = "got", !.common = a.value, !.lateCommon = a.failed]
  <1>3. /\ a.failed \in BOOLEAN /\ a.value \in SUBSET Profiles[Platform]
        /\ ~a.failed => a.value = rows[Platform]
    BY FetchedIs DEF IInv, Tables, Scopes
  <1>4. v \in Locals /\ Reads(v)
    BY <1>1, <1>3, CommonRead
  <1> HIDE DEF v
  <1> QED
    BY <1>1, <1>2, <1>4, Moves DEF v

LEMMA KeepPlatformRowsStep == ASSUME IInv, NEW c \in Callers, KeepPlatformRows(c) PROVE IInv'
  <1> DEFINE v == [caller[c] EXCEPT !.fetch = "have"]
  <1>1. /\ caller[c].pc = "gather" /\ HasCommon(caller[c]) /\ Step(c, v)
        /\ platformRows' = [value |-> caller[c].common, late |-> caller[c].lateCommon]
        /\ UNCHANGED <<db, settings, platformModel, profiles, owed>>
    BY DEF KeepPlatformRows, Fetching, HasCommon
  <1>2. /\ caller[c] \in Locals /\ ReadRows(caller[c])
        /\ caller[c].common \in SUBSET Profiles[Platform] /\ caller[c].lateCommon \in BOOLEAN
    BY <1>1, Gathering DEF ReadRows, Locals
  <1>3. v = [caller[c] EXCEPT !.fetch = "have", !.common = caller[c].common,
                              !.lateCommon = caller[c].lateCommon]
    BY <1>2 DEF Locals
  <1>4. /\ platformRows' \in Flagged(SUBSET Profiles[Platform])
        /\ platformRows'.value = caller[c].common /\ platformRows'.late = caller[c].lateCommon
    BY <1>1, <1>2 DEF Flagged
  <1>5. ~caller[c].lateCommon /\ Settled("profiles", {Platform}) => caller[c].common = rows[Platform]
    BY <1>1, <1>2 DEF ReadRows
  <1> HIDE DEF v
  <1>6. v \in Locals /\ Reads(v)
    BY <1>1, <1>2, <1>3, <1>5, CommonRead
  <1>7. Tables' /\ Resolutions'
    BY <1>1, <1>6, CallerMoves
  <1>8. Caches'
    BY <1>1, <1>4 DEF IInv, Caches, Unset
  <1>9. RowsAreCurrent'
    BY <1>1, <1>4, <1>5 DEF RowsAreCurrent, db, Settled
  <1>10. CacheIsCurrent'
    BY <1>1 DEF IInv, CacheIsCurrent, db, Settled, OwnModel
  <1> QED
    BY <1>7, <1>8, <1>9, <1>10 DEF IInv

LEMMA ReadTenantRowsStep == ASSUME IInv, NEW c \in Callers, ReadTenantRows(c) PROVE IInv'
  <1>1. caller[c].pc = "gather" /\ UNCHANGED <<db, caches, owed>>
    BY DEF ReadTenantRows
  <1>2. PICK a \in Fetched(rows[Own(c)], {}) :
            Step(c, [caller[c] EXCEPT !.own = a.value, !.lateOwn = a.failed])
    BY DEF ReadTenantRows
  <1> DEFINE v == [caller[c] EXCEPT !.own = a.value, !.lateOwn = a.failed]
  <1>3. /\ caller[c] \in Locals /\ Own(c) \in Tenants /\ Own(c) = caller[c].tenant
        /\ caller[c].model \in Models /\ ReadRows(caller[c])
    BY <1>1, Gathering DEF Own
  <1>4. /\ a.failed \in BOOLEAN /\ a.value \in SUBSET AllRows
        /\ a.value \in SUBSET Profiles[Own(c)] /\ (~a.failed => a.value = rows[Own(c)])
    <2>1. rows[Own(c)] \in SUBSET AllRows /\ rows[Own(c)] \subseteq Profiles[Own(c)]
      BY <1>3 DEF IInv, Tables, Scopes
    <2>2. \/ a.value = rows[Own(c)] /\ a.failed = FALSE
          \/ a.value = {} /\ a.failed = TRUE
      BY FetchedIs
    <2> QED
      BY <2>1, <2>2
  <1>5. /\ v \in Locals /\ v.pc = "gather" /\ v.tenant = Own(c) /\ v.model = caller[c].model
        /\ v.fetch = caller[c].fetch /\ v.common = caller[c].common
        /\ v.lateCommon = caller[c].lateCommon /\ v.own = a.value /\ v.lateOwn = a.failed
    BY <1>1, <1>3, <1>4 DEF Locals, Unset
  <1>6. Step(c, v)
    BY <1>2
  <1> HIDE DEF v
  <1>7. ReadSettings(v)
    BY <1>3, <1>5 DEF ReadSettings
  <1>8. ReadRows(v)
    <2>1. /\ HasCommon(v) => v.common \in SUBSET Profiles[Platform]
          /\ HasCommon(v) /\ ~v.lateCommon /\ Settled("profiles", {Platform}) => v.common = rows[Platform]
      BY <1>3, <1>5 DEF ReadRows, HasCommon
    <2>2. v.own \in SUBSET Profiles[v.tenant] /\ (~v.lateOwn => v.own = rows[v.tenant])
      BY <1>4, <1>5, Zenon
    <2> QED
      BY <2>1, <2>2 DEF ReadRows
  <1>9. Reads(v)
    BY <1>3, <1>5, <1>7, <1>8 DEF Reads
  <1> QED
    BY <1>1, <1>5, <1>6, <1>9, Moves

LEMMA BuildAndCacheStep == ASSUME IInv, NEW c \in Callers, BuildAndCache(c) PROVE IInv'
  <1> DEFINE u == caller[c]
             k0 == <<u.tenant, u.model>>
             e == [value |-> Resolved(u.model, u.own, u.common), late |-> u.lateCommon \/ u.lateOwn]
  <1>1. /\ u.pc = "gather" /\ HasCommon(u) /\ u.own # None /\ Step(c, NoCaller) /\ profiles' = [profiles EXCEPT ![k0] = e]
        /\ UNCHANGED <<db, settings, platformModel, platformRows, owed>>
    BY DEF BuildAndCache, Fetching, HasCommon
  <1>2. u.tenant \in Tenants /\ u.model \in Models /\ ReadRows(u)
    BY <1>1, Gathering
  <1>3. k0 \in Keys /\ k0[1] = u.tenant /\ k0[2] = u.model
    BY <1>2 DEF Keys
  <1>4. /\ e.value = Resolved(u.model, u.own, u.common) /\ DOMAIN e.value = Fields
        /\ ~e.late => ~u.lateCommon /\ ~u.lateOwn
    <2>1. e.value = Resolved(u.model, u.own, u.common) /\ DOMAIN e.value = Fields
      BY DEF Resolved, Merge2
    <2>2. ~e.late => ~u.lateCommon /\ ~u.lateOwn
      BY Zenon
    <2> QED
      BY <2>1, <2>2
  <1>5. ~e.late /\ Settled("profiles", {k0[1], Platform}) =>
            e.value = Resolved(k0[2], rows[k0[1]], rows[Platform])
    BY <1>1, <1>2, <1>3, <1>4 DEF ReadRows, Settled
  <1> HIDE DEF u, k0, e
  <1>6. Tables' /\ Resolutions'
    BY <1>1, IdleCaller, CallerMoves
  <1>7. /\ DOMAIN profiles' = Keys /\ profiles'[k0] = e
        /\ \A k \in Keys \ {k0} : profiles'[k] = profiles[k]
    BY <1>1, <1>3 DEF IInv, Caches
  <1>8. Caches'
    BY <1>1, <1>4, <1>7 DEF IInv, Caches
  <1>9. RowsAreCurrent'
    BY <1>1 DEF IInv, RowsAreCurrent, db, Settled
  <1>10. CacheIsCurrent'
    <2>1. ASSUME NEW k \in Keys, profiles'[k] # None, ~profiles'[k].late,
                 Settled("profiles", {k[1], Platform})'
          PROVE  profiles'[k].value = Resolved(k[2], rows[k[1]], rows[Platform])
      <3>1. Settled("profiles", {k[1], Platform})
        BY <1>1, <2>1 DEF Settled
      <3>2. CASE k = k0
        BY <1>5, <1>7, <2>1, <3>1, <3>2
      <3>3. CASE k # k0
        BY <1>7, <2>1, <3>1, <3>3 DEF IInv, CacheIsCurrent
      <3> QED
        BY <3>2, <3>3
    <2> QED
      BY <1>1, <2>1 DEF IInv, CacheIsCurrent, db, Settled, OwnModel
  <1> QED
    BY <1>6, <1>8, <1>9, <1>10 DEF IInv

-----------------------------------------------------------------------------
(* The browser.  What a saved setting makes stale is owed an invalidation.  *)

LEMMA SaveProfileStep == ASSUME IInv, NEW s \in Scopes, SaveProfile(s) PROVE IInv'
  <1>1. PICK r \in Profiles[s] : rows' = [rows EXCEPT ![s] = IF r \in @ THEN @ \ {r} ELSE @ \cup {r}]
    BY DEF SaveProfile
  <1>2. owed' = owed \cup {<<"profiles", s>>} /\ UNCHANGED <<choice, thinking, caches, caller, mishaps>>
    BY DEF SaveProfile
  <1>3. /\ \A t \in Scopes \ {s} : rows'[t] = rows[t]
        /\ rows'[s] \subseteq Profiles[s] /\ DOMAIN rows' = Scopes
        /\ rows' = [t \in Scopes |-> rows'[t]]
    BY <1>1 DEF IInv, Tables
  <1>4. \A t \in Scopes : rows'[t] \subseteq Profiles[t]
    BY <1>3 DEF IInv, Tables
  <1>5. Tables'
    <2>1. \A t \in Scopes : rows'[t] \in SUBSET AllRows
      BY <1>4 DEF AllRows
    <2>2. rows' \in [Scopes -> SUBSET AllRows]
      BY <1>3, <2>1
    <2> QED
      BY <1>2, <1>4, <2>2 DEF IInv, Tables
  <1>6. \A kind, ss : Settled(kind, ss)' => Settled(kind, ss) /\ (kind = "profiles" => s \notin ss)
    BY <1>2 DEF Settled
  <1>7. Platform \in Scopes /\ Tenants \subseteq Scopes
    BY DEF Scopes
  <1>8. Caches'
    BY <1>2 DEF IInv, Caches, caches
  <1>9. RowsAreCurrent'
    BY <1>2, <1>3, <1>6, <1>7 DEF IInv, RowsAreCurrent, caches
  <1>10. CacheIsCurrent'
    <2>1. ASSUME NEW t \in Tenants, settings'[t] # None, ~settings'[t].late, Settled("settings", {t})'
          PROVE  settings'[t].value = <<OwnModel(t)', thinking'[t]>>
      BY <1>2, <1>6, <2>1 DEF IInv, CacheIsCurrent, OwnModel, caches
    <2>2. ASSUME NEW k \in Keys, profiles'[k] # None, ~profiles'[k].late,
                 Settled("profiles", {k[1], Platform})'
          PROVE  profiles'[k].value = Resolved(k[2], rows'[k[1]], rows'[Platform])
      <3>1. s \notin {k[1], Platform} /\ k[1] \in Scopes
        BY <1>6, <1>7, <2>2 DEF Keys
      <3>2. rows'[k[1]] = rows[k[1]] /\ rows'[Platform] = rows[Platform]
        BY <1>3, <1>7, <3>1
      <3> QED
        BY <1>2, <1>6, <2>2, <3>2 DEF IInv, CacheIsCurrent, caches
    <2> QED
      BY <2>1, <2>2 DEF CacheIsCurrent
  <1>11. Resolutions'
    <2> SUFFICES ASSUME NEW c \in Callers PROVE Reads(caller[c])'
      BY <1>2 DEF IInv, Resolutions
    <2>1. Reads(caller[c]) /\ caller'[c] = caller[c]
      BY <1>2 DEF IInv, Resolutions
    <2>2. ReadSettings(caller[c])'
      BY <1>2, <1>6, <2>1 DEF Reads, ReadSettings, OwnModel
    <2>3. ReadRows(caller[c])'
      <3>1. ASSUME caller[c].own # None, ~caller[c].lateOwn, Settled("profiles", {caller[c].tenant})'
            PROVE  caller[c].own = rows'[caller[c].tenant]
        <4>1. Settled("profiles", {caller[c].tenant}) /\ s # caller[c].tenant
          <5>1. PICK t : t = caller[c].tenant /\ t = caller'[c].tenant
            BY <2>1
          <5>2. Settled("profiles", {t})'
            BY <3>1, <5>1
          <5> QED
            BY <1>6, <5>1, <5>2
        <4>2. caller[c].pc = "gather"
          BY <2>1, <3>1 DEF Reads, Unread
        <4>3. caller[c].tenant \in Scopes /\ caller[c].own = rows[caller[c].tenant]
          BY <1>7, <2>1, <3>1, <4>1, <4>2 DEF Reads, ReadRows
        <4> QED
          BY <1>3, <4>1, <4>3
      <3>2. ASSUME HasCommon(caller[c]), ~caller[c].lateCommon, Settled("profiles", {Platform})'
            PROVE  caller[c].common = rows'[Platform]
        BY <1>3, <1>6, <1>7, <2>1, <3>2 DEF Reads, ReadRows
      <3> QED
        BY <2>1, <3>1, <3>2 DEF Reads, ReadRows, HasCommon
    <2>4. Unread(caller[c])' <=> Unread(caller[c])
      BY <2>1 DEF Unread
    <2> QED
      BY <2>1, <2>2, <2>3, <2>4 DEF Reads
  <1> QED
    BY <1>5, <1>8, <1>9, <1>10, <1>11 DEF IInv

(* A setting of one tenant, or the model of the platform, is saved.         *)
LEMMA SettingSaved ==
    ASSUME IInv, NEW s \in Scopes,
           choice' \in [Scopes -> Unset(Models)], thinking' \in [Tenants -> BOOLEAN],
           \A t \in Tenants \ {s} : choice'[t] = choice[t] /\ thinking'[t] = thinking[t],
           (s = Platform /\ UNCHANGED owed) \/ owed' = owed \cup {<<"settings", s>>},
           UNCHANGED <<rows, caches, caller>>
    PROVE  IInv'
  <1>1. Tables' /\ Caches'
    <2>1. owed' \subseteq {"settings", "profiles"} \X Scopes
      BY DEF IInv, Tables
    <2>2. Tables'
      BY <2>1 DEF IInv, Tables
    <2>3. Caches'
      BY DEF IInv, Caches, caches
    <2> QED
      BY <2>2, <2>3
  <1>2. /\ \A ss : Settled("profiles", ss)' => Settled("profiles", ss)
        /\ \A t \in Tenants : Settled("settings", {t})' => Settled("settings", {t}) /\ t # s
    BY SettingsAssumption DEF Settled
  <1>3. \A t \in Tenants \ {s} : OwnModel(t)' = OwnModel(t) /\ thinking'[t] = thinking[t]
    BY DEF OwnModel
  <1>4. RowsAreCurrent'
    BY <1>2 DEF IInv, RowsAreCurrent, caches
  <1>5. CacheIsCurrent'
    <2>1. ASSUME NEW t \in Tenants, settings'[t] # None, ~settings'[t].late, Settled("settings", {t})'
          PROVE  settings'[t].value = <<OwnModel(t)', thinking'[t]>>
      BY <1>2, <1>3, <2>1 DEF IInv, CacheIsCurrent, caches
    <2>2. ASSUME NEW k \in Keys, profiles'[k] # None, ~profiles'[k].late,
                 Settled("profiles", {k[1], Platform})'
          PROVE  profiles'[k].value = Resolved(k[2], rows'[k[1]], rows'[Platform])
      BY <1>2, <2>2 DEF IInv, CacheIsCurrent, caches
    <2> QED
      BY <2>1, <2>2 DEF CacheIsCurrent
  <1>6. Resolutions'
    <2> SUFFICES ASSUME NEW c \in Callers PROVE Reads(caller[c])'
      BY DEF IInv, Resolutions
    <2>1. Reads(caller[c]) /\ caller'[c] = caller[c]
      BY DEF IInv, Resolutions
    <2>2. ReadSettings(caller[c])'
      <3>1. CASE caller[c].pc \in {"askThinking", "gotSettings"}
        BY <1>2, <1>3, <2>1, <3>1 DEF Reads, ReadSettings
      <3>2. CASE caller[c].pc \notin {"askThinking", "gotSettings"}
        BY <2>1, <3>2 DEF Reads, ReadSettings
      <3> QED
        BY <3>1, <3>2
    <2>3. ReadRows(caller[c])' /\ (Unread(caller[c])' <=> Unread(caller[c]))
      BY <1>2, <2>1 DEF Reads, ReadRows, Unread, HasCommon
    <2> QED
      BY <2>1, <2>2, <2>3 DEF Reads
  <1> QED
    BY <1>1, <1>4, <1>5, <1>6 DEF IInv

LEMMA SaveSettingStep ==
    ASSUME IInv,
           \/ \E t \in Tenants : SaveTenantModel(t) \/ SaveThinking(t)
           \/ SavePlatformModel
    PROVE  IInv'
  <1>1. /\ choice \in [Scopes -> Unset(Models)] /\ thinking \in [Tenants -> BOOLEAN]
        /\ Tenants \subseteq Scopes /\ Platform \in Scopes
    BY DEF IInv, Tables, Scopes
  <1>2. ASSUME NEW t \in Tenants, SaveTenantModel(t) PROVE IInv'
    <2>1. PICK m \in Models : choice' = [choice EXCEPT ![t] = m]
      BY <1>2 DEF SaveTenantModel
    <2>2. choice' \in [Scopes -> Unset(Models)] /\ \A u \in Tenants \ {t} : choice'[u] = choice[u]
      BY <1>1, <2>1 DEF Unset
    <2> QED
      BY <1>1, <1>2, <2>2, SettingSaved DEF SaveTenantModel
  <1>3. ASSUME NEW t \in Tenants, SaveThinking(t) PROVE IInv'
    <2>1. thinking' = [thinking EXCEPT ![t] = ~thinking[t]]
      BY <1>3 DEF SaveThinking
    <2>2. thinking' \in [Tenants -> BOOLEAN] /\ \A u \in Tenants \ {t} : thinking'[u] = thinking[u]
      BY <1>1, <2>1
    <2> QED
      BY <1>1, <1>3, <2>2, SettingSaved DEF SaveThinking
  <1>4. ASSUME SavePlatformModel PROVE IInv'
    <2>1. PICK m \in Unset(Models) : choice' = [choice EXCEPT ![Platform] = m]
      BY <1>4 DEF SavePlatformModel
    <2>2. choice' \in [Scopes -> Unset(Models)] /\ \A u \in Tenants \ {Platform} : choice'[u] = choice[u]
      BY <1>1, <2>1
    <2> QED
      BY <1>1, <1>4, <2>2, SettingSaved DEF SavePlatformModel
  <1> QED
    BY <1>2, <1>3, <1>4

-----------------------------------------------------------------------------
(* Invalidation: what had been read is marked.                              *)

LEMMA SettingsMarked ==
    ASSUME IInv, NEW t,
           caller' = [c \in Callers |-> [caller[c] EXCEPT !.late = caller[c].late \/ HasRead(caller[c], t)]],
           NEW c \in Callers
    PROVE  /\ caller'[c] \in Locals
           /\ caller'[c].pc = caller[c].pc /\ caller'[c].tenant = caller[c].tenant
           /\ caller'[c].model = caller[c].model /\ caller'[c].think = caller[c].think
           /\ caller'[c].fetch = caller[c].fetch /\ caller'[c].common = caller[c].common
           /\ caller'[c].lateCommon = caller[c].lateCommon
           /\ caller'[c].own = caller[c].own /\ caller'[c].lateOwn = caller[c].lateOwn
           /\ ~caller'[c].late => ~caller[c].late /\ ~HasRead(caller[c], t)
  <1> DEFINE mark == caller[c].late \/ HasRead(caller[c], t)
  <1>1. caller[c] \in Locals /\ mark \in BOOLEAN
    BY DEF IInv, Resolutions, Locals
  <1>2. caller'[c] = [caller[c] EXCEPT !.late = mark]
    OBVIOUS
  <1>3. ~mark => ~caller[c].late /\ ~HasRead(caller[c], t)
    BY Zenon
  <1> HIDE DEF mark
  <1> QED
    BY <1>1, <1>2, <1>3 DEF Locals

LEMMA RowsMarked ==
    ASSUME IInv, NEW s,
           caller' = [c \in Callers |->
                        [caller[c] EXCEPT
                            !.lateCommon = caller[c].lateCommon \/ (s = Platform /\ HasCommon(caller[c])),
                            !.lateOwn = caller[c].lateOwn \/ HasOwn(caller[c], s)]],
           NEW c \in Callers
    PROVE  /\ caller'[c] \in Locals
           /\ caller'[c].pc = caller[c].pc /\ caller'[c].tenant = caller[c].tenant
           /\ caller'[c].model = caller[c].model /\ caller'[c].think = caller[c].think
           /\ caller'[c].late = caller[c].late
           /\ caller'[c].fetch = caller[c].fetch /\ caller'[c].common = caller[c].common
           /\ caller'[c].own = caller[c].own
           /\ ~caller'[c].lateCommon => ~caller[c].lateCommon /\ ~(s = Platform /\ HasCommon(caller[c]))
           /\ ~caller'[c].lateOwn => ~caller[c].lateOwn /\ ~HasOwn(caller[c], s)
  <1> DEFINE mark == caller[c].lateCommon \/ (s = Platform /\ HasCommon(caller[c]))
             markOwn == caller[c].lateOwn \/ HasOwn(caller[c], s)
  <1>1. caller[c] \in Locals /\ mark \in BOOLEAN /\ markOwn \in BOOLEAN
    BY DEF IInv, Resolutions, Locals
  <1>2. caller'[c] = [caller[c] EXCEPT !.lateCommon = mark, !.lateOwn = markOwn]
    OBVIOUS
  <1>3. ~mark => ~caller[c].lateCommon /\ ~(s = Platform /\ HasCommon(caller[c]))
    BY Zenon
  <1>4. ~markOwn => ~caller[c].lateOwn /\ ~HasOwn(caller[c], s)
    BY Zenon
  <1> HIDE DEF mark, markOwn
  <1> QED
    BY <1>1, <1>2, <1>3, <1>4 DEF Locals

LEMMA InvalidateSettingsStep == ASSUME IInv, NEW t \in Tenants, InvalidateSettings(t) PROVE IInv'
  <1>1. /\ settings' = [settings EXCEPT ![t] = None]
        /\ caller' = [c \in Callers |-> [caller[c] EXCEPT !.late = caller[c].late \/ HasRead(caller[c], t)]]
        /\ owed' = owed \ {<<"settings", t>>}
        /\ UNCHANGED <<db, platformModel, profiles, platformRows>>
    BY DEF InvalidateSettings
  <1>2. /\ \A ss : Settled("profiles", ss)' => Settled("profiles", ss)
        /\ \A u : u # t /\ Settled("settings", {u})' => Settled("settings", {u})
    BY <1>1 DEF Settled
  <1>3. Tables' /\ Caches'
    BY <1>1 DEF IInv, Tables, Caches, db, Unset
  <1>4. RowsAreCurrent'
    BY <1>1, <1>2 DEF IInv, RowsAreCurrent, db
  <1>5. CacheIsCurrent'
    <2>1. ASSUME NEW u \in Tenants, settings'[u] # None, ~settings'[u].late, Settled("settings", {u})'
          PROVE  settings'[u].value = <<OwnModel(u)', thinking'[u]>>
      <3>1. u # t /\ settings'[u] = settings[u]
        BY <1>1, <2>1 DEF IInv, Caches
      <3> QED
        BY <1>1, <1>2, <2>1, <3>1 DEF IInv, CacheIsCurrent, db, OwnModel
    <2>2. ASSUME NEW k \in Keys, profiles'[k] # None, ~profiles'[k].late,
                 Settled("profiles", {k[1], Platform})'
          PROVE  profiles'[k].value = Resolved(k[2], rows'[k[1]], rows'[Platform])
      BY <1>1, <1>2, <2>2 DEF IInv, CacheIsCurrent, db
    <2> QED
      BY <2>1, <2>2 DEF CacheIsCurrent
  <1>6. Resolutions'
    <2>1. caller' \in [Callers -> Locals]
      BY <1>1, SettingsMarked
    <2> SUFFICES ASSUME NEW c \in Callers PROVE Reads(caller[c])'
      BY <2>1 DEF Resolutions
    <2>2. /\ Reads(caller[c])
          /\ caller'[c].pc = caller[c].pc /\ caller'[c].tenant = caller[c].tenant
          /\ caller'[c].model = caller[c].model /\ caller'[c].think = caller[c].think
          /\ caller'[c].fetch = caller[c].fetch /\ caller'[c].common = caller[c].common
          /\ caller'[c].lateCommon = caller[c].lateCommon
          /\ caller'[c].own = caller[c].own /\ caller'[c].lateOwn = caller[c].lateOwn
          /\ ~caller'[c].late => ~caller[c].late /\ ~HasRead(caller[c], t)
      BY <1>1, SettingsMarked DEF IInv, Resolutions
    <2>3. ReadSettings(caller[c])'
      BY <1>1, <1>2, <2>2 DEF Reads, ReadSettings, HasRead, db, OwnModel
    <2>4. ReadRows(caller[c])' /\ (Unread(caller[c])' <=> Unread(caller[c]))
      BY <1>1, <1>2, <2>2 DEF Reads, ReadRows, HasCommon, Unread, db
    <2> QED
      BY <2>1, <2>2, <2>3, <2>4 DEF Reads
  <1> QED
    BY <1>3, <1>4, <1>5, <1>6 DEF IInv

LEMMA InvalidateProfilesStep == ASSUME IInv, NEW s \in Scopes, InvalidateProfiles(s) PROVE IInv'
  <1>1. /\ profiles' = [k \in Keys |-> IF k \in Dropped(s) THEN None ELSE profiles[k]]
        /\ platformRows' = None
        /\ caller' = [c \in Callers |->
                        [caller[c] EXCEPT
                            !.lateCommon = caller[c].lateCommon \/ (s = Platform /\ HasCommon(caller[c])),
                            !.lateOwn = caller[c].lateOwn \/ HasOwn(caller[c], s)]]
        /\ owed' = owed \ {<<"profiles", s>>}
        /\ UNCHANGED <<db, settings, platformModel>>
    BY DEF InvalidateProfiles
  <1>2. /\ \A ss : Settled("settings", ss)' => Settled("settings", ss)
        /\ \A ss : s \notin ss /\ Settled("profiles", ss)' => Settled("profiles", ss)
    BY <1>1 DEF Settled
  <1>3. /\ DOMAIN profiles' = Keys
        /\ \A k \in Keys : profiles'[k] # None => s \notin {k[1], Platform} /\ profiles'[k] = profiles[k]
    BY <1>1 DEF Dropped
  <1>4. Tables' /\ Caches'
    BY <1>1, <1>3 DEF IInv, Tables, Caches, db, Unset
  <1>5. RowsAreCurrent'
    BY <1>1 DEF RowsAreCurrent
  <1>6. CacheIsCurrent'
    <2>1. ASSUME NEW u \in Tenants, settings'[u] # None, ~settings'[u].late, Settled("settings", {u})'
          PROVE  settings'[u].value = <<OwnModel(u)', thinking'[u]>>
      BY <1>1, <1>2, <2>1 DEF IInv, CacheIsCurrent, db, OwnModel
    <2>2. ASSUME NEW k \in Keys, profiles'[k] # None, ~profiles'[k].late,
                 Settled("profiles", {k[1], Platform})'
          PROVE  profiles'[k].value = Resolved(k[2], rows'[k[1]], rows'[Platform])
      <3>1. profiles'[k] = profiles[k] /\ Settled("profiles", {k[1], Platform})
        BY <1>2, <1>3, <2>2
      <3> QED
        BY <1>1, <2>2, <3>1 DEF IInv, CacheIsCurrent, db
    <2> QED
      BY <2>1, <2>2 DEF CacheIsCurrent
  <1>7. Resolutions'
    <2>1. caller' \in [Callers -> Locals]
      BY <1>1, RowsMarked
    <2> SUFFICES ASSUME NEW c \in Callers PROVE Reads(caller[c])'
      BY <2>1 DEF Resolutions
    <2>2. /\ Reads(caller[c])
          /\ caller'[c].pc = caller[c].pc /\ caller'[c].tenant = caller[c].tenant
          /\ caller'[c].model = caller[c].model /\ caller'[c].think = caller[c].think
          /\ caller'[c].late = caller[c].late
          /\ caller'[c].fetch = caller[c].fetch /\ caller'[c].common = caller[c].common
          /\ caller'[c].own = caller[c].own
          /\ ~caller'[c].lateCommon => ~caller[c].lateCommon /\ ~(s = Platform /\ HasCommon(caller[c]))
          /\ ~caller'[c].lateOwn => ~caller[c].lateOwn /\ ~HasOwn(caller[c], s)
      BY <1>1, RowsMarked DEF IInv, Resolutions
    <2>3. ReadSettings(caller[c])' /\ (Unread(caller[c])' <=> Unread(caller[c]))
      BY <1>1, <1>2, <2>2 DEF Reads, ReadSettings, Unread, db, OwnModel
    <2>4. ReadRows(caller[c])'
      <3>1. ASSUME HasCommon(caller[c])', ~caller'[c].lateCommon, Settled("profiles", {Platform})'
            PROVE  caller'[c].common = rows'[Platform]
        <4>1. HasCommon(caller[c]) /\ ~caller[c].lateCommon /\ s # Platform
          BY <2>2, <3>1 DEF HasCommon
        <4>2. Settled("profiles", {Platform})
          BY <1>2, <3>1, <4>1
        <4> QED
          BY <1>1, <2>2, <4>1, <4>2 DEF Reads, ReadRows, db
      <3>2. ASSUME caller'[c].own # None, ~caller'[c].lateOwn, Settled("profiles", {caller[c].tenant})'
            PROVE  caller'[c].own = rows'[caller[c].tenant]
        <4>1. caller[c].own # None /\ ~caller[c].lateOwn /\ s # caller[c].tenant
          BY <2>2, <3>2 DEF HasOwn
        <4>2. Settled("profiles", {caller[c].tenant})
          <5>1. PICK t : t = caller[c].tenant /\ t = caller'[c].tenant
            BY <2>2
          <5>2. Settled("profiles", {t})'
            BY <3>2, <5>1
          <5> QED
            BY <1>2, <4>1, <5>1, <5>2
        <4> QED
          BY <1>1, <2>2, <4>1, <4>2 DEF Reads, ReadRows, db
      <3> QED
        BY <2>2, <3>1, <3>2 DEF Reads, ReadRows, HasCommon
    <2> QED
      BY <2>1, <2>2, <2>3, <2>4 DEF Reads
  <1> QED
    BY <1>4, <1>5, <1>6, <1>7 DEF IInv

LEMMA ExpireStep == ASSUME IInv, Expire PROVE IInv'
  <1>1. /\ UNCHANGED <<db, caller, owed>>
        /\ \/ \E t \in Tenants : settings' = [settings EXCEPT ![t] = None]
                                /\ UNCHANGED <<platformModel, profiles, platformRows>>
           \/ \E k \in Keys : profiles' = [profiles EXCEPT ![k] = None]
                             /\ UNCHANGED <<settings, platformModel, platformRows>>
           \/ platformModel' = None /\ UNCHANGED <<settings, profiles, platformRows>>
           \/ platformRows' = None /\ UNCHANGED <<settings, platformModel, profiles>>
    BY DEF Expire
  <1>2. Caches'
    BY <1>1 DEF IInv, Caches, Unset
  <1>3. /\ \A t \in Tenants : settings'[t] \in {None, settings[t]}
        /\ \A k \in Keys : profiles'[k] \in {None, profiles[k]}
        /\ platformRows' \in {None, platformRows}
    BY <1>1 DEF IInv, Caches
  <1>4. RowsAreCurrent'
    BY <1>1, <1>3 DEF IInv, RowsAreCurrent, db, Settled
  <1>5. CacheIsCurrent'
    BY <1>1, <1>3 DEF IInv, CacheIsCurrent, db, Settled, OwnModel
  <1>6. Tables' /\ \A v : Reads(v) => Reads(v)'
    BY <1>1, TablesStay DEF IInv
  <1>7. Resolutions'
    BY <1>1, <1>6 DEF IInv, Resolutions, Reads, ReadSettings, ReadRows, Unread, HasCommon, db, Settled, OwnModel
  <1> QED
    BY <1>2, <1>4, <1>5, <1>6, <1>7 DEF IInv

-----------------------------------------------------------------------------
LEMMA StepInv == ASSUME IInv, [Next]_vars PROVE IInv'
  <1>1. ASSUME NEW c \in Callers, Resolving(c) PROVE IInv'
    BY <1>1, ReadPlatformModelStep, KeepPlatformModelStep, LookupStep, ReadTenantModelStep,
       ReadThinkingStep, KeepSettingsStep, LookupProfileStep, LookupPlatformRowsStep,
       ReadPlatformRowsStep, KeepPlatformRowsStep, ReadTenantRowsStep, BuildAndCacheStep DEF Resolving
  <1>2. CASE UNCHANGED vars
    <2>1. Tables' /\ Caches' /\ RowsAreCurrent'
      BY <1>2 DEF vars, IInv, Tables, Caches, RowsAreCurrent, db, caches, Settled
    <2>2. CacheIsCurrent'
      BY <1>2 DEF vars, IInv, CacheIsCurrent, db, caches, Settled, OwnModel
    <2>3. Resolutions'
      BY <1>2 DEF vars, IInv, Resolutions, Reads, ReadSettings, ReadRows, Unread, HasCommon, db, caches,
         Settled, OwnModel
    <2> QED
      BY <2>1, <2>2, <2>3 DEF IInv
  <1> QED
    BY <1>1, <1>2, AskStep, AskProfileStep, SaveProfileStep, InvalidateProfilesStep,
       SaveSettingStep, InvalidateSettingsStep, ExpireStep DEF Next

LEMMA Invariance == Spec => []IInv
  <1> QED
    BY InitInv, StepInv, PTL DEF Spec

(* A cached answer that is not marked is what the tables say: the browser's *)
(* save-then-invalidate and the check-then-read of concurrent resolutions   *)
(* leave nothing stale but what an invalidation overtook.                   *)
THEOREM CachesAreCurrent == Spec => []CacheIsCurrent
  <1>1. IInv => CacheIsCurrent
    BY DEF IInv
  <1> QED
    BY <1>1, Invariance, PTL

(* Type correctness, and a resolution looks a profile up for a model.       *)
THEOREM TypeCorrect == Spec => []TypeOK
  <1>1. IInv => TypeOK
    BY DEF IInv, Tables, Caches, Resolutions, Reads, ReadSettings, TypeOK, Unset, Flagged
  <1> QED
    BY <1>1, Invariance, PTL

-----------------------------------------------------------------------------
(* The best of the rows that fit.  A table holds finitely many rows, and    *)
(* rows compare by tier and then by length: one of them is above all.       *)
Above(m, r, o) ==
    \/ Tier(r, m) > Tier(o, m)
    \/ Tier(r, m) = Tier(o, m) /\ r.length >= o.length

LEMMA AboveOrders ==
    ASSUME NEW m, NEW T, \A r \in T : r.length \in Nat
    PROVE  /\ \A r, o \in T : Above(m, r, o) \/ Above(m, o, r)
           /\ \A r, o, q \in T : Above(m, r, o) /\ Above(m, o, q) => Above(m, r, q)
  <1>1. \A r : Tier(r, m) \in Nat
    BY DEF Tier
  <1> QED
    BY <1>1 DEF Above

LEMMA BestExists ==
    ASSUME NEW m, NEW S, IsFiniteSet(S), \A r \in S : r.length \in Nat, S # {}
    PROVE  \E r \in S : \A o \in S : Above(m, r, o)
  <1> DEFINE Best(T) == \E r \in T : \A o \in T : Above(m, r, o)
             R == StrictSubsetOrdering(S)
             Bad == {T \in SUBSET S : T # {} /\ ~Best(T)}
  <1>1. FiniteSubsetsOf(S) = SUBSET S /\ IsWellFoundedOn(R, FiniteSubsetsOf(S))
    BY FS_FiniteSubsetsOfFinite, FS_StrictSubsetOrderingWellFounded
  <1> SUFFICES ASSUME Bad # {} PROVE FALSE
    OBVIOUS
  <1>2. Bad \subseteq FiniteSubsetsOf(S)
    BY <1>1
  <1> HIDE DEF R, Bad
  <1>3. PICK T \in Bad : \A y \in Bad : ~(<<y, T>> \in R)
    BY <1>1, <1>2, WFMin
  <1>4. T \in SUBSET S /\ T # {} /\ ~Best(T)
    BY <1>3 DEF Bad
  <1>5. PICK x : x \in T
    BY <1>4
  <1> DEFINE U == T \ {x}
  <1>6. U \in SUBSET S /\ <<U, T>> \in R
    BY <1>4, <1>5 DEF R, StrictSubsetOrdering
  <1>7. U = {} \/ Best(U)
    BY <1>3, <1>6 DEF Bad
  <1>8. Above(m, x, x)
    BY <1>4, <1>5, AboveOrders
  <1>9. CASE U = {}
    BY <1>4, <1>5, <1>8, <1>9
  <1>10. CASE Best(U)
    <2>1. PICK r \in U : \A o \in U : Above(m, r, o)
      BY <1>10
    <2>2. CASE Above(m, r, x)
      BY <1>4, <1>5, <2>1, <2>2
    <2>3. CASE Above(m, x, r)
      <3>1. \A o \in U : Above(m, x, o)
        BY <1>4, <1>5, <2>1, <2>3, AboveOrders
      <3> QED
        BY <1>4, <1>5, <1>8, <3>1
    <2> QED
      BY <1>4, <1>5, <2>1, <2>2, <2>3, AboveOrders
  <1> QED
    BY <1>7, <1>9, <1>10

(* What a tier of rows gives a field comes from one that applies.           *)
From(m, f, x) ==
    \/ x \in {None, BuiltinFor[m][f]}
    \/ \E r \in AllRows : /\ Params(r.vals)[f] = x /\ m \in r.models
                          /\ r.wild => r.kind \in {None, InferKind[m]}

LEMMA BestMatchFits ==
    ASSUME NEW m, NEW s \in Scopes, NEW rs \in SUBSET Profiles[s], NEW f \in Fields
    PROVE  From(m, f, BestMatch(m, rs)[f])
  <1> DEFINE fit == {r \in rs : Applies(r, m)}
             best == CHOOSE r \in fit : \A o \in fit : Above(m, r, o)
  <1>1. CASE fit = {}
    BY <1>1 DEF BestMatch, Nothing, From
  <1>2. CASE fit # {}
    <2>1. IsFiniteSet(fit) /\ \A r \in fit : r.length \in Nat
      BY SettingsAssumption, FS_Subset
    <2>2. BestMatch(m, rs) = Params(best.vals)
      BY <1>2 DEF BestMatch, Above
    <2>3. \A r \in fit : r \in AllRows /\ Applies(r, m)
      BY DEF AllRows
    <2> HIDE DEF fit
    <2>4. best \in fit
      BY <1>2, <2>1, BestExists
    <2> QED
      BY <2>2, <2>3, <2>4 DEF From, Applies
  <1> QED
    BY <1>1, <1>2

LEMMA ResolvedFits ==
    ASSUME NEW m, NEW s \in Scopes, NEW own \in SUBSET Profiles[s],
           NEW common \in SUBSET Profiles[Platform], NEW f \in Fields
    PROVE  From(m, f, Resolved(m, own, common)[f])
  <1>1. From(m, f, BestMatch(m, own)[f]) /\ From(m, f, BestMatch(m, common)[f])
    BY BestMatchFits DEF Scopes
  <1>2. From(m, f, BuiltinFor[m][f])
    BY DEF From
  <1>3. Resolved(m, own, common)[f] \in {BestMatch(m, own)[f], BestMatch(m, common)[f], BuiltinFor[m][f]}
    BY DEF Resolved, Merge2
  <1> QED
    BY <1>1, <1>2, <1>3

(* A cached profile is only written by a resolution that built it.          *)
LEMMA ProfilesGo ==
    ASSUME IInv, [Next]_vars, NEW k \in Keys
    PROVE  \/ profiles'[k] \in {None, profiles[k]}
           \/ \E c \in Callers : BuildAndCache(c)
  <1>1. DOMAIN profiles = Keys
    BY DEF IInv, Caches
  <1>2. ASSUME NEW c \in Callers, Resolving(c), ~BuildAndCache(c) PROVE profiles'[k] = profiles[k]
    BY <1>2 DEF Resolving, ReadPlatformModel, KeepPlatformModel, Lookup, ReadTenantModel, ReadThinking,
       KeepSettings, LookupProfile, LookupPlatformRows, ReadPlatformRows, KeepPlatformRows, ReadTenantRows, caches
  <1>3. CASE \E c \in Callers : (\E t \in Tenants : Ask(c, t)) \/ \E t \in Tenants : \E m \in Named : AskProfile(c, t, m)
    BY <1>3 DEF Ask, AskProfile, caches
  <1>4. CASE \E s \in Scopes : SaveProfile(s)
    BY <1>4 DEF SaveProfile, caches
  <1>5. CASE \E s \in Scopes : InvalidateProfiles(s)
    BY <1>5 DEF InvalidateProfiles
  <1>6. CASE \/ \E t \in Tenants : SaveTenantModel(t) \/ SaveThinking(t) \/ InvalidateSettings(t)
             \/ SavePlatformModel \/ UNCHANGED vars
    BY <1>6 DEF SaveTenantModel, SaveThinking, InvalidateSettings, SavePlatformModel, caches, vars
  <1>7. CASE Expire
    BY <1>1, <1>7 DEF Expire
  <1> QED
    BY <1>2, <1>3, <1>4, <1>5, <1>6, <1>7 DEF Next

(* Every value of a cached profile was put there for a model of its kind:   *)
(* whichever rows were saved, deleted or unreadable while it was resolved.  *)
THEOREM KindsAreKeptApart == Spec => []KindsKeptApart
  <1>1. Init => KindsKeptApart
    BY DEF Init, KindsKeptApart
  <1>2. ASSUME IInv, KindsKeptApart, [Next]_vars PROVE KindsKeptApart'
    <2>1. ASSUME NEW k \in Keys, profiles'[k] # None, NEW f \in Fields
          PROVE  From(k[2], f, profiles'[k].value[f])
      <3>1. CASE profiles'[k] = profiles[k]
        BY <1>2, <2>1, <3>1 DEF KindsKeptApart, From
      <3>2. ASSUME NEW c \in Callers, BuildAndCache(c), profiles'[k] # profiles[k]
            PROVE  From(k[2], f, profiles'[k].value[f])
        <4> DEFINE u == caller[c]
        <4>1. /\ u.tenant \in Tenants /\ u.own \in SUBSET Profiles[u.tenant]
              /\ u.common \in SUBSET Profiles[Platform] /\ u.tenant \in Scopes
          BY <1>2, <3>2, Gathering DEF BuildAndCache, Fetching, HasCommon, ReadRows, Scopes
        <4>2. k = <<u.tenant, u.model>> /\ profiles'[k].value = Resolved(u.model, u.own, u.common)
          BY <1>2, <3>2 DEF BuildAndCache, IInv, Caches
        <4> QED
          BY <4>1, <4>2, ResolvedFits
      <3> QED
        BY <1>2, <2>1, <3>1, <3>2, ProfilesGo
    <2> QED
      BY <2>1 DEF KindsKeptApart, From
  <1> QED
    BY <1>1, <1>2, Invariance, PTL DEF Spec
=============================================================================
