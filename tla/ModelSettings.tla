--------------------------- MODULE ModelSettings ---------------------------
(***************************************************************************)
(* How rag-service finds the model of a query and its sampling parameters.  *)
(* TenantModelResolver gives the model and the thinking mode of a tenant,   *)
(* ModelProfileResolver merges the tenant's and the platform's profiles for *)
(* that model.  Both keep their answers in the process for TTL seconds; the *)
(* browser saves a setting first and asks for the invalidation afterwards,  *)
(* while resolutions run in executor threads.                               *)
(***************************************************************************)
EXTENDS Naturals, Sequences, FiniteSets

CONSTANTS
    Tenants, Models, DefaultModel, None,
    Named,          \* models whose profile is asked for by name
    Marks,          \* the substrings of each model's name that the code looks for
    Families,       \* BUILTIN_PROFILES in their order, without the catch-all
    Fields,         \* fields of ModelSamplingParams
    Profiles,       \* rows of model_profiles the browser may save, per scope
    Callers,        \* queries that resolve at the same time
    MaxEdits, MaxMishaps    \* bounds: saved settings; failed queries and expiries

Platform == "platform"
Scopes == Tenants \cup {Platform}
AllRows == UNION {Profiles[s] : s \in Scopes}

ASSUME SettingsAssumption ==
    /\ Platform \notin Tenants /\ DefaultModel \in Models /\ Named \subseteq Models
    /\ \A s \in Scopes : IsFiniteSet(Profiles[s]) /\ \A r \in Profiles[s] :
        /\ DOMAIN r = {"wild", "length", "models", "kind", "vals"}
        /\ r.models \subseteq Models /\ r.length \in Nat /\ DOMAIN r.vals \subseteq Fields

VARIABLES
    rows,           \* model_profiles, per scope
    choice,         \* llm_model of the platform and of each tenant, None when unset
    thinking,       \* thinking_mode preference
    settings,       \* TenantModelResolver._cache
    platformModel,  \* TenantModelResolver._platform_cache
    profiles,       \* ModelProfileResolver._cache
    platformRows,   \* ModelProfileResolver._platform_cache
    caller,
    owed,           \* invalidations the browser has yet to ask for
    edits, mishaps

db == <<rows, choice, thinking>>
caches == <<settings, platformModel, profiles, platformRows>>
vars == <<db, caches, caller, owed, edits, mishaps>>

-----------------------------------------------------------------------------
(* Resolution of a profile *)

\* infer_kind: a name may hold several of the marks, the order decides.
InferKind == [m \in Models |->
    CASE "rerank" \in Marks[m] -> "rerank"
      [] "rerank" \notin Marks[m] /\ "embed" \in Marks[m] -> "embed"
      [] Marks[m] \cap {"rerank", "embed"} = {} /\ "vl" \in Marks[m] -> "vlm"
      [] OTHER -> "chat"]

Nothing == [f \in Fields |-> None]

\* _row_to_params: a column without a value is None.
Params(vals) == [f \in Fields |-> IF f \in DOMAIN vals THEN vals[f] ELSE None]

\* BUILTIN_PROFILES and _builtin_for: the first family named in the model's name.
BuiltinFor == [m \in Models |->
    LET fit == {i \in DOMAIN Families : Families[i].mark \in Marks[m]}
    IN  IF fit = {} THEN Nothing
        ELSE Params(Families[CHOOSE i \in fit : \A j \in fit : i <= j].vals)]

Tier(r, m) == IF ~r.wild THEN 3 ELSE IF r.kind = InferKind[m] THEN 2 ELSE 1

\* Mutant of Applies: the kind of a wildcard is ignored.
AppliesAnyKind(r, m) == m \in r.models

\* _match_pattern, and wildcards of another kind are passed over.
Applies(r, m) == m \in r.models /\ (r.wild => r.kind \in {None, InferKind[m]})

\* _best_match: exact, then kind-specific, then universal; the longest wins.
BestMatch(m, rs) ==
    LET fit == {r \in rs : Applies(r, m)}
        above(r, o) == \/ Tier(r, m) > Tier(o, m)
                       \/ Tier(r, m) = Tier(o, m) /\ r.length >= o.length
    IN  IF fit = {} THEN Nothing ELSE Params((CHOOSE r \in fit : \A o \in fit : above(r, o)).vals)

\* _merge: field by field, the first that is not None.
Merge2(p, q) == [f \in Fields |-> IF p[f] # None THEN p[f] ELSE q[f]]

\* _build_and_cache
Resolved(m, own, common) == Merge2(BestMatch(m, own), Merge2(BestMatch(m, common), BuiltinFor[m]))

-----------------------------------------------------------------------------
\* fetch: how far the platform's rows are - to be looked up in the cache, asked for,
\* read, or there; own: the tenant's rows, None until they are read.
NoCaller == [pc |-> "idle", tenant |-> None, forced |-> None, model |-> None, think |-> None,
             late |-> FALSE, fetch |-> "cache", common |-> None, lateCommon |-> FALSE,
             own |-> None, lateOwn |-> FALSE]
Unset(set) == set \cup {None}
ProfileSteps == {"profile", "gather"}
Flagged(S) == [value : S, late : BOOLEAN]
Keys == Tenants \X Models

\* The variables have their types, and a query that looks for a profile has a model.
TypeOK ==
    /\ \A s \in Scopes : rows[s] \subseteq Profiles[s]
    /\ choice \in [Scopes -> Unset(Models)] /\ thinking \in [Tenants -> BOOLEAN]
    /\ settings \in [Tenants -> Unset(Flagged(Models \X BOOLEAN))]
    /\ platformModel \in Unset(Flagged(Unset(Models)))
    /\ DOMAIN profiles = Keys
    /\ \A k \in Keys : profiles[k] # None => DOMAIN profiles[k].value = Fields
    /\ platformRows # None => platformRows.value \subseteq Profiles[Platform]
    /\ \A c \in Callers : caller[c].pc \in ProfileSteps => caller[c].model \in Models
    /\ owed \subseteq {"settings", "profiles"} \X Scopes

Init ==
    /\ rows = [s \in Scopes |-> {r \in Profiles[s] : r.wild /\ r.kind = None}]
    /\ choice = [s \in Scopes |-> None] /\ thinking = [t \in Tenants |-> FALSE]
    /\ settings = [t \in Tenants |-> None] /\ platformModel = None
    /\ profiles = [k \in Keys |-> None] /\ platformRows = None
    /\ caller = [c \in Callers |-> NoCaller]
    /\ owed = {} /\ edits = 0 /\ mishaps = 0

Mishap == mishaps < MaxMishaps /\ mishaps' = mishaps + 1
Step(c, v) == caller' = [caller EXCEPT ![c] = v]
Own(c) == caller[c].tenant

\* A query of the database, which answers or raises; a failure is logged and
\* the fallback is used, and cached, like an answer.
Fetched(v, fallback) ==
    {[value |-> v, failed |-> FALSE]}
        \cup (IF mishaps < MaxMishaps THEN {[value |-> fallback, failed |-> TRUE]} ELSE {})

Counted(answer) == mishaps' = IF answer.failed THEN mishaps + 1 ELSE mishaps

Took(c, answer, local) ==
    /\ Step(c, [local EXCEPT !.late = @ \/ answer.failed])
    /\ Counted(answer)

-----------------------------------------------------------------------------
(* TenantModelResolver.resolve *)

Ask(c, t) ==
    /\ caller[c].pc = "idle"
    /\ Step(c, IF platformModel # None
               THEN [NoCaller EXCEPT !.pc = "lookup", !.tenant = t, !.forced = platformModel.value]
               ELSE [NoCaller EXCEPT !.pc = "askPlatform", !.tenant = t])
    /\ UNCHANGED <<db, caches, owed, edits, mishaps>>

ReadPlatformModel(c) ==
    /\ caller[c].pc = "askPlatform"
    /\ \E a \in Fetched(choice[Platform], None) :
          Took(c, a, [caller[c] EXCEPT !.pc = "gotPlatform", !.forced = a.value])
    /\ UNCHANGED <<db, caches, owed, edits>>

KeepPlatformModel(c) ==
    /\ caller[c].pc = "gotPlatform"
    /\ platformModel' = [value |-> caller[c].forced, late |-> caller[c].late]
    /\ Step(c, [caller[c] EXCEPT !.pc = "lookup", !.late = FALSE])
    /\ UNCHANGED <<db, settings, profiles, platformRows, owed, edits, mishaps>>

\* Mutant of Effective: "Tenant Choice" is not told from a choice.
EffectiveForced(forced, own) == forced

\* The platform's model replaces the tenant's, in the answer and not in the cache.
Effective(forced, own) == IF forced # None THEN forced ELSE own

Lookup(c) ==
    /\ caller[c].pc = "lookup"
    /\ LET hit == settings[Own(c)] IN
       Step(c, IF hit = None THEN [caller[c] EXCEPT !.pc = "askModel"]
               ELSE [NoCaller EXCEPT !.pc = "profile", !.tenant = Own(c),
                                  !.model = Effective(caller[c].forced, hit.value[1])])
    /\ UNCHANGED <<db, caches, owed, edits, mishaps>>

OwnModel(t) == IF choice[t] # None THEN choice[t] ELSE DefaultModel

ReadTenantModel(c) ==
    /\ caller[c].pc = "askModel"
    /\ \E a \in Fetched(OwnModel(Own(c)), DefaultModel) :
          Took(c, a, [caller[c] EXCEPT !.pc = "askThinking", !.model = a.value])
    /\ UNCHANGED <<db, caches, owed, edits>>

ReadThinking(c) ==
    /\ caller[c].pc = "askThinking"
    /\ \E a \in Fetched(thinking[Own(c)], FALSE) :
          Took(c, a, [caller[c] EXCEPT !.pc = "gotSettings", !.think = a.value])
    /\ UNCHANGED <<db, caches, owed, edits>>

KeepSettings(c) ==
    /\ caller[c].pc = "gotSettings"
    /\ LET v == caller[c] IN
       /\ settings' = [settings EXCEPT ![v.tenant] = [value |-> <<v.model, v.think>>, late |-> v.late]]
       /\ Step(c, [NoCaller EXCEPT !.pc = "profile", !.tenant = v.tenant,
                                   !.model = Effective(v.forced, v.model)])
    /\ UNCHANGED <<db, platformModel, profiles, platformRows, owed, edits, mishaps>>

-----------------------------------------------------------------------------
(* ModelProfileResolver.resolve *)

\* GET /internal/model-profiles/resolve: the profile of a model that is named,
\* whichever is in use.
AskProfile(c, t, m) ==
    /\ caller[c].pc = "idle"
    /\ Step(c, [NoCaller EXCEPT !.pc = "profile", !.tenant = t, !.model = m])
    /\ UNCHANGED <<db, caches, owed, edits, mishaps>>

\* _cache_lookup; without a hit the tenant's rows are asked for in an executor
\* thread, and the platform's by a task of their own.
LookupProfile(c) ==
    /\ caller[c].pc = "profile"
    /\ Step(c, IF profiles[<<Own(c), caller[c].model>>] # None THEN NoCaller
               ELSE [caller[c] EXCEPT !.pc = "gather"])
    /\ UNCHANGED <<db, caches, owed, edits, mishaps>>

Fetching(c, step) == caller[c].pc = "gather" /\ caller[c].fetch = step

LookupPlatformRows(c) ==
    /\ Fetching(c, "cache")
    /\ Step(c, IF platformRows = None THEN [caller[c] EXCEPT !.fetch = "ask"]
               ELSE [caller[c] EXCEPT !.fetch = "have", !.common = platformRows.value,
                                      !.lateCommon = platformRows.late])
    /\ UNCHANGED <<db, caches, owed, edits, mishaps>>

ReadPlatformRows(c) ==
    /\ Fetching(c, "ask")
    /\ \E a \in Fetched(rows[Platform], {}) :
          /\ Step(c, [caller[c] EXCEPT !.fetch = "got", !.common = a.value, !.lateCommon = a.failed])
          /\ Counted(a)
    /\ UNCHANGED <<db, caches, owed, edits>>

KeepPlatformRows(c) ==
    /\ Fetching(c, "got")
    /\ platformRows' = [value |-> caller[c].common, late |-> caller[c].lateCommon]
    /\ Step(c, [caller[c] EXCEPT !.fetch = "have"])
    /\ UNCHANGED <<db, settings, platformModel, profiles, owed, edits, mishaps>>

ReadTenantRows(c) ==
    /\ caller[c].pc = "gather" /\ caller[c].own = None
    /\ \E a \in Fetched(rows[Own(c)], {}) :
          /\ Step(c, [caller[c] EXCEPT !.own = a.value, !.lateOwn = a.failed])
          /\ Counted(a)
    /\ UNCHANGED <<db, caches, owed, edits>>

\* asyncio.gather has both.
BuildAndCache(c) ==
    /\ Fetching(c, "have") /\ caller[c].own # None
    /\ LET v == caller[c] IN
       profiles' = [profiles EXCEPT ![<<v.tenant, v.model>>] =
                       [value |-> Resolved(v.model, v.own, v.common),
                        late  |-> v.lateCommon \/ v.lateOwn]]
    /\ Step(c, NoCaller)
    /\ UNCHANGED <<db, settings, platformModel, platformRows, owed, edits, mishaps>>

-----------------------------------------------------------------------------
(* The browser *)
Edit == edits < MaxEdits /\ edits' = edits + 1

SaveProfile(s) ==
    /\ Edit
    /\ \E r \in Profiles[s] : rows' = [rows EXCEPT ![s] = IF r \in @ THEN @ \ {r} ELSE @ \cup {r}]
    /\ owed' = owed \cup {<<"profiles", s>>}
    /\ UNCHANGED <<choice, thinking, caches, caller, mishaps>>

SaveTenantModel(t) ==
    /\ Edit
    /\ \E m \in Models : choice' = [choice EXCEPT ![t] = m]
    /\ owed' = owed \cup {<<"settings", t>>}
    /\ UNCHANGED <<rows, thinking, caches, caller, mishaps>>

SaveThinking(t) ==
    /\ Edit
    /\ thinking' = [thinking EXCEPT ![t] = ~@]
    /\ owed' = owed \cup {<<"settings", t>>}
    /\ UNCHANGED <<rows, choice, caches, caller, mishaps>>

\* The page then clears the answer caches, and no one this one: the platform's
\* choice of model is picked up when the entry expires.
SavePlatformModel ==
    /\ Edit
    /\ \E m \in Unset(Models) : choice' = [choice EXCEPT ![Platform] = m]
    /\ UNCHANGED <<rows, thinking, caches, caller, owed, mishaps>>

\* Resolutions that have read what an invalidation is about, before it.
HasRead(v, t) == v.tenant = t /\ v.pc \in {"askThinking", "gotSettings"}
HasCommon(v) == v.fetch \in {"got", "have"}
HasOwn(v, t) == v.tenant = t /\ v.own # None

InvalidateSettings(t) ==
    /\ <<"settings", t>> \in owed
    /\ settings' = [settings EXCEPT ![t] = None]
    /\ caller' = [c \in Callers |-> [caller[c] EXCEPT !.late = @ \/ HasRead(caller[c], t)]]
    /\ owed' = owed \ {<<"settings", t>>}
    /\ UNCHANGED <<db, platformModel, profiles, platformRows, edits, mishaps>>

\* Mutant of Dropped: the tenant whose id was given, and nothing without one.
DroppedOwnOnly(s) == {k \in Keys : k[1] = s}

\* invalidate(): the entries that go, without a tenant all of them.
Dropped(s) == {k \in Keys : s \in {k[1], Platform}}

InvalidateProfiles(s) ==
    /\ <<"profiles", s>> \in owed
    /\ profiles' = [k \in Keys |-> IF k \in Dropped(s) THEN None ELSE profiles[k]]
    /\ platformRows' = None
    /\ caller' = [c \in Callers |->
                    [caller[c] EXCEPT !.lateCommon = @ \/ (s = Platform /\ HasCommon(caller[c])),
                                      !.lateOwn = @ \/ HasOwn(caller[c], s)]]
    /\ owed' = owed \ {<<"profiles", s>>}
    /\ UNCHANGED <<db, settings, platformModel, edits, mishaps>>

\* TTL seconds have passed.
Expire ==
    /\ Mishap
    /\ \/ \E t \in Tenants : settings[t] # None /\ settings' = [settings EXCEPT ![t] = None]
                             /\ UNCHANGED <<platformModel, profiles, platformRows>>
       \/ \E k \in Keys : profiles[k] # None /\ profiles' = [profiles EXCEPT ![k] = None]
                          /\ UNCHANGED <<settings, platformModel, platformRows>>
       \/ platformModel # None /\ platformModel' = None /\ UNCHANGED <<settings, profiles, platformRows>>
       \/ platformRows # None /\ platformRows' = None /\ UNCHANGED <<settings, platformModel, profiles>>
    /\ UNCHANGED <<db, caller, owed, edits>>

Resolving(c) ==
    \/ ReadPlatformModel(c) \/ KeepPlatformModel(c) \/ Lookup(c)
    \/ ReadTenantModel(c) \/ ReadThinking(c) \/ KeepSettings(c)
    \/ LookupProfile(c) \/ LookupPlatformRows(c) \/ ReadPlatformRows(c) \/ KeepPlatformRows(c)
    \/ ReadTenantRows(c) \/ BuildAndCache(c)

Next ==
    \/ \E c \in Callers : Resolving(c) \/ \E t \in Tenants : Ask(c, t) \/ \E m \in Named : AskProfile(c, t, m)
    \/ \E s \in Scopes : SaveProfile(s) \/ InvalidateProfiles(s)
    \/ \E t \in Tenants : SaveTenantModel(t) \/ SaveThinking(t) \/ InvalidateSettings(t)
    \/ SavePlatformModel \/ Expire

Spec == Init /\ [][Next]_vars

-----------------------------------------------------------------------------
Settled(kind, ss) == \A s \in ss : <<kind, s>> \notin owed

\* Once the browser has asked for the invalidation, a cached answer is what the
\* tables say now, unless a resolution had read before the invalidation what it
\* was about, or a query had failed: those wait for the TTL.
CacheIsCurrent ==
    /\ \A t \in Tenants : settings[t] # None /\ ~settings[t].late /\ Settled("settings", {t}) =>
        settings[t].value = <<OwnModel(t), thinking[t]>>
    /\ \A k \in Keys :
        profiles[k] # None /\ ~profiles[k].late /\ Settled("profiles", {k[1], Platform}) =>
            profiles[k].value = Resolved(k[2], rows[k[1]], rows[Platform])

\* A model is never tuned by a wildcard profile of another kind ("`kind=chat`
\* wildcards never apply to VLM/embed/rerank models", model_profile_resolver.py:354):
\* every value of a cached answer comes from the built-in family, from a row that
\* names the model, or from a wildcard of its kind or of none.  The module's
\* docstring says the opposite, that the resolver does not filter by kind (21-23).
KindsKeptApart ==
    \A k \in Keys : profiles[k] # None =>
        \A f \in Fields :
            LET v == profiles[k].value[f] IN
            v \in {None, BuiltinFor[k[2]][f]}
              \/ \E r \in AllRows : /\ Params(r.vals)[f] = v /\ k[2] \in r.models
                                    /\ r.wild => r.kind \in {None, InferKind[k[2]]}
=============================================================================
