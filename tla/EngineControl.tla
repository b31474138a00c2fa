--------------------------- MODULE EngineControl ---------------------------
(***************************************************************************)
(* Which ASR and TTS engine a room gets (server/src/asr_manager.rs,        *)
(* tts_manager.rs, backends/mod.rs), while administrators change the       *)
(* selection (api/asr.rs, api/tts.rs, storage/asr.rs, storage/tts.rs), the *)
(* authority bus grants another one and the TTS sidecars come and go.      *)
(*                                                                         *)
(* A joining client (lib.rs, grpc.rs) reads the ASR selection, then the    *)
(* TTS selection, then probes the sidecar, then enters the hub: four steps *)
(* between which everything else may happen.  The engines are those of the *)
(* room's runtime, which the first joiner starts and keeps (room_hub.rs).  *)
(*                                                                         *)
(* Public and admin service may be one process or two, each with the       *)
(* registry of its own configuration.  The setting is a row that outlives  *)
(* them: what a start finds may name an engine that neither has (any more).*)
(***************************************************************************)
EXTENDS Naturals, FiniteSets

CONSTANTS
    Kinds,          \* {"asr", "tts"}; "tts" must be one of them
    BackendsOf,     \* [Kinds -> sets]: entries of the two registries
    DefaultOf,      \* [Kinds -> Backends]: default_backend_id
    PublicHas,      \* backends with an engine in the public service's registry
    AdminHas,       \* and in that of the process which validates changes
    OnBus,          \* backends that are available on the bus
    Sidecars,       \* IndexTTS and Qwen: available while they answer a probe
    VoicesOf,       \* voice catalogue of each TTS backend
    Clients, Editors,
    MaxEdits,       \* bound: changes of a selection
    None

Backends == UNION {BackendsOf[k] : k \in Kinds}

ASSUME EngineAssumption ==
    /\ {"asr", "tts"} = Kinds
    /\ DefaultOf \in [Kinds -> Backends]
    /\ PublicHas \cup AdminHas \cup OnBus \subseteq Backends
    /\ \A k \in Kinds : DefaultOf[k] \in BackendsOf[k] \cap PublicHas
    /\ Sidecars \subseteq BackendsOf["tts"] \ BackendsOf["asr"]
    /\ None \notin Backends
    /\ MaxEdits \in Nat

VARIABLES
    tenantMode,     \* AuthorityMode::Tenant: the bus decides
    system,         \* system settings, of the installation that decides
    tenant,         \* the tenant's row at the bus; None inherits the setting
    granted,        \* the engines in the authority snapshot of this instance
    check,          \* the tenant row an authority check has read
    up,             \* sidecars that answer
    edits,          \* handlers of administrators
    edited,         \* changes so far
    aliases,        \* current rows of tts_voice_aliases
    joins,          \* what each client's join has read
    runtime,        \* the room's engines, NoEngines when it has no runtime
    since,          \* history: what was selected, or answered, since a join began
    found           \* history: the rows that the start found
engineVars == <<tenantMode, system, tenant, granted, check, up, edits, edited,
                aliases, joins, runtime, since, found>>

Selections == {s \in [Kinds -> Backends \cup {None}] :
                  \A k \in Kinds : s[k] \in BackendsOf[k] \cup {None}}
NoEngines == [k \in Kinds |-> None]
EditOf(at, kind, backend, voice) ==
    [at |-> at, kind |-> kind, backend |-> backend, voice |-> voice]
NoEdit == EditOf("idle", "tts", None, None)
NoJoin == [at |-> "idle", engines |-> NoEngines]
NoHistory == [k \in Kinds \cup {"up"} |-> {}]

EngineInit ==
    /\ tenantMode \in BOOLEAN
    \* ensure_*_system_setting: the default, or whatever row there is already.
    /\ system \in {s \in Selections : \A k \in Kinds : s[k] # None}
    /\ tenant \in IF tenantMode THEN Selections ELSE {NoEngines}
    /\ found = [system |-> system, tenant |-> tenant]
    /\ granted = NoEngines
    /\ check = None
    /\ up \in SUBSET Sidecars
    /\ edits = [a \in Editors |-> NoEdit]
    /\ edited = 0
    /\ aliases = {}
    /\ joins = [c \in Clients |-> NoJoin]
    /\ runtime = NoEngines
    /\ since = [c \in Clients |-> NoHistory]

\* effective_selection
Effective(k) == IF tenantMode THEN granted[k] ELSE system[k]

-----------------------------------------------------------------------------
(* Changes of the selection: the providers are probed, then one UPDATE.    *)

\* Where changes are validated: in tenant mode that is the bus.
Validating == IF tenantMode THEN OnBus ELSE AdminHas

\* validate_backend; whether the bus's own sidecars answer is part of OnBus.
Available(b) == b \in Validating /\ (b \in Sidecars /\ ~tenantMode => b \in up)

Validate(a, k, b) ==
    /\ edits[a] = NoEdit /\ edited < MaxEdits
    /\ Available(b)
    /\ edited' = edited + 1
    /\ \E at \in {"system"} \cup (IF tenantMode THEN {"tenant"} ELSE {}) :
          edits' = [edits EXCEPT ![a] = EditOf(at, k, b, None)]
    /\ UNCHANGED <<tenantMode, system, tenant, granted, check, up, aliases, joins, runtime>>

\* update_{asr,tts}_system_setting, or the tenant's row.
StoreSelection(a) ==
    /\ edits[a].at \in {"system", "tenant"}
    /\ LET k == edits[a].kind
           b == edits[a].backend
       IN  IF edits[a].at = "system"
             THEN system' = [system EXCEPT ![k] = b] /\ UNCHANGED tenant
             ELSE tenant' = [tenant EXCEPT ![k] = b] /\ UNCHANGED system
    /\ edits' = [edits EXCEPT ![a] = NoEdit]
    /\ UNCHANGED <<tenantMode, granted, check, up, edited, aliases, joins, runtime>>

\* An empty choice inherits the setting; nothing is probed.
InheritSelection(k) ==
    /\ tenantMode /\ tenant[k] # None
    /\ tenant' = [tenant EXCEPT ![k] = None]
    /\ UNCHANGED <<tenantMode, system, granted, check, up, edits, edited, aliases,
                   joins, runtime>>

\* check_entitlement reads the tenant, then the settings, then answers.
CheckReads ==
    /\ tenantMode /\ check = None
    /\ check' = tenant
    /\ UNCHANGED <<tenantMode, system, tenant, granted, up, edits, edited, aliases,
                   joins, runtime>>

CheckAnswers ==
    /\ check # None
    /\ granted' = [k \in Kinds |-> IF check[k] # None THEN check[k] ELSE system[k]]
    /\ check' = None
    /\ UNCHANGED <<tenantMode, system, tenant, up, edits, edited, aliases, joins, runtime>>

\* A sidecar is started, stopped, or crashes (ManagerScript).
SidecarFlips(s) ==
    /\ up' = IF s \in up THEN up \ {s} ELSE up \cup {s}
    /\ UNCHANGED <<tenantMode, system, tenant, granted, check, edits, edited, aliases,
                   joins, runtime>>

\* update_voice_alias reads the effective engine and looks for the voice in its
\* catalogue; the row carries both.
FindVoice(a, v) ==
    /\ edits[a] = NoEdit /\ edited < MaxEdits
    /\ Effective("tts") # None /\ v \in VoicesOf[Effective("tts")]
    /\ edited' = edited + 1
    /\ edits' = [edits EXCEPT ![a] = EditOf("alias", "tts", Effective("tts"), v)]
    /\ UNCHANGED <<tenantMode, system, tenant, granted, check, up, aliases, joins, runtime>>

\* Upsert, or a soft deletion when the alias is empty.
StoreAlias(a) ==
    /\ edits[a].at = "alias"
    /\ LET row == <<edits[a].backend, edits[a].voice>>
       IN  aliases' \in {aliases \cup {row}, aliases \ {row}}
    /\ edits' = [edits EXCEPT ![a] = NoEdit]
    /\ UNCHANGED <<tenantMode, system, tenant, granted, check, up, edited, joins, runtime>>

-----------------------------------------------------------------------------
(* A client joins the room.                                                *)

StepJoin(c, at, engines) ==
    joins' = [joins EXCEPT ![c] = [at |-> at, engines |-> engines]]
Refuse(c) == StepJoin(c, "refused", NoEngines)

Join(c) ==
    /\ joins[c].at \in {"idle", "refused"}
    /\ StepJoin(c, "asr", NoEngines)
    /\ UNCHANGED <<tenantMode, system, tenant, granted, check, up, edits, edited,
                   aliases, runtime>>

\* Mutant: an engine this instance does not have is replaced by the default.
ChooseWithDefault(c, k) ==
    /\ joins[c].at = k
    /\ LET b == IF Effective(k) \in PublicHas THEN Effective(k) ELSE DefaultOf[k]
       IN  StepJoin(c, IF k = "asr" THEN "tts" ELSE IF b \in Sidecars THEN "probe" ELSE "enter",
                    [joins[c].engines EXCEPT ![k] = b])
    /\ UNCHANGED <<tenantMode, system, tenant, granted, check, up, edits, edited,
                   aliases, runtime>>

\* Both services_for_session up to the probe.  No selection yet, or one that is
\* not configured in this process, refuses the client.
ChooseEngine(c, k) ==
    /\ joins[c].at = k
    /\ LET b == Effective(k)
       IN  IF b \notin PublicHas
             THEN Refuse(c)
             ELSE StepJoin(c, IF k = "asr" THEN "tts"
                              ELSE IF b \in Sidecars THEN "probe" ELSE "enter",
                           [joins[c].engines EXCEPT ![k] = b])
    /\ UNCHANGED <<tenantMode, system, tenant, granted, check, up, edits, edited,
                   aliases, runtime>>

Probe(c) ==
    /\ joins[c].at = "probe"
    /\ IF joins[c].engines["tts"] \in up
         THEN StepJoin(c, "enter", joins[c].engines) ELSE Refuse(c)
    /\ UNCHANGED <<tenantMode, system, tenant, granted, check, up, edits, edited,
                   aliases, runtime>>

\* RoomHub::connect: whoever comes first brings the engines; the others are
\* told the engines of the room.
Enter(c) ==
    /\ joins[c].at = "enter"
    /\ LET engines == IF runtime = NoEngines THEN joins[c].engines ELSE runtime
       IN  runtime' = engines /\ StepJoin(c, "in", engines)
    /\ UNCHANGED <<tenantMode, system, tenant, granted, check, up, edits, edited, aliases>>

\* The last connection takes the runtime with it.
Depart(c) ==
    /\ joins[c].at = "in"
    /\ joins' = [joins EXCEPT ![c] = NoJoin]
    /\ runtime' = IF \E d \in Clients \ {c} : joins[d].at = "in" THEN runtime ELSE NoEngines
    /\ UNCHANGED <<tenantMode, system, tenant, granted, check, up, edits, edited, aliases>>

-----------------------------------------------------------------------------
\* History: what was selected, and which sidecars answered, since a client asked.
Remember ==
    /\ found' = found
    /\ since' = [c \in Clients |->
                   IF joins'[c].at \in {"idle", "refused", "in"} THEN NoHistory
                   ELSE [k \in Kinds \cup {"up"} |->
                           since[c][k] \cup IF k = "up" THEN up' ELSE {Effective(k)'}]]

EngineStep ==
    \/ \E a \in Editors :
          \/ \E k \in Kinds : \E b \in BackendsOf[k] : Validate(a, k, b)
          \/ \E v \in UNION {VoicesOf[b] : b \in BackendsOf["tts"]} : FindVoice(a, v)
          \/ StoreSelection(a) \/ StoreAlias(a)
    \/ \E k \in Kinds : InheritSelection(k)
    \/ CheckReads \/ CheckAnswers
    \/ \E s \in Sidecars : SidecarFlips(s)
    \/ \E c \in Clients :
          \/ Join(c) \/ Probe(c) \/ Enter(c) \/ Depart(c)
          \/ \E k \in Kinds : ChooseEngine(c, k)
EngineNext == EngineStep /\ Remember
EngineSpec == EngineInit /\ [][EngineNext]_engineVars

-----------------------------------------------------------------------------
EngineTypeOK ==
    /\ tenantMode \in BOOLEAN
    /\ system \in Selections /\ tenant \in Selections /\ granted \in Selections
    /\ check \in Selections \cup {None}
    /\ up \subseteq Sidecars
    /\ \A a \in Editors : edits[a].at \in {"idle", "system", "tenant", "alias"}
    /\ edited \in 0..MaxEdits
    /\ \A row \in aliases : row[1] \in Backends
    /\ \A c \in Clients :
          /\ joins[c].at \in {"idle", "asr", "tts", "probe", "enter", "in", "refused"}
          /\ joins[c].engines \in Selections
    /\ runtime \in Selections /\ found \in [system : Selections, tenant : Selections]

\* Whatever administrators, grants and sidecars do between the steps of a join:
\* the engines a client brings into a room are engines of the process it joins,
\* each was the selected one at some moment since the client asked, and a sidecar
\* answered at some moment since then (tts_manager.rs 210, asr_manager.rs 90).
SessionsGetSelectedEngines ==
    \A c \in Clients : joins[c].at = "enter" =>
        \A k \in Kinds :
            /\ joins[c].engines[k] \in PublicHas \cap since[c][k]
            /\ joins[c].engines[k] \in Sidecars => joins[c].engines[k] \in since[c]["up"]

\* All who are in a room are told one pair of engines, the one it runs, however
\* the selection changed between their joins; and an empty room runs none.
RoomsShareEngines ==
    /\ \A c \in Clients : joins[c].at = "in" =>
          joins[c].engines = runtime /\ runtime # NoEngines
    /\ runtime # NoEngines =>
          /\ \A k \in Kinds : runtime[k] \in PublicHas
          /\ \E c \in Clients : joins[c].at = "in"

\* A selection that nobody validated is one that the start found in a row: every
\* change, and every grant made of changes, names an engine of the process that
\* validated it.  The public service need not have it; then its clients are
\* refused until the selection changes, which no check prevents.
SelectionsWereValidated ==
    \A k \in Kinds :
        /\ system[k] \in Validating \cup {found.system[k]}
        /\ tenant[k] \in Validating \cup {found.tenant[k], None}
        /\ granted[k] \in Validating \cup {found.system[k], found.tenant[k], None}

\* An alias names a voice of the engine it is stored for, although the selected
\* engine may change between the lookup of the voice and the write.
AliasesNameVoices == \A row \in aliases : row[2] \in VoicesOf[row[1]]

\* Selections, the engines of the sessions and the aliases of voices agree.
EnginesAgree ==
    /\ SessionsGetSelectedEngines /\ RoomsShareEngines
    /\ SelectionsWereValidated /\ AliasesNameVoices
=============================================================================
