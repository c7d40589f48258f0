---------------------------- MODULE ShellSettings ----------------------------
(***************************************************************************)
(* What the commands of oppi-shell do to its provider, its models, its     *)
(* reasoning effort and its saved settings: the shell's own copy, the      *)
(* settings file, the model the runtime has selected, the stored logins    *)
(* and the bridge to Claude.                                               *)
(*                                                                         *)
(* A command that returns an error ends the shell, whatever interface it   *)
(* runs under; the settings file may become unreadable, and every save     *)
(* reads it first.  The models stand for the classes the code tells apart  *)
(* by their names; "minimal" effort behaves as "low" and is left out, no   *)
(* effort at all is "off", and the environment variables are not set.      *)
(***************************************************************************)
EXTENDS Integers, Sequences, FiniteSets, SequencesExt

CONSTANTS
  Roles,        \* roles with a model of their own
  Choosable,    \* bound: models the user names in a command
  MaxCommands,  \* bound: commands, over all starts
  MaxStarts     \* bound: times the shell is started

ASSUME SettingsAssumption ==
  /\ Roles \subseteq {"planner", "thinking", "reviewer", "orchestrator", "executor", "subagent"}
  /\ MaxCommands \in Nat
  /\ MaxStarts \in Nat

VARIABLES
  open,        \* whether the shell runs
  provider,    \* the ProviderConfig of the loop
  selected,    \* selected_model
  roleModels,  \* role_models
  plain,       \* permission_mode and prompt_variant
  scope,       \* scoped_model_ids
  picker,      \* pending_login_picker
  child,       \* whether meridian_child is set
  file,        \* the settings file
  chosen,      \* the model the runtime has selected
  logins,      \* the OAuth logins in the auth store
  bridge,      \* whether Meridian can be reached
  starts,      \* times the shell was started
  commands     \* commands so far

settingsVars == <<open, provider, selected, roleModels, plain, scope, picker, child,
                  file, chosen, logins, bridge, starts, commands>>

None == "none"

Levels == <<"off", "low", "medium", "high", "xhigh">>
Gpt == {"gpt-5.5", "gpt-5.3-codex", "gpt-5.1"}
Claude == {"claude-opus-4-6", "claude-sonnet-4-6"}
Models == Gpt \cup Claude \cup {"custom", "mock-scripted"}
Plain == {"permissionMode", "promptVariant"}
PlainValues == {"first", "second"}
Picker == {None, "root", "subscription", "api", "claude", "approval"}

Provider == [flavor : {"mock", "openai", "codex", "copilot"}, model : Models,
             effort : {Levels[i] : i \in 1..Len(Levels)},
             url : {"default", "bridge", "other"}, key : {None, "placeholder", "env"}]

SettingsFile == [readable : BOOLEAN, roleModels : [Roles -> Models \cup {None}],
                 plain : [Plain -> PlainValues],
                 effort : {None} \cup {Levels[i] : i \in 1..Len(Levels)},
                 scope : SUBSET Models]

SettingsTypeOK ==
  /\ open \in BOOLEAN
  /\ provider \in Provider
  /\ selected \in Models \cup {None}
  /\ roleModels \in [Roles -> Models \cup {None}]
  /\ plain \in [Plain -> PlainValues]
  /\ scope \subseteq Models
  /\ picker \in Picker
  /\ child \in BOOLEAN
  /\ file \in SettingsFile
  /\ chosen \in Models \cup {None}
  /\ logins \subseteq {"codex", "copilot"}
  /\ bridge \in BOOLEAN
  /\ starts \in 0..MaxStarts
  /\ commands \in 0..MaxCommands

-----------------------------------------------------------------------------
(* What the code reads off a provider and a model.                         *)

Mock == [flavor |-> "mock", model |-> "mock-scripted", effort |-> "off", url |-> "default",
         key |-> None]

\* provider_uses_meridian_placeholder
UsesBridge(p) == p.flavor # "mock" /\ p.key = "placeholder" /\ p.url = "bridge"

AnthropicLike(p) == UsesBridge(p) \/ p.model \in Claude

ReasoningCapable(p) == p.model \in Gpt \/ AnthropicLike(p)

SupportsXhigh(p) ==
  \/ p.model \in {"gpt-5.5", "gpt-5.3-codex", "claude-opus-4-6"}
  \/ UsesBridge(p) /\ p.model \in Claude

\* allowed_effort_levels_for_model
Allowed(p) ==
  IF ReasoningCapable(p)
  THEN SelectSeq(Levels, LAMBDA level : level = "xhigh" => SupportsXhigh(p))
  ELSE <<"off">>

Allows(p, level) == level \in ToSet(Allowed(p))

\* recommended_effort_level_for_provider
Recommended(p) ==
  IF ~ReasoningCapable(p) THEN "off"
  ELSE IF p.model = "gpt-5.5" THEN "xhigh"
  ELSE IF AnthropicLike(p) \/ SupportsXhigh(p) THEN "high"
  ELSE "medium"

\* default_reasoning_effort_for_config
DefaultEffort(p) ==
  LET level == IF p.model = "gpt-5.5" THEN "xhigh"
               ELSE IF AnthropicLike(p) THEN "high" ELSE Recommended(p)
  IN IF Allows(p, level) THEN level ELSE "off"

\* with_default_reasoning_effort
WithDefaultEffort(p) == IF p.effort = "off" THEN [p EXCEPT !.effort = DefaultEffort(p)] ELSE p

\* native_model_ids_for_provider: the catalog of the provider, and what
\* models.json adds to it (here: "custom" for the plain OpenAI API).
Catalog(p) ==
  CASE p.flavor = "mock" -> <<"mock-scripted">>
    [] p.flavor = "codex" -> <<"gpt-5.5", "gpt-5.3-codex", "gpt-5.1">>
    [] p.flavor = "copilot" -> <<"gpt-5.5", "gpt-5.3-codex", "gpt-5.1", "claude-opus-4-6">>
    [] UsesBridge(p) -> <<"claude-opus-4-6", "claude-sonnet-4-6">>
    [] p.flavor = "openai" /\ ~UsesBridge(p) ->
         (IF p.url = "default" THEN <<"gpt-5.5", "gpt-5.3-codex">> ELSE <<>>) \o <<"custom">>

SessionModel == IF selected # None THEN selected ELSE provider.model

\* main_model_ids_for_selection: what the session runs with comes first, then
\* the models in scope, or the catalog when none of them is in it.
ModelsOffered ==
  LET scoped == SelectSeq(Catalog(provider), LAMBDA model : model \in scope)
      listed == IF scoped = <<>> THEN Catalog(provider) ELSE scoped
  IN <<SessionModel>> \o SelectSeq(listed, LAMBDA model : model # SessionModel)

\* provider_auth_present, with the keys the environment lacks.
AuthPresent(p) ==
  \/ p.flavor = "codex" /\ "codex" \in logins
  \/ p.flavor = "copilot" /\ "copilot" \in logins
  \/ p.flavor = "openai" /\ UsesBridge(p)

\* provider_local_validation_ready
ReadyForSmoke == provider.flavor = "mock" \/ AuthPresent(provider)

-----------------------------------------------------------------------------
(* Starting and leaving the shell.                                         *)

NoFile == [readable |-> TRUE, roleModels |-> [role \in Roles |-> None],
           plain |-> [field \in Plain |-> "first"], effort |-> None, scope |-> {}]

\* What the loaders make of a file they cannot read.
FileSeen == IF file.readable THEN file ELSE NoFile

SettingsInit ==
  /\ open = FALSE
  /\ provider = Mock
  /\ selected = None
  /\ roleModels = NoFile.roleModels
  /\ plain = NoFile.plain
  /\ scope = {}
  /\ picker = None
  /\ child = FALSE
  /\ file = NoFile
  /\ chosen = None
  /\ logins \in SUBSET {"codex", "copilot"}
  /\ bridge \in BOOLEAN
  /\ starts = 0
  /\ commands = 0

Direct(flavor, model, url, key) ==
  [flavor |-> flavor, model |-> model, effort |-> "off", url |-> url, key |-> key]

\* default_authenticated_provider_config
AuthenticatedDefault ==
  CASE "codex" \in logins -> {Direct("codex", "gpt-5.5", "default", None)}
    [] "codex" \notin logins /\ "copilot" \in logins -> {Direct("copilot", "gpt-5.5", "other", None)}
    [] logins = {} /\ bridge -> {Direct("openai", "claude-opus-4-6", "bridge", "placeholder")}
    [] OTHER -> {}

\* parse_args: --mock, options that name a provider, or none.
StartProviders ==
  LET flagged == {[Direct(flavor, model, "default", None) EXCEPT !.effort = effort] :
                    flavor \in {"openai", "codex"}, model \in Choosable, effort \in {"off", "low"}}
  IN {Mock} \cup {WithDefaultEffort(p) : p \in AuthenticatedDefault \cup flagged}

\* run: a saved effort is only for a provider that has none yet.
WithSavedEffort(p) ==
  IF /\ p.flavor # "mock"
     /\ p.effort = "off"
     /\ FileSeen.effort # None
     /\ Allows(p, FileSeen.effort)
  THEN [p EXCEPT !.effort = FileSeen.effort] ELSE p

\* register_provider_model
RegisterProviderModel ==
  /\ selected' = provider'.model
  /\ chosen' = provider'.model

StartShell ==
  /\ ~open
  /\ starts < MaxStarts
  /\ \E p \in StartProviders : provider' = WithSavedEffort(p)
  /\ open' = TRUE
  /\ roleModels' = FileSeen.roleModels
  /\ plain' = FileSeen.plain
  /\ scope' = FileSeen.scope
  /\ picker' = None
  /\ child' = FALSE
  /\ RegisterProviderModel
  /\ starts' = starts + 1
  /\ UNCHANGED <<file, logins, bridge, commands>>

\* The shell is gone, and the runtime with it.  shutdown stops the bridge the
\* shell has started; an error ends the shell without it.
Gone ==
  /\ open' = FALSE
  /\ provider' = Mock
  /\ selected' = None
  /\ roleModels' = NoFile.roleModels
  /\ plain' = NoFile.plain
  /\ scope' = {}
  /\ picker' = None
  /\ child' = FALSE
  /\ chosen' = None
  /\ UNCHANGED <<file, logins>>

Leave ==
  /\ open
  /\ Gone
  /\ bridge' = (bridge /\ ~child)
  /\ UNCHANGED <<starts, commands>>

\* A failed step of a login, or any other error of a command.
Fail == Gone /\ UNCHANGED bridge

-----------------------------------------------------------------------------
(* Saved settings.  Every save reads the whole file and writes it back with  *)
(* one field changed.                                                      *)

Save(field, value) ==
  /\ file.readable
  /\ file' = [file EXCEPT ![field] = value]
  /\ UNCHANGED open

SaveFails == ~file.readable /\ Fail

\* Mutant of SetPlain: the mode is taken for the session and not saved.
SetPlainUnsaved(field, value) ==
  /\ plain' = [plain EXCEPT ![field] = value]
  /\ UNCHANGED <<open, file, provider, selected, roleModels, scope, picker, child, chosen, logins,
                 bridge>>

\* /permissions and /prompt-variant
SetPlain(field, value) ==
  /\ plain' = [plain EXCEPT ![field] = value]
  /\ Save("plain", [file.plain EXCEPT ![field] = value])
  /\ UNCHANGED <<provider, selected, roleModels, scope, picker, child, chosen, logins, bridge>>

\* /roles and the panel of role models; a model is also registered, which
\* nobody here tells from one that is not.
SetRoleModel(role, model) ==
  /\ roleModels' = [roleModels EXCEPT ![role] = model]
  /\ Save("roleModels", roleModels')
  /\ UNCHANGED <<provider, selected, plain, scope, picker, child, chosen, logins, bridge>>

\* /scoped-models enable: a model that is in scope is not saved again.
EnableModel(model) ==
  /\ scope' = scope \cup {model}
  /\ IF model \in scope THEN UNCHANGED <<open, file>> ELSE Save("scope", scope')
  /\ UNCHANGED <<provider, selected, roleModels, plain, picker, child, chosen, logins, bridge>>

\* /scoped-models disable and clear
NarrowScope(models) ==
  /\ scope' = scope \ models
  /\ Save("scope", scope')
  /\ UNCHANGED <<provider, selected, roleModels, plain, picker, child, chosen, logins, bridge>>

WithEffort(level) == IF provider.flavor = "mock" THEN provider ELSE [provider EXCEPT !.effort = level]

\* The effort slider: the level is one of those it was opened with.
SlideEffort(level) ==
  /\ provider' = WithEffort(level)
  /\ Save("effort", level)
  /\ UNCHANGED <<selected, roleModels, plain, scope, picker, child, chosen, logins, bridge>>

\* /effort and Shift+Tab
SetEffort(level) ==
  IF Allows(provider, level) THEN SlideEffort(level)
  ELSE UNCHANGED <<open, provider, selected, roleModels, plain, scope, picker, child, file, chosen,
                   logins, bridge>>

NextLevel ==
  LET places == {k \in 1..Len(Allowed(provider)) : Allowed(provider)[k] = provider.effort}
      i == IF places = {} THEN 1 ELSE CHOOSE k \in places : TRUE
  IN Allowed(provider)[(i % Len(Allowed(provider))) + 1]

\* cycle_reasoning_effort
CycleEffort == Len(Allowed(provider)) > 1 /\ SetEffort(NextLevel)

-----------------------------------------------------------------------------
(* Models and providers.                                                   *)

\* select_session_model: the effort stays what it was.
SelectModel(model) ==
  /\ chosen' = model
  /\ selected' = model
  /\ provider' = IF provider.flavor = "mock" THEN provider ELSE [provider EXCEPT !.model = model]
  /\ UNCHANGED <<open, roleModels, plain, scope, picker, child, file, logins, bridge>>

\* cycle_session_model: one on, or one back, from what comes first.
CycleModel ==
  LET offered == ModelsOffered IN
    \E next \in {offered[(1 % Len(offered)) + 1], offered[Len(offered)]} : SelectModel(next)

ChangeProvider(p) ==
  /\ provider' = p
  /\ RegisterProviderModel
  /\ UNCHANGED <<open, roleModels, plain, scope, child, file, bridge>>

\* /logout provider
Logout ==
  /\ ChangeProvider(Mock)
  /\ UNCHANGED <<picker, logins>>

\* /provider auth-env and base-url
SetProviderField(field, value) ==
  /\ provider' = IF provider.flavor = "mock" THEN provider ELSE [provider EXCEPT ![field] = value]
  /\ UNCHANGED <<open, selected, roleModels, plain, scope, picker, child, file, chosen, logins,
                 bridge>>

\* The model a login goes on with: what the session runs with, whoever offers
\* it, unless that is the scripted one.
LoginModel(default) == IF SessionModel = "mock-scripted" THEN default ELSE SessionModel

\* configure_openai_env_login: the scripted model is kept too.
LoginOpenai ==
  /\ ChangeProvider(WithDefaultEffort(Direct("openai", SessionModel, "default", "env")))
  /\ picker' = None
  /\ UNCHANGED logins

\* The browser flow of Codex, or the device flow of Copilot, when no login is
\* stored or a new one is forced; Copilot's login names its base URL.
LoginOAuth(flavor) ==
  \/ /\ logins' = logins \cup {flavor}
     /\ picker' = None
     /\ ChangeProvider(WithDefaultEffort(
          Direct(flavor, LoginModel("gpt-5.5"),
                 IF flavor = "copilot" THEN "other" ELSE "default", None)))
  \/ Fail

\* configure_meridian_login, whether Meridian runs or not.
UseBridge ==
  /\ ChangeProvider(WithDefaultEffort(
       Direct("openai", LoginModel("claude-opus-4-6"), "bridge", "placeholder")))
  /\ picker' = None
  /\ UNCHANGED logins

\* start_meridian_bridge, then use it.  The handle of a bridge that has become
\* unreachable is overwritten.
StartBridge ==
  \/ /\ bridge' = TRUE
     /\ child' = (child \/ ~bridge)
     /\ provider' = WithDefaultEffort(
          Direct("openai", LoginModel("claude-opus-4-6"), "bridge", "placeholder"))
     /\ RegisterProviderModel
     /\ picker' = None
     /\ UNCHANGED <<open, roleModels, plain, scope, file, logins>>
  \/ ~bridge /\ Fail

\* stop_meridian_bridge: only what this shell has started; /logout anthropic
\* leaves the picker open.
StopBridge ==
  /\ bridge' = (bridge /\ ~child)
  /\ child' = FALSE
  /\ picker' \in {None, picker}
  /\ UNCHANGED <<open, provider, selected, roleModels, plain, scope, file, chosen, logins>>

-----------------------------------------------------------------------------
(* The login picker takes the next prompt that is not a command.           *)

GoTo(target) ==
  /\ picker' = target
  /\ UNCHANGED <<open, provider, selected, roleModels, plain, scope, child, file, chosen, logins,
                 bridge>>

\* handle_login_command: what it shows, it leaves open.
OpenPicker == \E target \in Picker \ {None} : GoTo(target)

\* Where a choice leads that only shows something; q leads out of all of them.
PickerLeadsTo ==
  [root |-> {"subscription", "api", None}, subscription |-> {"claude", None}, api |-> {None},
   claude |-> {"approval", None}, approval |-> {"claude", None}]

\* handle_login_picker_input; a word it does not know changes nothing.
PickerInput ==
  /\ picker # None
  /\ \/ \E target \in PickerLeadsTo[picker] : GoTo(target)
     \/ picker = "subscription" /\ \E flavor \in {"codex", "copilot"} : LoginOAuth(flavor)
     \/ picker = "claude" /\ (StartBridge \/ UseBridge \/ StopBridge)
     \/ picker \in {"claude", "approval"} /\ Fail

-----------------------------------------------------------------------------

\* handle_login_command and handle_logout_command
LoginCommand ==
  \/ OpenPicker
  \/ \E flavor \in {"codex", "copilot"} : LoginOAuth(flavor)
  \/ LoginOpenai
  \/ UseBridge
  \/ StartBridge
  \/ StopBridge
  \/ Logout

\* handle_provider_command; a smoke test of a provider that is not ready is an
\* error.
ProviderCommand ==
  \/ SetProviderField("key", "env")
  \/ SetProviderField("url", "other")
  \/ ~ReadyForSmoke /\ Fail

ModelCommand ==
  \/ \E model \in Choosable : SelectModel(model)
  \/ \E role \in Roles, model \in Choosable \cup {None} : SetRoleModel(role, model)
  \/ \E model \in Choosable : EnableModel(model) \/ NarrowScope({model})
  \/ NarrowScope(scope)
  \/ CycleModel

EffortCommand ==
  \/ \E i \in 1..Len(Levels) : SetEffort(Levels[i])
  \/ SetEffort(Recommended(provider))
  \/ CycleEffort

PlainCommand == \E field \in Plain, value \in PlainValues : SetPlain(field, value)

SettingsCommand ==
  /\ open
  /\ commands < MaxCommands
  /\ commands' = commands + 1
  /\ UNCHANGED starts
  /\ \/ LoginCommand
     \/ ProviderCommand
     \/ ModelCommand
     \/ EffortCommand
     \/ PlainCommand
     \/ SaveFails
     \/ PickerInput

\* Somebody edits the file and breaks it.
FileBreaks ==
  /\ file.readable
  /\ file' = [NoFile EXCEPT !.readable = FALSE]
  /\ UNCHANGED <<open, provider, selected, roleModels, plain, scope, picker, child, chosen, logins,
                 bridge, starts, commands>>

\* Meridian, or what runs it, goes away.
BridgeDies ==
  /\ bridge
  /\ bridge' = FALSE
  /\ UNCHANGED <<open, provider, selected, roleModels, plain, scope, picker, child, file, chosen,
                 logins, starts, commands>>

SettingsNext ==
  \/ StartShell
  \/ Leave
  \/ SettingsCommand
  \/ FileBreaks
  \/ BridgeDies

SettingsSpec == SettingsInit /\ [][SettingsNext]_settingsVars

-----------------------------------------------------------------------------
(* Properties.                                                             *)

\* What a shell goes on with is on file, as long as the file can be read: no
\* save drops the field of another one, and none is forgotten.
SettingsAreOnFile ==
  open /\ file.readable =>
    /\ roleModels = file.roleModels
    /\ plain = file.plain
    /\ scope = file.scope
=============================================================================
