----------------------------- MODULE ShellKeys -----------------------------
(***************************************************************************)
(* The keys of oppi-shell's terminal interfaces: which layer of the screen *)
(* takes a key (an overlay, the question, the docks, the key bindings, the *)
(* palette of commands, the editor), and what it does there.               *)
(*                                                                         *)
(* The text of the editor is the class of it that the code tells apart;    *)
(* moving, deleting and recalling history reach any text.  Provider,       *)
(* models, scope and modes are one value, "config", which commands change  *)
(* (ShellSettings says how), and a turn is what the shell knows of it      *)
(* (ShellSession says why).  An error of any step closes the shell.        *)
(***************************************************************************)
EXTENDS Integers, Sequences, SequencesExt, FiniteSetsExt

CONSTANTS
  Configs,   \* values of provider, models, scope and modes
  MaxQueued  \* bound: prompts waiting in follow_up_queue

ASSUME KeysAssumption == Configs # {} /\ MaxQueued \in Nat

VARIABLES
  live,     \* whether the interface runs
  overlay,  \* NativeTuiState.overlay
  draft,    \* the text of the editor
  armed,    \* ctrl_c_armed
  palette,  \* slash_palette_suppressed and slash_keyboard_mode
  work,     \* active_turn_id, pending_approval and pending_question
  waiting,  \* length of follow_up_queue
  dock,     \* whether background_summary is shown
  ghost,    \* whether there is a suggestion
  config    \* what the commands have set

keysVars == <<live, overlay, draft, armed, palette, work, waiting, dock, ghost, config>>

RootPanels == {"general", "footer", "compaction", "theme", "permissions", "provider", "login",
               "memory", "roleModels", "scopedModels"}
LoginPanels == {"loginSubscription", "loginApi", "loginClaude"}
Panels == RootPanels \cup LoginPanels

\* What the items of a panel do: "run" a command that leaves the settings alone,
\* "set" something, "edit" (put the beginning of a command into the editor), and
\* "open" another panel.
ShortcutItems == {"run"}
CompactionItems == {"run", "edit"}
ChoiceItems == {"set"}
ProviderItems == {"run", "set", "edit"}
LoginItems == {"run", "set", "open"}
SubscriptionItems == {"set", "open"}
ApiItems == {"run", "set", "edit"}
ClaudeItems == {"run", "set"}
MemoryItems == {"run", "edit"}
ScopedItems == {"run", "set", "edit"}
RoleItems == {"set"}

PanelItems(panel) ==
  CASE panel \in {"general", "footer"} -> ShortcutItems
    [] panel = "compaction" -> CompactionItems
    [] panel \in {"theme", "permissions"} -> ChoiceItems
    [] panel = "provider" -> ProviderItems
    [] panel = "login" -> LoginItems
    [] panel = "loginSubscription" -> SubscriptionItems
    [] panel = "loginApi" -> ApiItems
    [] panel = "loginClaude" -> ClaudeItems
    [] panel = "memory" -> MemoryItems
    [] panel = "scopedModels" -> ScopedItems
    [] panel = "roleModels" -> RoleItems

Links(panel) == IF panel = "login" THEN {"loginSubscription", "loginApi"} ELSE {"loginClaude"}

\* The items of the settings themselves; "goal" is the one that puts a command
\* into the editor.
RootItems == RootPanels \cup {"models", "effort", "sessions", "goal"}

\* "/" is a command that is not complete, "/bare" one that is, "/cmd " one that
\* lacks its arguments.
Texts == {"", "prompt", "/", "/bare", "/cmd ", "/cmd arg"}

Keys == {"ctrlC", "ctrlD", "escape", "enter", "altEnter", "ctrlEnter", "altUp", "tab", "backTab",
         "move", "delete", "text", "a", "d", "l", "r", "k", "ctrlL", "ctrlP", "ctrlT"}

NoOverlay == [kind |-> "none", panels |-> <<>>, of |-> config]

KeysTypeOK ==
  /\ live \in BOOLEAN
  /\ overlay.kind \in {"none", "root", "panel", "sessions", "effort", "models"}
  /\ overlay.panels \in Seq(Panels)
  /\ overlay.of \in Configs
  /\ draft \in Texts
  /\ armed \in BOOLEAN
  /\ palette \in {"shown", "navigated", "suppressed"}
  /\ work \in {"idle", "running", "approval", "question"}
  /\ waiting \in 0..MaxQueued
  /\ dock \in BOOLEAN
  /\ ghost \in BOOLEAN
  /\ config \in Configs

KeysInit ==
  /\ live = TRUE
  /\ config \in Configs
  /\ overlay = NoOverlay
  /\ draft = ""
  /\ armed = FALSE
  /\ palette = "shown"
  /\ work = "idle"
  /\ waiting = 0
  /\ dock = FALSE
  /\ ghost = FALSE

-----------------------------------------------------------------------------
(* The layers, and the keys each of them takes.                            *)

PaletteShown == draft \in {"/", "/bare", "/cmd ", "/cmd arg"} /\ palette # "suppressed"

\* slash_palette_accept_from_palette: what is complete is left to the editor,
\* unless another item was moved to.
LeftToEditor == draft \in {"/bare", "/cmd arg"} /\ palette # "navigated"

Claims(layer, key) ==
  CASE layer = "exit" -> key = "ctrlC" /\ armed
    [] layer = "overlay" -> overlay.kind # "none"
    [] layer = "question" -> work = "question" /\ key \in {"enter", "move"}
    [] layer = "approval" -> work = "approval" /\ key \in {"a", "d", "ctrlC"}
    [] layer = "background" -> dock /\ key \in {"l", "r", "k", "ctrlL"}
    [] layer = "suggestion" -> ghost /\ key \in {"tab", "escape"}
    [] layer = "app" -> key \in {"ctrlL", "ctrlT", "ctrlP", "backTab"}
    [] layer = "palette" -> /\ PaletteShown
                            /\ \/ key \in {"move", "escape", "ctrlC"}
                               \/ key \in {"tab", "enter"} /\ ~LeftToEditor
    [] layer = "editor" -> TRUE

First(layers, key) == layers[Min({i \in DOMAIN layers : Claims(layers[i], key)})]

\* handle_tui_key: the first of the layers, in this order, that claims a key.
Taker(key) ==
  First(<<"exit", "overlay", "question", "approval", "background", "suggestion", "app",
          "palette", "editor">>, key)

-----------------------------------------------------------------------------
(* What the commands do.                                                   *)

Unheard == UNCHANGED <<live, work, waiting, ghost, config>>

Reconfigure == config' \in Configs /\ UNCHANGED <<live, work, waiting, ghost>>

\* An error of any call, a wrong use of a command, and /exit.
EndShell == live' = FALSE /\ UNCHANGED <<work, waiting, ghost, config>>

\* What the shell finds when it has waited for the turn it started or resumed.
AtBoundary == {"idle", "approval", "question"}

\* /approve, /answer, and prompts that are waited for, as /again and /review.
RunToBoundary ==
  /\ work # "running"
  /\ work' \in AtBoundary
  /\ UNCHANGED <<live, waiting, ghost, config>>

\* /deny and /interrupt
EndTurn == work' = "idle" /\ UNCHANGED <<live, waiting, ghost, config>>

HoldPrompt ==
  /\ work # "idle"
  /\ waiting < MaxQueued
  /\ waiting' = waiting + 1
  /\ UNCHANGED <<live, work, ghost, config>>

\* /new, /fork, /resume and the picker of sessions
SwitchThread ==
  /\ work' \in AtBoundary
  /\ waiting' = 0
  /\ UNCHANGED <<live, ghost, config>>

DropSuggestion == ghost' = FALSE /\ UNCHANGED <<live, work, waiting, config>>

\* handle_command; /answer, /approve and /deny without a pause and /steer
\* without a turn are errors.
AnyCommand ==
  \/ Reconfigure
  \/ EndShell
  \/ RunToBoundary
  \/ EndTurn
  \/ HoldPrompt
  \/ SwitchThread
  \/ DropSuggestion

-----------------------------------------------------------------------------
(* Overlays.                                                               *)

\* What is offered is fixed when an overlay opens.
Open(kind) == overlay' = [kind |-> kind, panels |-> <<>>, of |-> config']

OpenPanel(panel, back) ==
  overlay' = [kind |-> "panel", panels |-> Append(back, panel), of |-> config']

\* Mutant of ReturnFrom: the panel that was left is shown as it was.
ReturnToStale(back) ==
  IF back = <<>> THEN Open("root")
  ELSE overlay' = [kind |-> "panel", panels |-> back, of |-> overlay.of]

\* return_to_previous_settings_screen
ReturnFrom(back) ==
  IF back = <<>> THEN Open("root") ELSE OpenPanel(Last(back), Front(back))

CloseOverlay == overlay' = [kind |-> "none", panels |-> <<>>, of |-> config']

\* activate_settings_item: the list of sessions and that of the models have to be
\* read first.
ActivateRoot ==
  \E item \in RootItems :
    \/ /\ Unheard
       /\ CASE item \in RootPanels -> OpenPanel(item, <<>>) /\ UNCHANGED draft
            [] item = "goal" -> CloseOverlay /\ draft' = "/bare"
            [] OTHER -> Open(item) /\ UNCHANGED draft
    \/ item \in {"models", "sessions"} /\ EndShell /\ UNCHANGED <<overlay, draft>>

\* activate_settings_panel_item: whatever an item does, the screen before this
\* panel comes next, its items as they are then.
ActivatePanel ==
  LET panel == Last(overlay.panels)
      back == Front(overlay.panels)
  IN \E does \in PanelItems(panel) :
       \/ does = "run" /\ Unheard /\ ReturnFrom(back) /\ UNCHANGED draft
       \/ does = "set" /\ Reconfigure /\ ReturnFrom(back) /\ UNCHANGED draft
       \/ does \in {"run", "set"} /\ EndShell /\ UNCHANGED <<overlay, draft>>
       \/ does = "edit" /\ Unheard /\ ReturnFrom(back) /\ draft' = "/cmd "
       \/ /\ does = "open"
          /\ Unheard
          /\ \E link \in Links(panel) : OpenPanel(link, overlay.panels)
          /\ UNCHANGED draft

\* Enter on a session: the one that runs, or another one, of which the queue and
\* the turn are not those of this one.
ChooseSession ==
  /\ Unheard \/ SwitchThread \/ EndShell
  /\ CloseOverlay
  /\ UNCHANGED draft

\* Enter on a level of effort or on a model
ChooseSetting ==
  /\ Reconfigure \/ EndShell
  /\ CloseOverlay
  /\ UNCHANGED draft

Activate ==
  \/ overlay.kind = "root" /\ ActivateRoot
  \/ overlay.kind = "panel" /\ ActivatePanel
  \/ overlay.kind = "sessions" /\ ChooseSession
  \/ overlay.kind \in {"effort", "models"} /\ ChooseSetting

\* handle_tui_overlay_key; what filters or moves the selection changes nothing
\* here.
OverlayKey(key) ==
  /\ UNCHANGED <<palette, dock>>
  /\ CASE key = "enter" -> Activate /\ UNCHANGED armed
       [] key = "ctrlD" -> EndShell /\ UNCHANGED <<overlay, draft, armed>>
       [] key = "ctrlC" -> Unheard /\ CloseOverlay /\ armed' = TRUE /\ UNCHANGED draft
       [] key = "escape" \/ (overlay.kind = "panel" /\ key \in {"delete", "backTab"}) ->
            /\ Unheard
            /\ UNCHANGED <<draft, armed>>
            /\ IF overlay.kind = "panel" THEN ReturnFrom(Front(overlay.panels)) ELSE CloseOverlay
       [] OTHER -> Unheard /\ UNCHANGED <<overlay, draft, armed>>

-----------------------------------------------------------------------------
(* Questions, docks and bindings.                                          *)

\* handle_tui_question_key: a custom answer, the highlighted option, or, where
\* it asks for a custom one, nothing; a typed command goes the way of nothing.
QuestionKey(key) ==
  /\ UNCHANGED <<overlay, armed, palette, dock>>
  /\ \/ /\ key = "enter"
        /\ RunToBoundary \/ EndShell
        /\ draft' = IF draft = "prompt" THEN "" ELSE draft
     \/ /\ key = "move" \/ draft # "prompt"
        /\ Unheard
        /\ UNCHANGED draft

\* handle_tui_live_dock_key, in three layers; the letters are taken in the middle
\* of a prompt, too.
ApprovalKey(key) ==
  /\ CASE key = "a" -> RunToBoundary \/ EndShell
       [] key = "d" -> EndTurn \/ EndShell
       [] key = "ctrlC" -> Unheard
  /\ armed' = (armed \/ key = "ctrlC")
  /\ UNCHANGED <<overlay, draft, palette, dock>>

BackgroundKey(key) ==
  /\ \/ key \in {"r", "k"} /\ Unheard /\ draft' = "/cmd arg"
     \/ key \in {"l", "ctrlL"} /\ (Unheard \/ EndShell) /\ UNCHANGED draft
  /\ UNCHANGED <<overlay, armed, palette, dock>>

SuggestionKey(key) ==
  /\ DropSuggestion
  /\ draft' = IF key = "tab" THEN "prompt" ELSE draft
  /\ UNCHANGED <<overlay, armed, palette, dock>>

\* handle_tui_app_key
AppKey(key) ==
  /\ CASE key = "ctrlL" -> (Unheard /\ Open("models")) \/ (EndShell /\ UNCHANGED overlay)
       [] key = "ctrlT" -> (Unheard \/ EndShell) /\ UNCHANGED overlay
       [] key \in {"ctrlP", "backTab"} -> (Reconfigure \/ EndShell) /\ UNCHANGED overlay
  /\ UNCHANGED <<draft, armed, palette, dock>>

-----------------------------------------------------------------------------
(* The editor.                                                             *)

StartPrompt ==
  /\ work = "idle"
  /\ work' = "running"
  /\ UNCHANGED <<live, waiting, ghost, config>>

\* What the bare commands open.
Pickers ==
  /\ Unheard
  /\ \/ \E kind \in {"root", "sessions", "models", "effort"} : Open(kind)
     \/ \E panel \in {"theme", "permissions", "provider", "login", "memory"} :
          OpenPanel(panel, <<>>)

\* EditorAction::Submit: a command, a prompt for the login picker, or one that
\* starts a turn or waits for the one there is.
Submit(text) ==
  CASE text \in {"", "/"} -> Unheard /\ UNCHANGED overlay
    [] text = "prompt" -> (Reconfigure \/ StartPrompt \/ HoldPrompt \/ EndShell) /\ UNCHANGED overlay
    [] text = "/bare" -> Pickers \/ (AnyCommand /\ UNCHANGED overlay)
    [] text \in {"/cmd ", "/cmd arg"} -> AnyCommand /\ UNCHANGED overlay

\* EditorAction::SubmitFollowUp: a command is queued like any other text.
SubmitFollowUp(text) == IF text = "" THEN Unheard ELSE StartPrompt \/ HoldPrompt \/ EndShell

\* EditorAction::Steer: without a turn it is an error.
SteerTurn(text) ==
  \/ (text = "" \/ work # "idle") /\ Unheard
  \/ text # "" /\ EndShell

\* EditorAction::RestoreQueued
RestoreQueued ==
  IF waiting = 0 THEN Unheard /\ UNCHANGED draft
  ELSE /\ waiting' = waiting - 1
       /\ draft' = "prompt"
       /\ UNCHANGED <<live, work, ghost, config>>

\* Escape and Ctrl+C clear the editor, and interrupt when it is empty.
ClearOrInterrupt ==
  /\ draft' = ""
  /\ IF draft # "" THEN Unheard ELSE EndTurn \/ (work # "idle" /\ EndShell)

\* Ctrl+D clears the editor, and leaves when it is empty and no turn runs.
ClearOrLeave ==
  /\ draft' = ""
  /\ IF draft # "" \/ work = "running" THEN Unheard ELSE EndShell

\* LineEditor.handle and handle_tui_editor_action
EditorKey(key) ==
  /\ armed' = (key = "ctrlC")
  /\ palette' = IF key \in {"text", "a", "d", "l", "r", "k", "delete"} THEN "shown" ELSE palette
  /\ UNCHANGED dock
  /\ \/ key = "enter" /\ draft' = "" /\ Submit(draft)
     \/ /\ UNCHANGED overlay
        /\ CASE key = "altEnter" -> draft' = "" /\ SubmitFollowUp(draft)
             [] key = "ctrlEnter" -> draft' = "" /\ SteerTurn(draft)
             [] key = "altUp" -> RestoreQueued
             [] key \in {"escape", "ctrlC"} -> ClearOrInterrupt
             [] key = "ctrlD" -> ClearOrLeave
             [] key = "tab" -> Unheard /\ UNCHANGED draft
             [] key = "enter" -> FALSE
             [] OTHER -> draft' \in Texts /\ Unheard

\* What the palette offers: commands, those that need arguments with the blank
\* before them, then the arguments of a command, and the models, answers and
\* levels of this moment.
CommandItems == {"/bare", "/cmd "}
ArgumentItems == {"/cmd ", "/cmd arg"}
DynamicItems == {"/cmd arg"}

PaletteItems ==
  IF draft \in {"/", "/bare"} THEN CommandItems ELSE ArgumentItems \cup DynamicItems

CanSubmit(item) == item # "/cmd "

\* handle_tui_slash_palette_input: an item is taken over into the editor, or run
\* where it is complete.

PaletteKey(key) ==
  /\ CASE key = "move" ->
            palette' = "navigated" /\ Unheard /\ UNCHANGED <<overlay, draft, armed>>
       [] key \in {"escape", "ctrlC"} ->
            /\ palette' = "suppressed"
            /\ armed' = (armed \/ key = "ctrlC")
            /\ Unheard
            /\ UNCHANGED <<overlay, draft>>
       [] key \in {"tab", "enter"} ->
            /\ palette' = "shown"
            /\ \E item \in PaletteItems :
                 IF key = "enter" /\ CanSubmit(item)
                 THEN draft' = "" /\ armed' = FALSE /\ Submit(item)
                 ELSE draft' = item /\ Unheard /\ UNCHANGED <<overlay, armed>>
  /\ UNCHANGED dock

\* The second Ctrl+C: /exit, whatever runs.
ExitKey == draft' = "" /\ EndShell /\ UNCHANGED <<overlay, armed, palette, dock>>

Press(key) ==
  CASE Taker(key) = "exit" -> ExitKey
    [] Taker(key) = "overlay" -> OverlayKey(key)
    [] Taker(key) = "question" -> QuestionKey(key)
    [] Taker(key) = "approval" -> ApprovalKey(key)
    [] Taker(key) = "background" -> BackgroundKey(key)
    [] Taker(key) = "suggestion" -> SuggestionKey(key)
    [] Taker(key) = "app" -> AppKey(key)
    [] Taker(key) = "palette" -> PaletteKey(key)
    [] Taker(key) = "editor" -> EditorKey(key)

-----------------------------------------------------------------------------
(* The rest of the loop: events of the turn, the next queued prompt, and   *)
(* the docks.                                                              *)

PollTurn ==
  /\ \/ /\ work = "running"
        /\ work' \in AtBoundary
        /\ ghost' \in {ghost, TRUE}
        /\ UNCHANGED <<live, waiting, config>>
     \/ EndShell
  /\ UNCHANGED <<overlay, draft, armed, palette, dock>>

\* start_next_queued_or_goal_continuation
StartNext ==
  /\ work = "idle"
  /\ waiting' = IF waiting > 0 THEN waiting - 1 ELSE 0
  /\ work' = "running"
  /\ UNCHANGED <<live, overlay, draft, armed, palette, dock, ghost, config>>

\* sync_ui_docks
SyncDocks ==
  /\ dock' = ~dock
  /\ UNCHANGED <<live, overlay, draft, armed, palette, work, waiting, ghost, config>>

KeysNext ==
  /\ live
  /\ \/ \E key \in Keys : Press(key)
     \/ PollTurn
     \/ StartNext
     \/ SyncDocks

KeysSpec == KeysInit /\ [][KeysNext]_keysVars

-----------------------------------------------------------------------------
(* Properties.                                                             *)

\* overlay_view: the settings are drawn from the session, everything else from
\* what the overlay took when it opened.
Shown == IF overlay.kind = "root" THEN config ELSE overlay.of

\* What an open overlay offers (levels, models, what a panel shows as set) is
\* what there is to choose from now: no key, command or way back through the
\* panels leaves an overlay open over settings it does not show.
OverlayIsCurrent == live /\ overlay.kind # "none" => Shown = config
=============================================================================
