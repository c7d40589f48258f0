----------------------------- MODULE LoginFlow ------------------------------
(***************************************************************************)
(* How oppi-shell comes by a login, up to the write that AuthStore models. *)
(*                                                                         *)
(* For Codex it makes a flow (a verifier and a state), listens at the one  *)
(* callback port of the machine, opens the browser and waits 300 s for the *)
(* callback with a code, which it exchanges with its verifier.  Browser    *)
(* tabs outlive the flow they were opened for, and whoever listens gets    *)
(* their callbacks.  For Copilot it polls the authority until the user has *)
(* entered a code, or the code is out of date.  What a login makes of the   *)
(* session is in ShellSettings.                                            *)
(*                                                                         *)
(* The command blocks its shell: any step that fails ends it.  How long    *)
(* the pauses between polls are is left out.                               *)
(***************************************************************************)
EXTENDS Naturals, Sequences

CONSTANTS
  Shells,    \* the shells on the machine
  NoShell,   \* nobody listens
  Domains,   \* GitHub's own domain and those of enterprises
  MaxFlows,  \* bound: Codex flows
  MaxStray   \* bound: connections to the port that are no callback

ASSUME LoginAssumption ==
  /\ NoShell \notin Shells
  /\ {MaxFlows, MaxStray} \subseteq Nat

VARIABLES
  listener,  \* the shell that has bound the callback port
  login,     \* where the login command of each shell is
  tabs,      \* the browser tab of each flow begun
  strays,    \* connections so far that were no callback
  stored,    \* credentials on file: the Codex flow, the Copilot domain
  offered    \* the authority's record of codes: <<flow of the code, of the verifier>>

loginVars == <<listener, login, tabs, strays, stored, offered>>

Flows == 1..MaxFlows
NoFlow == 0
NoDomain == "none"
Stray == 0

\* peer is the flow whose tab has connected; late: the deadline is over.
NoLogin == [at |-> "idle", flow |-> NoFlow, peer |-> Stray, late |-> FALSE, domain |-> NoDomain]

LoginPlaces ==
  {"idle", "binding", "opening", "waiting", "reading", "exchanging", "savingCodex",
   "starting", "sleeping", "polling", "fetching", "savingCopilot"}

LoginTypeOK ==
  /\ listener \in Shells \cup {NoShell}
  /\ login \in [Shells -> [at : LoginPlaces, flow : Flows \cup {NoFlow}, late : BOOLEAN,
                           peer : Flows \cup {Stray}, domain : Domains \cup {NoDomain}]]
  /\ tabs \in Seq({"closed", "open", "granted", "refused"}) /\ Len(tabs) <= MaxFlows
  /\ strays \in 0..MaxStray
  /\ stored \in [codex : Flows \cup {NoFlow}, copilot : Domains \cup {NoDomain}]
  /\ offered \in Seq(Flows \X Flows)

LoginInit ==
  /\ listener = NoShell
  /\ login = [s \in Shells |-> NoLogin]
  /\ tabs = <<>>
  /\ strays = 0
  /\ stored = [codex |-> NoFlow, copilot |-> NoDomain]
  /\ offered = <<>>

LoginGoes(s, place) == login' = [login EXCEPT ![s].at = place]

\* The command ends, and a listener of its own is closed with it.
CommandEnds(s) ==
  /\ login' = [login EXCEPT ![s] = NoLogin]
  /\ listener' = IF listener = s THEN NoShell ELSE listener

LoginFails(s) == CommandEnds(s) /\ UNCHANGED <<tabs, strays, stored>>

-----------------------------------------------------------------------------
(* Codex: the browser flow.                                                *)

\* A stored login is enough unless a new one is forced: then there is no flow.
BeginCodexFlow(s) ==
  /\ login[s].at = "idle"
  /\ Len(tabs) < MaxFlows
  /\ tabs' = Append(tabs, "closed")
  /\ login' = [login EXCEPT ![s] = [NoLogin EXCEPT !.at = "binding", !.flow = Len(tabs) + 1]]
  /\ UNCHANGED <<listener, strays, stored, offered>>

\* The port is bound before the browser opens.
BindListener(s) ==
  /\ login[s].at = "binding"
  /\ IF listener = NoShell
     THEN listener' = s /\ LoginGoes(s, "opening") /\ UNCHANGED <<tabs, strays, stored>>
     ELSE LoginFails(s)
  /\ UNCHANGED offered

\* When the browser does not start, the user may still paste the URL.
OpenBrowser(s) ==
  /\ login[s].at = "opening"
  /\ tabs' = [tabs EXCEPT ![login[s].flow] = "open"]
  /\ LoginGoes(s, "waiting")
  /\ UNCHANGED <<listener, strays, stored, offered>>

\* The authority sends the tab to the callback, with a code or with an error,
\* whether or not the flow is still waited for.
UserDecides(f) ==
  /\ tabs[f] = "open"
  /\ tabs' \in {[tabs EXCEPT ![f] = "granted"], [tabs EXCEPT ![f] = "refused"]}
  /\ UNCHANGED <<listener, login, strays, stored, offered>>

Waiting(s) == login[s].at = "waiting" /\ ~login[s].late

\* A tab calls back, for the first time or because it is loaded again.
TabConnects(s, f) ==
  /\ Waiting(s)
  /\ tabs[f] \in {"granted", "refused"}
  /\ login' = [login EXCEPT ![s].at = "reading", ![s].peer = f]
  /\ UNCHANGED <<listener, tabs, strays, stored, offered>>

\* Somebody else connects: a browser ahead of its request, or for its icon.
StrayConnects(s) ==
  /\ Waiting(s)
  /\ strays < MaxStray
  /\ strays' = strays + 1
  /\ login' = [login EXCEPT ![s].at = "reading", ![s].peer = Stray]
  /\ UNCHANGED <<listener, tabs, stored, offered>>

\* Mutant of ReadCallback: the state is not compared.
ReadAnyCallback(s) ==
  /\ login[s].at = "reading" /\ login[s].peer # Stray
  /\ IF tabs[login[s].peer] = "granted"
     THEN LoginGoes(s, "exchanging") /\ UNCHANGED <<listener, tabs, strays, stored>>
     ELSE LoginFails(s)
  /\ UNCHANGED offered

\* A callback without a code, or with the state of another flow, ends the login.
ReadCallback(s) ==
  /\ login[s].at = "reading" /\ login[s].peer # Stray
  /\ IF tabs[login[s].peer] = "granted" /\ login[s].peer = login[s].flow
     THEN LoginGoes(s, "exchanging") /\ UNCHANGED <<listener, tabs, strays, stored>>
     ELSE LoginFails(s)
  /\ UNCHANGED offered

\* Another route is not found; what is no GET request, or nothing at all before
\* the connection closes, ends the login.  Until then the read waits.
ReadStray(s) ==
  /\ login[s].at = "reading" /\ login[s].peer = Stray
  /\ \/ LoginGoes(s, "waiting") /\ UNCHANGED <<listener, tabs, strays, stored>>
     \/ LoginFails(s)
  /\ UNCHANGED offered

\* Mutant of GiveUp: accept blocks, and the deadline is seen when it returns.
GiveUpAfterRequest(s) ==
  /\ login[s].at = "waiting"
  /\ login[s].late
  /\ strays > 0
  /\ LoginFails(s)
  /\ UNCHANGED offered

GiveUp(s) ==
  /\ login[s].at = "waiting"
  /\ login[s].late
  /\ LoginFails(s)
  /\ UNCHANGED offered

\* The authority takes a code once, and with the verifier of its flow; a token
\* may lack what the shell wants of it.
ExchangeCode(s) ==
  /\ login[s].at = "exchanging"
  /\ LET offer == <<login[s].peer, login[s].flow>> IN
       /\ offered' = Append(offered, offer)
       /\ \/ /\ offer[1] = offer[2]
             /\ \A i \in DOMAIN offered : offered[i][1] # offer[1]
             /\ LoginGoes(s, "savingCodex")
             /\ UNCHANGED <<listener, tabs, strays, stored>>
          \/ LoginFails(s)

SaveCodex(s) ==
  /\ login[s].at = "savingCodex"
  /\ \/ /\ stored' = [stored EXCEPT !.codex = login[s].flow]
              /\ CommandEnds(s)
        /\ UNCHANGED <<tabs, strays>>
     \/ LoginFails(s)
  /\ UNCHANGED offered

-----------------------------------------------------------------------------
(* Copilot: the device flow.                                               *)

\* Here a stored login of whatever domain is enough.
BeginDeviceFlow(s, domain) ==
  /\ login[s].at = "idle"
  /\ login' = [login EXCEPT ![s] = [NoLogin EXCEPT !.at = "starting", !.domain = domain]]
  /\ UNCHANGED <<listener, tabs, strays, stored, offered>>

\* A request of the device flow is answered as hoped, or fails.
StepOrFail(s, from, to) ==
  /\ login[s].at = from
  /\ \/ LoginGoes(s, to) /\ UNCHANGED <<listener, tabs, strays, stored>>
     \/ LoginFails(s)
  /\ UNCHANGED offered

StartDeviceFlow(s) == StepOrFail(s, "starting", "sleeping")

SleepInterval(s) ==
  /\ login[s].at = "sleeping"
  /\ LoginGoes(s, "polling")
  /\ UNCHANGED <<listener, tabs, strays, stored, offered>>

\* Granted; or another error than the two that ask for patience.
PollAnswered(s) == StepOrFail(s, "polling", "fetching")

\* authorization_pending or slow_down: the loop goes on before the deadline.
PollAgain(s) ==
  /\ login[s].at = "polling"
  /\ IF login[s].late
     THEN LoginFails(s)
     ELSE LoginGoes(s, "sleeping") /\ UNCHANGED <<listener, tabs, strays, stored>>
  /\ UNCHANGED offered

FetchCopilotToken(s) == StepOrFail(s, "fetching", "savingCopilot")

SaveCopilot(s) ==
  /\ login[s].at = "savingCopilot"
  /\ \/ /\ stored' = [stored EXCEPT !.copilot = login[s].domain]
              /\ CommandEnds(s)
        /\ UNCHANGED <<tabs, strays>>
     \/ LoginFails(s)
  /\ UNCHANGED offered

-----------------------------------------------------------------------------
(* Time and death.                                                         *)

DeadlinePasses(s) ==
  /\ login[s].at \in {"waiting", "reading", "sleeping", "polling"}
  /\ ~login[s].late
  /\ login' = [login EXCEPT ![s].late = TRUE]
  /\ UNCHANGED <<listener, tabs, strays, stored, offered>>

\* The user closes a shell in the middle of a login and starts another one.
ShellDies(s) ==
  /\ login[s].at # "idle"
  /\ CommandEnds(s)
  /\ UNCHANGED <<tabs, strays, stored, offered>>

\* What the shell, its own tab and the authorities do by themselves.
LoginStep(s) ==
  \/ BindListener(s) \/ OpenBrowser(s) \/ ReadCallback(s) \/ GiveUp(s)
  \/ ExchangeCode(s) \/ SaveCodex(s)
  \/ StartDeviceFlow(s) \/ SleepInterval(s) \/ PollAnswered(s) \/ PollAgain(s)
  \/ FetchCopilotToken(s) \/ SaveCopilot(s)

LoginNext ==
  \/ \E s \in Shells :
       \/ BeginCodexFlow(s)
       \/ \E domain \in Domains : BeginDeviceFlow(s, domain)
       \/ \E f \in DOMAIN tabs : TabConnects(s, f)
       \/ StrayConnects(s) \/ ReadStray(s) \/ LoginStep(s)
       \/ DeadlinePasses(s) \/ ShellDies(s)
  \/ \E f \in DOMAIN tabs : UserDecides(f)

\* Time passes, and requests to the authorities are answered.
LoginFairness ==
  \A s \in Shells : WF_loginVars(LoginStep(s)) /\ WF_loginVars(DeadlinePasses(s))

LoginSpec == LoginInit /\ [][LoginNext]_loginVars /\ LoginFairness

-----------------------------------------------------------------------------
(* Properties.                                                             *)

\* No code is offered to the authority with the verifier of another flow, and
\* none twice, though tabs of flows that timed out, died or belong to another
\* shell call back whoever listens now, and again when they are loaded again.
CodesGoToTheirFlow ==
  /\ \A i \in DOMAIN offered : offered[i][1] = offered[i][2]
  /\ \A i, j \in DOMAIN offered : i # j => offered[i][1] # offered[j][1]

\* A login command ends, and its shell is the user's again, whatever the user
\* does in the browser: but not while somebody has connected to the port and
\* says nothing, for that read has no deadline.
LoginsEnd ==
  \A s \in Shells :
    []<>(login[s].at = "idle" \/ (login[s].at = "reading" /\ login[s].peer = Stray))
=============================================================================
