----------------------------- MODULE MCSandbox -----------------------------
(***************************************************************************)
(* The sandbox and the file tools for TLC: a workspace with a folder and a *)
(* repository, a directory outside it, and the policies and requests that  *)
(* differ in what decides.  Commands and file tools are checked side by    *)
(* side: the first state says which of the two moves.                      *)
(***************************************************************************)
EXTENDS SandboxRun, FileTools

W == <<"w">>
Folder == <<"w", "a">>
Outside == <<"o">>

MCHere == Outside
MCHome == <<"h">>
MCTemp == <<"t">>
MCPaths == {W, Folder, <<"w", ".git">>, <<"w", "a", ".git">>, <<"w", ".npmrc">>,
            Outside, <<"o", ".git">>, <<"o", "x">>, <<"h">>, <<"t">>}

Profile(mode, writable, rules) ==
  [mode |-> mode, readable |-> {W}, writable |-> writable, rules |-> rules,
   dirs |-> {}, files |-> {}]

RuleSets ==
  {{}, {Rule("cwd", <<>>, "write")}, {Rule("path", Folder, "none")},
   {Rule("workspace", <<>>, "readWrite"), Rule("path", Folder, "denyRead")},
   {Rule("temp", <<>>, "write"), Rule("home", <<>>, "read"),
    Rule("platformDefaults", <<>>, "read")}}

UserConfig ==
  [project |-> {W}, readable |-> {}, writable |-> {}, rules |-> {}, dirs |-> {"a"},
   files |-> {}, internet |-> FALSE, ssh |-> FALSE]

MCPolicies ==
  {DefaultPolicy(Profile(mode, writable, rules)) :
     mode \in Modes, writable \in {{}, {W}}, rules \in RuleSets}
    \cup {PolicyFromUserConfig(UserConfig)}

Request(cwd, writes, network, touched) ==
  [cwd |-> cwd, writes |-> writes, network |-> network, protected |-> FALSE,
   touched |-> touched, mentions |-> {}, approved |-> TRUE, managed |-> FALSE]

MCRequests ==
  {Request(cwd, writes, FALSE, touched) :
     cwd \in {W, Outside}, writes \in BOOLEAN,
     touched \in {{}, {Folder}, {<<".", "x">>}}}
    \cup {Request(W, TRUE, FALSE, {<<".", ".git">>}), Request(W, FALSE, TRUE, {}),
          [Request(W, FALSE, TRUE, {}) EXCEPT !.approved = FALSE],
          [Request(W, FALSE, FALSE, {}) EXCEPT !.managed = TRUE],
          [Request(W, TRUE, FALSE, {}) EXCEPT !.mentions = {".npmrc"}],
          [Request(W, FALSE, FALSE, {}) EXCEPT !.protected = TRUE]}

\* One instance sweeps the inputs, one runs background tasks beside the calls.
MCInputs ==
  {[policies |-> MCPolicies, requests |-> MCRequests, tasks |-> 0],
             [policies |-> {DefaultPolicy(Profile("autoReview", {W}, {}))},
              requests |-> {Request(W, TRUE, FALSE, {})}, tasks |-> 2]}

-----------------------------------------------------------------------------
(* The files of the tools, the policies of turns, and their calls.         *)

Text == <<"w", "x">>
Deep == <<"w", "a", "y">>
Secret == <<"w", "a", ".npmrc">>
Draft == <<"w", ".oppi", "d">>
MCFiles == {Text, Deep, Secret, Draft, <<"w", "output">>}
MCDisks == {{Text, Deep, Secret}}

MCTurnPolicies ==
  {NoPolicy} \cup
  {DefaultPolicy(Profile(mode, writable, {})) : mode \in Modes, writable \in {{}, {Folder}}}
    \cup {DefaultPolicy(Profile("default", {}, {rule})) :
            rule \in {Rule("path", Folder, "none"), Rule("path", Folder, "write")}}

Tool(kind, path) ==
  [kind |-> kind, path |-> path, policy |-> NoPolicy, ask |-> FALSE, secret |-> FALSE,
   registered |-> TRUE, valid |-> TRUE, overwrite |-> FALSE, env |-> "own"]

ToolPaths == {<<".">>, <<".", "a", "y">>, <<".", "x">>, <<".", "a", "..", "x">>, <<".", "..", "o">>}

MCToolCalls ==
  {Tool(kind, path) : kind \in Readers \cup Writers \cup {"render", "image"}, path \in ToolPaths \ {<<".">>}}
    \cup {Tool(kind, <<".">>) : kind \in {"list", "search"}}
    \cup {Tool("feedback", <<".", ".oppi", "d">>), Tool("render", NoPath),
          Tool("read", <<".", "a", ".npmrc">>)}
    \cup {[Tool(kind, <<".", "x">>) EXCEPT !.overwrite = TRUE] : kind \in {"render", "image"}}
    \cup {[Tool("read", <<".", "x">>) EXCEPT !.registered = FALSE],
          [Tool("write", <<".", "x">>) EXCEPT !.secret = TRUE],
          [Tool("search", <<".">>) EXCEPT !.ask = TRUE],
          [Tool("image", <<".", "x">>) EXCEPT !.env = "foreign"],
          [Tool("image", NoPath) EXCEPT !.env = "named"],
          [Tool("write", <<".", "x">>) EXCEPT
             !.policy = DefaultPolicy(Profile("default", {W}, {}))]}
    \cup {[Tool(kind, NoPath) EXCEPT !.valid = FALSE] : kind \in {"write", "render", "image", "feedback"}}
    \cup {Tool("shell", NoPath) @@ [request |-> Request(W, writes, FALSE, {})] : writes \in BOOLEAN}

-----------------------------------------------------------------------------
VARIABLE moves  \* the part that moves

sandboxVars == <<vars, fileVars, moves>>

AllInit ==
  /\ moves \in {"commands", "files"}
  /\ Init
  /\ FilesInit
  \* The part that stays has one state to stay in.
  /\ moves = "files" => inputs.tasks > 0 /\ available = "none"
  /\ moves = "commands" => turn_policy = NoPolicy /\ services = {}

CommandsMove == moves = "commands" /\ Next /\ UNCHANGED <<fileVars, moves>>
FilesMove == moves = "files" /\ FilesNext /\ UNCHANGED <<vars, moves>>

AllNext == CommandsMove \/ FilesMove

PartsSpec == AllInit /\ [][AllNext]_sandboxVars /\ (moves = "commands" => Fairness)
=============================================================================
