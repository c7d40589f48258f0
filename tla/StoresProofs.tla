--------------------------- MODULE StoresProofs ---------------------------
(***************************************************************************)
(* Theorems about the shared files and what fills them, for every value of *)
(* the constants, proved with TLAPS.                                       *)
(*                                                                         *)
(* AuthStore, for any number of processes, logins, refreshes and deaths.   *)
(* Everything rests on Locking: until a living process is robbed of the    *)
(* lock, who works under it owns it.  So what it has read is what the file *)
(* holds until it writes, which is all LoginsSurvive needs.  That no token *)
(* is used twice also needs to know who holds the newest token of a chain. *)
(*                                                                         *)
(* LoginFlow, for any number of shells, flows and strays.  The inductive   *)
(* invariant LoginInv says whose a flow is: one login has it, and until    *)
(* that login has offered a code, nobody has offered that flow's.          *)
(*                                                                         *)
(* EventLog, for any number of threads, events, deaths and failures.  What *)
(* the cursor has passed is on its file, or the file is one that no reader *)
(* takes; a batch is written up to its last event or has it still to write.*)
(* What a load finds in the files is a fold over them (Folding).           *)
(***************************************************************************)
EXTENDS AuthStore, LoginFlow, EventLog, FiniteSetTheorems, SequenceTheorems, TLAPS

-----------------------------------------------------------------------------
(* Part one: AuthStore                                                     *)

UnderLock == {"reading", "refreshing", "writing", "filling", "unlocking"}
Writing == {"writing", "filling"}

NotRobbed == "robbed" \notin mishaps

\* Only a credential that was used is offered, and it is not the last that the
\* bound allows.
TokensInBounds ==
  /\ \A c \in expired : c.n \in 1..MaxRefreshes
  /\ \A p \in Procs :
       proc[p].at = "refreshing" /\ proc[p].op = "refresh" => proc[p].data.codex \in expired

Locking ==
  NotRobbed => \A p \in Procs : proc[p].at \in UnderLock => lock.owner = p

ReadIsOnFile ==
  NotRobbed => \A p \in Procs :
    proc[p].at \in {"refreshing"} \cup Writing => proc[p].data = file

RefreshKeepsLogin ==
  \A p \in Procs : proc[p].at \in Writing =>
    /\ proc[p].op = "refresh" => proc[p].hand.codex.chain = proc[p].data.codex.chain
    /\ proc[p].op = "copilotRefresh" => proc[p].hand.copilot = proc[p].data.copilot

LastLoginOnFile ==
  NotRobbed => file.codex.chain = saved.codex /\ file.copilot = saved.copilot

SurvivalInv ==
  /\ AuthTypeOK
  /\ TokensInBounds
  /\ Locking
  /\ ReadIsOnFile
  /\ RefreshKeepsLogin
  /\ LastLoginOnFile

-----------------------------------------------------------------------------
(* Whose the newest token is.                                              *)

Newest(c) == c.n = newest[c.chain]

\* A process with a login of Codex that is not on file yet.
HasLogin(p) == proc[p].op = "codexLogin" /\ proc[p].at \notin {"idle", "unlocking"}

HasToken(p) == proc[p].op = "refresh" /\ proc[p].at \in Writing

\* A chain that a process has logged in to is nobody else's, and not on file.
LoginsAreTheirOwn ==
  /\ file.codex.chain <= logins.codex
  /\ \A p \in Procs : HasLogin(p) =>
       /\ proc[p].hand.codex.chain \in 1..logins.codex
       /\ proc[p].hand.codex.chain # file.codex.chain
       /\ Newest(proc[p].hand.codex)
       /\ \A q \in Procs \ {p} :
            HasLogin(q) => proc[q].hand.codex.chain # proc[p].hand.codex.chain

\* The newest token of the chain on file is there, or with who refreshes it.
NewestTokenIsKept ==
  /\ \A p \in Procs : HasToken(p) =>
       proc[p].hand.codex.chain \in Chains /\ Newest(proc[p].hand.codex)
  /\ file.codex # NoCredential /\ (\A p \in Procs : ~HasToken(p)) => Newest(file.codex)

TokenInv ==
  /\ SurvivalInv
  /\ mishaps = {} => LoginsAreTheirOwn /\ NewestTokenIsKept /\ ~reused

-----------------------------------------------------------------------------
(* Types.                                                                  *)

LEMMA BoundsAreNat ==
  /\ Attempts \in Nat \ {0}
  /\ MaxLogins \in Nat
  /\ MaxRefreshes \in Nat
  /\ MaxDeaths \in Nat
BY AuthAssumption

LEMMA EmptyIsData == NoCredential \in Credential /\ Empty \in Data
BY BoundsAreNat DEF NoCredential, Credential, Empty, Data

LEMMA IdleIsProc == IdleProc \in Proc
BY EmptyIsData, BoundsAreNat DEF IdleProc, Proc, Place, Op

LEMMA UnlockingIsProc == [IdleProc EXCEPT !.at = "unlocking"] \in Proc
BY IdleIsProc DEF Proc, Place

\* A process that only goes on, is over or gives up stays one.
LEMMA MovesKeepProc ==
  ASSUME AuthTypeOK, NEW p \in Procs
  PROVE  /\ \A place \in Place : Goes(p, place) => proc' \in [Procs -> Proc]
         /\ Over(p) => proc' \in [Procs -> Proc]
         /\ NextAttempt(p) => proc' \in [Procs -> Proc]
         /\ proc' = [proc EXCEPT ![p] = IdleProc] => proc' \in [Procs -> Proc]
         /\ proc' = [proc EXCEPT ![p].at = "reading", ![p].attempt = 0] =>
              proc' \in [Procs -> Proc]
<1> proc \in [Procs -> Proc]
  BY DEF AuthTypeOK
<1> USE BoundsAreNat
<1>1. ASSUME NEW place \in Place, Goes(p, place)
      PROVE  proc' \in [Procs -> Proc]
  BY <1>1 DEF Goes, Proc
<1>2. ASSUME Over(p)
      PROVE  proc' \in [Procs -> Proc]
  BY <1>2, UnlockingIsProc DEF Over
<1>3. ASSUME proc' = [proc EXCEPT ![p] = IdleProc]
      PROVE  proc' \in [Procs -> Proc]
  BY <1>3, IdleIsProc
<1>4. ASSUME NextAttempt(p)
      PROVE  proc' \in [Procs -> Proc]
  <2>1. CASE proc[p].attempt + 1 < Attempts
    <3>1. proc[p].attempt + 1 \in 0..(Attempts - 1)
      BY <2>1 DEF Proc
    <3>2. proc' = [proc EXCEPT ![p].at = "locking", ![p].attempt = proc[p].attempt + 1]
      BY <1>4, <2>1 DEF NextAttempt
    <3>3. QED BY <3>1, <3>2 DEF Proc, Place
  <2>2. CASE ~(proc[p].attempt + 1 < Attempts)
    BY <1>3, <1>4, <2>2 DEF NextAttempt
  <2>3. QED BY <2>1, <2>2
<1>5. ASSUME proc' = [proc EXCEPT ![p].at = "reading", ![p].attempt = 0]
      PROVE  proc' \in [Procs -> Proc]
  <2>1. 0 \in 0..(Attempts - 1)
    OBVIOUS
  <2>2. QED BY <1>5, <2>1 DEF Proc, Place
<1>6. QED BY <1>1, <1>2, <1>3, <1>4, <1>5

\* The record of a process that has a login to save.
LEMMA LoginIsProc ==
  ASSUME NEW c \in Chains
  PROVE  LET codex == [IdleProc EXCEPT !.at = "locking", !.op = "codexLogin",
                                       !.hand.codex = [chain |-> c, n |-> 1]]
             copilot == [IdleProc EXCEPT !.at = "locking", !.op = "copilotLogin",
                                         !.hand.copilot = c]
         IN  /\ codex \in Proc /\ copilot \in Proc
             /\ codex.at = "locking" /\ copilot.at = "locking"
             /\ codex.op = "codexLogin" /\ copilot.op = "copilotLogin"
             /\ codex.hand.codex = [chain |-> c, n |-> 1]
<1> DEFINE codexHand == [Empty EXCEPT !.codex = [chain |-> c, n |-> 1]]
           copilotHand == [Empty EXCEPT !.copilot = c]
           codex == [IdleProc EXCEPT !.at = "locking", !.op = "codexLogin", !.hand = codexHand]
           copilot == [IdleProc EXCEPT !.at = "locking", !.op = "copilotLogin",
                                       !.hand = copilotHand]
<1>1. [chain |-> c, n |-> 1] \in Credential /\ c \in 0..MaxLogins
  BY BoundsAreNat DEF Credential, Chains
<1>2. codexHand \in Data /\ copilotHand \in Data
  BY <1>1, EmptyIsData DEF Data
<1>3. codexHand.codex = [chain |-> c, n |-> 1]
  BY DEF Empty
<1> HIDE DEF codexHand, copilotHand
<1>4. codex \in Proc /\ copilot \in Proc
  BY <1>2, IdleIsProc DEF Proc, Place, Op
<1>5. /\ codex.at = "locking" /\ codex.op = "codexLogin" /\ codex.hand = codexHand
      /\ copilot.at = "locking" /\ copilot.op = "copilotLogin"
  BY DEF IdleProc
<1>6. IdleProc.hand = Empty
  BY DEF IdleProc
<1> HIDE DEF codex, copilot
<1>7. /\ [IdleProc EXCEPT !.at = "locking", !.op = "codexLogin",
                          !.hand.codex = [chain |-> c, n |-> 1]] = codex
      /\ [IdleProc EXCEPT !.at = "locking", !.op = "copilotLogin", !.hand.copilot = c] = copilot
  BY <1>6 DEF codex, copilot, codexHand, copilotHand
<1>8. QED BY <1>3, <1>4, <1>5, <1>7

\* The actions that change nothing but the process, the lock and the mishaps.
LEMMA LockStepsKeepTypes ==
  ASSUME AuthTypeOK, NEW p \in Procs,
         \/ TakeLock(p) \/ FindLockTaken(p) \/ CheckLock(p) \/ RemoveLock(p) \/ Unlock(p)
         \/ Die(p) \/ TruncateFile(p) \/ DiskFails(p)
  PROVE  AuthTypeOK'
<1> USE BoundsAreNat
<1>1. /\ lock \in [owner : Procs \cup {Free, Dead}, old : BOOLEAN]
      /\ mishaps \subseteq {"robbed", "died", "lost", "unsaved"}
      /\ deaths \in 0..MaxDeaths
  BY DEF AuthTypeOK
<1>2. proc' \in [Procs -> Proc]
  BY MovesKeepProc DEF TakeLock, FindLockTaken, CheckLock, RemoveLock, Unlock, Die, TruncateFile,
                       DiskFails, Place
<1>3. lock' \in [owner : Procs \cup {Free, Dead}, old : BOOLEAN]
  <2>1. [lock EXCEPT !.owner = Dead] \in [owner : Procs \cup {Free, Dead}, old : BOOLEAN]
    BY <1>1
  <2>2. NoLock \in [owner : Procs \cup {Free, Dead}, old : BOOLEAN]
    BY DEF NoLock
  <2>3. [owner |-> p, old |-> FALSE] \in [owner : Procs \cup {Free, Dead}, old : BOOLEAN]
    OBVIOUS
  <2>4. QED BY <1>1, <2>1, <2>2, <2>3
            DEF TakeLock, FindLockTaken, CheckLock, RemoveLock, Unlock, Die, TruncateFile,
                DiskFails
<1>4. mishaps' \subseteq {"robbed", "died", "lost", "unsaved"} /\ deaths' \in 0..MaxDeaths
  <2>1. Robbed(p) \subseteq {"robbed"}
    BY DEF Robbed
  <2>2. QED BY <1>1, <2>1
            DEF TakeLock, FindLockTaken, CheckLock, RemoveLock, Unlock, Die, TruncateFile,
                DiskFails
<1>5. whole' \in BOOLEAN
  BY DEF AuthTypeOK, TakeLock, FindLockTaken, CheckLock, RemoveLock, Unlock, Die, TruncateFile,
         DiskFails
<1>6. UNCHANGED <<file, service>>
  BY DEF TakeLock, FindLockTaken, CheckLock, RemoveLock, Unlock, Die, TruncateFile, DiskFails
<1>7. QED BY <1>2, <1>3, <1>4, <1>5, <1>6 DEF AuthTypeOK, service

LEMMA RequestsKeepTypes ==
  ASSUME AuthTypeOK, NEW p \in Procs,
         UseCodex(p) \/ UseCopilot(p) \/ LoginCodex(p) \/ LoginCopilot(p)
  PROVE  AuthTypeOK'
<1> USE BoundsAreNat
<1>1. /\ proc \in [Procs -> Proc]
      /\ logins \in [codex : 0..MaxLogins, copilot : 0..MaxLogins]
      /\ newest \in [Chains -> 0..(MaxRefreshes + 1)]
      /\ file \in Data
  BY DEF AuthTypeOK
<1>2. CASE UseCodex(p)
  <2>1. [IdleProc EXCEPT !.at = "locking", !.data = file] \in Proc
    BY <1>1, IdleIsProc DEF Proc, Place
  <2>2. proc' \in [Procs -> Proc]
    BY <1>1, <1>2, <2>1 DEF UseCodex
  <2>3. QED BY <1>2, <2>2 DEF UseCodex, AuthTypeOK, service
<1>3. CASE UseCopilot(p)
  <2>1. [IdleProc EXCEPT !.at = "locking", !.op = "copilotRefresh"] \in Proc
    BY IdleIsProc DEF Proc, Place, Op
  <2>2. proc' \in [Procs -> Proc]
    BY <1>1, <1>3, <2>1 DEF UseCopilot
  <2>3. QED BY <1>3, <2>2 DEF UseCopilot, AuthTypeOK, service
<1>4. CASE LoginCodex(p)
  <2>1. logins.codex + 1 \in Chains
    BY <1>1, <1>4 DEF LoginCodex, Chains
  <2>2. proc' \in [Procs -> Proc]
    BY <1>1, <1>4, <2>1, LoginIsProc DEF LoginCodex
  <2>3. logins' \in [codex : 0..MaxLogins, copilot : 0..MaxLogins]
    <3>1. logins' = [logins EXCEPT !.codex = logins.codex + 1]
      BY <1>4 DEF LoginCodex
    <3>2. QED BY <1>1, <2>1, <3>1 DEF Chains
  <2>4. newest' \in [Chains -> 0..(MaxRefreshes + 1)]
    BY <1>1, <1>4, <2>1 DEF LoginCodex
  <2>5. QED BY <1>4, <2>2, <2>3, <2>4 DEF LoginCodex, AuthTypeOK
<1>5. CASE LoginCopilot(p)
  <2>1. logins.copilot + 1 \in Chains
    BY <1>1, <1>5 DEF LoginCopilot, Chains
  <2>2. proc' \in [Procs -> Proc]
    BY <1>1, <1>5, <2>1, LoginIsProc DEF LoginCopilot
  <2>3. logins' = [logins EXCEPT !.copilot = logins.copilot + 1]
    BY <1>5 DEF LoginCopilot
  <2>4. logins' \in [codex : 0..MaxLogins, copilot : 0..MaxLogins]
    BY <1>1, <2>1, <2>3 DEF Chains
  <2>5. QED BY <1>5, <2>2, <2>4 DEF LoginCopilot, AuthTypeOK
<1>6. QED BY <1>2, <1>3, <1>4, <1>5

LEMMA CredentialFacts ==
  ASSUME NEW c \in Credential
  PROVE  /\ c.chain \in 0..MaxLogins
         /\ c.n \in 0..(MaxRefreshes + 1)
         /\ c # NoCredential => c.chain \in Chains /\ c.n \in 1..(MaxRefreshes + 1)
         /\ c.n # 0 => c # NoCredential
         /\ c.chain # 0 => c # NoCredential
BY BoundsAreNat DEF Credential, NoCredential, Chains

\* What the authority gives for a token that is not the last.
LEMMA NextToken ==
  ASSUME NEW c \in Credential, c.n \in 1..MaxRefreshes
  PROVE  /\ [c EXCEPT !.n = @ + 1] \in Credential
         /\ [c EXCEPT !.n = @ + 1].chain = c.chain
         /\ [c EXCEPT !.n = @ + 1].n = c.n + 1
<1>1. c \in [chain : Chains, n : 1..(MaxRefreshes + 1)]
  BY BoundsAreNat DEF Credential
<1>2. c.n + 1 \in 1..(MaxRefreshes + 1)
  BY BoundsAreNat
<1>3. [c EXCEPT !.n = c.n + 1] \in [chain : Chains, n : 1..(MaxRefreshes + 1)]
  BY <1>1, <1>2
<1>4. QED BY <1>1, <1>3 DEF Credential

\* The token that is offered is of a chain, and not its last.
LEMMA OfferedToken ==
  ASSUME AuthTypeOK, TokensInBounds, NEW p \in Procs,
         proc[p].at = "refreshing", proc[p].op = "refresh"
  PROVE  /\ proc[p].data.codex \in Credential
         /\ proc[p].data.codex.n \in 1..MaxRefreshes
         /\ proc[p].data.codex.chain \in Chains
<1>1. proc[p].data.codex \in Credential
  BY DEF AuthTypeOK, Proc, Data
<1>2. proc[p].data.codex.n \in 1..MaxRefreshes
  BY DEF TokensInBounds
<1>3. QED BY <1>1, <1>2, CredentialFacts, BoundsAreNat

LEMMA NewestIsUsedUp ==
  ASSUME AuthTypeOK, NEW c \in Chains, newest[c] \in 1..MaxRefreshes,
         newest' = [newest EXCEPT ![c] = @ + 1]
  PROVE  newest' \in [Chains -> 0..(MaxRefreshes + 1)]
<1>1. newest[c] + 1 \in 0..(MaxRefreshes + 1)
  BY BoundsAreNat
<1>2. newest' = [newest EXCEPT ![c] = newest[c] + 1]
  OBVIOUS
<1>3. newest \in [Chains -> 0..(MaxRefreshes + 1)]
  BY DEF AuthTypeOK
<1>4. QED BY <1>1, <1>2, <1>3

LEMMA WorkKeepsTypes ==
  ASSUME AuthTypeOK, TokensInBounds, NEW p \in Procs,
         \/ ReadAgain(p) \/ RefreshFails(p) \/ RefreshCodex(p) \/ RefreshCopilot(p)
         \/ FillFile(p)
  PROVE  AuthTypeOK'
<1> USE BoundsAreNat
<1>1. /\ proc \in [Procs -> Proc]
      /\ proc[p] \in Proc
      /\ file \in Data
      /\ mishaps \subseteq {"robbed", "died", "lost", "unsaved"}
      /\ saved \in [codex : 0..MaxLogins, copilot : 0..MaxLogins]
  BY DEF AuthTypeOK
<1>2. CASE ReadAgain(p)
  <2>1. proc' \in [Procs -> Proc]
    <3>1. CASE Over(p)
      BY <3>1, MovesKeepProc
    <3>2. CASE proc' = [proc EXCEPT
                 ![p].data = file,
                 ![p].at = IF proc[p].op \in Refreshes THEN "refreshing" ELSE "writing"]
      <4>1. (IF proc[p].op \in Refreshes THEN "refreshing" ELSE "writing") \in Place
        BY DEF Place
      <4>2. QED BY <1>1, <3>2, <4>1 DEF Proc
    <3>3. QED BY <1>2, <3>1, <3>2 DEF ReadAgain
  <2>2. QED BY <1>2, <2>1 DEF ReadAgain, AuthTypeOK, service
<1>3. CASE RefreshFails(p)
  <2> DEFINE used == proc[p].data.codex
  <2>1. proc' \in [Procs -> Proc]
    BY <1>3, MovesKeepProc DEF RefreshFails
  <2>2. /\ newest' \in [Chains -> 0..(MaxRefreshes + 1)]
        /\ mishaps' \subseteq {"robbed", "died", "lost", "unsaved"}
    <3>1. used.chain \in Chains /\ used.n \in 1..MaxRefreshes
      BY <1>3, OfferedToken DEF RefreshFails
    <3>2. CASE UNCHANGED <<newest, mishaps>>
      BY <3>2 DEF AuthTypeOK
    <3>3. CASE /\ used.n = newest[used.chain]
               /\ newest' = [newest EXCEPT ![used.chain] = @ + 1]
               /\ mishaps' = mishaps \cup {"lost"}
      BY <1>1, <3>1, <3>3, NewestIsUsedUp
    <3>4. QED BY <1>3, <3>2, <3>3 DEF RefreshFails
  <2>3. QED BY <1>3, <2>1, <2>2 DEF RefreshFails, AuthTypeOK
<1>4. CASE RefreshCodex(p)
  <2> DEFINE used == proc[p].data.codex
  <2>1. /\ used \in Credential
        /\ used.chain \in Chains
        /\ used.n \in 1..MaxRefreshes
    BY <1>4, OfferedToken DEF RefreshCodex
  <2>2. CASE used.n = newest[used.chain]
    <3>1. /\ newest' = [newest EXCEPT ![used.chain] = @ + 1]
          /\ proc' = [proc EXCEPT ![p].at = "writing",
                                  ![p].hand.codex = [used EXCEPT !.n = @ + 1]]
          /\ UNCHANGED reused
      BY <1>4, <2>2 DEF RefreshCodex
    <3>2. newest' \in [Chains -> 0..(MaxRefreshes + 1)]
      BY <2>1, <2>2, <3>1, NewestIsUsedUp
    <3>3. [proc[p].hand EXCEPT !.codex = [used EXCEPT !.n = @ + 1]] \in Data
      BY <1>1, <2>1, NextToken DEF Proc, Data
    <3>4. proc' = [proc EXCEPT ![p].at = "writing",
                     ![p].hand = [proc[p].hand EXCEPT !.codex = [used EXCEPT !.n = @ + 1]]]
      BY <3>1
    <3>5. proc' \in [Procs -> Proc]
      BY <1>1, <3>3, <3>4 DEF Proc, Place
    <3>6. QED BY <1>4, <3>1, <3>2, <3>5 DEF RefreshCodex, AuthTypeOK
  <2>3. CASE used.n # newest[used.chain]
    <3>1. Over(p) /\ reused' = TRUE /\ UNCHANGED newest
      BY <1>4, <2>3 DEF RefreshCodex
    <3>2. proc' \in [Procs -> Proc]
      BY <3>1, MovesKeepProc
    <3>3. QED BY <1>4, <3>1, <3>2 DEF RefreshCodex, AuthTypeOK
  <2>4. QED BY <2>2, <2>3
<1>5. CASE RefreshCopilot(p)
  <2>1. proc' \in [Procs -> Proc]
    <3>1. CASE Over(p)
      BY <3>1, MovesKeepProc
    <3>2. CASE proc' = [proc EXCEPT ![p].at = "writing", ![p].hand.copilot = proc[p].data.copilot]
      <4>1. [proc[p].hand EXCEPT !.copilot = proc[p].data.copilot] \in Data
        BY <1>1 DEF Proc, Data
      <4>2. proc' = [proc EXCEPT ![p].at = "writing",
                       ![p].hand = [proc[p].hand EXCEPT !.copilot = proc[p].data.copilot]]
        BY <3>2
      <4>3. QED BY <1>1, <4>1, <4>2 DEF Proc, Place
    <3>3. QED BY <1>5, <3>1, <3>2 DEF RefreshCopilot
  <2>2. QED BY <1>5, <2>1 DEF RefreshCopilot, AuthTypeOK, service
<1>6. CASE FillFile(p)
  <2>1. proc' \in [Procs -> Proc]
    BY <1>6, MovesKeepProc DEF FillFile
  <2>2. proc[p].hand.codex.chain \in 0..MaxLogins /\ proc[p].hand.copilot \in 0..MaxLogins
    BY <1>1, CredentialFacts DEF Proc, Data
  <2>3. file' \in Data
    BY <1>1, <1>6 DEF FillFile, NewData, Proc, Data
  <2>4. saved' \in [codex : 0..MaxLogins, copilot : 0..MaxLogins]
    BY <1>1, <1>6, <2>2 DEF FillFile
  <2>5. QED BY <1>6, <2>1, <2>3, <2>4 DEF FillFile, AuthTypeOK
<1>7. QED BY <1>2, <1>3, <1>4, <1>5, <1>6

LEMMA TimeKeepsTypes ==
  ASSUME AuthTypeOK, AgeLock \/ ExpireCodex
  PROVE  AuthTypeOK'
<1>1. CASE AgeLock
  <2>1. lock' \in [owner : Procs \cup {Free, Dead}, old : BOOLEAN]
    BY <1>1 DEF AgeLock, AuthTypeOK
  <2>2. QED BY <1>1, <2>1 DEF AgeLock, AuthTypeOK, service
<1>2. CASE ExpireCodex
  BY <1>2 DEF ExpireCodex, AuthTypeOK, Data
<1>3. QED BY <1>1, <1>2

-----------------------------------------------------------------------------
(* The lock.                                                               *)

Working == {"refreshing"} \cup Writing

OnlyMoves(p) == \A q \in Procs \ {p} : proc'[q] = proc[q]

\* Where each action takes its process, which is the only one it moves.
LEMMA WhereStepsGo ==
  ASSUME AuthTypeOK, NEW p \in Procs
  PROVE  /\ Step(p) => OnlyMoves(p)
         /\ \A place \in Place : Goes(p, place) =>
              proc'[p] = [proc[p] EXCEPT !.at = place]
         /\ Over(p) => proc'[p] = [IdleProc EXCEPT !.at = "unlocking"]
         /\ Over(p) => proc'[p].at = "unlocking"
         /\ NextAttempt(p) => proc'[p].at \in {"locking", "idle"}
         /\ CheckLock(p) => proc'[p].at \in {"removing", "locking", "idle"}
         /\ DiskFails(p) => proc'[p].at \in {"unlocking", "idle"}
<1> proc \in [Procs -> Proc]
  BY DEF AuthTypeOK
<1>1. ASSUME Step(p) PROVE OnlyMoves(p)
  BY <1>1 DEF Step, OnlyMoves, UseCodex, UseCopilot, LoginCodex, LoginCopilot, TakeLock,
              FindLockTaken, CheckLock, RemoveLock, Unlock, ReadAgain, RefreshFails, RefreshCodex,
              RefreshCopilot, TruncateFile, FillFile, DiskFails, Die, Goes, Over, NextAttempt
<1>2. ASSUME NEW place \in Place, Goes(p, place)
      PROVE  proc'[p] = [proc[p] EXCEPT !.at = place] /\ proc'[p].at = place
  BY <1>2 DEF Goes, Proc
<1>3. ASSUME Over(p)
      PROVE  proc'[p] = [IdleProc EXCEPT !.at = "unlocking"] /\ proc'[p].at = "unlocking"
  BY <1>3 DEF Over, IdleProc
<1>4. ASSUME NextAttempt(p)
      PROVE  proc'[p].at \in {"locking", "idle"}
  BY <1>4 DEF NextAttempt, IdleProc, Proc
<1>5. ASSUME CheckLock(p)
      PROVE  proc'[p].at \in {"removing", "locking", "idle"}
  BY <1>2, <1>4, <1>5 DEF CheckLock, Place
<1>6. ASSUME DiskFails(p)
      PROVE  proc'[p].at \in {"unlocking", "idle"}
  BY <1>3, <1>6 DEF DiskFails, IdleProc
<1>7. QED BY <1>1, <1>2, <1>3, <1>4, <1>5, <1>6

\* A step of a process that waits, or leaves.
LEMMA WaitersStayOut ==
  ASSUME AuthTypeOK, NEW p \in Procs
  PROVE  /\ UseCodex(p) \/ UseCopilot(p) \/ LoginCodex(p) \/ LoginCopilot(p)
              \/ FindLockTaken(p) \/ CheckLock(p) \/ RemoveLock(p) \/ Unlock(p) \/ Die(p) =>
                proc'[p].at \in {"locking", "checking", "removing", "idle"}
         /\ TakeLock(p) => proc'[p].at = "reading"
         /\ TruncateFile(p) =>
              proc'[p] = [proc[p] EXCEPT !.at = "filling"] /\ proc'[p].at = "filling"
<1> proc \in [Procs -> Proc]
  BY DEF AuthTypeOK
<1>1. ASSUME UseCodex(p) \/ UseCopilot(p) \/ LoginCodex(p) \/ LoginCopilot(p)
      PROVE  proc'[p].at = "locking"
  <2>1. CASE UseCodex(p) \/ UseCopilot(p)
    BY <2>1 DEF UseCodex, UseCopilot, IdleProc
  <2>2. CASE LoginCodex(p)
    <3>1. logins.codex + 1 \in Chains
      BY <2>2, BoundsAreNat DEF LoginCodex, AuthTypeOK, Chains
    <3>2. QED BY <2>2, <3>1, LoginIsProc DEF LoginCodex
  <2>3. CASE LoginCopilot(p)
    <3>1. logins.copilot + 1 \in Chains
      BY <2>3, BoundsAreNat DEF LoginCopilot, AuthTypeOK, Chains
    <3>2. QED BY <2>3, <3>1, LoginIsProc DEF LoginCopilot
  <2>4. QED BY <1>1, <2>1, <2>2, <2>3
<1>2. ASSUME FindLockTaken(p) \/ TakeLock(p) \/ TruncateFile(p)
      PROVE  /\ FindLockTaken(p) => proc'[p].at = "checking"
             /\ TakeLock(p) => proc'[p].at = "reading"
             /\ TruncateFile(p) =>
                  proc'[p] = [proc[p] EXCEPT !.at = "filling"] /\ proc'[p].at = "filling"
  BY <1>2 DEF FindLockTaken, TakeLock, TruncateFile, Goes, Proc
<1>3. ASSUME Unlock(p) \/ Die(p)
      PROVE  proc'[p].at = "idle"
  BY <1>3 DEF Unlock, Die, IdleProc
<1>4. QED BY <1>1, <1>2, <1>3, WhereStepsGo DEF RemoveLock

LEMMA LockStays ==
  ASSUME SurvivalInv, NEW p \in Procs, OnlyMoves(p), lock' = lock, mishaps \subseteq mishaps',
         proc'[p].at \in UnderLock => proc[p].at \in UnderLock
  PROVE  Locking'
BY DEF SurvivalInv, Locking, NotRobbed, OnlyMoves

LEMMA LockIsHeld ==
  ASSUME SurvivalInv, NEW p \in Procs, Step(p)
  PROVE  Locking'
<1> OnlyMoves(p) /\ AuthTypeOK
  BY WhereStepsGo DEF SurvivalInv
<1>1. CASE UseCodex(p) \/ UseCopilot(p) \/ LoginCodex(p) \/ LoginCopilot(p)
             \/ FindLockTaken(p) \/ CheckLock(p)
  <2>1. lock' = lock /\ mishaps' = mishaps
    BY <1>1 DEF UseCodex, UseCopilot, LoginCodex, LoginCopilot, FindLockTaken, CheckLock
  <2>2. proc'[p].at \notin UnderLock
    BY <1>1, WaitersStayOut DEF UnderLock
  <2>3. QED BY <2>1, <2>2, LockStays
<1>2. CASE TakeLock(p)
  <2>1. lock' = [owner |-> p, old |-> FALSE] /\ lock.owner = Free /\ mishaps' = mishaps
    BY <1>2 DEF TakeLock
  <2>2. \A q \in Procs \ {p} : NotRobbed => proc'[q].at \notin UnderLock
    BY <2>1, AuthAssumption DEF SurvivalInv, Locking, OnlyMoves
  <2>3. QED BY <2>1, <2>2 DEF Locking, NotRobbed
<1>3. CASE RemoveLock(p) \/ Unlock(p)
  <2>1. mishaps' = mishaps \cup Robbed(p)
    BY <1>3 DEF RemoveLock, Unlock
  <2>2. proc'[p].at \notin UnderLock
    BY <1>3, WaitersStayOut DEF UnderLock
  <2>3. NotRobbed' => NotRobbed /\ lock.owner \notin Procs \ {p}
    BY <2>1 DEF NotRobbed, Robbed
  <2>4. NotRobbed' => \A q \in Procs \ {p} : proc'[q].at \notin UnderLock
    BY <2>3 DEF SurvivalInv, Locking, OnlyMoves
  <2>5. QED BY <2>2, <2>4 DEF Locking
<1>4. CASE Die(p)
  <2>1. lock' = (IF lock.owner = p THEN [lock EXCEPT !.owner = Dead] ELSE lock)
    BY <1>4 DEF Die
  <2>2. proc'[p].at \notin UnderLock
    BY <1>4, WaitersStayOut DEF UnderLock
  <2>3. NotRobbed' => NotRobbed
    BY <1>4 DEF Die, NotRobbed
  <2>4. ASSUME NotRobbed', NEW q \in Procs \ {p}, proc'[q].at \in UnderLock
        PROVE  lock'.owner = q
    <3>1. lock.owner = q
      BY <2>3, <2>4 DEF SurvivalInv, Locking, OnlyMoves
    <3>2. QED BY <2>1, <3>1
  <2>5. QED BY <2>2, <2>4 DEF Locking
<1>5. CASE ReadAgain(p) \/ RefreshFails(p) \/ RefreshCodex(p) \/ RefreshCopilot(p)
             \/ TruncateFile(p) \/ FillFile(p)
  <2>1. proc[p].at \in UnderLock
    BY <1>5 DEF ReadAgain, RefreshFails, RefreshCodex, RefreshCopilot, TruncateFile, FillFile,
                UnderLock
  <2>2. lock' = lock /\ mishaps \subseteq mishaps'
    BY <1>5 DEF ReadAgain, RefreshFails, RefreshCodex, RefreshCopilot, TruncateFile, FillFile
  <2>3. QED BY <2>1, <2>2, LockStays
<1>6. CASE DiskFails(p)
  <2>1. proc'[p].at \in UnderLock => proc[p].at \in UnderLock
    <3>1. CASE proc[p].at = "locking"
      BY <1>6, <3>1 DEF DiskFails, SurvivalInv, AuthTypeOK, IdleProc, UnderLock
    <3>2. CASE proc[p].at # "locking"
      BY <1>6, <3>2 DEF DiskFails, UnderLock
    <3>3. QED BY <3>1, <3>2
  <2>2. lock' = lock /\ mishaps \subseteq mishaps'
    BY <1>6 DEF DiskFails
  <2>3. QED BY <2>1, <2>2, LockStays
<1>7. QED BY <1>1, <1>2, <1>3, <1>4, <1>5, <1>6 DEF Step

-----------------------------------------------------------------------------
(* What is read and written under it.                                      *)

Kept ==
  /\ TokensInBounds
  /\ ReadIsOnFile
  /\ RefreshKeepsLogin
  /\ LastLoginOnFile

\* A step of a process that does not come to work on what it has read.
LEMMA OthersWorkStays ==
  ASSUME SurvivalInv, NEW p \in Procs, OnlyMoves(p), proc'[p].at \notin Working,
         UNCHANGED <<file, expired, saved>>, mishaps \subseteq mishaps'
  PROVE  Kept'
<1>1. TokensInBounds'
  BY DEF SurvivalInv, TokensInBounds, OnlyMoves, Working
<1>2. ReadIsOnFile'
  BY DEF SurvivalInv, ReadIsOnFile, NotRobbed, OnlyMoves, Working
<1>3. RefreshKeepsLogin'
  BY DEF SurvivalInv, RefreshKeepsLogin, OnlyMoves, Working
<1>4. LastLoginOnFile'
  BY DEF SurvivalInv, LastLoginOnFile, NotRobbed
<1>5. QED BY <1>1, <1>2, <1>3, <1>4 DEF Kept

\* A step of a process at work that keeps what it has read.
LEMMA WorkGoesOn ==
  ASSUME SurvivalInv, NEW p \in Procs, OnlyMoves(p), proc[p].at \in Working,
         proc'[p].at \in Writing, proc'[p].data = proc[p].data, proc'[p].op = proc[p].op,
         proc[p].op = "refresh" => proc'[p].hand.codex.chain = proc[p].data.codex.chain,
         proc[p].op = "copilotRefresh" => proc'[p].hand.copilot = proc[p].data.copilot,
         UNCHANGED <<file, expired, saved>>, mishaps \subseteq mishaps'
  PROVE  Kept'
<1>1. TokensInBounds'
  BY DEF SurvivalInv, TokensInBounds, OnlyMoves, Writing
<1>2. ReadIsOnFile'
  BY DEF SurvivalInv, ReadIsOnFile, NotRobbed, OnlyMoves, Working
<1>3. RefreshKeepsLogin'
  BY DEF SurvivalInv, RefreshKeepsLogin, OnlyMoves
<1>4. LastLoginOnFile'
  BY DEF SurvivalInv, LastLoginOnFile, NotRobbed
<1>5. QED BY <1>1, <1>2, <1>3, <1>4 DEF Kept

LEMMA ReadKeeps ==
  ASSUME SurvivalInv, NEW p \in Procs, OnlyMoves(p), ReadAgain(p)
  PROVE  Kept'
<1>1. UNCHANGED <<file, whole, lock, service, mishaps, deaths>>
  BY DEF ReadAgain
<1>2. CASE Over(p)
  <2>1. proc'[p].at \notin Working
    BY <1>2, WhereStepsGo DEF SurvivalInv, Working, Writing
  <2>2. QED BY <1>1, <2>1, OthersWorkStays DEF service
<1>3. CASE /\ proc[p].op = "refresh" => NeedsRefresh(file)
           /\ proc' = [proc EXCEPT
                ![p].data = file,
                ![p].at = IF proc[p].op \in Refreshes THEN "refreshing" ELSE "writing"]
  <2>1. proc \in [Procs -> Proc]
    BY DEF SurvivalInv, AuthTypeOK
  <2>2. /\ proc'[p].data = file /\ proc'[p].op = proc[p].op
        /\ proc'[p].at = IF proc[p].op \in Refreshes THEN "refreshing" ELSE "writing"
    BY <1>3, <2>1 DEF Proc
  <2>3. TokensInBounds'
    <3>1. expired' = expired /\ TokensInBounds
      BY <1>1 DEF SurvivalInv, service
    <3>2. proc[p].op = "refresh" => proc'[p].data.codex \in expired
      BY <1>3, <2>2 DEF NeedsRefresh
    <3>3. QED BY <2>2, <3>1, <3>2 DEF TokensInBounds, OnlyMoves
  <2>4. ReadIsOnFile'
    BY <1>1, <2>2 DEF SurvivalInv, ReadIsOnFile, NotRobbed, OnlyMoves
  <2>5. RefreshKeepsLogin'
    BY <2>2 DEF SurvivalInv, RefreshKeepsLogin, OnlyMoves, Writing, Refreshes
  <2>6. LastLoginOnFile'
    BY <1>1 DEF SurvivalInv, LastLoginOnFile, NotRobbed, service
  <2>7. QED BY <2>3, <2>4, <2>5, <2>6 DEF Kept
<1>4. QED BY <1>2, <1>3 DEF ReadAgain

LEMMA RefreshKeeps ==
  ASSUME SurvivalInv, NEW p \in Procs, OnlyMoves(p), RefreshCodex(p)
  PROVE  Kept'
<1> DEFINE used == proc[p].data.codex
<1>1. /\ UNCHANGED <<file, expired, saved, mishaps>>
      /\ proc[p].at = "refreshing" /\ proc[p].op = "refresh"
  BY DEF RefreshCodex
<1>2. CASE Over(p)
  <2>1. proc'[p].at \notin Working
    BY <1>2, WhereStepsGo DEF SurvivalInv, Working, Writing
  <2>2. QED BY <1>1, <2>1, OthersWorkStays
<1>3. CASE proc' = [proc EXCEPT ![p].at = "writing", ![p].hand.codex = [used EXCEPT !.n = @ + 1]]
  <2>1. /\ proc[p] \in Proc /\ proc \in [Procs -> Proc]
        /\ proc[p].hand \in Data
    BY DEF SurvivalInv, AuthTypeOK, Proc
  <2>2. [used EXCEPT !.n = @ + 1].chain = used.chain
    BY <1>1, OfferedToken, NextToken DEF SurvivalInv
  <2>3. proc' = [proc EXCEPT ![p].at = "writing",
                   ![p].hand = [proc[p].hand EXCEPT !.codex = [used EXCEPT !.n = @ + 1]]]
    BY <1>3
  <2>4. /\ proc'[p].at = "writing" /\ proc'[p].op = proc[p].op
        /\ proc'[p].data = proc[p].data
        /\ proc'[p].hand.codex = [used EXCEPT !.n = @ + 1]
    BY <2>1, <2>3 DEF Proc, Data
  <2>5. QED BY <1>1, <2>2, <2>4, WorkGoesOn DEF Working, Writing
<1>4. QED BY <1>2, <1>3 DEF RefreshCodex

LEMMA CopilotKeeps ==
  ASSUME SurvivalInv, NEW p \in Procs, OnlyMoves(p), RefreshCopilot(p)
  PROVE  Kept'
<1>1. /\ UNCHANGED <<file, expired, saved, mishaps>>
      /\ proc[p].at = "refreshing" /\ proc[p].op = "copilotRefresh"
  BY DEF RefreshCopilot, service
<1>2. CASE Over(p)
  <2>1. proc'[p].at \notin Working
    BY <1>2, WhereStepsGo DEF SurvivalInv, Working, Writing
  <2>2. QED BY <1>1, <2>1, OthersWorkStays
<1>3. CASE proc' = [proc EXCEPT ![p].at = "writing", ![p].hand.copilot = proc[p].data.copilot]
  <2>1. /\ proc[p] \in Proc /\ proc \in [Procs -> Proc]
        /\ proc[p].hand \in Data
    BY DEF SurvivalInv, AuthTypeOK, Proc
  <2>2. proc' = [proc EXCEPT ![p].at = "writing",
                   ![p].hand = [proc[p].hand EXCEPT !.copilot = proc[p].data.copilot]]
    BY <1>3
  <2>3. /\ proc'[p].at = "writing" /\ proc'[p].op = proc[p].op
        /\ proc'[p].data = proc[p].data
        /\ proc'[p].hand.copilot = proc[p].data.copilot
    BY <2>1, <2>2 DEF Proc, Data
  <2>4. QED BY <1>1, <2>3, WorkGoesOn DEF Working, Writing
<1>4. QED BY <1>2, <1>3 DEF RefreshCopilot

LEMMA TruncateKeeps ==
  ASSUME SurvivalInv, NEW p \in Procs, OnlyMoves(p), TruncateFile(p)
  PROVE  Kept'
<1>1. /\ UNCHANGED <<file, expired, saved, mishaps>>
      /\ proc[p].at = "writing"
  BY DEF TruncateFile, service
<1>2. proc'[p] = [proc[p] EXCEPT !.at = "filling"] /\ proc[p] \in Proc
  BY WaitersStayOut DEF SurvivalInv, AuthTypeOK
<1>3. /\ proc'[p].at = "filling" /\ proc'[p].op = proc[p].op
      /\ proc'[p].data = proc[p].data /\ proc'[p].hand = proc[p].hand
  BY <1>2 DEF Proc
<1>4. /\ proc[p].op = "refresh" => proc[p].hand.codex.chain = proc[p].data.codex.chain
      /\ proc[p].op = "copilotRefresh" => proc[p].hand.copilot = proc[p].data.copilot
  BY <1>1 DEF SurvivalInv, RefreshKeepsLogin, Writing
<1>5. QED BY <1>1, <1>3, <1>4, WorkGoesOn DEF Working, Writing

\* Nobody else is at work, so what is written loses nothing.
LEMMA FillKeeps ==
  ASSUME SurvivalInv, NEW p \in Procs, OnlyMoves(p), FillFile(p)
  PROVE  Kept'
<1>1. /\ file' = NewData(p)
      /\ saved' = CASE proc[p].op = "codexLogin" ->
                         [saved EXCEPT !.codex = proc[p].hand.codex.chain]
                    [] proc[p].op = "copilotLogin" ->
                         [saved EXCEPT !.copilot = proc[p].hand.copilot]
                    [] OTHER -> saved
      /\ UNCHANGED <<expired, mishaps>>
      /\ proc[p].at = "filling"
  BY DEF FillFile
<1>2. /\ proc[p] \in Proc /\ proc[p].data \in Data /\ proc[p].hand \in Data
      /\ saved \in [codex : 0..MaxLogins, copilot : 0..MaxLogins]
  BY DEF SurvivalInv, AuthTypeOK, Proc
<1>3. proc'[p].at = "unlocking"
  BY WhereStepsGo DEF FillFile, SurvivalInv
<1>4. ASSUME NotRobbed, NEW q \in Procs \ {p}
      PROVE  proc[q].at \notin UnderLock
  <2>1. lock.owner = p
    BY <1>1, <1>4 DEF SurvivalInv, Locking, UnderLock
  <2>2. QED BY <1>4, <2>1 DEF SurvivalInv, Locking
<1>5. TokensInBounds'
  BY <1>1, <1>3 DEF SurvivalInv, TokensInBounds, OnlyMoves
<1>6. ReadIsOnFile'
  BY <1>1, <1>3, <1>4 DEF ReadIsOnFile, NotRobbed, OnlyMoves, UnderLock, Writing
<1>7. RefreshKeepsLogin'
  BY <1>3 DEF SurvivalInv, RefreshKeepsLogin, OnlyMoves, Writing
<1>8. LastLoginOnFile'
  <2> SUFFICES ASSUME NotRobbed
               PROVE  file'.codex.chain = saved'.codex /\ file'.copilot = saved'.copilot
    BY <1>1 DEF LastLoginOnFile, NotRobbed
  <2>1. proc[p].data = file
    BY <1>1 DEF SurvivalInv, ReadIsOnFile, Writing
  <2>2. file.codex.chain = saved.codex /\ file.copilot = saved.copilot
    BY DEF SurvivalInv, LastLoginOnFile
  <2>3. /\ proc[p].op = "refresh" => proc[p].hand.codex.chain = file.codex.chain
        /\ proc[p].op = "copilotRefresh" => proc[p].hand.copilot = file.copilot
    BY <1>1, <2>1 DEF SurvivalInv, RefreshKeepsLogin, Writing
  <2>4. CASE proc[p].op = "codexLogin"
    <3>1. file' = [file EXCEPT !.codex = proc[p].hand.codex]
      BY <1>1, <2>1, <2>4 DEF NewData
    <3>2. saved' = [saved EXCEPT !.codex = proc[p].hand.codex.chain]
      BY <1>1, <2>4
    <3>3. QED BY <1>2, <2>1, <2>2, <3>1, <3>2 DEF Data
  <2>5. CASE proc[p].op = "copilotLogin"
    <3>1. file' = [file EXCEPT !.copilot = proc[p].hand.copilot]
      BY <1>1, <2>1, <2>5 DEF NewData
    <3>2. saved' = [saved EXCEPT !.copilot = proc[p].hand.copilot]
      BY <1>1, <2>5
    <3>3. QED BY <1>2, <2>1, <2>2, <3>1, <3>2 DEF Data
  <2>6. CASE proc[p].op = "refresh"
    <3>1. file' = [file EXCEPT !.codex = proc[p].hand.codex]
      BY <1>1, <2>1, <2>6 DEF NewData
    <3>2. saved' = saved
      BY <1>1, <2>6
    <3>3. QED BY <1>2, <2>1, <2>2, <2>3, <2>6, <3>1, <3>2 DEF Data
  <2>7. CASE proc[p].op = "copilotRefresh"
    <3>1. file' = [file EXCEPT !.copilot = proc[p].hand.copilot]
      BY <1>1, <2>1, <2>7 DEF NewData
    <3>2. saved' = saved
      BY <1>1, <2>7
    <3>3. QED BY <1>2, <2>1, <2>2, <2>3, <2>7, <3>1, <3>2 DEF Data
  <2>8. QED BY <1>2, <2>4, <2>5, <2>6, <2>7 DEF Proc, Op
<1>9. QED BY <1>5, <1>6, <1>7, <1>8 DEF Kept

LEMMA StepKeeps ==
  ASSUME SurvivalInv, NEW p \in Procs, Step(p)
  PROVE  Kept'
<1> OnlyMoves(p) /\ AuthTypeOK
  BY WhereStepsGo DEF SurvivalInv
<1>1. CASE UseCodex(p) \/ UseCopilot(p) \/ LoginCodex(p) \/ LoginCopilot(p)
             \/ FindLockTaken(p) \/ CheckLock(p) \/ RemoveLock(p) \/ Unlock(p) \/ Die(p)
             \/ TakeLock(p)
  <2>1. proc'[p].at \notin Working
    BY <1>1, WaitersStayOut DEF Working, Writing
  <2>2. UNCHANGED <<file, expired, saved>> /\ mishaps \subseteq mishaps'
    BY <1>1 DEF UseCodex, UseCopilot, LoginCodex, LoginCopilot, FindLockTaken, CheckLock,
                RemoveLock, Unlock, Die, TakeLock, service
  <2>3. QED BY <2>1, <2>2, OthersWorkStays
<1>2. CASE RefreshFails(p) \/ DiskFails(p)
  <2>1. proc'[p].at \notin Working
    BY <1>2, WhereStepsGo DEF RefreshFails, Working, Writing
  <2>2. UNCHANGED <<file, expired, saved>> /\ mishaps \subseteq mishaps'
    BY <1>2 DEF RefreshFails, DiskFails, service
  <2>3. QED BY <2>1, <2>2, OthersWorkStays
<1>3. CASE ReadAgain(p) \/ RefreshCodex(p) \/ RefreshCopilot(p) \/ TruncateFile(p) \/ FillFile(p)
  BY <1>3, ReadKeeps, RefreshKeeps, CopilotKeeps, TruncateKeeps, FillKeeps
<1>4. QED BY <1>1, <1>2, <1>3 DEF Step

LEMMA TimeKeeps ==
  ASSUME SurvivalInv, AgeLock \/ ExpireCodex
  PROVE  Locking' /\ Kept'
<1>1. UNCHANGED <<file, proc, saved, mishaps>> /\ lock'.owner = lock.owner
  BY DEF AgeLock, ExpireCodex, service, SurvivalInv, AuthTypeOK
<1>2. Locking' /\ ReadIsOnFile' /\ RefreshKeepsLogin' /\ LastLoginOnFile'
  BY <1>1 DEF SurvivalInv, Locking, ReadIsOnFile, RefreshKeepsLogin, LastLoginOnFile, NotRobbed
<1>3. TokensInBounds'
  <2>1. CASE AgeLock
    BY <2>1 DEF AgeLock, service, SurvivalInv, TokensInBounds
  <2>2. CASE ExpireCodex
    <3>1. expired' = expired \cup {file.codex} /\ proc' = proc
      BY <2>2 DEF ExpireCodex
    <3>2. file.codex \in Credential /\ file.codex # NoCredential /\ file.codex.n <= MaxRefreshes
      BY <2>2 DEF ExpireCodex, SurvivalInv, AuthTypeOK, Data
    <3>3. file.codex.n \in 1..MaxRefreshes
      BY <3>2, CredentialFacts, BoundsAreNat
    <3>4. QED BY <3>1, <3>3 DEF SurvivalInv, TokensInBounds
  <2>3. QED BY <2>1, <2>2
<1>4. QED BY <1>2, <1>3 DEF Kept

LEMMA SurvivalInit == AuthInit => SurvivalInv
<1> SUFFICES ASSUME AuthInit PROVE SurvivalInv
  OBVIOUS
<1>1. AuthTypeOK
  <2>1. /\ file \in Data /\ proc \in [Procs -> Proc]
        /\ lock \in [owner : Procs \cup {Free, Dead}, old : BOOLEAN]
    BY EmptyIsData, IdleIsProc DEF AuthInit, NoLock
  <2>2. /\ newest \in [Chains -> 0..(MaxRefreshes + 1)]
        /\ logins \in [codex : 0..MaxLogins, copilot : 0..MaxLogins]
        /\ saved \in [codex : 0..MaxLogins, copilot : 0..MaxLogins]
        /\ deaths \in 0..MaxDeaths
    BY BoundsAreNat DEF AuthInit
  <2>3. whole \in BOOLEAN /\ reused \in BOOLEAN /\ expired \subseteq Credential /\ mishaps = {}
    BY DEF AuthInit
  <2>4. QED BY <2>1, <2>2, <2>3 DEF AuthTypeOK
<1>2. \A p \in Procs : proc[p].at = "idle"
  BY DEF AuthInit, IdleProc
<1>3. LastLoginOnFile
  BY DEF AuthInit, LastLoginOnFile, Empty, NoCredential
<1>4. TokensInBounds /\ Locking /\ ReadIsOnFile /\ RefreshKeepsLogin
  BY <1>2 DEF AuthInit, TokensInBounds, Locking, ReadIsOnFile, RefreshKeepsLogin, UnderLock, Writing
<1>5. QED BY <1>1, <1>3, <1>4 DEF SurvivalInv

LEMMA SurvivalStep == SurvivalInv /\ [AuthNext]_authVars => SurvivalInv'
<1> SUFFICES ASSUME SurvivalInv, [AuthNext]_authVars PROVE SurvivalInv'
  OBVIOUS
<1> AuthTypeOK /\ TokensInBounds
  BY DEF SurvivalInv
<1>1. ASSUME NEW p \in Procs, Step(p)
      PROVE  SurvivalInv'
  <2>1. AuthTypeOK'
    BY <1>1, LockStepsKeepTypes, RequestsKeepTypes, WorkKeepsTypes DEF Step
  <2>2. QED BY <1>1, <2>1, LockIsHeld, StepKeeps DEF SurvivalInv, Kept
<1>2. CASE AgeLock \/ ExpireCodex
  BY <1>2, TimeKeepsTypes, TimeKeeps DEF SurvivalInv, Kept
<1>3. CASE UNCHANGED authVars
  BY <1>3 DEF authVars, service, SurvivalInv, AuthTypeOK, TokensInBounds, Locking, ReadIsOnFile,
              RefreshKeepsLogin, LastLoginOnFile, NotRobbed
<1>4. QED BY <1>1, <1>2, <1>3 DEF AuthNext

\* The lock of auth.json does what it is for until it is taken from under a
\* living process: however many processes log in, refresh and die, and wherever
\* they die, the last login of each provider is on file.
THEOREM SurvivalCorrect == AuthSpec => []LoginsSurvive
<1>1. SurvivalInv => LoginsSurvive
  BY DEF SurvivalInv, LastLoginOnFile, NotRobbed, LoginsSurvive
<1>2. QED BY <1>1, SurvivalInit, SurvivalStep, PTL DEF AuthSpec

-----------------------------------------------------------------------------
(* Tokens are used once.                                                   *)

Tokens == LoginsAreTheirOwn /\ NewestTokenIsKept /\ ~reused

\* While nothing untoward happens, who refreshes does so alone, and has the
\* token of the chain that is on file.
LEMMA WorksAlone ==
  ASSUME SurvivalInv, NotRobbed, NEW p \in Procs, proc[p].at \in UnderLock
  PROVE  \A q \in Procs \ {p} : proc[q].at \notin UnderLock
BY DEF SurvivalInv, Locking

LEMMA TokenIsOfFile ==
  ASSUME SurvivalInv, NotRobbed, NEW p \in Procs, HasToken(p)
  PROVE  proc[p].hand.codex.chain = file.codex.chain
BY DEF SurvivalInv, ReadIsOnFile, RefreshKeepsLogin, HasToken

\* A step that neither gains nor loses a login or a token.
LEMMA TokensStay ==
  ASSUME Tokens, NEW p \in Procs, OnlyMoves(p),
         UNCHANGED <<file, newest, reused>>, logins'.codex = logins.codex,
         HasLogin(p)' => HasLogin(p) /\ proc'[p].hand = proc[p].hand,
         HasToken(p)' => HasToken(p) /\ proc'[p].hand = proc[p].hand,
         HasToken(p) => HasToken(p)'
  PROVE  Tokens'
<1>1. \A q \in Procs : HasLogin(q)' => HasLogin(q) /\ proc'[q].hand = proc[q].hand
  BY DEF OnlyMoves, HasLogin
<1>2. \A q \in Procs : /\ HasToken(q)' <=> HasToken(q)
                       /\ HasToken(q)' => proc'[q].hand = proc[q].hand
  BY DEF OnlyMoves, HasToken
<1>3. LoginsAreTheirOwn'
  BY <1>1 DEF Tokens, LoginsAreTheirOwn, Newest
<1>4. NewestTokenIsKept'
  BY <1>2 DEF Tokens, NewestTokenIsKept, Newest
<1>5. QED BY <1>3, <1>4 DEF Tokens

\* A new login is to a chain that nobody has yet.
LEMMA LoginKeepsTokens ==
  ASSUME SurvivalInv, NotRobbed, Tokens, NEW p \in Procs, OnlyMoves(p), LoginCodex(p)
  PROVE  Tokens'
<1> DEFINE c == logins.codex + 1
<1> USE BoundsAreNat
<1>1. /\ c \in Chains /\ c \notin 0..logins.codex /\ logins.codex \in Nat
      /\ newest \in [Chains -> 0..(MaxRefreshes + 1)]
      /\ proc \in [Procs -> Proc]
      /\ logins \in [codex : 0..MaxLogins, copilot : 0..MaxLogins]
      /\ file.codex \in Credential
  BY DEF LoginCodex, SurvivalInv, AuthTypeOK, Chains, Data
<1>2. /\ newest' = [newest EXCEPT ![c] = 1]
      /\ logins'.codex = c
      /\ UNCHANGED <<file, reused>>
  BY <1>1 DEF LoginCodex
<1>3. /\ proc'[p].at = "locking" /\ proc'[p].op = "codexLogin"
      /\ proc'[p].hand.codex = [chain |-> c, n |-> 1]
  BY <1>1, LoginIsProc DEF LoginCodex
<1> HIDE DEF c
<1>4. proc'[p].hand.codex.chain = c /\ proc'[p].hand.codex.n = 1 /\ newest'[c] = 1
  BY <1>1, <1>2, <1>3
<1>5. file.codex.chain \in 0..logins.codex /\ file.codex.chain # c
  BY <1>1, CredentialFacts DEF c, Tokens, LoginsAreTheirOwn
<1>6. LoginsAreTheirOwn'
  <2>1. file'.codex.chain <= logins'.codex
    BY <1>1, <1>2, <1>5 DEF c
  <2>2. ASSUME NEW q \in Procs \ {p}, HasLogin(q)'
        PROVE  /\ proc'[q].hand.codex.chain \in 1..logins'.codex
               /\ proc'[q].hand.codex.chain # file'.codex.chain
               /\ Newest(proc[q].hand.codex)'
               /\ proc'[q].hand.codex.chain # c
               /\ \A r \in Procs \ {p, q} :
                    HasLogin(r)' => proc'[r].hand.codex.chain # proc'[q].hand.codex.chain
    <3>1. HasLogin(q) /\ proc'[q] = proc[q]
      BY <2>2 DEF HasLogin, OnlyMoves
    <3>2. /\ proc[q].hand.codex.chain \in 1..logins.codex
          /\ proc[q].hand.codex.chain # file.codex.chain
          /\ Newest(proc[q].hand.codex)
      BY <3>1 DEF Tokens, LoginsAreTheirOwn
    <3>3. /\ proc[q].hand.codex.chain \in 1..logins'.codex
          /\ proc[q].hand.codex.chain # c
      BY <1>1, <1>2, <3>2 DEF c
    <3>4. Newest(proc[q].hand.codex)'
      BY <1>1, <1>2, <3>1, <3>2, <3>3 DEF Newest
    <3>5. \A r \in Procs \ {p, q} :
            HasLogin(r)' => proc'[r].hand.codex.chain # proc'[q].hand.codex.chain
      BY <3>1 DEF Tokens, LoginsAreTheirOwn, HasLogin, OnlyMoves
    <3>6. QED BY <1>2, <3>1, <3>2, <3>3, <3>4, <3>5
  <2>3. /\ proc'[p].hand.codex.chain \in 1..logins'.codex
        /\ proc'[p].hand.codex.chain # file'.codex.chain
        /\ Newest(proc[p].hand.codex)'
    BY <1>1, <1>2, <1>4, <1>5 DEF Newest, c
  <2>4. QED BY <1>4, <2>1, <2>2, <2>3 DEF LoginsAreTheirOwn
<1>7. NewestTokenIsKept'
  <2>1. \A q \in Procs : HasToken(q)' <=> HasToken(q)
    BY <1>3 DEF HasToken, OnlyMoves, LoginCodex, Writing
  <2>2. ASSUME NEW q \in Procs, HasToken(q)'
        PROVE  proc'[q].hand.codex.chain \in Chains /\ Newest(proc[q].hand.codex)'
    <3>1. HasToken(q) /\ proc'[q] = proc[q]
      BY <1>3, <2>2 DEF HasToken, OnlyMoves
    <3>2. proc[q].hand.codex.chain = file.codex.chain
      BY <3>1, TokenIsOfFile
    <3>3. Newest(proc[q].hand.codex) /\ proc[q].hand.codex.chain \in Chains
      BY <3>1 DEF Tokens, NewestTokenIsKept
    <3>4. QED BY <1>1, <1>2, <1>5, <3>1, <3>2, <3>3 DEF Newest
  <2>3. ASSUME file'.codex # NoCredential, \A q \in Procs : ~HasToken(q)'
        PROVE  Newest(file.codex)'
    <3>1. Newest(file.codex)
      BY <1>2, <2>1, <2>3 DEF Tokens, NewestTokenIsKept
    <3>2. file.codex.chain \in Chains
      BY <1>1, <1>2, <2>3, CredentialFacts
    <3>3. QED BY <1>1, <1>2, <1>5, <3>1, <3>2 DEF Newest
  <2>4. QED BY <2>2, <2>3 DEF NewestTokenIsKept
<1>8. QED BY <1>2, <1>6, <1>7 DEF Tokens

\* The token on file is the newest, as nobody else is at work: it is taken, and
\* what it is taken for is the newest then.
LEMMA RefreshKeepsTokens ==
  ASSUME SurvivalInv, NotRobbed, Tokens, NEW p \in Procs, OnlyMoves(p), RefreshCodex(p)
  PROVE  Tokens'
<1> DEFINE used == proc[p].data.codex
           next == [used EXCEPT !.n = @ + 1]
<1>1. proc[p].at = "refreshing" /\ proc[p].op = "refresh"
  BY DEF RefreshCodex
<1>2. /\ used = file.codex
      /\ used \in Credential /\ used.chain \in Chains /\ used.n \in 1..MaxRefreshes
  BY <1>1, OfferedToken DEF SurvivalInv, ReadIsOnFile
<1>3. \A q \in Procs : ~HasToken(q)
  <2>1. \A q \in Procs \ {p} : proc[q].at \notin UnderLock
    BY <1>1, WorksAlone DEF UnderLock
  <2>2. QED BY <1>1, <2>1 DEF HasToken, UnderLock, Writing
<1>4. used.n = newest[used.chain]
  <2>1. file.codex # NoCredential
    BY <1>2, CredentialFacts, BoundsAreNat
  <2>2. QED BY <1>2, <1>3, <2>1 DEF Tokens, NewestTokenIsKept, Newest
<1>5. /\ newest' = [newest EXCEPT ![used.chain] = @ + 1]
      /\ proc' = [proc EXCEPT ![p].at = "writing", ![p].hand.codex = next]
      /\ UNCHANGED <<file, logins, reused>>
  BY <1>4 DEF RefreshCodex
<1>6. next.chain = used.chain /\ next.n = used.n + 1
  BY <1>2, NextToken
<1>7. newest \in [Chains -> 0..(MaxRefreshes + 1)]
  BY DEF SurvivalInv, AuthTypeOK
<1>8. newest'[used.chain] = used.n + 1 /\ \A c \in Chains \ {used.chain} : newest'[c] = newest[c]
  BY <1>2, <1>4, <1>5, <1>7
<1>9. proc'[p].at = "writing" /\ proc'[p].op = "refresh" /\ proc'[p].hand.codex = next
  <2>1. proc[p] \in Proc /\ proc \in [Procs -> Proc] /\ proc[p].hand \in Data
    BY DEF SurvivalInv, AuthTypeOK, Proc
  <2>2. proc' = [proc EXCEPT ![p].at = "writing",
                             ![p].hand = [proc[p].hand EXCEPT !.codex = next]]
    BY <1>5
  <2> HIDE DEF next
  <2>3. QED BY <1>1, <2>1, <2>2 DEF Proc, Data
<1> HIDE DEF next, used
<1>10. LoginsAreTheirOwn'
  <2>1. \A q \in Procs : HasLogin(q)' => q # p /\ HasLogin(q) /\ proc'[q] = proc[q]
    BY <1>9 DEF HasLogin, OnlyMoves
  <2>2. ASSUME NEW q \in Procs, HasLogin(q)'
        PROVE  Newest(proc[q].hand.codex)'
    <3>1. /\ proc[q].hand.codex.chain \in 1..logins.codex
          /\ proc[q].hand.codex.chain # used.chain
          /\ Newest(proc[q].hand.codex)
      BY <1>2, <2>1, <2>2 DEF Tokens, LoginsAreTheirOwn
    <3>2. proc[q].hand.codex.chain \in Chains
      BY <3>1, BoundsAreNat DEF SurvivalInv, AuthTypeOK, Chains
    <3>3. QED BY <1>8, <2>1, <2>2, <3>1, <3>2 DEF Newest
  <2>3. QED BY <1>5, <2>1, <2>2 DEF Tokens, LoginsAreTheirOwn
<1>11. NewestTokenIsKept'
  <2>1. HasToken(p)'
    BY <1>9 DEF HasToken, Writing
  <2>2. \A q \in Procs : HasToken(q)' => q = p
    BY <1>3 DEF HasToken, OnlyMoves
  <2>3. proc'[p].hand.codex.chain \in Chains /\ Newest(proc[p].hand.codex)'
    BY <1>2, <1>6, <1>8, <1>9 DEF Newest
  <2>4. QED BY <2>1, <2>2, <2>3 DEF NewestTokenIsKept
<1>12. QED BY <1>5, <1>10, <1>11 DEF Tokens

\* The file gets the newest token of its chain, or that of a new one.
LEMMA FillKeepsTokens ==
  ASSUME SurvivalInv, NotRobbed, Tokens, NEW p \in Procs, OnlyMoves(p), FillFile(p)
  PROVE  Tokens'
<1>1. /\ file' = NewData(p)
      /\ UNCHANGED <<newest, logins, reused>>
      /\ proc[p].at = "filling"
      /\ proc[p].data = file
  BY DEF FillFile, SurvivalInv, ReadIsOnFile, Writing
<1>2. proc'[p].at = "unlocking"
  BY WhereStepsGo DEF FillFile, SurvivalInv
<1>3. file \in Data /\ proc[p].op \in Op
  BY DEF SurvivalInv, AuthTypeOK, Proc
<1>4. \A q \in Procs \ {p} : proc[q].at \notin UnderLock
  BY <1>1, WorksAlone DEF UnderLock
<1>5. \A q \in Procs : ~HasToken(q)'
  BY <1>2, <1>4 DEF HasToken, OnlyMoves, UnderLock, Writing
<1>6. \A q \in Procs : HasLogin(q)' => q # p /\ HasLogin(q) /\ proc'[q] = proc[q]
  BY <1>2 DEF HasLogin, OnlyMoves
<1>7. /\ file'.codex.chain <= logins.codex
      /\ \A q \in Procs \ {p} :
           HasLogin(q) => proc[q].hand.codex.chain # file'.codex.chain
      /\ file'.codex # NoCredential => Newest(file'.codex)
  <2>1. CASE proc[p].op = "codexLogin"
    <3>1. file'.codex = proc[p].hand.codex
      BY <1>1, <1>3, <2>1 DEF NewData, Data
    <3>2. HasLogin(p)
      BY <1>1, <2>1 DEF HasLogin
    <3>3. proc[p].hand.codex.chain <= logins.codex
      BY <3>2, BoundsAreNat DEF Tokens, LoginsAreTheirOwn, SurvivalInv, AuthTypeOK
    <3>4. QED BY <3>1, <3>2, <3>3 DEF Tokens, LoginsAreTheirOwn
  <2>2. CASE proc[p].op = "refresh"
    <3>1. file'.codex = proc[p].hand.codex
      BY <1>1, <1>3, <2>2 DEF NewData, Data
    <3>2. HasToken(p)
      BY <1>1, <2>2 DEF HasToken, Writing
    <3>3. file'.codex.chain = file.codex.chain
      BY <3>1, <3>2, TokenIsOfFile
    <3>4. QED BY <3>1, <3>2, <3>3 DEF Tokens, LoginsAreTheirOwn, NewestTokenIsKept
  <2>3. CASE proc[p].op \in {"copilotLogin", "copilotRefresh"}
    <3>1. file'.codex = file.codex
      BY <1>1, <1>3, <2>3 DEF NewData, Data
    <3>2. \A q \in Procs : ~HasToken(q)
      BY <1>4, <2>3 DEF HasToken, UnderLock, Writing
    <3>3. QED BY <3>1, <3>2 DEF Tokens, LoginsAreTheirOwn, NewestTokenIsKept
  <2>4. QED BY <1>3, <2>1, <2>2, <2>3 DEF Op
<1>8. LoginsAreTheirOwn'
  BY <1>1, <1>6, <1>7 DEF Tokens, LoginsAreTheirOwn, Newest
<1>9. NewestTokenIsKept'
  BY <1>1, <1>5, <1>7 DEF NewestTokenIsKept, Newest
<1>10. QED BY <1>1, <1>8, <1>9 DEF Tokens

\* The record of a process changes its place only, or ends.
LEMMA OthersKeepTokens ==
  ASSUME SurvivalInv, mishaps' = {}, Tokens, NEW p \in Procs, OnlyMoves(p), Step(p),
         ~LoginCodex(p), ~RefreshCodex(p), ~FillFile(p)
  PROVE  Tokens'
<1> proc \in [Procs -> Proc] /\ proc[p] \in Proc /\ AuthTypeOK
  BY DEF SurvivalInv, AuthTypeOK
<1> DEFINE Same ==
      /\ UNCHANGED <<file, newest, reused>>
      /\ logins'.codex = logins.codex
<1>1. ASSUME Same, ~HasLogin(p)', ~HasToken(p), ~HasToken(p)'
      PROVE  Tokens'
  BY <1>1, TokensStay
<1>2. ASSUME Same, proc'[p].hand = proc[p].hand, proc'[p].op = proc[p].op,
             proc[p].at \notin {"idle", "unlocking"}, proc[p].at \in Writing <=> proc'[p].at \in Writing
      PROVE  Tokens'
  <2>1. HasLogin(p)' => HasLogin(p)
    BY <1>2 DEF HasLogin
  <2>2. HasToken(p)' <=> HasToken(p)
    BY <1>2 DEF HasToken
  <2>3. QED BY <1>2, <2>1, <2>2, TokensStay
<1>3. ASSUME Same, ~HasToken(p), Over(p)
      PROVE  Tokens'
  <2>1. proc'[p].at = "unlocking"
    BY <1>3, WhereStepsGo
  <2>2. QED BY <1>1, <1>3, <2>1 DEF HasLogin, HasToken, Writing
<1>4. ASSUME Same, ~HasToken(p), proc' = [proc EXCEPT ![p] = IdleProc]
      PROVE  Tokens'
  BY <1>1, <1>4 DEF HasLogin, HasToken, Writing, IdleProc
<1>5. ASSUME Same, NextAttempt(p), proc[p].at \in {"checking", "removing"}
      PROVE  Tokens'
  <2>1. CASE proc[p].attempt + 1 < Attempts
    <3>1. /\ proc'[p].at = "locking" /\ proc'[p].hand = proc[p].hand
          /\ proc'[p].op = proc[p].op
      BY <1>5, <2>1 DEF NextAttempt, Proc
    <3>2. QED BY <1>2, <1>5, <3>1 DEF Writing
  <2>2. CASE ~(proc[p].attempt + 1 < Attempts)
    BY <1>4, <1>5, <2>2 DEF NextAttempt, HasToken, Writing
  <2>3. QED BY <2>1, <2>2
<1>6. ASSUME Same, NEW place \in Place, Goes(p, place), proc[p].at \notin {"idle", "unlocking"},
             proc[p].at \in Writing <=> place \in Writing
      PROVE  Tokens'
  <2>1. proc'[p] = [proc[p] EXCEPT !.at = place]
    BY <1>6, WhereStepsGo
  <2>2. /\ proc'[p].at = place /\ proc'[p].hand = proc[p].hand
        /\ proc'[p].op = proc[p].op
    BY <2>1 DEF Proc
  <2>3. QED BY <1>2, <1>6, <2>2
<1> HIDE DEF Same
<1>7. CASE UseCodex(p) \/ UseCopilot(p)
  <2>1. proc'[p].at = "locking" /\ proc'[p].op # "codexLogin" /\ proc[p].at = "idle"
    BY <1>7 DEF UseCodex, UseCopilot, IdleProc
  <2>2. Same
    BY <1>7 DEF UseCodex, UseCopilot, service, Same
  <2>3. QED BY <1>1, <2>1, <2>2 DEF HasLogin, HasToken, Writing
<1>8. CASE LoginCopilot(p)
  <2>1. logins.copilot + 1 \in Chains
    BY <1>8, BoundsAreNat DEF LoginCopilot, AuthTypeOK, Chains
  <2>2. proc'[p].at = "locking" /\ proc'[p].op = "copilotLogin" /\ proc[p].at = "idle"
    BY <1>8, <2>1, LoginIsProc DEF LoginCopilot
  <2>3. Same
    BY <1>8 DEF LoginCopilot, AuthTypeOK, Same
  <2>4. QED BY <1>1, <2>2, <2>3 DEF HasLogin, HasToken, Writing
<1>9. CASE TakeLock(p)
  <2>1. /\ proc'[p].at = "reading" /\ proc'[p].hand = proc[p].hand
        /\ proc'[p].op = proc[p].op /\ proc[p].at = "locking"
    BY <1>9 DEF TakeLock, Proc
  <2>2. Same
    BY <1>9 DEF TakeLock, service, Same
  <2>3. QED BY <1>2, <2>1, <2>2 DEF Writing
<1>10. CASE FindLockTaken(p) \/ CheckLock(p) \/ RemoveLock(p)
  <2>1. Same
    BY <1>10 DEF FindLockTaken, CheckLock, RemoveLock, service, Same
  <2>2. CASE FindLockTaken(p)
    BY <1>6, <2>1, <2>2 DEF FindLockTaken, Writing, Place
  <2>3. CASE CheckLock(p)
    BY <1>5, <1>6, <2>1, <2>3 DEF CheckLock, Writing, Place
  <2>4. CASE RemoveLock(p)
    BY <1>5, <2>1, <2>4 DEF RemoveLock
  <2>5. QED BY <1>10, <2>2, <2>3, <2>4
<1>11. CASE Unlock(p)
  <2>1. Same
    BY <1>11 DEF Unlock, service, Same
  <2>2. QED BY <1>4, <1>11, <2>1 DEF Unlock, HasToken, Writing
<1>12. CASE ReadAgain(p)
  <2>1. Same
    BY <1>12 DEF ReadAgain, service, Same
  <2>2. CASE Over(p)
    BY <1>3, <1>12, <2>1, <2>2 DEF ReadAgain, HasToken, Writing
  <2>3. CASE proc' = [proc EXCEPT
               ![p].data = file,
               ![p].at = IF proc[p].op \in Refreshes THEN "refreshing" ELSE "writing"]
    <3>1. /\ proc'[p].hand = proc[p].hand /\ proc'[p].op = proc[p].op
          /\ proc'[p].at = IF proc[p].op \in Refreshes THEN "refreshing" ELSE "writing"
          /\ proc[p].at = "reading"
      BY <1>12, <2>3 DEF ReadAgain, Proc
    <3>2. ~HasToken(p) /\ ~HasToken(p)' /\ (HasLogin(p)' => HasLogin(p))
      BY <3>1 DEF HasToken, HasLogin, Writing, Refreshes
    <3>3. QED BY <2>1, <3>1, <3>2, TokensStay DEF Same
  <2>4. QED BY <1>12, <2>2, <2>3 DEF ReadAgain
<1>13. CASE RefreshFails(p)
  <2>1. UNCHANGED <<newest, mishaps>>
    BY <1>13 DEF RefreshFails
  <2>2. Same
    BY <1>13, <2>1 DEF RefreshFails, Same
  <2>3. QED BY <1>3, <1>13, <2>2 DEF RefreshFails, HasToken, Writing
<1>14. CASE RefreshCopilot(p)
  <2>1. Same /\ proc[p].op = "copilotRefresh"
    BY <1>14 DEF RefreshCopilot, service, Same
  <2>2. CASE Over(p)
    BY <1>3, <2>1, <2>2 DEF HasToken
  <2>3. CASE proc' = [proc EXCEPT ![p].at = "writing", ![p].hand.copilot = proc[p].data.copilot]
    <3>1. proc' = [proc EXCEPT ![p].at = "writing",
                     ![p].hand = [proc[p].hand EXCEPT !.copilot = proc[p].data.copilot]]
      BY <2>3
    <3>2. proc'[p].op = "copilotRefresh"
      BY <2>1, <3>1 DEF Proc
    <3>3. QED BY <1>1, <2>1, <3>2 DEF HasLogin, HasToken
  <2>4. QED BY <1>14, <2>2, <2>3 DEF RefreshCopilot
<1>15. CASE TruncateFile(p)
  <2>1. Same
    BY <1>15 DEF TruncateFile, service, Same
  <2>2. QED BY <1>6, <1>15, <2>1 DEF TruncateFile, Writing, Place
<1>16. CASE DiskFails(p)
  <2>1. Same
    BY <1>16 DEF DiskFails, service, Same
  <2>2. ~HasToken(p)
    BY <1>16 DEF DiskFails, HasToken, Writing
  <2>3. QED BY <1>3, <1>4, <1>16, <2>1, <2>2 DEF DiskFails
<1>17. ~Die(p)
  BY DEF Die
<1>18. QED BY <1>7, <1>8, <1>9, <1>10, <1>11, <1>12, <1>13, <1>14, <1>15, <1>16, <1>17 DEF Step

-----------------------------------------------------------------------------

LEMMA TokenInitInv == AuthInit => TokenInv
<1> SUFFICES ASSUME AuthInit PROVE TokenInv
  OBVIOUS
<1>1. \A p \in Procs : proc[p].at = "idle"
  BY DEF AuthInit, IdleProc
<1>2. LoginsAreTheirOwn
  BY <1>1 DEF AuthInit, LoginsAreTheirOwn, HasLogin, Empty, NoCredential
<1>3. NewestTokenIsKept
  BY <1>1 DEF AuthInit, NewestTokenIsKept, HasToken, Writing, Empty, NoCredential
<1>4. QED BY <1>2, <1>3, SurvivalInit DEF AuthInit, TokenInv

LEMMA TokenStepInv == TokenInv /\ [AuthNext]_authVars => TokenInv'
<1> SUFFICES ASSUME TokenInv, [AuthNext]_authVars, mishaps' = {} PROVE Tokens'
  BY SurvivalStep DEF TokenInv, Tokens
<1>1. ASSUME mishaps = {}
      PROVE  SurvivalInv /\ NotRobbed /\ Tokens
  BY <1>1 DEF TokenInv, Tokens, NotRobbed
<1>2. ASSUME NEW p \in Procs, Step(p)
      PROVE  Tokens'
  <2>1. mishaps = {}
    BY <1>2 DEF Step, UseCodex, UseCopilot, LoginCodex, LoginCopilot, TakeLock, FindLockTaken,
                CheckLock, RemoveLock, Unlock, ReadAgain, RefreshFails, RefreshCodex,
                RefreshCopilot, TruncateFile, FillFile, DiskFails, Die
  <2>2. OnlyMoves(p)
    BY <1>1, <1>2, <2>1, WhereStepsGo DEF SurvivalInv
  <2>3. QED BY <1>1, <1>2, <2>1, <2>2, LoginKeepsTokens, RefreshKeepsTokens, FillKeepsTokens,
               OthersKeepTokens
<1>3. ASSUME AgeLock \/ ExpireCodex \/ UNCHANGED authVars
      PROVE  Tokens'
  <2>1. UNCHANGED <<file, proc, newest, logins, reused, mishaps>>
    BY <1>3 DEF AgeLock, ExpireCodex, authVars, service
  <2>2. QED BY <1>1, <2>1 DEF Tokens, LoginsAreTheirOwn, NewestTokenIsKept, Newest, HasLogin,
                              HasToken
<1>4. QED BY <1>2, <1>3 DEF AuthNext

\* However many processes find a token expired at once: while nobody dies, no
\* answer is lost, no write of a new token fails and no living holder is robbed,
\* each token is offered once.  A write that fails for any other request does no
\* harm.
THEOREM TokensCorrect == AuthSpec => []NoTokenOfferedTwice
<1>1. TokenInv => NoTokenOfferedTwice
  BY DEF TokenInv, NoTokenOfferedTwice
<1>2. QED BY <1>1, TokenInitInv, TokenStepInv, PTL DEF AuthSpec

-----------------------------------------------------------------------------
(* Part two: LoginFlow                                                     *)

\* Where a Codex login has a flow and has not offered its code.
Untried == {"binding", "opening", "waiting", "reading", "exchanging"}

FlowsAreBegun ==
  /\ \A s \in Shells : login[s].flow \in DOMAIN tabs \cup {NoFlow}
  /\ \A i \in DOMAIN offered : offered[i][1] \in DOMAIN tabs

FlowsHaveOneOwner ==
  \A s, t \in Shells :
    s # t /\ login[s].flow # NoFlow => login[s].flow # login[t].flow

UntriedIsNotOffered ==
  \A s \in Shells :
    login[s].at \in Untried => \A i \in DOMAIN offered : offered[i][1] # login[s].flow

ExchangeIsOfOwnFlow ==
  \A s \in Shells :
    login[s].at = "exchanging" => login[s].flow # NoFlow /\ login[s].peer = login[s].flow

LoginInv ==
  /\ LoginTypeOK
  /\ FlowsAreBegun
  /\ FlowsHaveOneOwner
  /\ UntriedIsNotOffered
  /\ ExchangeIsOfOwnFlow
  /\ CodesGoToTheirFlow

-----------------------------------------------------------------------------
(* Types.                                                                  *)

LoginRecord == [at : LoginPlaces, flow : Flows \cup {NoFlow}, late : BOOLEAN,
                peer : Flows \cup {Stray}, domain : Domains \cup {NoDomain}]

LEMMA FlowBoundsAreNat == MaxFlows \in Nat /\ MaxStray \in Nat
BY LoginAssumption

LEMMA NoLoginIsRecord == NoLogin \in LoginRecord
BY DEF NoLogin, LoginRecord, LoginPlaces

\* Writing to a tab keeps the sequence of tabs one.
LEMMA TabsStayTabs ==
  ASSUME NEW S, NEW q \in Seq(S), NEW f, NEW e \in S
  PROVE  /\ [q EXCEPT ![f] = e] \in Seq(S)
         /\ DOMAIN [q EXCEPT ![f] = e] = DOMAIN q
<1> DEFINE r == [i \in 1..Len(q) |-> IF i = f THEN e ELSE q[i]]
<1>1. r \in Seq(S)
  OBVIOUS
<1>2. [q EXCEPT ![f] = e] = r
  OBVIOUS
<1>3. DOMAIN r = DOMAIN q
  OBVIOUS
<1>4. QED BY <1>1, <1>2, <1>3

\* What a step makes of the shell's own record is a record.
LEMMA StepsKeepRecords ==
  ASSUME LoginTypeOK, NEW s \in Shells
  PROVE  /\ \A place \in LoginPlaces : LoginGoes(s, place) =>
              login' \in [Shells -> LoginRecord]
         /\ login' = [login EXCEPT ![s].late = TRUE] => login' \in [Shells -> LoginRecord]
         /\ \A f \in Flows \cup {Stray} :
              login' = [login EXCEPT ![s].at = "reading", ![s].peer = f] =>
                login' \in [Shells -> LoginRecord]
         /\ CommandEnds(s) =>
              login' \in [Shells -> LoginRecord] /\ listener' \in Shells \cup {NoShell}
<1> login \in [Shells -> LoginRecord] /\ listener \in Shells \cup {NoShell}
  BY DEF LoginTypeOK, LoginRecord
<1>1. ASSUME NEW place \in LoginPlaces, LoginGoes(s, place)
      PROVE  login' \in [Shells -> LoginRecord]
  BY <1>1 DEF LoginGoes, LoginRecord
<1>2. ASSUME login' = [login EXCEPT ![s].late = TRUE]
      PROVE  login' \in [Shells -> LoginRecord]
  <2>1. [login[s] EXCEPT !.late = TRUE] \in LoginRecord
    BY DEF LoginRecord
  <2>2. login' = [login EXCEPT ![s] = [login[s] EXCEPT !.late = TRUE]]
    BY <1>2
  <2>3. QED BY <2>1, <2>2
<1>3. ASSUME NEW f \in Flows \cup {Stray},
             login' = [login EXCEPT ![s].at = "reading", ![s].peer = f]
      PROVE  login' \in [Shells -> LoginRecord]
  <2>1. [login[s] EXCEPT !.at = "reading", !.peer = f] \in LoginRecord
    BY <1>3 DEF LoginRecord, LoginPlaces
  <2>2. login' = [login EXCEPT ![s] = [login[s] EXCEPT !.at = "reading", !.peer = f]]
    BY <1>3
  <2>3. QED BY <2>1, <2>2
<1>4. ASSUME CommandEnds(s)
      PROVE  login' \in [Shells -> LoginRecord] /\ listener' \in Shells \cup {NoShell}
  BY <1>4, NoLoginIsRecord DEF CommandEnds
<1>5. QED BY <1>1, <1>2, <1>3, <1>4

-----------------------------------------------------------------------------
(* Whose flows they are.                                                   *)

\* A step of one login that begins no flow and offers no code: its flow stays
\* or is given up, and an exchange begins only for a callback of its own flow.
Quiet(s) ==
  /\ offered' = offered
  /\ DOMAIN tabs' = DOMAIN tabs
  /\ login' \in [Shells -> LoginRecord]
  /\ \A t \in Shells \ {s} : login'[t] = login[t]
  /\ \/ login'[s].flow = NoFlow /\ login'[s].at # "exchanging"
     \/ /\ login'[s].flow = login[s].flow
        /\ login'[s].at \in Untried => login[s].at \in Untried
        /\ login'[s].at = "exchanging" =>
             login'[s].flow # NoFlow /\ login'[s].peer = login'[s].flow

Owned ==
  /\ FlowsAreBegun
  /\ FlowsHaveOneOwner
  /\ UntriedIsNotOffered
  /\ ExchangeIsOfOwnFlow
  /\ CodesGoToTheirFlow

LEMMA QuietStepsKeepFlows ==
  ASSUME LoginTypeOK, Owned, NEW s \in Shells, Quiet(s)
  PROVE  Owned'
<1>1. FlowsAreBegun'
  BY DEF Owned, FlowsAreBegun, Quiet
<1>2. FlowsHaveOneOwner'
  BY DEF Owned, FlowsHaveOneOwner, Quiet
<1>3. UntriedIsNotOffered'
  <2> SUFFICES ASSUME NEW t \in Shells, login'[t].at \in Untried, NEW i \in DOMAIN offered
               PROVE  offered[i][1] # login'[t].flow
    BY DEF UntriedIsNotOffered, Quiet
  <2>1. CASE t # s
    BY <2>1 DEF Owned, UntriedIsNotOffered, Quiet
  <2>2. CASE t = s /\ login'[s].flow = NoFlow
    <3>1. offered[i][1] \in Flows
      BY DEF LoginTypeOK
    <3>2. QED BY <2>2, <3>1, FlowBoundsAreNat DEF Flows, NoFlow
  <2>3. CASE t = s /\ login'[s].flow # NoFlow
    BY <2>3 DEF Owned, UntriedIsNotOffered, Quiet
  <2>4. QED BY <2>1, <2>2, <2>3
<1>4. ExchangeIsOfOwnFlow'
  BY DEF Owned, ExchangeIsOfOwnFlow, Quiet
<1>5. CodesGoToTheirFlow'
  BY DEF Owned, CodesGoToTheirFlow, Quiet
<1>6. QED BY <1>1, <1>2, <1>3, <1>4, <1>5 DEF Owned

-----------------------------------------------------------------------------
(* The steps.                                                              *)

QuietStep(s) ==
  \/ \E domain \in Domains : BeginDeviceFlow(s, domain)
  \/ \E f \in DOMAIN tabs : TabConnects(s, f)
  \/ StrayConnects(s) \/ ReadStray(s)
  \/ BindListener(s) \/ OpenBrowser(s) \/ ReadCallback(s) \/ GiveUp(s) \/ SaveCodex(s)
  \/ StartDeviceFlow(s) \/ SleepInterval(s) \/ PollAnswered(s) \/ PollAgain(s)
  \/ FetchCopilotToken(s) \/ SaveCopilot(s)
  \/ DeadlinePasses(s) \/ ShellDies(s)

\* A step that goes on to another place than an exchange, or ends the command.
Onward(s) ==
  \/ \E place \in LoginPlaces \ {"exchanging"} :
       /\ place \in Untried => login[s].at \in Untried
       /\ LoginGoes(s, place)
  \/ CommandEnds(s)

LEMMA OnwardIsQuiet ==
  ASSUME LoginTypeOK, NEW s \in Shells, Onward(s), offered' = offered,
         DOMAIN tabs' = DOMAIN tabs
  PROVE  Quiet(s)
<1> login \in [Shells -> LoginRecord]
  BY DEF LoginTypeOK, LoginRecord
<1>1. ASSUME NEW place \in LoginPlaces \ {"exchanging"}, LoginGoes(s, place),
             place \in Untried => login[s].at \in Untried
      PROVE  Quiet(s)
  <2>1. login' \in [Shells -> LoginRecord]
    BY <1>1, StepsKeepRecords
  <2>2. login'[s].at = place /\ login'[s].flow = login[s].flow
    BY <1>1 DEF LoginGoes, LoginRecord
  <2>3. \A t \in Shells \ {s} : login'[t] = login[t]
    BY <1>1 DEF LoginGoes
  <2>4. QED BY <1>1, <2>1, <2>2, <2>3 DEF Quiet
<1>2. ASSUME CommandEnds(s)
      PROVE  Quiet(s)
  <2>1. login' \in [Shells -> LoginRecord]
    BY <1>2, StepsKeepRecords
  <2>2. login'[s] = NoLogin /\ \A t \in Shells \ {s} : login'[t] = login[t]
    BY <1>2 DEF CommandEnds
  <2>3. QED BY <2>1, <2>2 DEF Quiet, NoLogin
<1>3. QED BY <1>1, <1>2 DEF Onward

\* Which steps are quiet, and that a quiet step keeps the other types.
LEMMA QuietStepIsQuiet ==
  ASSUME LoginInv, NEW s \in Shells, QuietStep(s)
  PROVE  /\ Quiet(s)
         /\ listener' \in Shells \cup {NoShell}
         /\ tabs' \in Seq({"closed", "open", "granted", "refused"})
         /\ strays' \in 0..MaxStray
         /\ stored' \in [codex : Flows \cup {NoFlow}, copilot : Domains \cup {NoDomain}]
<1> DEFINE Goal ==
      /\ Quiet(s)
      /\ listener' \in Shells \cup {NoShell}
      /\ tabs' \in Seq({"closed", "open", "granted", "refused"})
      /\ strays' \in 0..MaxStray
      /\ stored' \in [codex : Flows \cup {NoFlow}, copilot : Domains \cup {NoDomain}]
<1> LoginTypeOK
  BY DEF LoginInv
<1> login \in [Shells -> LoginRecord]
  BY DEF LoginTypeOK, LoginRecord
<1>a. /\ listener \in Shells \cup {NoShell}
      /\ tabs \in Seq({"closed", "open", "granted", "refused"})
      /\ strays \in 0..MaxStray
      /\ stored \in [codex : Flows \cup {NoFlow}, copilot : Domains \cup {NoDomain}]
  BY DEF LoginTypeOK
<1>b. CommandEnds(s) => listener' \in Shells \cup {NoShell}
  BY StepsKeepRecords
<1>c. ASSUME LoginFails(s), offered' = offered
      PROVE  Goal
  <2>1. Quiet(s)
    BY <1>c, OnwardIsQuiet DEF LoginFails, Onward
  <2>2. QED BY <1>c, <2>1, <1>a, <1>b DEF LoginFails
<1>d. ASSUME NEW place \in LoginPlaces \ {"exchanging"}, LoginGoes(s, place),
             place \in Untried => login[s].at \in Untried,
             UNCHANGED <<listener, tabs, strays, stored, offered>>
      PROVE  Goal
  <2>1. Quiet(s)
    BY <1>d, OnwardIsQuiet DEF Onward
  <2>2. QED BY <1>d, <2>1, <1>a
<1> HIDE DEF Goal
<1>1. ASSUME NEW domain \in Domains, BeginDeviceFlow(s, domain)
      PROVE  Goal
  <2>1. [NoLogin EXCEPT !.at = "starting", !.domain = domain] \in LoginRecord
    BY NoLoginIsRecord DEF LoginRecord, LoginPlaces, NoLogin
  <2>2. login' \in [Shells -> LoginRecord]
    BY <1>1, <2>1 DEF BeginDeviceFlow
  <2>3. login'[s].flow = NoFlow /\ login'[s].at = "starting"
    BY <1>1 DEF BeginDeviceFlow, NoLogin
  <2>4. \A t \in Shells \ {s} : login'[t] = login[t]
    BY <1>1 DEF BeginDeviceFlow
  <2>5. Quiet(s)
    BY <1>1, <2>2, <2>3, <2>4 DEF BeginDeviceFlow, Quiet
  <2>6. QED BY <1>1, <2>5, <1>a DEF BeginDeviceFlow, Goal
<1>2. ASSUME NEW f \in Flows \cup {Stray}, Waiting(s),
             login' = [login EXCEPT ![s].at = "reading", ![s].peer = f],
             UNCHANGED <<tabs, offered>>
      PROVE  Quiet(s)
  <2>1. login' \in [Shells -> LoginRecord]
    BY <1>2, StepsKeepRecords
  <2>2. login'[s].at = "reading" /\ login'[s].flow = login[s].flow
    BY <1>2 DEF LoginRecord
  <2>3. \A t \in Shells \ {s} : login'[t] = login[t]
    BY <1>2
  <2>4. QED BY <1>2, <2>1, <2>2, <2>3 DEF Quiet, Waiting, Untried
<1>3. ASSUME NEW f \in DOMAIN tabs, TabConnects(s, f)
      PROVE  Goal
  <2>1. f \in Flows
    BY FlowBoundsAreNat DEF LoginTypeOK, Flows
  <2>2. QED BY <1>3, <2>1, <1>2, <1>a DEF TabConnects, Goal
<1>4. ASSUME StrayConnects(s)
      PROVE  Goal
  <2>1. Quiet(s)
    BY <1>4, <1>2 DEF StrayConnects
  <2>2. strays' \in 0..MaxStray
    BY <1>4, <1>a, FlowBoundsAreNat DEF StrayConnects
  <2>3. QED BY <1>4, <2>1, <2>2, <1>a DEF StrayConnects, Goal
<1>5. ASSUME ReadStray(s)
      PROVE  Goal
  BY <1>5, <1>c, <1>d DEF ReadStray, Untried, LoginPlaces
<1>6. ASSUME BindListener(s)
      PROVE  Goal
  <2>1. CASE listener = NoShell
    <3>1. Quiet(s)
      BY <1>6, <2>1, OnwardIsQuiet DEF BindListener, Onward, Untried, LoginPlaces
    <3>2. QED BY <1>6, <2>1, <3>1, <1>a DEF BindListener, Goal
  <2>2. CASE listener # NoShell
    BY <1>6, <2>2, <1>c DEF BindListener
  <2>3. QED BY <2>1, <2>2
<1>7. ASSUME OpenBrowser(s)
      PROVE  Goal
  <2>1. /\ DOMAIN tabs' = DOMAIN tabs
        /\ tabs' \in Seq({"closed", "open", "granted", "refused"})
    BY <1>7, <1>a, TabsStayTabs DEF OpenBrowser
  <2>2. Quiet(s)
    BY <1>7, <2>1, OnwardIsQuiet DEF OpenBrowser, Onward, Untried, LoginPlaces
  <2>3. QED BY <1>7, <2>1, <2>2, <1>a DEF OpenBrowser, Goal
<1>8. ASSUME ReadCallback(s)
      PROVE  Goal
  <2>1. CASE tabs[login[s].peer] = "granted" /\ login[s].peer = login[s].flow
    <3>1. LoginGoes(s, "exchanging") /\ UNCHANGED <<listener, tabs, strays, stored, offered>>
      BY <1>8, <2>1 DEF ReadCallback
    <3>2. login' \in [Shells -> LoginRecord]
      BY <3>1, StepsKeepRecords DEF LoginPlaces
    <3>3. /\ login'[s].at = "exchanging"
          /\ login'[s].flow = login[s].flow
          /\ login'[s].peer = login[s].peer
      BY <3>1 DEF LoginGoes, LoginRecord
    <3>4. login[s].peer # Stray /\ login[s].at \in Untried
      BY <1>8 DEF ReadCallback, Untried
    <3>5. \A t \in Shells \ {s} : login'[t] = login[t]
      BY <3>1 DEF LoginGoes
    <3>6. Quiet(s)
      BY <2>1, <3>1, <3>2, <3>3, <3>4, <3>5 DEF Quiet, NoFlow, Stray
    <3>7. QED BY <3>1, <3>6, <1>a DEF Goal
  <2>2. CASE ~(tabs[login[s].peer] = "granted" /\ login[s].peer = login[s].flow)
    BY <1>8, <2>2, <1>c DEF ReadCallback
  <2>3. QED BY <2>1, <2>2
<1>9. ASSUME GiveUp(s)
      PROVE  Goal
  BY <1>9, <1>c DEF GiveUp
<1>10. ASSUME CommandEnds(s), UNCHANGED <<tabs, strays, offered>>,
              stored' \in [codex : Flows \cup {NoFlow}, copilot : Domains \cup {NoDomain}]
       PROVE  Goal
  <2>1. Quiet(s)
    BY <1>10, OnwardIsQuiet DEF Onward
  <2>2. QED BY <1>10, <2>1, <1>a, <1>b DEF Goal
<1>11. ASSUME SaveCodex(s)
       PROVE  Goal
  <2>1. login[s].flow \in Flows \cup {NoFlow}
    BY DEF LoginRecord
  <2>2. [stored EXCEPT !.codex = login[s].flow]
          \in [codex : Flows \cup {NoFlow}, copilot : Domains \cup {NoDomain}]
    BY <2>1, <1>a
  <2>3. QED BY <1>11, <2>2, <1>10, <1>c DEF SaveCodex
<1>12. ASSUME SaveCopilot(s)
       PROVE  Goal
  <2>1. login[s].domain \in Domains \cup {NoDomain}
    BY DEF LoginRecord
  <2>2. [stored EXCEPT !.copilot = login[s].domain]
          \in [codex : Flows \cup {NoFlow}, copilot : Domains \cup {NoDomain}]
    BY <2>1, <1>a
  <2>3. QED BY <1>12, <2>2, <1>10, <1>c DEF SaveCopilot
<1>13. ASSUME StartDeviceFlow(s) \/ PollAnswered(s) \/ FetchCopilotToken(s)
       PROVE  Goal
  BY <1>13, <1>c, <1>d DEF StartDeviceFlow, PollAnswered, FetchCopilotToken, StepOrFail,
                           Untried, LoginPlaces
<1>14. ASSUME SleepInterval(s) \/ PollAgain(s)
       PROVE  Goal
  BY <1>14, <1>c, <1>d DEF SleepInterval, PollAgain, Untried, LoginPlaces
<1>15. ASSUME DeadlinePasses(s)
       PROVE  Goal
  <2>1. login' \in [Shells -> LoginRecord]
    BY <1>15, StepsKeepRecords DEF DeadlinePasses
  <2>2. /\ login'[s].at = login[s].at
        /\ login'[s].flow = login[s].flow
        /\ login'[s].at # "exchanging"
    BY <1>15 DEF DeadlinePasses, LoginRecord
  <2>3. \A t \in Shells \ {s} : login'[t] = login[t]
    BY <1>15 DEF DeadlinePasses
  <2>4. Quiet(s)
    BY <1>15, <2>1, <2>2, <2>3 DEF DeadlinePasses, Quiet
  <2>5. QED BY <1>15, <2>4, <1>a DEF DeadlinePasses, Goal
<1>16. ASSUME ShellDies(s)
       PROVE  Goal
  BY <1>16, <1>10, <1>a DEF ShellDies
<1>17. Goal
  BY <1>1, <1>3, <1>4, <1>5, <1>6, <1>7, <1>8, <1>9, <1>11, <1>12, <1>13, <1>14, <1>15, <1>16
     DEF QuietStep
<1>18. QED BY <1>17 DEF Goal

LEMMA QuietStepKeepsInv ==
  ASSUME LoginInv, NEW s \in Shells, QuietStep(s)
  PROVE  LoginInv'
<1>1. Owned'
  BY QuietStepIsQuiet, QuietStepsKeepFlows DEF LoginInv, Owned
<1>2. LoginTypeOK'
  <2>1. Len(tabs') <= MaxFlows
    BY QuietStepIsQuiet DEF LoginInv, LoginTypeOK, Quiet
  <2>2. QED BY <2>1, QuietStepIsQuiet DEF LoginInv, LoginTypeOK, Quiet, LoginRecord
<1>3. QED BY <1>1, <1>2 DEF LoginInv, Owned

\* The flow that begins is new: nobody else has it, and its code is not offered.
LEMMA BeginKeepsInv ==
  ASSUME LoginInv, NEW s \in Shells, BeginCodexFlow(s)
  PROVE  LoginInv'
<1> DEFINE flow == Len(tabs) + 1
<1> USE FlowBoundsAreNat
<1>1. /\ LoginTypeOK
      /\ login \in [Shells -> LoginRecord]
      /\ Owned
  BY DEF LoginInv, LoginTypeOK, LoginRecord, Owned
<1>2. /\ tabs' \in Seq({"closed", "open", "granted", "refused"})
      /\ Len(tabs') = flow
      /\ flow \in Flows
      /\ DOMAIN tabs' = DOMAIN tabs \cup {flow}
      /\ flow \notin DOMAIN tabs \cup {NoFlow}
  BY <1>1 DEF LoginTypeOK, BeginCodexFlow, Flows, NoFlow
<1>3. login' \in [Shells -> LoginRecord]
  <2>1. [NoLogin EXCEPT !.at = "binding", !.flow = flow] \in LoginRecord
    BY <1>2, NoLoginIsRecord DEF LoginRecord, LoginPlaces, NoLogin
  <2>2. QED BY <1>1, <2>1 DEF BeginCodexFlow
<1>4. /\ login'[s].at = "binding" /\ login'[s].flow = flow
      /\ \A t \in Shells \ {s} : login'[t] = login[t]
      /\ UNCHANGED <<listener, strays, stored, offered>>
  BY <1>1 DEF BeginCodexFlow, NoLogin
<1> HIDE DEF flow
<1>5. LoginTypeOK'
  BY <1>1, <1>2, <1>3, <1>4 DEF LoginTypeOK, LoginRecord, Flows
<1>6. FlowsAreBegun'
  BY <1>1, <1>2, <1>4 DEF Owned, FlowsAreBegun
<1>7. FlowsHaveOneOwner'
  BY <1>1, <1>2, <1>4 DEF Owned, FlowsAreBegun, FlowsHaveOneOwner
<1>8. UntriedIsNotOffered'
  BY <1>1, <1>2, <1>4 DEF Owned, FlowsAreBegun, UntriedIsNotOffered
<1>9. ExchangeIsOfOwnFlow'
  BY <1>1, <1>4 DEF Owned, ExchangeIsOfOwnFlow
<1>10. CodesGoToTheirFlow'
  BY <1>1, <1>4 DEF Owned, CodesGoToTheirFlow
<1>11. QED BY <1>5, <1>6, <1>7, <1>8, <1>9, <1>10 DEF LoginInv

\* The code that is offered is that of the login's own flow, and offered for the
\* first time; whatever comes of it, the login does not offer it again.
LEMMA ExchangeKeepsInv ==
  ASSUME LoginInv, NEW s \in Shells, ExchangeCode(s)
  PROVE  LoginInv'
<1> DEFINE flow == login[s].flow
<1> USE FlowBoundsAreNat
<1>1. /\ LoginTypeOK
      /\ login \in [Shells -> LoginRecord]
      /\ Owned
  BY DEF LoginInv, LoginTypeOK, LoginRecord, Owned
<1>2. /\ login[s].at = "exchanging"
      /\ flow \in Flows
      /\ flow \in DOMAIN tabs
      /\ login[s].peer = flow
  BY <1>1 DEF ExchangeCode, Owned, ExchangeIsOfOwnFlow, FlowsAreBegun, LoginTypeOK, Flows
<1>3. offered' = Append(offered, <<flow, flow>>)
  BY <1>2 DEF ExchangeCode
<1>4. /\ offered' \in Seq(Flows \X Flows)
      /\ DOMAIN offered' = DOMAIN offered \cup {Len(offered) + 1}
      /\ Len(offered) + 1 \notin DOMAIN offered
      /\ offered'[Len(offered) + 1] = <<flow, flow>>
      /\ \A i \in DOMAIN offered : offered'[i] = offered[i]
  BY <1>1, <1>2, <1>3 DEF LoginTypeOK
<1>5. \A i \in DOMAIN offered : offered[i][1] # flow
  BY <1>1, <1>2 DEF Owned, UntriedIsNotOffered, Untried
<1>6. UNCHANGED <<tabs, strays, stored>>
  BY DEF ExchangeCode, LoginFails
<1>7. /\ login' \in [Shells -> LoginRecord]
      /\ listener' \in Shells \cup {NoShell}
      /\ login'[s].at \in {"savingCodex", "idle"}
      /\ login'[s].flow \in {flow, NoFlow}
      /\ \A t \in Shells \ {s} : login'[t] = login[t]
  <2>1. CASE LoginGoes(s, "savingCodex") /\ listener' = listener
    <3>1. login' \in [Shells -> LoginRecord]
      BY <1>1, <2>1, StepsKeepRecords DEF LoginPlaces
    <3>2. login'[s].at = "savingCodex" /\ login'[s].flow = flow
      BY <1>1, <2>1 DEF LoginGoes, LoginRecord
    <3>3. QED BY <1>1, <2>1, <3>1, <3>2 DEF LoginGoes, LoginTypeOK
  <2>2. CASE CommandEnds(s)
    <3>1. login'[s] = NoLogin /\ \A t \in Shells \ {s} : login'[t] = login[t]
      BY <1>1, <2>2 DEF CommandEnds
    <3>2. login' \in [Shells -> LoginRecord] /\ listener' \in Shells \cup {NoShell}
      BY <1>1, <2>2, StepsKeepRecords
    <3>3. login'[s].at = "idle" /\ login'[s].flow = NoFlow
      BY <3>1 DEF NoLogin
    <3>4. QED BY <3>1, <3>2, <3>3
  <2>3. (LoginGoes(s, "savingCodex") /\ listener' = listener) \/ CommandEnds(s)
    BY DEF ExchangeCode, LoginFails
  <2>4. QED BY <2>1, <2>2, <2>3
<1> HIDE DEF flow
<1>8. LoginTypeOK'
  BY <1>1, <1>4, <1>6, <1>7 DEF LoginTypeOK, LoginRecord
<1>9. FlowsAreBegun'
  <2>1. \A t \in Shells : login'[t].flow \in DOMAIN tabs' \cup {NoFlow}
    BY <1>1, <1>2, <1>6, <1>7 DEF Owned, FlowsAreBegun
  <2>2. \A i \in DOMAIN offered' : offered'[i][1] \in DOMAIN tabs'
    BY <1>1, <1>2, <1>4, <1>6 DEF Owned, FlowsAreBegun
  <2>3. QED BY <2>1, <2>2 DEF FlowsAreBegun
<1>10. FlowsHaveOneOwner'
  BY <1>1, <1>7 DEF flow, Owned, FlowsHaveOneOwner
<1>11. UntriedIsNotOffered'
  <2> SUFFICES ASSUME NEW t \in Shells, login'[t].at \in Untried, NEW i \in DOMAIN offered'
               PROVE  offered'[i][1] # login'[t].flow
    BY DEF UntriedIsNotOffered
  <2>1. t # s
    BY <1>7 DEF Untried
  <2>2. CASE i \in DOMAIN offered
    BY <1>1, <1>4, <1>7, <2>1, <2>2 DEF Owned, UntriedIsNotOffered
  <2>3. CASE i = Len(offered) + 1
    <3>1. flow # NoFlow
      BY <1>2 DEF Flows, NoFlow
    <3>2. login[t].flow # flow
      BY <1>1, <2>1, <3>1 DEF flow, Owned, FlowsHaveOneOwner
    <3>3. QED BY <1>4, <1>7, <2>1, <2>3, <3>2
  <2>4. QED BY <1>4, <2>2, <2>3
<1>12. ExchangeIsOfOwnFlow'
  BY <1>1, <1>7 DEF Owned, ExchangeIsOfOwnFlow
<1>13. CodesGoToTheirFlow'
  BY <1>1, <1>4, <1>5 DEF Owned, CodesGoToTheirFlow
<1>14. QED BY <1>8, <1>9, <1>10, <1>11, <1>12, <1>13 DEF LoginInv

\* The user's decision changes a tab, which nobody has read yet.
LEMMA DecisionKeepsInv ==
  ASSUME LoginInv, NEW f \in DOMAIN tabs, UserDecides(f)
  PROVE  LoginInv'
<1>1. /\ tabs' \in Seq({"closed", "open", "granted", "refused"})
      /\ DOMAIN tabs' = DOMAIN tabs
  <2>1. tabs \in Seq({"closed", "open", "granted", "refused"})
    BY DEF LoginInv, LoginTypeOK
  <2>2. CASE tabs' = [tabs EXCEPT ![f] = "granted"]
    BY <2>1, <2>2, TabsStayTabs
  <2>3. CASE tabs' = [tabs EXCEPT ![f] = "refused"]
    BY <2>1, <2>3, TabsStayTabs
  <2>4. QED BY <2>2, <2>3 DEF UserDecides
<1>2. Len(tabs') <= MaxFlows
  BY <1>1 DEF LoginInv, LoginTypeOK
<1>3. UNCHANGED <<listener, login, strays, stored, offered>>
  BY DEF UserDecides
<1>4. LoginTypeOK'
  BY <1>1, <1>2, <1>3 DEF LoginInv, LoginTypeOK
<1>5. QED BY <1>1, <1>3, <1>4 DEF LoginInv, FlowsAreBegun, FlowsHaveOneOwner,
                               UntriedIsNotOffered, ExchangeIsOfOwnFlow, CodesGoToTheirFlow

-----------------------------------------------------------------------------

LEMMA LoginInitInv == LoginInit => LoginInv
<1> SUFFICES ASSUME LoginInit PROVE LoginInv
  OBVIOUS
<1>1. LoginTypeOK
  BY FlowBoundsAreNat, NoLoginIsRecord
     DEF LoginInit, LoginTypeOK, LoginRecord, Flows, NoFlow, NoDomain
<1>2. QED BY <1>1 DEF LoginInit, LoginInv, NoLogin, NoFlow, FlowsAreBegun, FlowsHaveOneOwner,
                      UntriedIsNotOffered, ExchangeIsOfOwnFlow, CodesGoToTheirFlow

LEMMA LoginStepInv == LoginInv /\ [LoginNext]_loginVars => LoginInv'
<1> SUFFICES ASSUME LoginInv, [LoginNext]_loginVars PROVE LoginInv'
  OBVIOUS
<1>1. ASSUME NEW s \in Shells, BeginCodexFlow(s)
      PROVE  LoginInv'
  BY <1>1, BeginKeepsInv
<1>2. ASSUME NEW s \in Shells, ExchangeCode(s)
      PROVE  LoginInv'
  BY <1>2, ExchangeKeepsInv
<1>3. ASSUME NEW s \in Shells, QuietStep(s)
      PROVE  LoginInv'
  BY <1>3, QuietStepKeepsInv
<1>4. ASSUME NEW f \in DOMAIN tabs, UserDecides(f)
      PROVE  LoginInv'
  BY <1>4, DecisionKeepsInv
<1>5. CASE UNCHANGED loginVars
  BY <1>5 DEF loginVars, LoginInv, LoginTypeOK, FlowsAreBegun, FlowsHaveOneOwner,
              UntriedIsNotOffered, ExchangeIsOfOwnFlow, CodesGoToTheirFlow
<1>6. QED BY <1>1, <1>2, <1>3, <1>4, <1>5 DEF LoginNext, LoginStep, QuietStep

\* However many shells log in at once, whichever tabs call back, and whenever
\* shells die: a code is offered with the verifier of its flow, and once.
THEOREM CodesCorrect == LoginSpec => []CodesGoToTheirFlow
<1>1. LoginInv => CodesGoToTheirFlow
  BY DEF LoginInv
<1>2. QED BY <1>1, LoginInitInv, LoginStepInv, PTL DEF LoginSpec

\* The records of the logins, the tabs and what is stored keep their types.
THEOREM LoginTypeCorrect == LoginSpec => []LoginTypeOK
<1>1. LoginInv => LoginTypeOK
  BY DEF LoginInv
<1>2. QED BY <1>1, LoginInitInv, LoginStepInv, PTL DEF LoginSpec

-----------------------------------------------------------------------------
(* Part three: EventLog                                                    *)

Up == mode \in {"starting", "serving"}

\* A file that a reader gives up on.
Spoilt(f) == \E i \in 1..Len(f.lines) : f.lines[i] \in Corrupt

\* A file of a thread: only that thread's events, nothing in one that is not
\* there, and a line left without its end is a line.
FileOf(t, f) ==
  /\ f \in File
  /\ ~f.ended => f.lines # <<>>
  /\ f.lines # <<>> => f.there
  /\ \A i \in 1..Len(f.lines) : f.lines[i] \in Corrupt \/ f.lines[i].thread = t

\* An event is on its file, or the file is lost as a whole.
Written(e) == e \in ToSet(files[e.thread].lines) \/ Spoilt(files[e.thread])

FilesOfThreads ==
  /\ files \in [Threads -> File]
  /\ \A t \in Threads : FileOf(t, files[t])

\* What was answered for is written; so is what the cursor has passed, and what a
\* batch has to write up to its last event is written or still in it.
CursorKeepsUp ==
  /\ \A e \in acked : Written(e)
  /\ Up => \A e \in ToSet(mirror) : e.id <= persisted => Written(e)
  /\ batch # <<>> =>
       /\ Up
       /\ ToSet(batch) \subseteq ToSet(mirror)
       /\ \A e \in ToSet(mirror) :
            e.id <= batch[Len(batch)].id => Written(e) \/ e \in ToSet(batch)

\* Numbers given are above those in use.
NumbersAreNew ==
  Up =>
    /\ persisted <= next_event
    /\ \A e \in ToSet(mirror) : e.id <= next_event /\ e.thread <= next_thread
    /\ \A e \in acked : e.thread <= next_thread

EventsInv ==
  /\ TypeOK
  /\ FilesOfThreads
  /\ CursorKeepsUp
  /\ NumbersAreNew
  /\ LoadedThreadsAreWhole

-----------------------------------------------------------------------------
(* Sequences.                                                              *)

LEMMA ElementsOfAppend ==
  ASSUME NEW S, NEW s \in Seq(S), NEW e \in S
  PROVE  /\ Append(s, e) \in Seq(S)
         /\ ToSet(Append(s, e)) = ToSet(s) \cup {e}
<1> DEFINE n == Append(s, e)
<1>1. /\ n \in Seq(S) /\ Len(n) = Len(s) + 1
      /\ \A i \in 1..Len(s) : n[i] = s[i]
      /\ n[Len(n)] = e
  OBVIOUS
<1> HIDE DEF n
<1>2. Len(s) \in Nat /\ DOMAIN n = 1..Len(n) /\ DOMAIN s = 1..Len(s)
  BY <1>1
<1>3. 1..Len(n) = (1..Len(s)) \cup {Len(n)}
  BY <1>1, <1>2
<1>4. ToSet(n) = ToSet(s) \cup {e}
  BY <1>1, <1>2, <1>3 DEF ToSet
<1>5. QED BY <1>1, <1>4 DEF n

LEMMA ElementsOfHeadAndTail ==
  ASSUME NEW S, NEW s \in Seq(S), s # <<>>
  PROVE  /\ Head(s) \in S /\ Head(s) \in ToSet(s)
         /\ Tail(s) \in Seq(S)
         /\ ToSet(s) = ToSet(Tail(s)) \cup {Head(s)}
         /\ Tail(s) # <<>> => Tail(s)[Len(Tail(s))] = s[Len(s)]
         /\ Len(s) = 1 <=> Tail(s) = <<>>
         /\ Len(s) = 1 => ToSet(s) = {Head(s)} /\ s[Len(s)] = Head(s)
<1>1. /\ Len(s) \in Nat /\ Len(s) >= 1 /\ Head(s) = s[1]
      /\ Len(Tail(s)) = Len(s) - 1
      /\ \A i \in 1..Len(Tail(s)) : Tail(s)[i] = s[i + 1]
  OBVIOUS
<1>2. Head(s) \in S /\ Tail(s) \in Seq(S)
  OBVIOUS
<1>3. Tail(s) = <<>> <=> Len(s) = 1
  BY <1>1, <1>2
<1> DEFINE t == Tail(s)
<1>4. t \in Seq(S) /\ Len(t) = Len(s) - 1 /\ \A i \in 1..Len(t) : t[i] = s[i + 1]
  BY <1>1, <1>2
<1> HIDE DEF t
<1>5. DOMAIN t = 1..Len(t) /\ DOMAIN s = 1..Len(s)
  BY <1>4
<1>6. t # <<>> => t[Len(t)] = s[Len(s)]
  BY <1>1, <1>4
<1>7. ToSet(s) = ToSet(t) \cup {s[1]}
  <2>1. ASSUME NEW i \in 1..Len(s) PROVE s[i] \in ToSet(t) \cup {s[1]}
    <3>1. CASE i = 1
      BY <3>1
    <3>2. CASE i # 1
      <4>1. i - 1 \in 1..Len(t) /\ t[i - 1] = s[i]
        BY <1>4, <3>2
      <4>2. QED BY <4>1, <1>5 DEF ToSet
    <3>3. QED BY <3>1, <3>2
  <2>2. ASSUME NEW i \in 1..Len(t) PROVE t[i] \in ToSet(s)
    <3>1. i + 1 \in 1..Len(s) /\ t[i] = s[i + 1]
      BY <1>4
    <3>2. QED BY <3>1, <1>5 DEF ToSet
  <2>3. s[1] \in ToSet(s)
    BY <1>1, <1>5 DEF ToSet
  <2>4. QED BY <2>1, <2>2, <2>3, <1>5 DEF ToSet
<1>8. Len(s) = 1 => ToSet(t) = {}
  BY <1>4, <1>5 DEF ToSet
<1>9. Head(s) \in ToSet(s)
  BY <1>1, <1>7
<1>10. QED BY <1>1, <1>2, <1>3, <1>6, <1>7, <1>8, <1>9 DEF t

-----------------------------------------------------------------------------
(* Appends.                                                                *)

\* What an append may do to a file: it stays a file of its thread and loses no
\* line, unless it is lost as a whole.
Continues(t, f, g) ==
  /\ FileOf(t, g)
  /\ Spoilt(f) => Spoilt(g)
  /\ ToSet(f.lines) \subseteq ToSet(g.lines) \/ Spoilt(g)

LEMMA WriteContinues ==
  ASSUME NEW t, NEW f, FileOf(t, f), NEW ended \in BOOLEAN,
         NEW line \in Event \cup Corrupt, line \in Corrupt \/ line.thread = t
  PROVE  /\ Continues(t, f, WriteLine(f, line, ended))
         /\ line \in ToSet(WriteLine(f, line, ended).lines) \/ Spoilt(WriteLine(f, line, ended))
<1> DEFINE g == WriteLine(f, line, ended)
           L == Event \cup Corrupt
           bad == IF NotText \in {Last(f.lines), line} THEN NotText ELSE NotJson
<1>1. f.lines \in Seq(L) /\ f.there \in BOOLEAN /\ f.ended \in BOOLEAN
  BY DEF FileOf, File
<1>2. /\ g.there = TRUE /\ g.ended = ended
      /\ g.lines = IF f.ended THEN Append(f.lines, line) ELSE Append(Front(f.lines), bad)
      /\ g = [there |-> TRUE, ended |-> ended, lines |-> g.lines]
  BY DEF WriteLine
<1>3. bad \in Corrupt
  BY DEF Corrupt
<1> HIDE DEF g, bad
<1>4. PICK old \in Seq(L) : old = f.lines
  BY <1>1
<1>5. PICK new : new = g.lines
  OBVIOUS
<1>6. CASE f.ended
  <2>1. new = Append(old, line)
    BY <1>2, <1>4, <1>5, <1>6
  <2>2. new \in Seq(L) /\ ToSet(new) = ToSet(old) \cup {line}
    BY <2>1, ElementsOfAppend
  <2>3. /\ new # <<>> /\ Len(new) = Len(old) + 1
        /\ \A i \in 1..Len(old) : new[i] = old[i]
        /\ new[Len(new)] = line
    BY <2>1
  <2>4. \A i \in 1..Len(new) : new[i] \in Corrupt \/ new[i].thread = t
    <3>1. \A i \in 1..Len(new) : i \in 1..Len(old) \/ i = Len(new)
      BY <2>3
    <3>2. \A i \in 1..Len(old) : old[i] \in Corrupt \/ old[i].thread = t
      BY <1>4 DEF FileOf
    <3>3. \A i \in 1..Len(old) : new[i] \in Corrupt \/ new[i].thread = t
      BY <2>3, <3>2
    <3>4. new[Len(new)] \in Corrupt \/ new[Len(new)].thread = t
      BY <2>3
    <3> HIDE DEF Corrupt
    <3>5. QED BY <3>1, <3>3, <3>4
  <2>5. g \in File
    BY <1>2, <1>5, <2>2 DEF File
  <2>6. FileOf(t, g)
    BY <1>2, <1>5, <2>3, <2>4, <2>5 DEF FileOf
  <2>7. Spoilt(f) => Spoilt(g)
    <3>1. \A i \in 1..Len(old) : i \in 1..Len(new)
      BY <2>3
    <3>2. QED BY <1>4, <1>5, <2>3, <3>1 DEF Spoilt
  <2>8. QED BY <1>4, <1>5, <2>2, <2>6, <2>7 DEF Continues, g
<1>7. CASE ~f.ended
  <2>1. old # <<>>
    BY <1>4, <1>7 DEF FileOf
  <2>2. PICK start \in Seq(L) :
          /\ start = Front(old) /\ Len(start) = Len(old) - 1
          /\ \A i \in 1..Len(start) : start[i] = old[i]
    <3>1. Front(old) = SubSeq(old, 1, Len(old) - 1) /\ Len(old) >= 1
      BY <2>1 DEF Front
    <3>2. QED BY <3>1
  <2>3. new = Append(start, bad)
    BY <1>2, <1>4, <1>5, <1>7, <2>2
  <2>4. /\ new \in Seq(L) /\ Len(new) = Len(start) + 1 /\ new # <<>>
        /\ \A i \in 1..Len(start) : new[i] = start[i]
        /\ new[Len(new)] = bad
    BY <2>3, <1>3
  <2>5. \A i \in 1..Len(new) : new[i] \in Corrupt \/ new[i].thread = t
    <3>1. \A i \in 1..Len(new) : i \in 1..Len(start) \/ i = Len(new)
      BY <2>4
    <3>2. \A i \in 1..Len(start) : i \in 1..Len(old)
      BY <2>2
    <3>3. \A i \in 1..Len(old) : old[i] \in Corrupt \/ old[i].thread = t
      BY <1>4 DEF FileOf
    <3>4. QED BY <1>3, <2>2, <2>4, <3>1, <3>2, <3>3
  <2>6. Spoilt(g)
    <3>1. Len(new) \in 1..Len(new)
      BY <2>4
    <3>2. QED BY <1>3, <1>5, <2>4, <3>1 DEF Spoilt
  <2>7. g \in File
    BY <1>2, <1>5, <2>4 DEF File
  <2>8. FileOf(t, g)
    BY <1>2, <1>5, <2>4, <2>5, <2>7 DEF FileOf
  <2>9. QED BY <2>6, <2>8 DEF Continues, g
<1>8. QED BY <1>1, <1>6, <1>7

-----------------------------------------------------------------------------
(* Loading.                                                                *)

Placing == INSTANCE Folding WITH op <- InOrder
Loading == INSTANCE Folding WITH op <- LoadFile
Keeping == INSTANCE Folding WITH op <- KeepNew
Highest == INSTANCE Folding WITH op <- HigherId

\* What each of them folds, in terms of Folding.
LEMMA LogFolds ==
  /\ \A events, f : LoadFile(events, f) = Placing!Fold(events, ReadEvents(f))
  /\ ListAllEvents = Loading!Fold(<<>>, files)
  /\ NewEvents = Keeping!Fold(<<>>, mirror)
  /\ \A events : MaxId(events) = Highest!Fold(0, events)
<1>1. \A events, f : LoadFile(events, f) = Placing!Fold(events, ReadEvents(f))
  BY DEF LoadFile, Placing!Fold, FoldLeft, Placing!FoldLeft, MapThenFoldSet,
         Placing!MapThenFoldSet, Max, Placing!Max
<1>2. ListAllEvents = Loading!Fold(<<>>, files)
  BY DEF ListAllEvents, Loading!Fold, FoldLeft, Loading!FoldLeft, MapThenFoldSet,
         Loading!MapThenFoldSet, Max, Loading!Max
<1>3. NewEvents = Keeping!Fold(<<>>, mirror)
  BY DEF NewEvents, Keeping!Fold, FoldLeft, Keeping!FoldLeft, MapThenFoldSet,
         Keeping!MapThenFoldSet, Max, Keeping!Max
<1>4. \A events : MaxId(events) = Highest!Fold(0, events)
  BY DEF MaxId, Highest!Fold, FoldLeft, Highest!FoldLeft, MapThenFoldSet,
         Highest!MapThenFoldSet, Max, Highest!Max
<1>5. QED BY <1>1, <1>2, <1>3, <1>4

\* An event is placed somewhere, and the others stay.
LEMMA PlaceGathers ==
  ASSUME NEW events \in Seq(Event), NEW e \in Event
  PROVE  /\ InOrder(events, e) \in Seq(Event)
         /\ ToSet(InOrder(events, e)) = ToSet(events) \cup {e}
<1> DEFINE I == {i \in DOMAIN events : events[i].id <= e.id}
           n == Len(events)
           k == Cardinality(I)
<1>1. n \in Nat /\ I \in SUBSET (1..n)
  OBVIOUS
<1>2. k \in 0..n
  <2>1. IsFiniteSet(1..n) /\ Cardinality(1..n) = n
    BY <1>1, FS_Interval
  <2>2. k \in Nat /\ k <= n
    BY <1>1, <2>1, FS_Subset, FS_CardinalityType
  <2>3. QED BY <2>2, <1>1
<1>3. InOrder(events, e) = SubSeq(events, 1, (1 + k) - 1) \o <<e>> \o SubSeq(events, 1 + k, n)
  BY DEF InOrder, InsertAt
<1> HIDE DEF k, I
<1>4. (1 + k) - 1 = k
  BY <1>2
<1> DEFINE one == SubSeq(events, 1, k)
           two == SubSeq(events, 1 + k, n)
<1>5. /\ one \in Seq(Event) /\ Len(one) = k /\ \A i \in 1..k : one[i] = events[i]
      /\ two \in Seq(Event) /\ Len(two) = n - k /\ \A i \in 1..(n - k) : two[i] = events[i + k]
  BY <1>1, <1>2
<1> HIDE DEF n, one, two
<1>6. /\ one \o <<e>> \in Seq(Event) /\ Len(one \o <<e>>) = k + 1
      /\ \A i \in 1..k : (one \o <<e>>)[i] = events[i]
      /\ (one \o <<e>>)[k + 1] = e
  BY <1>2, <1>5
<1> DEFINE start == one \o <<e>>
<1> HIDE DEF start
<1>7. /\ start \o two \in Seq(Event) /\ Len(start \o two) = n + 1
      /\ \A i \in 1..k : (start \o two)[i] = events[i]
      /\ (start \o two)[k + 1] = e
      /\ \A i \in (k + 2)..(n + 1) : (start \o two)[i] = events[i - 1]
  <2>1. start \in Seq(Event) /\ Len(start) = k + 1
        /\ (\A i \in 1..k : start[i] = events[i]) /\ start[k + 1] = e
    BY <1>6 DEF start
  <2>2. /\ start \o two \in Seq(Event)
        /\ Len(start \o two) = Len(start) + Len(two)
        /\ \A i \in 1..(Len(start) + Len(two)) :
             (start \o two)[i] = IF i <= Len(start) THEN start[i] ELSE two[i - Len(start)]
    <3>1. start \in Seq(Event) /\ two \in Seq(Event)
      BY <2>1, <1>5
    <3>2. QED BY <3>1, ConcatProperties, Zenon
  <2>3. ASSUME NEW i \in (k + 2)..(n + 1) PROVE (start \o two)[i] = events[i - 1]
    <3>1. i \in 1..(Len(start) + Len(two)) /\ ~(i <= Len(start)) /\ i - Len(start) \in 1..(n - k)
      BY <1>1, <1>2, <1>5, <2>1 DEF n
    <3>2. (start \o two)[i] = two[i - (k + 1)]
      BY <2>1, <2>2, <3>1
    <3>3. two[i - (k + 1)] = events[(i - (k + 1)) + k]
      BY <1>5, <2>1, <3>1
    <3>4. (i - (k + 1)) + k = i - 1
      BY <1>2
    <3>5. QED BY <3>2, <3>3, <3>4
  <2>4. ASSUME NEW i \in 1..(k + 1) PROVE (start \o two)[i] = start[i]
    BY <1>1, <1>2, <1>5, <2>1, <2>2 DEF n
  <2>5. \A i \in 1..k : i \in 1..(k + 1)
    BY <1>2
  <2>6. k + 1 \in 1..(k + 1)
    BY <1>2
  <2>7. Len(start \o two) = n + 1
    BY <1>1, <1>2, <1>5, <2>1, <2>2
  <2>8. QED BY <2>1, <2>2, <2>3, <2>4, <2>5, <2>6, <2>7
<1>8. PICK new \in Seq(Event) :
        /\ new = InOrder(events, e) /\ Len(new) = n + 1
        /\ \A i \in 1..k : new[i] = events[i]
        /\ new[k + 1] = e
        /\ \A i \in (k + 2)..(n + 1) : new[i] = events[i - 1]
  BY <1>3, <1>4, <1>7 DEF start, one, two, n
<1>9. ToSet(new) = ToSet(events) \cup {e}
  <2>1. DOMAIN new = 1..(n + 1) /\ DOMAIN events = 1..n
    BY <1>8 DEF n
  <2>2. ASSUME NEW i \in 1..(n + 1) PROVE new[i] \in ToSet(events) \cup {e}
    <3>1. CASE i \in 1..k
      <4>1. i \in DOMAIN events /\ new[i] = events[i]
        BY <1>1, <1>2, <1>8, <2>1, <3>1
      <4>2. QED BY <4>1 DEF ToSet
    <3>2. CASE i = k + 1
      BY <1>8, <3>2
    <3>3. CASE i \in (k + 2)..(n + 1)
      <4>1. i - 1 \in DOMAIN events /\ new[i] = events[i - 1]
        BY <1>1, <1>2, <1>8, <2>1, <3>3
      <4>2. QED BY <4>1 DEF ToSet
    <3>4. QED BY <1>1, <1>2, <3>1, <3>2, <3>3
  <2>3. ASSUME NEW i \in 1..n PROVE events[i] \in ToSet(new)
    <3>1. CASE i <= k
      <4>1. i \in DOMAIN new /\ new[i] = events[i]
        BY <1>1, <1>2, <1>8, <2>1, <3>1
      <4>2. QED BY <4>1 DEF ToSet
    <3>2. CASE ~(i <= k)
      <4>1. i + 1 \in (k + 2)..(n + 1) /\ i + 1 \in DOMAIN new /\ (i + 1) - 1 = i
        BY <1>1, <1>2, <2>1, <3>2
      <4>2. new[i + 1] = events[i]
        BY <1>8, <4>1
      <4>3. QED BY <4>1, <4>2 DEF ToSet
    <3>3. QED BY <3>1, <3>2
  <2>4. e \in ToSet(new)
    <3>1. k + 1 \in DOMAIN new
      BY <1>1, <1>2, <2>1
    <3>2. QED BY <1>8, <3>1 DEF ToSet
  <2>5. QED BY <2>1, <2>2, <2>3, <2>4 DEF ToSet
<1>10. QED BY <1>8, <1>9

LEMMA NothingInNone == <<>> \in Seq(Event) /\ ToSet(<<>>) = {}
<1>1. DOMAIN <<>> = {}
  OBVIOUS
<1>2. ToSet(<<>>) = {}
  BY <1>1 DEF ToSet
<1>3. QED BY <1>2

\* A file that has no line a reader fails on gives its lines, another nothing.
LEMMA ReadIsWhole ==
  ASSUME NEW f \in File
  PROVE  /\ Spoilt(f) => ReadEvents(f) = <<>>
         /\ ~Spoilt(f) => ReadEvents(f) = f.lines
         /\ ReadEvents(f) \in Seq(Event)
<1> DEFINE I == {i \in 1..Len(f.lines) : f.lines[i] \in Corrupt}
<1>1. FirstCorrupt(f) = IF I # {} THEN Min(I) ELSE 0
  BY DEF FirstCorrupt, SelectInSeq
<1>2. f.lines \in Seq(Event \cup Corrupt)
  BY DEF File
<1>3. I # {} <=> Spoilt(f)
  BY DEF Spoilt
<1>4. I \subseteq Nat \ {0}
  OBVIOUS
<1>5. ~Spoilt(f) => f.lines \in Seq(Event)
  <2> SUFFICES ASSUME ~Spoilt(f) PROVE f.lines \in Seq(Event)
    OBVIOUS
  <2>1. \A i \in 1..Len(f.lines) : f.lines[i] \in Event
    BY <1>2 DEF Spoilt
  <2>2. QED BY <1>2, <2>1
<1> HIDE DEF I
<1>6. ASSUME I # {} PROVE Min(I) # 0
  <2> DEFINE Least(i) == \A k \in I : i <= k
  <2>1. \E i \in I : Least(i)
    BY <1>4, <1>6, Placing!LeastNatural
  <2>2. Min(I) = CHOOSE i \in I : Least(i)
    BY DEF Min
  <2> HIDE DEF Least
  <2>3. QED BY <1>4, <2>1, <2>2
<1>7. <<>> \in Seq(Event)
  OBVIOUS
<1>8. QED BY <1>1, <1>3, <1>5, <1>6, <1>7 DEF ReadEvents

\* What is in a sequence is what its places hold.
LEMMA PlacesHold ==
  ASSUME NEW s \in Seq(Event), NEW brings, \A e \in Event : brings[e] = {e}
  PROVE  Placing!Brought(brings, s) = ToSet(s)
<1>1. \A i \in 1..Len(s) : s[i] \in Event /\ brings[s[i]] = {s[i]}
  OBVIOUS
<1>2. DOMAIN s = 1..Len(s)
  OBVIOUS
<1>3. QED BY <1>1, <1>2 DEF ToSet, Placing!Brought

LEMMA LoadFileGathers ==
  ASSUME NEW events \in Seq(Event), NEW f \in File
  PROVE  /\ LoadFile(events, f) \in Seq(Event)
         /\ ToSet(LoadFile(events, f)) = ToSet(events) \cup ToSet(ReadEvents(f))
<1>1. PICK has \in [Seq(Event) -> SUBSET Event] : \A s \in Seq(Event) : has[s] = ToSet(s)
  <2> DEFINE has == [s \in Seq(Event) |-> ToSet(s)]
  <2>1. \A s \in Seq(Event) : ToSet(s) \in SUBSET Event
    BY DEF ToSet
  <2>2. has \in [Seq(Event) -> SUBSET Event] /\ \A s \in Seq(Event) : has[s] = ToSet(s)
    BY <2>1
  <2>3. QED BY <2>2
<1>2. PICK brings \in [Event -> SUBSET Event] : \A e \in Event : brings[e] = {e}
  <2> DEFINE brings == [e \in Event |-> {e}]
  <2>1. brings \in [Event -> SUBSET Event] /\ \A e \in Event : brings[e] = {e}
    OBVIOUS
  <2>2. QED BY <2>1
<1>3. Placing!Gathers(Event, Seq(Event), has, brings)
  BY <1>1, <1>2, PlaceGathers DEF Placing!Gathers
<1>4. PICK seq \in Seq(Event) : seq = ReadEvents(f)
  BY ReadIsWhole
<1>5. /\ Placing!Fold(events, seq) \in Seq(Event)
      /\ has[Placing!Fold(events, seq)] = has[events] \cup Placing!Brought(brings, seq)
  BY <1>3, Placing!FoldGathers
<1>6. Placing!Brought(brings, seq) = ToSet(seq)
  BY <1>2, PlacesHold
<1>7. LoadFile(events, f) = Placing!Fold(events, seq)
  BY <1>4, LogFolds
<1>8. QED BY <1>1, <1>4, <1>5, <1>6, <1>7

\* list_all_events has the events of every file that a reader does not give up on.
LEMMA ListGathers ==
  ASSUME FilesOfThreads
  PROVE  /\ ListAllEvents \in Seq(Event)
         /\ \A e : e \in ToSet(ListAllEvents) <=>
                     \E t \in Threads : e \in ToSet(files[t].lines) /\ ~Spoilt(files[t])
<1>1. PICK has \in [Seq(Event) -> SUBSET Event] : \A s \in Seq(Event) : has[s] = ToSet(s)
  <2> DEFINE has == [s \in Seq(Event) |-> ToSet(s)]
  <2>1. \A s \in Seq(Event) : ToSet(s) \in SUBSET Event
    BY DEF ToSet
  <2>2. has \in [Seq(Event) -> SUBSET Event] /\ \A s \in Seq(Event) : has[s] = ToSet(s)
    BY <2>1
  <2>3. QED BY <2>2
<1>2. PICK brings \in [File -> SUBSET Event] : \A f \in File : brings[f] = ToSet(ReadEvents(f))
  <2> DEFINE brings == [f \in File |-> ToSet(ReadEvents(f))]
  <2>1. \A f \in File : ToSet(ReadEvents(f)) \in SUBSET Event
    BY ReadIsWhole DEF ToSet
  <2>2. brings \in [File -> SUBSET Event] /\ \A f \in File : brings[f] = ToSet(ReadEvents(f))
    BY <2>1
  <2>3. QED BY <2>2
<1>3. Loading!Gathers(File, Seq(Event), has, brings)
  BY <1>1, <1>2, LoadFileGathers DEF Loading!Gathers
<1>4. PICK fs \in Seq(File) : fs = files /\ Len(fs) = MaxThreads
  BY EventLogAssumption DEF FilesOfThreads, Threads
<1>5. PICK none \in Seq(Event) : none = <<>> /\ ToSet(none) = {}
  BY NothingInNone
<1>6. /\ Loading!Fold(none, fs) \in Seq(Event)
      /\ has[Loading!Fold(none, fs)] = has[none] \cup Loading!Brought(brings, fs)
  BY <1>3, Loading!FoldGathers
<1>7. ListAllEvents \in Seq(Event) /\ ListAllEvents = Loading!Fold(none, fs)
  BY <1>4, <1>5, <1>6, LogFolds
<1>8. ToSet(ListAllEvents) = UNION {brings[fs[i]] : i \in 1..Len(fs)}
  BY <1>1, <1>5, <1>6, <1>7 DEF Loading!Brought
<1>9. \A t \in Threads : brings[fs[t]] = IF Spoilt(files[t]) THEN {} ELSE ToSet(files[t].lines)
  <2> TAKE t \in Threads
  <2>1. files[t] \in File
    BY DEF FilesOfThreads
  <2>2. brings[fs[t]] = ToSet(ReadEvents(files[t]))
    BY <1>2, <1>4, <2>1
  <2>3. Spoilt(files[t]) => ToSet(ReadEvents(files[t])) = {}
    BY <1>5, <2>1, ReadIsWhole
  <2>4. ~Spoilt(files[t]) => ToSet(ReadEvents(files[t])) = ToSet(files[t].lines)
    BY <2>1, ReadIsWhole, Zenon
  <2>5. QED BY <2>2, <2>3, <2>4, Zenon
<1>10. 1..Len(fs) = Threads
  BY <1>4 DEF Threads
<1>11. \A e : e \in ToSet(ListAllEvents) <=> \E t \in Threads : e \in brings[fs[t]]
  BY <1>8, <1>10
<1>12. \A e : \A t \in Threads :
         e \in brings[fs[t]] <=> e \in ToSet(files[t].lines) /\ ~Spoilt(files[t])
  BY <1>9
<1>13. QED BY <1>7, <1>11, <1>12

\* persist_new_events takes up what the cursor has not passed.
LEMMA NewGathers ==
  ASSUME mirror \in Seq(Event)
  PROVE  /\ NewEvents \in Seq(Event)
         /\ ToSet(NewEvents) = {e \in ToSet(mirror) : e.id > persisted}
<1>1. PICK has \in [Seq(Event) -> SUBSET Event] : \A s \in Seq(Event) : has[s] = ToSet(s)
  <2> DEFINE has == [s \in Seq(Event) |-> ToSet(s)]
  <2>1. \A s \in Seq(Event) : ToSet(s) \in SUBSET Event
    BY DEF ToSet
  <2>2. has \in [Seq(Event) -> SUBSET Event] /\ \A s \in Seq(Event) : has[s] = ToSet(s)
    BY <2>1
  <2>3. QED BY <2>2
<1>2. PICK brings \in [Event -> SUBSET Event] :
        \A e \in Event : brings[e] = IF e.id > persisted THEN {e} ELSE {}
  <2> DEFINE brings == [e \in Event |-> IF e.id > persisted THEN {e} ELSE {}]
  <2>1. brings \in [Event -> SUBSET Event]
        /\ \A e \in Event : brings[e] = IF e.id > persisted THEN {e} ELSE {}
    OBVIOUS
  <2>2. QED BY <2>1
<1>3. Keeping!Gathers(Event, Seq(Event), has, brings)
  <2>1. ASSUME NEW s \in Seq(Event), NEW e \in Event
        PROVE  KeepNew(s, e) \in Seq(Event) /\ has[KeepNew(s, e)] = has[s] \cup brings[e]
    <3>1. CASE e.id > persisted
      <4>1. KeepNew(s, e) = Append(s, e) /\ brings[e] = {e}
        BY <3>1, <1>2 DEF KeepNew
      <4>2. Append(s, e) \in Seq(Event) /\ ToSet(Append(s, e)) = ToSet(s) \cup {e}
        BY ElementsOfAppend
      <4>3. QED BY <1>1, <4>1, <4>2, Zenon
    <3>2. CASE ~(e.id > persisted)
      BY <3>2, <1>2 DEF KeepNew
    <3>3. QED BY <3>1, <3>2
  <2>2. QED BY <2>1 DEF Keeping!Gathers
<1>4. PICK seq \in Seq(Event) : seq = mirror
  OBVIOUS
<1>5. PICK none \in Seq(Event) : none = <<>> /\ ToSet(none) = {}
  BY NothingInNone
<1>6. /\ Keeping!Fold(none, seq) \in Seq(Event)
      /\ has[Keeping!Fold(none, seq)] = has[none] \cup Keeping!Brought(brings, seq)
  BY <1>3, Keeping!FoldGathers
<1>7. NewEvents \in Seq(Event) /\ ToSet(NewEvents) = UNION {brings[seq[i]] : i \in 1..Len(seq)}
  <2>1. NewEvents = Keeping!Fold(none, seq)
    BY <1>4, <1>5, LogFolds
  <2>2. QED BY <2>1, <1>1, <1>5, <1>6 DEF Keeping!Brought
<1>8. DOMAIN seq = 1..Len(seq) /\ \A i \in 1..Len(seq) : seq[i] \in Event
  OBVIOUS
<1>9. UNION {brings[seq[i]] : i \in 1..Len(seq)} = {e \in ToSet(seq) : e.id > persisted}
  BY <1>2, <1>8 DEF ToSet
<1>10. QED BY <1>4, <1>7, <1>9

\* No event has an id above the highest.
LEMMA MaxIdIsHighest ==
  ASSUME NEW events \in Seq(Event)
  PROVE  MaxId(events) \in 0..MaxEvents /\ \A e \in ToSet(events) : e.id <= MaxId(events)
<1> DEFINE has == [n \in 0..MaxEvents |-> 0..n]
           brings == [e \in Event |-> 0..e.id]
<1>1. MaxEvents \in Nat
  BY EventLogAssumption
<1>2. ASSUME NEW n \in 0..MaxEvents, NEW e \in Event
      PROVE  HigherId(n, e) \in 0..MaxEvents /\ has[HigherId(n, e)] = has[n] \cup brings[e]
  <2>1. e.id \in 1..MaxEvents
    BY DEF Event
  <2>2. QED BY <1>1, <2>1 DEF HigherId
<1>3. PICK ids : ids = 0..MaxEvents
  OBVIOUS
<1>4. PICK zero \in ids : zero = 0
  BY <1>1, <1>3
<1>6. /\ Highest!Fold(zero, events) \in ids
      /\ has[Highest!Fold(zero, events)] = has[zero] \cup Highest!Brought(brings, events)
  <2>1. Highest!Gathers(Event, ids, has, brings)
    <3> HIDE DEF has, brings
    <3>1. QED BY <1>2, <1>3 DEF Highest!Gathers
  <2> HIDE DEF has, brings
  <2>2. QED BY <2>1, Highest!FoldGathers
<1>5. /\ \A n \in 0..MaxEvents : has[n] = 0..n
      /\ \A e \in Event : brings[e] = 0..e.id /\ e.id \in Nat
  BY <1>1 DEF Event
<1> HIDE DEF has, brings
<1>7. PICK top \in 0..MaxEvents : top = MaxId(events) /\ top = Highest!Fold(zero, events)
  BY <1>3, <1>4, <1>6, LogFolds
<1>8. 0..top = has[zero] \cup UNION {brings[events[i]] : i \in 1..Len(events)}
  BY <1>5, <1>6, <1>7 DEF Highest!Brought
<1>9. ASSUME NEW i \in DOMAIN events PROVE events[i].id <= top
  <2>1. i \in 1..Len(events) /\ events[i] \in Event
    OBVIOUS
  <2>2. events[i].id \in brings[events[i]]
    BY <1>5, <2>1
  <2>3. events[i].id \in 0..top
    BY <1>8, <2>1, <2>2
  <2>4. QED BY <2>3
<1>10. QED BY <1>7, <1>9 DEF ToSet

\* The hint is a number no file's is above.
LEMMA HintIsAbove ==
  /\ ThreadCounterHint \in 0..MaxThreads
  /\ \A t \in Threads : files[t].there => t <= ThreadCounterHint
<1> DEFINE S == {t \in Threads : files[t].there}
           Above(n) == /\ n = 0 \/ files[n].there
                       /\ \A t \in Threads : files[t].there => t <= n
<1>1. MaxThreads \in Nat
  BY EventLogAssumption
<1>2. \E n \in 0..MaxThreads : Above(n)
  <2>1. CASE S = {}
    BY <1>1, <2>1
  <2>2. CASE S # {}
    <3>1. S \in SUBSET (1..MaxThreads)
      BY DEF Threads
    <3>2. PICK m \in S : \A t \in S : m >= t
      <4> HIDE DEF S
      <4>1. QED BY <1>1, <2>2, <3>1, Placing!MaxOfPlaces
    <3>3. m \in 1..MaxThreads /\ files[m].there
      BY <3>1
    <3>4. \A t \in Threads : files[t].there => t <= m
      BY <1>1, <3>2 DEF Threads
    <3>5. QED BY <1>1, <3>3, <3>4
  <2>3. QED BY <2>1, <2>2
<1>3. ThreadCounterHint = CHOOSE n \in 0..MaxThreads : Above(n)
  BY DEF ThreadCounterHint
<1> HIDE DEF Above
<1>4. ThreadCounterHint \in 0..MaxThreads /\ Above(ThreadCounterHint)
  BY <1>2, <1>3
<1>5. QED BY <1>4 DEF Above

-----------------------------------------------------------------------------
(* Steps.                                                                  *)

\* What is written stays written.
KeepsFiles == FilesOfThreads' /\ \A e \in Event : Written(e) => Written(e)'

LEMMA SameFilesKeep ==
  ASSUME FilesOfThreads, UNCHANGED files
  PROVE  KeepsFiles
BY DEF KeepsFiles, FilesOfThreads, Written

LEMMA OneFileContinues ==
  ASSUME FilesOfThreads, NEW t \in Threads, NEW g, Continues(t, files[t], g),
         files' = [files EXCEPT ![t] = g]
  PROVE  /\ KeepsFiles
         /\ files'[t] = g
<1>1. files' \in [Threads -> File] /\ files'[t] = g /\ \A u \in Threads \ {t} : files'[u] = files[u]
  BY DEF FilesOfThreads, Continues, FileOf
<1>2. FilesOfThreads'
  <2>1. ASSUME NEW u \in Threads PROVE FileOf(u, files'[u])
    <3>1. CASE u = t
      BY <1>1, <3>1 DEF Continues
    <3>2. CASE u # t
      BY <1>1, <3>2 DEF FilesOfThreads
    <3>3. QED BY <3>1, <3>2
  <2>2. QED BY <1>1, <2>1 DEF FilesOfThreads
<1>3. ASSUME NEW e \in Event, Written(e) PROVE Written(e)'
  <2>1. e.thread \in Threads
    BY DEF Event
  <2>2. CASE e.thread = t
    BY <1>1, <1>3, <2>2 DEF Written, Continues
  <2>3. CASE e.thread # t
    BY <1>1, <1>3, <2>1, <2>3 DEF Written
  <2>4. QED BY <2>2, <2>3
<1>4. QED BY <1>1, <1>2, <1>3 DEF KeepsFiles

LEMMA SameContinues ==
  ASSUME NEW t, NEW f, FileOf(t, f)
  PROVE  Continues(t, f, f) /\ Continues(t, f, [f EXCEPT !.there = TRUE])
<1>1. PICK g \in File : g = [f EXCEPT !.there = TRUE]
  BY DEF FileOf, File
<1>2. g.there = TRUE /\ g.lines = f.lines /\ g.ended = f.ended
  BY <1>1 DEF FileOf, File
<1>3. FileOf(t, g)
  BY <1>2 DEF FileOf
<1>4. QED BY <1>1, <1>2, <1>3 DEF Continues, Spoilt

\* Whatever an append leaves that does not finish.
LEMMA LeftoversContinue ==
  ASSUME NEW e \in Event, NEW f, FileOf(e.thread, f),
         NEW left \in Leftovers(f, e) \cup {WriteLine(f, NotText, FALSE)}
  PROVE  Continues(e.thread, f, left)
<1>1. NotText \in Corrupt /\ NotJson \in Corrupt
  BY DEF Corrupt
<1>2. CASE left \in {f, [f EXCEPT !.there = TRUE]}
  <2>1. Continues(e.thread, f, f) /\ Continues(e.thread, f, [f EXCEPT !.there = TRUE])
    BY SameContinues
  <2>2. QED BY <1>2, <2>1, Zenon
<1>3. CASE left \in {WriteLine(f, NotText, FALSE), WriteLine(f, NotJson, FALSE)}
  BY <1>1, <1>3, WriteContinues
<1>4. CASE left = WriteLine(f, e, FALSE)
  BY <1>4, WriteContinues
<1>5. QED BY <1>2, <1>3, <1>4 DEF Leftovers

LEMMA EventsStart == Init => EventsInv
<1> SUFFICES ASSUME Init PROVE EventsInv
  OBVIOUS
<1>1. {MaxThreads, MaxEvents, MaxCrashes, MaxFailures} \subseteq Nat
  BY EventLogAssumption
<1>2. NoFile \in File /\ NoFile.lines = <<>> /\ NoFile.ended = TRUE /\ NoFile.there = FALSE
  BY DEF NoFile, File
<1>3. FilesOfThreads
  <2>1. ASSUME NEW t \in Threads PROVE FileOf(t, files[t])
    <3>1. files[t] = NoFile
      BY DEF Init
    <3>2. QED BY <1>2, <3>1 DEF FileOf
  <2>2. QED BY <1>2, <2>1 DEF FilesOfThreads, Init
<1>4. ToSet(mirror) = {} /\ mirror \in Seq(Event) /\ batch \in Seq(Event)
  BY NothingInNone DEF Init
<1>5. TypeOK
  BY <1>1, <1>3, <1>4 DEF TypeOK, FilesOfThreads, Init
<1>6. CursorKeepsUp
  BY <1>4 DEF CursorKeepsUp, Init
<1>7. NumbersAreNew
  BY <1>4 DEF NumbersAreNew, Init
<1>8. LoadedThreadsAreWhole
  BY DEF LoadedThreadsAreWhole, Init
<1>9. QED BY <1>3, <1>5, <1>6, <1>7, <1>8 DEF EventsInv

\* An event with the next number keeps what the files and the numbers say.
LEMMA EmitKeeps ==
  ASSUME EventsInv, Up, NEW t \in Threads, Emit(t), t <= next_thread', next_thread <= next_thread',
         next_thread' \in 0..MaxThreads,
         \A e \in acked : e.thread = t => t \in Known(mirror),
         UNCHANGED <<files, mode, persisted, batch, acked, crashes, failures>>
  PROVE  EventsInv'
<1> DEFINE new == [id |-> next_event + 1, thread |-> t]
<1>1. /\ new \in Event /\ new.id = next_event + 1 /\ new.thread = t
      /\ next_event \in Nat /\ next_event' = next_event + 1 /\ next_event' \in 0..MaxEvents
  BY EventLogAssumption DEF EventsInv, TypeOK, Emit, Event
<1>2. mirror' \in Seq(Event) /\ ToSet(mirror') = ToSet(mirror) \cup {new}
  <2>1. mirror' = Append(mirror, new) /\ mirror \in Seq(Event)
    BY DEF Emit, EventsInv, TypeOK
  <2>2. QED BY <1>1, <2>1, ElementsOfAppend
<1> HIDE DEF new
<1>3. \A e \in Event : e.id \in Nat /\ e.thread \in Nat /\ e.thread \in Threads
  BY EventLogAssumption DEF Event, Threads
<1>4. ToSet(mirror) \subseteq Event /\ acked \subseteq Event
  BY DEF EventsInv, TypeOK, ToSet
<1>5. KeepsFiles
  BY SameFilesKeep DEF EventsInv
<1>6. \A e \in acked \cup ToSet(mirror) : e \in Event /\ (Written(e) => Written(e)')
  BY <1>4, <1>5 DEF KeepsFiles
<1>7. Up' /\ UNCHANGED <<acked, persisted, batch>>
  BY DEF Up
<1>8. persisted <= next_event /\ persisted \in Nat
  BY <1>1 DEF EventsInv, NumbersAreNew, TypeOK
<1>9. CursorKeepsUp'
  <2>1. \A e \in acked' : Written(e)'
    BY <1>6, <1>7 DEF EventsInv, CursorKeepsUp
  <2>2. ASSUME NEW e \in ToSet(mirror'), e.id <= persisted' PROVE Written(e)'
    <3>1. e # new
      BY <1>1, <1>7, <1>8, <2>2
    <3>2. QED BY <1>2, <1>6, <1>7, <2>2, <3>1 DEF EventsInv, CursorKeepsUp
  <2>3. ASSUME batch' # <<>>
        PROVE  /\ ToSet(batch') \subseteq ToSet(mirror')
               /\ \A e \in ToSet(mirror') :
                    e.id <= batch'[Len(batch')].id => Written(e)' \/ e \in ToSet(batch')
    <3>1. batch # <<>> /\ batch \in Seq(Event)
      BY <1>7, <2>3 DEF EventsInv, TypeOK
    <3>2. batch[Len(batch)] \in ToSet(batch)
      BY <3>1 DEF ToSet
    <3>3. ToSet(batch) \subseteq ToSet(mirror)
      BY <3>1 DEF EventsInv, CursorKeepsUp
    <3>4. batch[Len(batch)].id <= next_event /\ batch[Len(batch)].id \in Nat
      BY <1>3, <1>4, <3>2, <3>3 DEF EventsInv, NumbersAreNew
    <3>5. \A e \in ToSet(mirror') : e.id <= batch[Len(batch)].id => e \in ToSet(mirror)
      BY <1>1, <1>2, <3>4
    <3>6. \A e \in ToSet(mirror) : e.id <= batch[Len(batch)].id => Written(e) \/ e \in ToSet(batch)
      BY <3>1 DEF EventsInv, CursorKeepsUp
    <3>7. QED BY <1>2, <1>6, <1>7, <3>3, <3>5, <3>6
  <2>4. QED BY <1>7, <2>1, <2>2, <2>3 DEF CursorKeepsUp
<1>10. NumbersAreNew'
  <2>1. \A e \in ToSet(mirror) \cup acked : e.thread <= next_thread'
    <3>1. \A e \in ToSet(mirror) \cup acked : e.thread <= next_thread /\ e.thread \in Nat
      BY <1>3, <1>4 DEF EventsInv, NumbersAreNew
    <3>2. next_thread \in Nat /\ next_thread' \in Nat
      BY EventLogAssumption DEF EventsInv, TypeOK
    <3>3. QED BY <3>1, <3>2
  <2>2. \A e \in ToSet(mirror) : e.id <= next_event /\ e.id \in Nat
    BY <1>3, <1>4 DEF EventsInv, NumbersAreNew
  <2>3. new.id <= next_event' /\ new.thread <= next_thread' /\ persisted' <= next_event'
    BY <1>1, <1>7, <1>8
  <2>4. \A e \in ToSet(mirror) : e.id <= next_event'
    BY <1>1, <2>2
  <2>5. QED BY <1>2, <1>7, <2>1, <2>3, <2>4 DEF NumbersAreNew
<1>11. LoadedThreadsAreWhole'
  <2>1. ASSUME NEW e \in acked, e.thread \in Known(mirror') PROVE e \in ToSet(mirror')
    <3>1. e.thread \in Known(mirror) \/ e.thread = t
      BY <1>1, <1>2, <2>1 DEF Known
    <3>2. e.thread \in Known(mirror)
      BY <3>1
    <3>3. e \in ToSet(mirror)
      BY <2>1, <3>2 DEF EventsInv, LoadedThreadsAreWhole, Up
    <3>4. QED BY <3>3, <1>2
  <2>2. QED BY <1>7, <2>1 DEF LoadedThreadsAreWhole
<1>12. TypeOK'
  BY <1>1, <1>2 DEF EventsInv, TypeOK
<1>13. QED BY <1>5, <1>9, <1>10, <1>11, <1>12 DEF EventsInv, KeepsFiles

LEMMA StartThreadKeeps ==
  ASSUME EventsInv, StartThread
  PROVE  EventsInv'
<1>1. next_thread \in Nat /\ next_thread + 1 \in Threads /\ next_thread' = next_thread + 1
      /\ next_thread' \in 0..MaxThreads /\ Up
  BY EventLogAssumption DEF EventsInv, TypeOK, StartThread, Threads, Up
<1>2. \A e \in acked : e.thread # next_thread + 1
  <2>1. \A e \in acked : e.thread <= next_thread /\ e.thread \in Nat
    BY <1>1, EventLogAssumption DEF EventsInv, NumbersAreNew, TypeOK, Event, Threads
  <2>2. QED BY <1>1, <2>1
<1>3. QED BY <1>1, <1>2, EmitKeeps DEF StartThread

LEMMA EmitEventKeeps ==
  ASSUME EventsInv, EmitEvent
  PROVE  EventsInv'
<1>1. PICK t \in Known(mirror) : Emit(t)
  BY DEF EmitEvent
<1>2. PICK e \in ToSet(mirror) : t = e.thread
  BY DEF Known
<1>3. Up /\ next_thread' = next_thread
  BY DEF EmitEvent, Up
<1>4. e \in Event /\ t \in Threads /\ t <= next_thread
  <2>1. e \in Event
    BY DEF EventsInv, TypeOK, ToSet
  <2>2. t <= next_thread
    BY <1>2, <1>3 DEF EventsInv, NumbersAreNew
  <2>3. QED BY <1>2, <2>1, <2>2 DEF Event
<1>5. next_thread \in Nat /\ next_thread' \in 0..MaxThreads
  BY <1>3, EventLogAssumption DEF EventsInv, TypeOK
<1>6. QED BY <1>1, <1>3, <1>4, <1>5, EmitKeeps DEF EmitEvent

LEMMA PersistKeeps ==
  ASSUME EventsInv, PersistNewEvents
  PROVE  EventsInv'
<1>1. Up /\ batch' = NewEvents
      /\ UNCHANGED <<files, mode, mirror, next_event, next_thread, persisted, acked, crashes, failures>>
  BY DEF PersistNewEvents, Up
<1>2. batch' \in Seq(Event) /\ ToSet(batch') = {e \in ToSet(mirror) : e.id > persisted}
  BY <1>1, NewGathers DEF EventsInv, TypeOK
<1>3. KeepsFiles
  BY <1>1, SameFilesKeep DEF EventsInv
<1>4. ToSet(mirror) \subseteq Event /\ acked \subseteq Event
  BY DEF EventsInv, TypeOK, ToSet
<1>5. \A e \in acked \cup ToSet(mirror) : e \in Event /\ (Written(e) => Written(e)')
  BY <1>3, <1>4 DEF KeepsFiles
<1>6. Up' /\ mirror' = mirror
  BY <1>1 DEF Up
<1>7. CursorKeepsUp'
  <2>1. \A e \in acked' : Written(e)'
    BY <1>1, <1>5 DEF EventsInv, CursorKeepsUp
  <2>2. \A e \in ToSet(mirror') : e.id <= persisted' => Written(e)'
    BY <1>1, <1>5 DEF EventsInv, CursorKeepsUp
  <2>3. \A e \in ToSet(mirror') : Written(e)' \/ e \in ToSet(batch')
    <3>1. \A e \in ToSet(mirror) : e.id \in Nat
      BY <1>4 DEF Event
    <3>2. persisted \in Nat
      BY EventLogAssumption DEF EventsInv, TypeOK
    <3>3. QED BY <1>1, <1>2, <2>2, <3>1, <3>2
  <2>4. ToSet(batch') \subseteq ToSet(mirror')
    BY <1>2, <1>6
  <2>5. QED BY <1>6, <2>1, <2>2, <2>3, <2>4 DEF CursorKeepsUp
<1>8. NumbersAreNew' /\ LoadedThreadsAreWhole'
  BY <1>1 DEF EventsInv, NumbersAreNew, LoadedThreadsAreWhole, Up
<1>9. TypeOK'
  BY <1>1, <1>2 DEF EventsInv, TypeOK
<1>10. QED BY <1>3, <1>7, <1>8, <1>9 DEF EventsInv, KeepsFiles

LEMMA AppendKeeps ==
  ASSUME EventsInv, AppendEvent
  PROVE  EventsInv'
<1>1. PICK e \in Event : e = Head(batch)
  BY ElementsOfHeadAndTail DEF AppendEvent, EventsInv, TypeOK
<1>2. /\ batch # <<>> /\ batch \in Seq(Event)
      /\ files' = [files EXCEPT ![e.thread] = WriteLine(files[e.thread], e, TRUE)]
      /\ batch' = Tail(batch)
      /\ UNCHANGED <<mode, mirror, next_event, next_thread, crashes, failures>>
      /\ Len(batch) = 1 => /\ persisted' = e.id
                           /\ acked' = acked \cup {f \in ToSet(mirror) : f.id <= e.id}
      /\ Len(batch) # 1 => UNCHANGED <<persisted, acked>>
  BY <1>1 DEF AppendEvent, EventsInv, TypeOK
<1>3. /\ e \in ToSet(batch)
      /\ Tail(batch) \in Seq(Event)
      /\ ToSet(batch) = ToSet(Tail(batch)) \cup {e}
      /\ Tail(batch) # <<>> => Tail(batch)[Len(Tail(batch))] = batch[Len(batch)]
      /\ Len(batch) = 1 <=> Tail(batch) = <<>>
      /\ Len(batch) = 1 => ToSet(batch) = {e} /\ batch[Len(batch)] = e
  BY <1>1, <1>2, ElementsOfHeadAndTail
<1>4. Up /\ ToSet(batch) \subseteq ToSet(mirror)
      /\ \A f \in ToSet(mirror) : f.id <= batch[Len(batch)].id => Written(f) \/ f \in ToSet(batch)
  BY <1>2 DEF EventsInv, CursorKeepsUp
<1>5. PICK t \in Threads : t = e.thread
  BY <1>3 DEF Event
<1>6. KeepsFiles /\ Written(e)'
  <2>1. FileOf(t, files[t])
    BY DEF EventsInv, FilesOfThreads
  <2>2. /\ Continues(t, files[t], WriteLine(files[t], e, TRUE))
        /\ e \in ToSet(WriteLine(files[t], e, TRUE).lines) \/ Spoilt(WriteLine(files[t], e, TRUE))
    BY <1>3, <1>5, <2>1, WriteContinues
  <2>3. KeepsFiles /\ files'[t] = WriteLine(files[t], e, TRUE)
    BY <1>2, <1>5, <2>2, OneFileContinues DEF EventsInv
  <2>4. QED BY <1>5, <2>2, <2>3 DEF Written
<1>7. ToSet(mirror) \subseteq Event /\ acked \subseteq Event
  BY DEF EventsInv, TypeOK, ToSet
<1>8. \A f \in acked \cup ToSet(mirror) : f \in Event /\ (Written(f) => Written(f)')
  BY <1>6, <1>7 DEF KeepsFiles
<1>9. Up' /\ mirror' = mirror
  BY <1>2, <1>4 DEF Up
<1>10. ASSUME Len(batch) = 1, NEW f \in ToSet(mirror), f.id <= e.id
       PROVE  Written(f)'
  BY <1>3, <1>4, <1>6, <1>8, <1>10
<1>11. CursorKeepsUp'
  <2>1. ASSUME NEW f \in acked' PROVE Written(f)'
    <3>1. CASE f \in acked
      BY <1>8, <3>1 DEF EventsInv, CursorKeepsUp
    <3>2. CASE f \notin acked
      BY <1>2, <1>10, <2>1, <3>2
    <3>3. QED BY <3>1, <3>2
  <2>2. ASSUME NEW f \in ToSet(mirror), f.id <= persisted' PROVE Written(f)'
    <3>1. CASE Len(batch) = 1
      BY <1>2, <1>10, <2>2, <3>1
    <3>2. CASE Len(batch) # 1
      BY <1>2, <1>4, <1>8, <2>2, <3>2 DEF EventsInv, CursorKeepsUp
    <3>3. QED BY <3>1, <3>2
  <2>3. ASSUME Tail(batch) # <<>>
        PROVE  /\ ToSet(Tail(batch)) \subseteq ToSet(mirror)
               /\ \A f \in ToSet(mirror) : f.id <= Tail(batch)[Len(Tail(batch))].id =>
                    Written(f)' \/ f \in ToSet(Tail(batch))
    BY <1>3, <1>4, <1>6, <1>8, <2>3
  <2>4. QED BY <1>2, <1>9, <2>1, <2>2, <2>3 DEF CursorKeepsUp
<1>12. e \in ToSet(mirror) /\ e.id <= next_event /\ acked' \subseteq acked \cup ToSet(mirror)
  BY <1>2, <1>3, <1>4 DEF EventsInv, NumbersAreNew
<1>13. NumbersAreNew'
  <2>1. persisted' <= next_event
    BY <1>2, <1>4, <1>12 DEF EventsInv, NumbersAreNew
  <2>2. \A f \in acked' : f.thread <= next_thread
    BY <1>4, <1>12 DEF EventsInv, NumbersAreNew
  <2>3. QED BY <1>2, <1>4, <2>1, <2>2 DEF EventsInv, NumbersAreNew
<1>14. LoadedThreadsAreWhole'
  <2>1. \A f \in acked' : f \in acked \/ f \in ToSet(mirror)
    BY <1>12
  <2>2. QED BY <1>2, <2>1 DEF EventsInv, LoadedThreadsAreWhole, Known
<1>15. TypeOK'
  <2>1. files' \in [Threads -> File]
    BY <1>6 DEF KeepsFiles, FilesOfThreads
  <2>2. persisted' \in 0..MaxEvents
    <3>1. e.id \in 1..MaxEvents
      BY <1>3 DEF Event
    <3>2. QED BY <1>2, <3>1, EventLogAssumption DEF EventsInv, TypeOK
  <2>3. acked' \subseteq Event
    BY <1>7, <1>12
  <2>4. QED BY <1>2, <1>3, <2>1, <2>2, <2>3 DEF EventsInv, TypeOK
<1>16. QED BY <1>6, <1>11, <1>13, <1>14, <1>15 DEF EventsInv, KeepsFiles

\* A batch is given up: the cursor stays, and what is written stays written.
LEMMA GivingUpKeeps ==
  ASSUME EventsInv, KeepsFiles, batch' = <<>>,
         mode' = mode \/ mode' = "inMemory" \/ mode' = "down",
         UNCHANGED <<mirror, next_event, next_thread, persisted, acked>>,
         crashes' \in 0..MaxCrashes, failures' \in 0..MaxFailures
  PROVE  EventsInv'
<1>1. ToSet(mirror) \subseteq Event /\ acked \subseteq Event
  BY DEF EventsInv, TypeOK, ToSet
<1>2. \A f \in acked \cup ToSet(mirror) : f \in Event /\ (Written(f) => Written(f)')
  BY <1>1 DEF KeepsFiles
<1>3. Up' => Up
  BY DEF Up
<1>4. CursorKeepsUp'
  BY <1>2, <1>3 DEF EventsInv, CursorKeepsUp
<1>5. NumbersAreNew'
  BY <1>3 DEF EventsInv, NumbersAreNew
<1>6. LoadedThreadsAreWhole'
  BY <1>3 DEF EventsInv, LoadedThreadsAreWhole, Up, Known
<1>7. TypeOK'
  <2>1. batch' \in Seq(Event) /\ mode' \in {"starting", "serving", "inMemory", "down"}
    BY DEF EventsInv, TypeOK
  <2>2. files' \in [Threads -> File]
    BY DEF KeepsFiles, FilesOfThreads
  <2>3. QED BY <2>1, <2>2 DEF EventsInv, TypeOK
<1>8. QED BY <1>4, <1>5, <1>6, <1>7 DEF EventsInv, KeepsFiles

\* An append that does not finish continues the file it was for.
LEMMA HalfAppendKeeps ==
  ASSUME EventsInv, batch # <<>>,
         NEW left \in Leftovers(files[Head(batch).thread], Head(batch))
                        \cup {WriteLine(files[Head(batch).thread], NotText, FALSE)},
         files' = [files EXCEPT ![Head(batch).thread] = left]
  PROVE  KeepsFiles
<1>1. PICK e \in Event : e = Head(batch)
  BY ElementsOfHeadAndTail DEF EventsInv, TypeOK
<1>2. e.thread \in Threads
  BY DEF Event
<1>3. FileOf(e.thread, files[e.thread])
  BY <1>2 DEF EventsInv, FilesOfThreads
<1>4. Continues(e.thread, files[e.thread], left)
  BY <1>1, <1>3, LeftoversContinue
<1>5. QED BY <1>1, <1>2, <1>4, OneFileContinues DEF EventsInv

LEMMA FailKeeps ==
  ASSUME EventsInv, FailAppend
  PROVE  EventsInv'
<1>1. KeepsFiles
  BY HalfAppendKeeps DEF FailAppend
<1>2. failures' \in 0..MaxFailures
  BY EventLogAssumption DEF FailAppend, EventsInv, TypeOK
<1>3. mode' = mode \/ mode' = "inMemory"
  BY DEF FailAppend
<1>4. QED BY <1>1, <1>2, <1>3, GivingUpKeeps DEF FailAppend, EventsInv, TypeOK

LEMMA CrashKeeps ==
  ASSUME EventsInv, Crash
  PROVE  EventsInv'
<1>1. KeepsFiles
  <2>1. CASE batch = <<>>
    BY <2>1, SameFilesKeep DEF Crash, EventsInv
  <2>2. CASE batch # <<>>
    BY <2>2, HalfAppendKeeps DEF Crash
  <2>3. QED BY <2>1, <2>2
<1>2. crashes' \in 0..MaxCrashes
  BY EventLogAssumption DEF Crash, EventsInv, TypeOK
<1>3. QED BY <1>1, <1>2, GivingUpKeeps DEF Crash, EventsInv, TypeOK

LEMMA RestartKeeps ==
  ASSUME EventsInv, Restart
  PROVE  EventsInv'
<1>1. UNCHANGED <<files, batch, acked, crashes, failures>> /\ mode = "down"
  BY DEF Restart
<1>2. KeepsFiles
  BY <1>1, SameFilesKeep DEF EventsInv
<1>3. batch = <<>>
  BY <1>1 DEF EventsInv, CursorKeepsUp, Up
<1>4. CASE mode' = "inMemory" /\ UNCHANGED <<mirror, next_event, next_thread, persisted>>
  BY <1>1, <1>2, <1>3, <1>4, GivingUpKeeps DEF EventsInv, TypeOK
<1>5. CASE /\ mode' = "starting"
           /\ mirror' = ListAllEvents
           /\ next_event' = MaxId(ListAllEvents)
           /\ persisted' = MaxId(ListAllEvents)
           /\ next_thread' = ThreadCounterHint
  <2>1. /\ mirror' \in Seq(Event)
        /\ \A e : e \in ToSet(mirror') <=>
                    \E t \in Threads : e \in ToSet(files[t].lines) /\ ~Spoilt(files[t])
    BY <1>5, ListGathers DEF EventsInv
  <2>2. /\ next_event' \in 0..MaxEvents /\ persisted' = next_event'
        /\ \A e \in ToSet(mirror') : e.id <= next_event'
    BY <1>5, <2>1, MaxIdIsHighest
  <2>3. /\ next_thread' \in 0..MaxThreads
        /\ \A t \in Threads : files[t].there => t <= next_thread'
    BY <1>5, HintIsAbove
  <2>4. \A e \in acked : e \in Event /\ e.thread \in Threads /\ Written(e) /\ Written(e)'
    <3>1. \A e \in acked : e \in Event /\ Written(e)
      BY DEF EventsInv, TypeOK, CursorKeepsUp
    <3>2. QED BY <1>2, <3>1 DEF KeepsFiles, Event
  <2>5. ASSUME NEW t \in Threads, NEW i \in 1..Len(files[t].lines)
        PROVE  /\ t <= next_thread'
               /\ ~Spoilt(files[t]) => files[t].lines[i].thread = t
    <3>1. FileOf(t, files[t])
      BY DEF EventsInv, FilesOfThreads
    <3>2. files[t].there
      BY <3>1 DEF FileOf, File
    <3>3. ~Spoilt(files[t]) => files[t].lines[i].thread = t
      BY <3>1 DEF FileOf, Spoilt
    <3>4. QED BY <2>3, <3>2, <3>3
  <2>6. ASSUME NEW t \in Threads, NEW e \in ToSet(files[t].lines)
        PROVE  /\ t <= next_thread'
               /\ ~Spoilt(files[t]) => e.thread = t
    <3>1. files[t].lines \in Seq(Event \cup Corrupt)
      BY DEF EventsInv, TypeOK, File
    <3>2. PICK i \in 1..Len(files[t].lines) : e = files[t].lines[i]
      BY <3>1 DEF ToSet
    <3>3. QED BY <2>5, <3>2
  <2>7. ASSUME NEW e \in ToSet(mirror')
        PROVE  /\ e.thread \in Threads /\ e.thread <= next_thread'
               /\ e \in ToSet(files[e.thread].lines) /\ ~Spoilt(files[e.thread])
    <3>1. PICK t \in Threads : e \in ToSet(files[t].lines) /\ ~Spoilt(files[t])
      BY <2>1
    <3>2. e.thread = t /\ t <= next_thread'
      BY <2>6, <3>1
    <3>3. QED BY <3>1, <3>2
  <2>8. \A e \in acked : e.thread <= next_thread'
    <3>1. ASSUME NEW e \in acked PROVE e.thread <= next_thread'
      <4>1. CASE e \in ToSet(files[e.thread].lines)
        BY <2>4, <2>6, <4>1
      <4>2. CASE Spoilt(files[e.thread])
        BY <2>4, <2>5, <4>2 DEF Spoilt
      <4>3. QED BY <2>4, <4>1, <4>2 DEF Written
    <3>2. QED BY <3>1
  <2>9. LoadedThreadsAreWhole'
    <3>1. ASSUME NEW e \in acked, e.thread \in Known(mirror') PROVE e \in ToSet(mirror')
      <4>1. PICK f \in ToSet(mirror') : f.thread = e.thread
        BY <3>1 DEF Known
      <4>2. ~Spoilt(files[e.thread])
        BY <2>7, <4>1
      <4>3. e \in ToSet(files[e.thread].lines)
        BY <2>4, <4>2 DEF Written
      <4>4. QED BY <2>1, <2>4, <4>2, <4>3
    <3>2. QED BY <1>1, <3>1 DEF LoadedThreadsAreWhole
  <2>10. CursorKeepsUp'
    <3>1. \A e \in ToSet(mirror') : Written(e)'
      BY <1>1, <2>7 DEF Written
    <3>2. \A e \in acked' : Written(e)'
      BY <1>1, <2>4
    <3>3. QED BY <1>1, <1>3, <3>1, <3>2 DEF CursorKeepsUp
  <2>11. NumbersAreNew'
    <3>1. persisted' <= next_event'
      BY <2>2
    <3>2. QED BY <1>1, <2>2, <2>7, <2>8, <3>1 DEF NumbersAreNew
  <2>12. TypeOK'
    BY <1>1, <1>5, <2>1, <2>2, <2>3 DEF EventsInv, TypeOK
  <2>13. QED BY <1>2, <2>9, <2>10, <2>11, <2>12 DEF EventsInv, KeepsFiles
<1>6. QED BY <1>4, <1>5 DEF Restart

LEMMA ServeKeeps ==
  ASSUME EventsInv, Serve
  PROVE  EventsInv'
<1>1. Up /\ Up' /\ mode' = "serving"
      /\ UNCHANGED <<files, mirror, next_event, next_thread, persisted, batch, acked, crashes, failures>>
  BY DEF Serve, Up
<1>2. KeepsFiles
  BY <1>1, SameFilesKeep DEF EventsInv
<1>3. CursorKeepsUp' /\ NumbersAreNew' /\ LoadedThreadsAreWhole' /\ TypeOK'
  BY <1>1 DEF EventsInv, CursorKeepsUp, NumbersAreNew, LoadedThreadsAreWhole, Known, Up, TypeOK, Written
<1>4. QED BY <1>2, <1>3 DEF EventsInv, KeepsFiles

LEMMA EventsStepKeeps == EventsInv /\ [Next]_vars => EventsInv'
<1> SUFFICES ASSUME EventsInv, [Next]_vars PROVE EventsInv'
  OBVIOUS
<1>1. CASE UNCHANGED vars
  <2>1. KeepsFiles
    BY <1>1, SameFilesKeep DEF EventsInv, vars
  <2>2. CursorKeepsUp' /\ NumbersAreNew' /\ LoadedThreadsAreWhole' /\ TypeOK'
    BY <1>1 DEF EventsInv, CursorKeepsUp, NumbersAreNew, LoadedThreadsAreWhole, Known, Up, TypeOK,
                Written, vars
  <2>3. QED BY <2>1, <2>2 DEF EventsInv, KeepsFiles
<1>2. QED
  BY <1>1, StartThreadKeeps, EmitEventKeeps, PersistKeeps, AppendKeeps, FailKeeps, CrashKeeps,
     RestartKeeps, ServeKeeps DEF Next

LEMMA EventsInvariant == Spec => []EventsInv
BY EventsStart, EventsStepKeeps, PTL DEF Spec

\* The event files, the cursor and the numbers given keep their types, whatever
\* fails and however often the process dies.
THEOREM EventLogTypeCorrect == Spec => []TypeOK
<1>1. EventsInv => TypeOK
  BY DEF EventsInv
<1>2. QED BY <1>1, EventsInvariant, PTL

\* A thread that is loaded has every event of it that a request was answered for:
\* a failed or torn append costs a thread as a whole, or nothing that was answered.
THEOREM LoadedThreadsCorrect == Spec => []LoadedThreadsAreWhole
<1>1. EventsInv => LoadedThreadsAreWhole
  BY DEF EventsInv
<1>2. QED BY <1>1, EventsInvariant, PTL
=============================================================================
