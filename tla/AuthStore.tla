----------------------------- MODULE AuthStore ------------------------------
(***************************************************************************)
(* The credential file auth.json, which every process of the user shares:  *)
(* servers refresh the Codex token in it (read_or_refresh_codex_auth) and  *)
(* the Copilot one (read_or_refresh_github_copilot_auth), and shells log   *)
(* in to both (persist_codex_oauth, persist_github_copilot_oauth).  Each   *)
(* of them reads the whole file,                                           *)
(* changes one credential and writes it all back, under a lock that is a   *)
(* directory; a lock older than 30 s is taken for one of a dead process.   *)
(*                                                                         *)
(* A Codex credential is a refresh token: the n-th of the chain a login    *)
(* began.  The authority gives a new one for each and takes none twice.  A *)
(* Copilot credential keeps the token of its login: a refresh fetches a    *)
(* new access for it.                                                      *)
(***************************************************************************)
EXTENDS Naturals

CONSTANTS
  Procs,          \* the processes
  Free, Dead,     \* the lock belongs to nobody, to a process that died
  Attempts,       \* attempts at the lock (10 in the code)
  MaxLogins,      \* bound: logins to each provider
  MaxRefreshes,   \* bound: refreshes of one chain
  MaxDeaths       \* bound: processes that die

ASSUME AuthAssumption ==
  /\ Free \notin Procs /\ Dead \notin Procs /\ Free # Dead
  /\ Attempts \in Nat \ {0}
  /\ {MaxLogins, MaxRefreshes, MaxDeaths} \subseteq Nat

Chains == 1..MaxLogins
Credential == [chain : Chains, n : 1..(MaxRefreshes + 1)] \cup {[chain |-> 0, n |-> 0]}
NoCredential == [chain |-> 0, n |-> 0]
Data == [codex : Credential, copilot : 0..MaxLogins]
Empty == [codex |-> NoCredential, copilot |-> 0]

VARIABLES
  file,      \* what auth.json holds
  whole,     \* FALSE while it is cut to nothing
  lock,      \* who made the lock directory, and whether it is old by now
  proc,      \* what each process is doing
  newest,    \* authority: the last token of each chain
  expired,   \* credentials whose access has run out
  logins,    \* logins begun with each provider
  saved,     \* history: the last login of each provider that was saved
  reused,    \* history: whether a token was offered that had been used
  mishaps,   \* history: "robbed", "died", "lost", "unsaved"
  deaths     \* how many processes died

authVars == <<file, whole, lock, proc, newest, expired, logins, saved, reused, mishaps, deaths>>
service == <<newest, expired, logins, saved, reused>>

Op == {"refresh", "copilotRefresh", "codexLogin", "copilotLogin"}
Refreshes == {"refresh", "copilotRefresh"}
Place == {"idle", "locking", "checking", "removing", "reading", "refreshing",
          "writing", "filling", "unlocking"}

\* data is what the process read last, hand the credential it has to save.
Proc == [at : Place, op : Op, attempt : 0..(Attempts - 1), data : Data, hand : Data]
IdleProc == [at |-> "idle", op |-> "refresh", attempt |-> 0, data |-> Empty, hand |-> Empty]

AuthTypeOK ==
  /\ file \in Data
  /\ whole \in BOOLEAN
  /\ lock \in [owner : Procs \cup {Free, Dead}, old : BOOLEAN]
  /\ proc \in [Procs -> Proc]
  /\ newest \in [Chains -> 0..(MaxRefreshes + 1)]
  /\ expired \subseteq Credential
  /\ logins \in [codex : 0..MaxLogins, copilot : 0..MaxLogins]
  /\ saved \in [codex : 0..MaxLogins, copilot : 0..MaxLogins]
  /\ reused \in BOOLEAN
  /\ mishaps \subseteq {"robbed", "died", "lost", "unsaved"}
  /\ deaths \in 0..MaxDeaths

NoLock == [owner |-> Free, old |-> FALSE]

AuthInit ==
  /\ file = Empty
  /\ whole = TRUE
  /\ lock = NoLock
  /\ proc = [p \in Procs |-> IdleProc]
  /\ newest = [c \in Chains |-> 0]
  /\ expired = {}
  /\ logins = [codex |-> 0, copilot |-> 0]
  /\ saved = [codex |-> 0, copilot |-> 0]
  /\ reused = FALSE
  /\ mishaps = {}
  /\ deaths = 0

Goes(p, place) == proc' = [proc EXCEPT ![p].at = place]

\* The request is over but for the lock: what it read is of no use any more.
Over(p) == proc' = [proc EXCEPT ![p] = [IdleProc EXCEPT !.at = "unlocking"]]

-----------------------------------------------------------------------------
(* Requests.                                                               *)

NeedsRefresh(data) == data.codex # NoCredential /\ data.codex \in expired

\* The first half of read_or_refresh_codex_auth, without the lock: a fresh
\* credential is returned, one that cannot be read or is not there an error.
UseCodex(p) ==
  /\ proc[p].at = "idle"
  /\ whole
  /\ NeedsRefresh(file)
  /\ proc' = [proc EXCEPT ![p] = [IdleProc EXCEPT !.at = "locking", !.data = file]]
  /\ UNCHANGED <<file, whole, lock, service, mishaps, deaths>>

\* read_or_refresh_github_copilot_auth takes the lock before it looks at all.
UseCopilot(p) ==
  /\ proc[p].at = "idle"
  /\ proc' = [proc EXCEPT ![p] = [IdleProc EXCEPT !.at = "locking", !.op = "copilotRefresh"]]
  /\ UNCHANGED <<file, whole, lock, service, mishaps, deaths>>

\* configure_codex_login: the browser is done and the code was exchanged.
LoginCodex(p) ==
  /\ proc[p].at = "idle"
  /\ logins.codex < MaxLogins
  /\ LET c == logins.codex + 1 IN
       /\ logins' = [logins EXCEPT !.codex = c]
       /\ newest' = [newest EXCEPT ![c] = 1]
       /\ proc' = [proc EXCEPT ![p] =
            [IdleProc EXCEPT !.at = "locking", !.op = "codexLogin",
                             !.hand.codex = [chain |-> c, n |-> 1]]]
  /\ UNCHANGED <<file, whole, lock, expired, saved, reused, mishaps, deaths>>

\* configure_github_copilot_login: the device was authorized.
LoginCopilot(p) ==
  /\ proc[p].at = "idle"
  /\ logins.copilot < MaxLogins
  /\ logins' = [logins EXCEPT !.copilot = @ + 1]
  /\ proc' = [proc EXCEPT ![p] =
       [IdleProc EXCEPT !.at = "locking", !.op = "copilotLogin",
                        !.hand.copilot = logins.copilot + 1]]
  /\ UNCHANGED <<file, whole, lock, newest, expired, saved, reused, mishaps, deaths>>

-----------------------------------------------------------------------------
(* CodexAuthLock.                                                          *)

\* Mutant of TakeLock: create_dir_all, which does not mind an old directory.
TakeLockAnyway(p) ==
  /\ proc[p].at = "locking"
  /\ lock' = [owner |-> p, old |-> FALSE]
  /\ proc' = [proc EXCEPT ![p].at = "reading", ![p].attempt = 0]
  /\ UNCHANGED <<file, whole, service, mishaps, deaths>>

TakeLock(p) ==
  /\ proc[p].at = "locking"
  /\ lock.owner = Free
  /\ lock' = [owner |-> p, old |-> FALSE]
  /\ proc' = [proc EXCEPT ![p].at = "reading", ![p].attempt = 0]
  /\ UNCHANGED <<file, whole, service, mishaps, deaths>>

FindLockTaken(p) ==
  /\ proc[p].at = "locking"
  /\ lock.owner # Free
  /\ Goes(p, "checking")
  /\ UNCHANGED <<file, whole, lock, service, mishaps, deaths>>

\* After the last attempt the request fails.
NextAttempt(p) ==
  IF proc[p].attempt + 1 < Attempts
  THEN proc' = [proc EXCEPT ![p].at = "locking", ![p].attempt = @ + 1]
  ELSE proc' = [proc EXCEPT ![p] = IdleProc]

\* A lock that is gone by now counts as a young one.
CheckLock(p) ==
  /\ proc[p].at = "checking"
  /\ IF lock.old THEN Goes(p, "removing") ELSE NextAttempt(p)
  /\ UNCHANGED <<file, whole, lock, service, mishaps, deaths>>

Robbed(p) == IF lock.owner \in Procs \ {p} THEN {"robbed"} ELSE {}

\* Whatever lock is there now is removed, the one that was looked at or not.
RemoveLock(p) ==
  /\ proc[p].at = "removing"
  /\ lock' = NoLock
  /\ mishaps' = mishaps \cup Robbed(p)
  /\ NextAttempt(p)
  /\ UNCHANGED <<file, whole, service, deaths>>

\* Drop: so it is when the lock is no longer one's own.
Unlock(p) ==
  /\ proc[p].at = "unlocking"
  /\ lock' = NoLock
  /\ mishaps' = mishaps \cup Robbed(p)
  /\ proc' = [proc EXCEPT ![p] = IdleProc]
  /\ UNCHANGED <<file, whole, service, deaths>>

-----------------------------------------------------------------------------
(* What is done under the lock.                                            *)

\* Mutant of ReadAgain: the credential read before the lock is used.
ReadOnlyOnce(p) ==
  /\ proc[p].at = "reading"
  /\ proc' = [proc EXCEPT ![p].data = IF proc[p].op = "refresh" THEN @ ELSE file,
                          ![p].at = IF proc[p].op \in Refreshes THEN "refreshing" ELSE "writing"]
  /\ UNCHANGED <<file, whole, lock, service, mishaps, deaths>>

\* What is read calls for no write: it cannot be read, or another process has
\* refreshed meanwhile, or there is no Copilot credential, or a fresh one.
NothingToWrite(p) ==
  \/ ~whole
  \/ proc[p].op = "refresh" /\ ~NeedsRefresh(file)
  \/ proc[p].op = "copilotRefresh"

ReadAgain(p) ==
  /\ proc[p].at = "reading"
  /\ \/ NothingToWrite(p) /\ Over(p)
     \/ /\ whole
        /\ proc[p].op = "refresh" => NeedsRefresh(file)
        /\ proc[p].op = "copilotRefresh" => file.copilot > 0
        /\ proc' = [proc EXCEPT
             ![p].data = file,
             ![p].at = IF proc[p].op \in Refreshes THEN "refreshing" ELSE "writing"]
  /\ UNCHANGED <<file, whole, lock, service, mishaps, deaths>>

\* The request to the authority fails, or the answer to it does.
RefreshFails(p) ==
  /\ proc[p].at = "refreshing" /\ proc[p].op = "refresh"
  /\ Over(p)
  /\ LET used == proc[p].data.codex IN
       \/ UNCHANGED <<newest, mishaps>>
       \/ /\ used.n = newest[used.chain]
          /\ newest' = [newest EXCEPT ![used.chain] = @ + 1]
          /\ mishaps' = mishaps \cup {"lost"}
  /\ UNCHANGED <<file, whole, lock, expired, logins, saved, reused, deaths>>

RefreshCodex(p) ==
  /\ proc[p].at = "refreshing" /\ proc[p].op = "refresh"
  /\ LET used == proc[p].data.codex IN
       IF used.n = newest[used.chain]
       THEN /\ newest' = [newest EXCEPT ![used.chain] = @ + 1]
            /\ proc' = [proc EXCEPT ![p].at = "writing",
                 ![p].hand.codex = [used EXCEPT !.n = @ + 1]]
            /\ UNCHANGED reused
       ELSE /\ Over(p)
            /\ reused' = TRUE
            /\ UNCHANGED newest
  /\ UNCHANGED <<file, whole, lock, expired, logins, saved, mishaps, deaths>>

\* A new access for the token the credential has and keeps, or a failure.
RefreshCopilot(p) ==
  /\ proc[p].at = "refreshing" /\ proc[p].op = "copilotRefresh"
  /\ \/ proc' = [proc EXCEPT ![p].at = "writing", ![p].hand.copilot = proc[p].data.copilot]
     \/ Over(p)
  /\ UNCHANGED <<file, whole, lock, service, mishaps, deaths>>

\* fs::write opens the file, which empties it, and then fills it.
TruncateFile(p) ==
  /\ proc[p].at = "writing"
  /\ whole' = FALSE
  /\ Goes(p, "filling")
  /\ UNCHANGED <<file, lock, service, mishaps, deaths>>

\* The credential of the request replaces its like; the others are kept.
NewData(p) ==
  IF proc[p].op \in {"copilotLogin", "copilotRefresh"}
  THEN [proc[p].data EXCEPT !.copilot = proc[p].hand.copilot]
  ELSE [proc[p].data EXCEPT !.codex = proc[p].hand.codex]

FillFile(p) ==
  /\ proc[p].at = "filling"
  /\ file' = NewData(p)
  /\ whole' = TRUE
  /\ Over(p)
  /\ saved' = CASE proc[p].op = "codexLogin" -> [saved EXCEPT !.codex = proc[p].hand.codex.chain]
                [] proc[p].op = "copilotLogin" -> [saved EXCEPT !.copilot = proc[p].hand.copilot]
                [] OTHER -> saved
  /\ UNCHANGED <<lock, newest, expired, logins, reused, mishaps, deaths>>

\* An error of the file system ends the request.  Before the file is opened it
\* stays as it is, in the middle of the write it stays cut; a token the authority
\* has given by then is not saved.
DiskFails(p) ==
  /\ proc[p].at \in {"locking", "reading", "writing", "filling"}
  /\ IF proc[p].at = "locking" THEN proc' = [proc EXCEPT ![p] = IdleProc] ELSE Over(p)
  /\ mishaps' = IF proc[p].at \in {"writing", "filling"} /\ proc[p].op = "refresh"
                THEN mishaps \cup {"unsaved"} ELSE mishaps
  /\ UNCHANGED <<file, whole, lock, service, deaths>>

-----------------------------------------------------------------------------
(* Time and death.                                                         *)

\* A refresh may wait 120 s for its answer, and any process may be suspended:
\* a lock can grow old under a living holder.
AgeLock ==
  /\ lock.owner # Free
  /\ ~lock.old
  /\ lock' = [lock EXCEPT !.old = TRUE]
  /\ UNCHANGED <<file, whole, proc, service, mishaps, deaths>>

ExpireCodex ==
  /\ file.codex \notin expired \cup {NoCredential}
  /\ file.codex.n <= MaxRefreshes
  /\ expired' = expired \cup {file.codex}
  /\ UNCHANGED <<file, whole, lock, proc, newest, logins, saved, reused, mishaps, deaths>>

\* The lock stays; another process takes the place of the dead one.
Die(p) ==
  /\ proc[p].at # "idle"
  /\ deaths < MaxDeaths
  /\ deaths' = deaths + 1
  /\ mishaps' = mishaps \cup {"died"}
  /\ lock' = IF lock.owner = p THEN [lock EXCEPT !.owner = Dead] ELSE lock
  /\ proc' = [proc EXCEPT ![p] = IdleProc]
  /\ UNCHANGED <<file, whole, service>>

Step(p) ==
  \/ UseCodex(p) \/ UseCopilot(p) \/ LoginCodex(p) \/ LoginCopilot(p)
  \/ TakeLock(p) \/ FindLockTaken(p) \/ CheckLock(p) \/ RemoveLock(p) \/ Unlock(p)
  \/ ReadAgain(p) \/ RefreshFails(p) \/ RefreshCodex(p) \/ RefreshCopilot(p)
  \/ TruncateFile(p) \/ FillFile(p) \/ DiskFails(p)
  \/ Die(p)

AuthNext == (\E p \in Procs : Step(p)) \/ AgeLock \/ ExpireCodex

AuthSpec == AuthInit /\ [][AuthNext]_authVars

-----------------------------------------------------------------------------
(* Properties.  A lock taken from under a living process ("robbed") ends   *)
(* what the lock is for; deaths and failing writes alone do not.           *)

\* A login that was saved stays on file until a later one with the same
\* provider, whatever was refreshed or logged in at the same time and whoever
\* died holding the lock: no write puts back what another one had replaced.
LoginsSurvive ==
  "robbed" \notin mishaps /\ whole =>
    file.codex.chain = saved.codex /\ file.copilot = saved.copilot

\* No refresh token is offered to the authority twice, though several
\* processes find the same one expired.  Four mishaps are excepted, after each of
\* which the file may go on holding a token that was used: a lock taken from its
\* living holder, a death between the answer of the authority and the write, an
\* answer that is lost ("lost") and a write that fails ("unsaved").
NoTokenOfferedTwice == mishaps = {} => ~reused
=============================================================================
