--------------------------- MODULE TokenRotation ---------------------------
(***************************************************************************)
(* Access and refresh tokens of an agent: their rotation and revocation on *)
(* the server (apps/web/lib/repositories/auth), the CLI's processes, which *)
(* share them through .spctre/config.json (packages/cli), and the MCP      *)
(* server, whose tool calls share them in memory (packages/mcp-server).    *)
(*                                                                         *)
(* A pair is one row of service_token and the row of service_refresh_token *)
(* that refers to it; pair 1 is the one the CLI was set up with, pair Env  *)
(* the one in the MCP server's environment.  A call is a request as the    *)
(* server sees it: its transaction goes on when the client has given up.   *)
(***************************************************************************)
EXTENDS Naturals

CONSTANTS
  Hooks,        \* CLI processes: hooks and commands, each runs once
  Callers,      \* tool calls of the MCP server
  Calls,        \* bound: requests the server works on at a time
  MaxPairs,     \* bound: pairs ever issued
  MaxAttempts,  \* REFRESH_MAX_ATTEMPTS
  None

Env == 2

ASSUME TokenAssumption ==
  /\ MaxPairs \in Nat /\ MaxPairs >= Env
  /\ MaxAttempts \in Nat \ {0}
  /\ None \notin Nat \cup Calls

VARIABLES
  issued,     \* pairs issued so far: 1..issued
  age,        \* of the access token: expires_at is far, within minutes, past
  access,     \* service_token.revoked_at
  refresh,    \* expires_at, rotated_at and revoked_at of service_refresh_token
  parent,     \* the pair this one was rotated from
  call,       \* the requests at the server
  file,       \* the pair in config.json
  hook,       \* the CLI's processes
  held,       \* the pair in the MCP server's memory
  flight,     \* refreshPromise
  caller,     \* the MCP server's tool calls
  forgotten   \* history: pairs whose successor was lost on its way

server == <<issued, age, access, refresh, parent>>
cli == <<file, hook>>
mcp == <<held, flight, caller>>
vars == <<server, call, cli, mcp, forgotten>>

Pairs == 1..MaxPairs
Working == {"ROTATE", "REVOKE_OLD", "AUTHENTICATE", "REVOKE_ACCESS", "REVOKE_REFRESH"}
Call == [pc: Working \cup {"FREE", "OK", "REFUSED", "FAILED"},
         pair: Pairs \cup {None}]
Hook == [pc: {"IDLE", "REFRESH", "REREAD", "WRITE", "USE", "PERSIST", "REVOKE", "REVOKED", "END"},
         pair: Pairs \cup {None}, call: Calls \cup {None}]
Flight == [call: Calls \cup {None}, attempt: 0..MaxAttempts]
Caller == [pc: {"IDLE", "CALL", "WAIT", "RETRY", "END"},
           pair: Pairs \cup {None}]

Free == [pc |-> "FREE", pair |-> None]
NoHook == [pc |-> "IDLE", pair |-> None, call |-> None]
NoFlight == [call |-> None, attempt |-> 0]
NoCaller == [pc |-> "IDLE", pair |-> None]

Init ==
  /\ issued = Env
  /\ age = [n \in Pairs |-> "FRESH"]
  /\ access = [n \in Pairs |-> IF n <= Env THEN "LIVE" ELSE None]
  /\ refresh = [n \in Pairs |-> IF n <= Env THEN "LIVE" ELSE None]
  /\ parent = [n \in Pairs |-> None]
  /\ call = [c \in Calls |-> Free]
  /\ file = 1
  /\ hook = [h \in Hooks |-> NoHook]
  /\ held = Env
  /\ flight = NoFlight
  /\ caller = [t \in Callers |-> NoCaller]
  /\ forgotten = {}

-----------------------------------------------------------------------------
(* The server.  A step that has to wait for a row lock takes it when it    *)
(* gets it; the last step of a transaction is its commit.                  *)

Heard(c) == flight.call = c \/ \E h \in Hooks: hook[h].call = c

\* The pair an answer carries: the new one of a rotation.
Answer(c, result, n) ==
  call' = [call EXCEPT ![c] = IF Heard(c) THEN [pc |-> result, pair |-> n] ELSE Free]
Step(c, pc) == call' = [call EXCEPT ![c].pc = pc]

\* Mutant: the refresh token is read without FOR UPDATE.
NeverLocked(n) == n \notin Pairs

RefreshLocked(n) == \E c \in Calls: call[c] = [pc |-> "REVOKE_OLD", pair |-> n]
AccessLocked(n) ==
  access[n] = "LIVE" /\ \E c \in Calls: call[c] = [pc |-> "REVOKE_REFRESH", pair |-> n]

\* Time passes: an access token nears its end and expires, after an hour, so
\* after the one it replaced; a refresh token expires after three months.
Age(n) ==
  /\ n <= issued /\ age[n] # "EXPIRED"
  /\ parent[n] # None => age[parent[n]] # "FRESH" /\ (age[n] = "ENDING" => age[parent[n]] = "EXPIRED")
  /\ age' = [age EXCEPT ![n] = IF @ = "FRESH" THEN "ENDING" ELSE "EXPIRED"]
  /\ UNCHANGED <<issued, access, refresh, parent, call, cli, mcp, forgotten>>

RefreshExpires(n) ==
  /\ refresh[n] = "LIVE" /\ age[n] = "EXPIRED"
  /\ refresh' = [refresh EXCEPT ![n] = "EXPIRED"]
  /\ UNCHANGED <<issued, age, access, parent, call, cli, mcp, forgotten>>

\* authenticateServiceToken: not revoked, not expired.
Valid(n) == access[n] = "LIVE" /\ age[n] # "EXPIRED"

\* SELECT .. FOR UPDATE OF rt: waits for the row, then sees it as committed.
RotateRead(c) ==
  /\ call[c].pc = "ROTATE" /\ ~RefreshLocked(call[c].pair)
  /\ IF refresh[call[c].pair] = "LIVE" THEN Step(c, "REVOKE_OLD")
     ELSE Answer(c, "REFUSED", None)
  /\ UNCHANGED <<server, cli, mcp, forgotten>>

\* The old access token is revoked, a pair issued, the old refresh token
\* marked as rotated, if it is still neither rotated nor revoked.
RotateCommit(c) ==
  LET n == call[c].pair IN
  /\ call[c].pc = "REVOKE_OLD" /\ ~AccessLocked(n)
  /\ issued < MaxPairs
  /\ issued' = issued + 1
  /\ access' = [access EXCEPT ![n] = "REVOKED", ![issued + 1] = "LIVE"]
  /\ refresh' = [refresh EXCEPT ![issued + 1] = "LIVE",
                                ![n] = IF @ = "REVOKED" THEN @ ELSE "ROTATED"]
  /\ parent' = [parent EXCEPT ![issued + 1] = n]
  /\ Answer(c, "OK", issued + 1)
  /\ UNCHANGED <<age, cli, mcp, forgotten>>

Authenticate(c) ==
  /\ call[c].pc = "AUTHENTICATE"
  /\ IF Valid(call[c].pair) THEN Step(c, "REVOKE_ACCESS")
     ELSE Answer(c, "REFUSED", None)
  /\ UNCHANGED <<server, cli, mcp, forgotten>>

\* UPDATE service_token .. WHERE revoked_at IS NULL: a row another call
\* revoked meanwhile is left alone, and not locked.
RevokeAccess(c) ==
  /\ call[c].pc = "REVOKE_ACCESS" /\ ~AccessLocked(call[c].pair)
  /\ Step(c, "REVOKE_REFRESH")
  /\ UNCHANGED <<server, cli, mcp, forgotten>>

\* Mutant: the revocation does not look whether the token was rotated.
RevokeCommitBlindly(c) ==
  LET n == call[c].pair IN
  /\ call[c].pc = "REVOKE_REFRESH" /\ ~RefreshLocked(n)
  /\ access' = [access EXCEPT ![n] = "REVOKED"]
  /\ refresh' = [refresh EXCEPT ![n] = "REVOKED"]
  /\ Answer(c, "OK", n)
  /\ UNCHANGED <<issued, age, parent, cli, mcp, forgotten>>

\* UPDATE service_refresh_token .. WHERE revoked_at and rotated_at are null.
RevokeCommit(c) ==
  LET n == call[c].pair IN
  /\ call[c].pc = "REVOKE_REFRESH" /\ ~RefreshLocked(n)
  /\ access' = [access EXCEPT ![n] = "REVOKED"]
  /\ refresh' = [refresh EXCEPT ![n] = IF @ = "ROTATED" THEN @ ELSE "REVOKED"]
  /\ Answer(c, "OK", n)
  /\ UNCHANGED <<issued, age, parent, cli, mcp, forgotten>>

\* The transaction rolls back: a failed statement, a lost process, or two
\* calls that hold one row of a pair each and wait for the other.
CallFails(c) ==
  /\ call[c].pc \in Working
  /\ Answer(c, "FAILED", None)
  /\ UNCHANGED <<server, cli, mcp, forgotten>>

-----------------------------------------------------------------------------
(* The CLI: a process reads config.json, refreshes when its token is about *)
(* to expire, writes the file, and uses what it got.                       *)

Send(c, kind, n) == call[c] = Free /\ call' = [call EXCEPT ![c] = [pc |-> kind, pair |-> n]]
HookAt(h, pc, n) == hook' = [hook EXCEPT ![h] = [pc |-> pc, pair |-> n, call |-> None]]
HookEnds(h, pc) == hook' = [hook EXCEPT ![h] = [NoHook EXCEPT !.pc = pc]]
HookSends(h, pc, c) == hook' = [hook EXCEPT ![h] = [pc |-> pc, pair |-> file, call |-> c]]

HookStarts(h) ==
  /\ hook[h].pc = "IDLE" /\ file # None
  /\ \/ /\ age[file] = "FRESH"
        /\ HookAt(h, "USE", file)
        /\ UNCHANGED call
     \/ /\ age[file] # "FRESH"
        /\ \E c \in Calls: Send(c, "ROTATE", file) /\ HookSends(h, "REFRESH", c)
  /\ UNCHANGED <<server, file, mcp, forgotten>>

RevokeStarts(h) ==
  /\ hook[h].pc = "IDLE" /\ file # None
  /\ \E c \in Calls: Send(c, "AUTHENTICATE", file) /\ HookSends(h, "REVOKE", c)
  /\ UNCHANGED <<server, file, mcp, forgotten>>

\* Refused or failed: a token that has not expired is used all the same.
WithoutRefresh(h) ==
  IF age[hook[h].pair] = "EXPIRED" THEN HookEnds(h, "END") ELSE HookAt(h, "USE", hook[h].pair)

RefreshAnswered(h) ==
  LET answer == call[hook[h].call] IN
  /\ hook[h].pc = "REFRESH" /\ answer.pc \in {"OK", "REFUSED", "FAILED"}
  /\ IF answer.pc = "OK" THEN HookAt(h, "REREAD", answer.pair) ELSE WithoutRefresh(h)
  /\ call' = [call EXCEPT ![hook[h].call] = Free]
  /\ UNCHANGED <<server, file, mcp, forgotten>>

Drop(c) == call' = [call EXCEPT ![c] = IF @.pc \in Working THEN @ ELSE Free]

\* The network fails or ten seconds pass, whatever the server did or will do.
RefreshTimesOut(h) ==
  /\ hook[h].pc = "REFRESH"
  /\ WithoutRefresh(h)
  /\ Drop(hook[h].call)
  /\ forgotten' = forgotten \cup {hook[h].pair}
  /\ UNCHANGED <<server, file, mcp>>

\* The file is read again before it is written: one that is gone stays gone.
RereadConfig(h) ==
  /\ hook[h].pc = "REREAD"
  /\ HookAt(h, IF file = None THEN "USE" ELSE "WRITE", hook[h].pair)
  /\ UNCHANGED <<server, call, file, mcp, forgotten>>

\* Mutant: the file's own tokens win over the new ones.
WriteConfigMerged(h) ==
  /\ hook[h].pc = "WRITE"
  /\ file' = IF file = None THEN hook[h].pair ELSE file
  /\ HookAt(h, "USE", hook[h].pair)
  /\ UNCHANGED <<server, call, mcp, forgotten>>

WriteConfig(h) ==
  /\ hook[h].pc = "WRITE"
  /\ file' = hook[h].pair
  /\ HookAt(h, "USE", hook[h].pair)
  /\ UNCHANGED <<server, call, mcp, forgotten>>

\* The write is best effort; and a process may die at any point.
HookFails(h) ==
  /\ hook[h].pc \notin {"IDLE", "USE", "REVOKED", "END"}
  /\ \/ hook[h].pc = "WRITE" /\ HookAt(h, "USE", hook[h].pair)
     \/ HookEnds(h, "END")
  /\ IF hook[h].call = None THEN UNCHANGED call ELSE Drop(hook[h].call)
  /\ forgotten' = forgotten \cup
       {n \in Pairs: \/ (hook[h].pc = "REFRESH" /\ n = hook[h].pair)
                    \/ (hook[h].pc \in {"REREAD", "WRITE"} /\ n = parent[hook[h].pair])}
  /\ UNCHANGED <<server, file, mcp>>

\* A sync reads the file and writes all of it back with the new artifact's
\* hash: tokens another process wrote in between are overwritten.
PersistRead(h) ==
  /\ hook[h].pc = "USE" /\ file # None
  /\ HookAt(h, "PERSIST", file)
  /\ UNCHANGED <<server, call, file, mcp, forgotten>>

PersistWrite(h) ==
  /\ hook[h].pc = "PERSIST"
  /\ file' = hook[h].pair
  /\ HookEnds(h, "END")
  /\ forgotten' = forgotten \cup {n \in {hook[h].pair}: n # file}
  /\ UNCHANGED <<server, call, mcp>>

\* Whatever the server answers, or fails to, the file goes.
RevokeEnds(h) ==
  LET c == hook[h].call IN
  /\ hook[h].pc = "REVOKE"
  /\ file' = None
  /\ HookEnds(h, IF call[c].pc = "OK" THEN "REVOKED" ELSE "END")
  /\ Drop(c)
  /\ UNCHANGED <<server, mcp, forgotten>>

HookStep(h) ==
  \/ HookStarts(h) \/ RevokeStarts(h)
  \/ RefreshAnswered(h) \/ RefreshTimesOut(h)
  \/ RereadConfig(h) \/ WriteConfig(h) \/ HookFails(h)
  \/ PersistRead(h) \/ PersistWrite(h) \/ RevokeEnds(h)

-----------------------------------------------------------------------------
(* The MCP server: one refresh at a time, shared by the tool calls.        *)

CallerAt(t, pc, n) == caller' = [caller EXCEPT ![t] = [pc |-> pc, pair |-> n]]

\* Mutant: every tool call refreshes on its own.
JoinAlone(t, n) ==
  /\ CallerAt(t, "WAIT", n)
  /\ \E c \in Calls: Send(c, "ROTATE", held) /\ flight' = [call |-> c, attempt |-> 1]

\* refreshPromise: the first starts the refresh, the others wait for it.
Join(t, n) ==
  /\ CallerAt(t, "WAIT", n)
  /\ IF flight = NoFlight
     THEN \E c \in Calls: Send(c, "ROTATE", held) /\ flight' = [call |-> c, attempt |-> 1]
     ELSE UNCHANGED <<call, flight>>

\* The expiry of the pair from the environment is not known.
CallerStarts(t) ==
  /\ caller[t].pc = "IDLE"
  /\ \/ /\ held = Env \/ age[held] # "EXPIRED"
        /\ CallerAt(t, "CALL", held)
        /\ UNCHANGED <<call, flight>>
     \/ /\ held # Env /\ age[held] # "FRESH"
        /\ Join(t, None)
  /\ UNCHANGED <<server, cli, held, forgotten>>

\* A 401 is answered by one refresh and one repeat.
CallerAnswered(t) ==
  /\ caller[t].pc \in {"CALL", "RETRY"}
  /\ IF ~Valid(caller[t].pair) /\ caller[t].pc = "CALL"
     THEN Join(t, caller[t].pair)
     ELSE CallerAt(t, "END", None) /\ UNCHANGED <<call, flight>>
  /\ UNCHANGED <<server, cli, held, forgotten>>

\* The promise settles: every tool call that waits for it goes on.
Settle(resumed) ==
  caller' = [t \in Callers |-> IF caller[t].pc = "WAIT" THEN resumed[t] ELSE caller[t]]
AllFailed == [t \in Callers |-> [pc |-> "END", pair |-> None]]

FlightLands ==
  LET answer == call[flight.call] IN
  /\ flight.call # None /\ answer.pc = "OK"
  /\ held' = answer.pair
  /\ Settle([t \in Callers |-> [pc |-> IF caller[t].pair = None THEN "CALL" ELSE "RETRY",
                                pair |-> answer.pair]])
  /\ call' = [call EXCEPT ![flight.call] = Free]
  /\ flight' = NoFlight
  /\ UNCHANGED <<server, cli, forgotten>>

\* A 401 is final.
FlightRefused ==
  /\ flight.call # None /\ call[flight.call].pc = "REFUSED"
  /\ Settle(AllFailed)
  /\ call' = [call EXCEPT ![flight.call] = Free]
  /\ flight' = NoFlight
  /\ UNCHANGED <<server, cli, held, forgotten>>

\* A failure, a lost answer or ten seconds without one.
FlightFails ==
  /\ flight.call # None
  /\ Drop(flight.call)
  /\ IF flight.attempt = MaxAttempts
     THEN flight' = NoFlight /\ Settle(AllFailed)
     ELSE flight' = [flight EXCEPT !.call = None] /\ UNCHANGED caller
  /\ forgotten' = IF call[flight.call].pc \in {"REFUSED", "FAILED"} THEN forgotten
                  ELSE forgotten \cup {held}
  /\ UNCHANGED <<server, cli, held>>

\* After the backoff the same refresh token is sent again.
FlightRetries ==
  /\ flight # NoFlight /\ flight.call = None
  /\ \E c \in Calls:
       Send(c, "ROTATE", held) /\ flight' = [call |-> c, attempt |-> flight.attempt + 1]
  /\ UNCHANGED <<server, cli, held, caller, forgotten>>

\* The process ends and is started again, with the pair of its environment.
\* At shutdown a pair that came from a refresh is revoked, best effort.
McpRestarts ==
  /\ held' = Env
  /\ flight' = NoFlight
  /\ caller' = [t \in Callers |-> IF caller[t].pc = "IDLE" THEN caller[t] ELSE AllFailed[t]]
  /\ \/ flight.call # None /\ Drop(flight.call)
     \/ flight.call = None /\ UNCHANGED call
     \/ flight.call = None /\ held # Env /\ \E c \in Calls: Send(c, "AUTHENTICATE", held)
  /\ forgotten' = forgotten \cup {Env}
  /\ UNCHANGED <<server, cli>>

McpStep ==
  \/ \E t \in Callers: CallerStarts(t) \/ CallerAnswered(t)
  \/ FlightLands \/ FlightRefused \/ FlightFails \/ FlightRetries
  \/ McpRestarts

-----------------------------------------------------------------------------
ServerStep ==
  \/ \E n \in Pairs: Age(n) \/ RefreshExpires(n)
  \/ \E c \in Calls: RotateRead(c) \/ RotateCommit(c) \/ Authenticate(c)
                       \/ RevokeAccess(c) \/ RevokeCommit(c) \/ CallFails(c)

Next == ServerStep \/ (\E h \in Hooks: HookStep(h)) \/ McpStep

Spec == Init /\ [][Next]_vars

-----------------------------------------------------------------------------
(* Properties. *)

TypeOK ==
  /\ issued \in Env..MaxPairs
  /\ age \in [Pairs -> {"FRESH", "ENDING", "EXPIRED"}]
  /\ access \in [Pairs -> {"LIVE", "REVOKED", None}]
  /\ refresh \in [Pairs -> {"LIVE", "EXPIRED", "ROTATED", "REVOKED", None}]
  /\ parent \in [Pairs -> Pairs \cup {None}]
  /\ call \in [Calls -> Call]
  /\ file \in Pairs \cup {None}
  /\ hook \in [Hooks -> Hook]
  /\ held \in Pairs
  /\ flight \in Flight
  /\ caller \in [Callers -> Caller]
  /\ forgotten \subseteq Pairs

\* Of the two rows of a pair neither outlives the other: a refresh token is
\* spent or revoked exactly when its access token is revoked, whichever of
\* rotation and revocation gets which row first.
PairDiesTogether ==
  \A n \in 1..issued: access[n] = "REVOKED" <=> refresh[n] \in {"ROTATED", "REVOKED"}

\* A refresh token is rotated into one pair, however many calls present it,
\* and one that was revoked into none.
OneSuccessor ==
  /\ \A m, n \in 1..issued: parent[m] # None /\ parent[m] = parent[n] => m = n
  /\ \A n \in 1..issued: (\E m \in 1..issued: parent[m] = n) <=> refresh[n] = "ROTATED"

TokenInv == TypeOK /\ PairDiesTogether /\ OneSuccessor

\* The two tables are a store of pairs that live once: a rotation spends a pair
\* that is live at its commit, however long ago it read it, and a revocation
\* behind it finds nothing left to do; so no agent's line of pairs, from one it
\* was set up with, ever has two that are live.  (rotateRefreshToken,
\* revokeServiceTokenAndRefresh)
Life ==
  [n \in Pairs |->
    IF n > issued THEN "none"
    ELSE IF access[n] # "REVOKED" THEN "live"
    ELSE IF refresh[n] = "ROTATED" THEN "spent" ELSE "revoked"]

AbstractPairs == INSTANCE TokenPairs WITH First <- 1..Env, life <- Life
ImplementsPairs == AbstractPairs!PairsSpec

Brings(h, n) ==
  \/ /\ hook[h].call # None
     /\ call[hook[h].call].pc = "OK" /\ parent[call[hook[h].call].pair] = n
  \/ hook[h].pc \in {"REREAD", "WRITE"} /\ parent[hook[h].pair] = n

\* When the refresh token in config.json is spent, its successor is on the
\* way into the file, or was lost: no answer came, its process failed, or
\* a sync wrote back what it had read before.
FileIsLatest ==
  file # None /\ refresh[file] = "ROTATED"
    => file \in forgotten \/ \E h \in Hooks: Brings(h, file)

\* When the refresh token in the MCP server's memory is spent, the answer
\* with its successor is on its way, or was lost, or the process restarted:
\* concurrent tool calls never spend it behind each other's back.
HeldIsLatest ==
  refresh[held] = "ROTATED" =>
    \/ held \in forgotten
    \/ /\ flight.call # None
       /\ call[flight.call].pc = "OK" /\ parent[call[flight.call].pair] = held
=============================================================================
