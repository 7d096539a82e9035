------------------------ MODULE TokenRotationProofs ------------------------
(***************************************************************************)
(* Proofs about TokenRotation, for any number of processes, tool calls,    *)
(* requests and pairs: a pair dies whole and is rotated into one pair, and *)
(* what a client keeps is the last of its pairs, unless the successor was  *)
(* lost in one of the ways the model names.                                *)
(***************************************************************************)
EXTENDS TokenRotation, TLAPS

Held == 1..issued

(* What clients and requests refer to has been issued; a request at work   *)
(* has a pair, and so has a process that is past its start.                *)
CallsKnown ==
  \A c \in Calls: /\ call[c].pair \in Held \cup {None}
                  /\ call[c].pc \in Working \cup {"OK"} => call[c].pair # None

HooksKnown ==
  \A h \in Hooks:
    /\ hook[h].pair \in Held \cup {None}
    /\ hook[h].pc \in {"REFRESH", "REREAD", "WRITE", "USE", "PERSIST", "REVOKE"}
         => hook[h].pair # None
    /\ hook[h].pc \in {"REFRESH", "REVOKE"} => hook[h].call # None

Known ==
  /\ CallsKnown /\ HooksKnown
  /\ file \in Held \cup {None}
  /\ held \in Held
  /\ flight.call = None => flight.attempt # MaxAttempts

(* A pair that came of a rotation came of one that was issued.             *)
ParentsIssued ==
  \A n \in Pairs: parent[n] # None => n \in Held /\ parent[n] \in Held

(* A rotation past its read holds the row of a token that is still good,   *)
(* and holds it alone.                                                     *)
LockedIsGood ==
  /\ \A c \in Calls: call[c].pc = "REVOKE_OLD" =>
       refresh[call[c].pair] \in {"LIVE", "EXPIRED"}
  /\ \A c, d \in Calls:
       /\ call[c].pc = "REVOKE_OLD" /\ call[d].pc = "REVOKE_OLD"
       /\ call[c].pair = call[d].pair
       => c = d

TokenIInv ==
  /\ TypeOK /\ Known
  /\ ParentsIssued /\ LockedIsGood /\ PairDiesTogether /\ OneSuccessor

-----------------------------------------------------------------------------
(* Types. *)

(* The numbers of the pairs, and that none of the values is a number.      *)
LEMMA Numbers ==
  ASSUME TokenAssumption, TypeOK
  PROVE  /\ Held \subseteq Pairs
         /\ None \notin Pairs /\ None \notin Calls
         /\ Env \in Held
         /\ \A n \in Pairs: n <= issued <=> n \in Held
BY DEF TokenAssumption, TypeOK, Held, Pairs, Env

LEMMA Records ==
  ASSUME TokenAssumption
  PROVE  /\ Free \in Call /\ NoHook \in Hook /\ NoFlight \in Flight /\ NoCaller \in Caller
BY DEF TokenAssumption, Free, Call, NoHook, Hook, NoFlight, Flight, NoCaller, Caller

(* The steps of the server change rows and requests only; each request     *)
(* that changes is one it answers or moves on.                             *)
LEMMA ServerTypes ==
  ASSUME TokenAssumption, TypeOK, Known, ServerStep
  PROVE  TypeOK' /\ Known'
<1> USE Numbers DEF TypeOK, Known, CallsKnown, HooksKnown, server, cli, mcp
<1>1. ASSUME NEW n \in Pairs, Age(n) \/ RefreshExpires(n)
      PROVE  TypeOK' /\ Known'
  <2>1. CASE Age(n)
    BY <2>1 DEF Age, Held
  <2>2. CASE RefreshExpires(n)
    BY <2>2 DEF RefreshExpires, Held
  <2>3. QED
    BY <1>1, <2>1, <2>2
<1>2. ASSUME NEW c \in Calls, call[c].pc \in Working,
             NEW pc \in {"REVOKE_OLD", "REVOKE_ACCESS", "REVOKE_REFRESH"}, Step(c, pc),
             UNCHANGED <<server, cli, mcp, forgotten>>
      PROVE  TypeOK' /\ Known'
  <2>1. call' \in [Calls -> Call] /\ \A d \in Calls: call'[d].pair = call[d].pair
    BY <1>2 DEF Step, Call, Working
  <2>2. \A d \in Calls: call'[d].pc \in Working \cup {"OK"} => call[d].pc \in Working \cup {"OK"}
    BY <1>2 DEF Step, Call, Working
  <2>3. QED
    BY <1>2, <2>1, <2>2 DEF Held
<1>3. ASSUME NEW c \in Calls, NEW result \in {"OK", "REFUSED", "FAILED"},
             NEW n \in 1..issued' \cup {None}, Answer(c, result, n),
             result = "OK" => n # None, issued' \in issued..MaxPairs,
             age' \in [Pairs -> {"FRESH", "ENDING", "EXPIRED"}],
             access' \in [Pairs -> {"LIVE", "REVOKED", None}],
             refresh' \in [Pairs -> {"LIVE", "EXPIRED", "ROTATED", "REVOKED", None}],
             parent' \in [Pairs -> Pairs \cup {None}],
             UNCHANGED <<cli, mcp, forgotten>>
      PROVE  TypeOK' /\ Known'
  <2>1. n \in Pairs \cup {None} /\ issued' \in Env..MaxPairs
    BY <1>3 DEF TokenAssumption, Pairs, Env
  <2>2. \A d \in Calls: \/ call'[d] = call[d] \/ call'[d] = Free
                        \/ call'[d] = [pc |-> result, pair |-> n]
    BY <1>3 DEF Answer
  <2>3. call' \in [Calls -> Call]
    <3>1. [pc |-> result, pair |-> n] \in Call
      BY <2>1, <1>3 DEF Call, Working
    <3>2. QED
      BY <1>3, <3>1, Records DEF Answer
  <2>4. Held \subseteq 1..issued'
    BY <1>3 DEF Held, Env
  <2>5. \A d \in Calls: /\ call'[d].pair \in 1..issued' \cup {None}
                        /\ call'[d].pc \in Working \cup {"OK"} => call'[d].pair # None
    <3>1. ASSUME NEW d \in Calls, call'[d] = call[d]
          PROVE  /\ call'[d].pair \in 1..issued' \cup {None}
                 /\ call'[d].pc \in Working \cup {"OK"} => call'[d].pair # None
      BY <2>4, <3>1
    <3>2. ASSUME NEW d \in Calls, call'[d] = Free
          PROVE  /\ call'[d].pair \in 1..issued' \cup {None}
                 /\ call'[d].pc \in Working \cup {"OK"} => call'[d].pair # None
      BY <3>2 DEF Free, Working
    <3>3. ASSUME NEW d \in Calls, call'[d] = [pc |-> result, pair |-> n]
          PROVE  /\ call'[d].pair \in 1..issued' \cup {None}
                 /\ call'[d].pc \in Working \cup {"OK"} => call'[d].pair # None
      BY <3>3, <1>3 DEF Working
    <3>4. QED
      BY <2>2, <3>1, <3>2, <3>3
  <2>6. QED
    BY <1>3, <2>1, <2>3, <2>4, <2>5 DEF Held
<1>11. ASSUME NEW c \in Calls, NEW result \in {"REFUSED", "FAILED"},
              Answer(c, result, None), UNCHANGED <<server, cli, mcp, forgotten>>
       PROVE  TypeOK' /\ Known'
  <2>1. /\ None \in 1..issued' \cup {None} /\ result \in {"OK", "REFUSED", "FAILED"}
        /\ result # "OK" /\ issued' \in issued..MaxPairs
    BY <1>11 DEF Env, TokenAssumption
  <2>2. QED
    BY <1>11, <2>1, <1>3
<1>4. ASSUME NEW c \in Calls, RotateRead(c)
      PROVE  TypeOK' /\ Known'
  <2>1. CASE refresh[call[c].pair] = "LIVE"
    BY <1>4, <2>1, <1>2 DEF RotateRead, Working
  <2>2. CASE refresh[call[c].pair] # "LIVE"
    BY <1>4, <2>2, <1>11 DEF RotateRead
  <2>3. QED
    BY <2>1, <2>2
<1>5. ASSUME NEW c \in Calls, RotateCommit(c)
      PROVE  TypeOK' /\ Known'
  <2>1. /\ issued' = issued + 1 /\ issued' \in issued..MaxPairs
        /\ issued + 1 \in Pairs
        /\ call[c].pair \in Pairs
    BY <1>5 DEF RotateCommit, TokenAssumption, Pairs, Env, Held, Working
  <2>2. /\ access' \in [Pairs -> {"LIVE", "REVOKED", None}]
        /\ refresh' \in [Pairs -> {"LIVE", "EXPIRED", "ROTATED", "REVOKED", None}]
        /\ parent' \in [Pairs -> Pairs \cup {None}]
    BY <1>5, <2>1 DEF RotateCommit
  <2>3. Answer(c, "OK", issued + 1) /\ UNCHANGED <<age, cli, mcp, forgotten>>
    BY <1>5 DEF RotateCommit
  <2>4. issued + 1 \in 1..issued' \cup {None} /\ issued + 1 # None
    BY <2>1 DEF Env, TokenAssumption
  <2>5. QED
    BY <2>1, <2>2, <2>3, <2>4, <1>3
<1>6. ASSUME NEW c \in Calls, Authenticate(c)
      PROVE  TypeOK' /\ Known'
  <2>1. CASE Valid(call[c].pair)
    BY <1>6, <2>1, <1>2 DEF Authenticate, Working
  <2>2. CASE ~Valid(call[c].pair)
    BY <1>6, <2>2, <1>11 DEF Authenticate
  <2>3. QED
    BY <2>1, <2>2
<1>7. ASSUME NEW c \in Calls, RevokeAccess(c)
      PROVE  TypeOK' /\ Known'
  BY <1>7, <1>2 DEF RevokeAccess, Working
<1>8. ASSUME NEW c \in Calls, RevokeCommit(c)
      PROVE  TypeOK' /\ Known'
  <2>1. /\ access' \in [Pairs -> {"LIVE", "REVOKED", None}]
        /\ refresh' \in [Pairs -> {"LIVE", "EXPIRED", "ROTATED", "REVOKED", None}]
        /\ call[c].pair \in Held /\ issued' = issued /\ issued' \in issued..MaxPairs
        /\ UNCHANGED <<age, parent, cli, mcp, forgotten>>
    BY <1>8 DEF RevokeCommit, Working, Env, TokenAssumption
  <2>2. Answer(c, "OK", call[c].pair) /\ call[c].pair \in 1..issued' \cup {None}
    BY <1>8, <2>1 DEF RevokeCommit, Held
  <2>3. QED
    BY <2>1, <2>2, <1>3
<1>9. ASSUME NEW c \in Calls, CallFails(c)
      PROVE  TypeOK' /\ Known'
  BY <1>9, <1>11 DEF CallFails
<1>10. QED
  BY <1>1, <1>4, <1>5, <1>6, <1>7, <1>8, <1>9 DEF ServerStep

(* What a client does to the requests: it sends one, gives one up or takes *)
(* its answer; none of the three is a step of a rotation.                  *)
RotationsUnmoved == \A c \in Calls: call'[c].pc = "REVOKE_OLD" => call'[c] = call[c]

CallsStay == call' \in [Calls -> Call] /\ CallsKnown' /\ RotationsUnmoved

LEMMA SendCalls ==
  ASSUME TokenAssumption, TypeOK, Known, issued' = issued,
         NEW c \in Calls, NEW kind \in {"ROTATE", "AUTHENTICATE"}, NEW n \in Held,
         Send(c, kind, n)
  PROVE  CallsStay
<1>1. [pc |-> kind, pair |-> n] \in Call /\ n # None
  BY Numbers DEF Call, Working
<1>2. call' = [call EXCEPT ![c] = [pc |-> kind, pair |-> n]]
  BY DEF Send
<1>3. QED
  BY <1>1, <1>2, Numbers DEF TypeOK, Known, CallsKnown, CallsStay, RotationsUnmoved, Held

LEMMA FreeCalls ==
  ASSUME TokenAssumption, TypeOK, Known, issued' = issued, NEW c,
         \/ call' = [call EXCEPT ![c] = Free]
         \/ Drop(c)
         \/ UNCHANGED call
  PROVE  CallsStay
<1>1. \A d \in Calls: call'[d] = call[d] \/ call'[d] = Free
  BY DEF Drop, TypeOK
<1>2. call' \in [Calls -> Call]
  BY Records DEF Drop, TypeOK
<1>3. QED
  BY <1>1, <1>2 DEF Known, CallsKnown, CallsStay, RotationsUnmoved, Free, Working, Held

(* Nothing sent, nothing taken.                                            *)
LEMMA QuietCalls ==
  ASSUME TokenAssumption, TypeOK, Known, UNCHANGED <<issued, call>>
  PROVE  CallsStay
BY DEF TypeOK, Known, CallsKnown, CallsStay, RotationsUnmoved, Held

(* What a process of the CLI does to its own state.                        *)
HooksStay == hook' \in [Hooks -> Hook] /\ HooksKnown'

LEMMA HookMoves ==
  ASSUME TokenAssumption, TypeOK, Known, issued' = issued, NEW h \in Hooks,
         \/ \E pc \in {"REREAD", "WRITE", "USE", "PERSIST"}, n \in Held: HookAt(h, pc, n)
         \/ \E pc \in {"END", "REVOKED"}: HookEnds(h, pc)
         \/ \E pc \in {"REFRESH", "REVOKE"}, c \in Calls: file # None /\ HookSends(h, pc, c)
         \/ UNCHANGED hook
  PROVE  HooksStay
<1> USE Numbers DEF TypeOK, Known, HooksKnown, HooksStay, Held
<1>1. ASSUME NEW pc \in {"REREAD", "WRITE", "USE", "PERSIST"}, NEW n \in Held, HookAt(h, pc, n)
      PROVE  HooksStay
  <2>1. [pc |-> pc, pair |-> n, call |-> None] \in Hook /\ n # None
    BY DEF Hook
  <2>2. QED
    BY <1>1, <2>1 DEF HookAt
<1>2. ASSUME NEW pc \in {"END", "REVOKED"}, HookEnds(h, pc)
      PROVE  HooksStay
  <2>1. [NoHook EXCEPT !.pc = pc] = [pc |-> pc, pair |-> None, call |-> None]
    BY DEF NoHook
  <2>2. [pc |-> pc, pair |-> None, call |-> None] \in Hook
    BY DEF Hook
  <2>3. QED
    BY <1>2, <2>1, <2>2 DEF HookEnds
<1>3. ASSUME NEW pc \in {"REFRESH", "REVOKE"}, NEW c \in Calls, file # None, HookSends(h, pc, c)
      PROVE  HooksStay
  <2>1. [pc |-> pc, pair |-> file, call |-> c] \in Hook /\ c # None
    BY <1>3 DEF Hook
  <2>2. QED
    BY <1>3, <2>1 DEF HookSends
<1>4. QED
  BY <1>1, <1>2, <1>3

(* A step of a client leaves the rows alone.                               *)
RowsStay == UNCHANGED <<issued, access, refresh, parent>>

LEMMA HookTypes ==
  ASSUME TokenAssumption, TypeOK, Known, NEW h \in Hooks, HookStep(h)
  PROVE  TypeOK' /\ Known' /\ RowsStay /\ RotationsUnmoved
<1> USE Numbers DEF server, mcp, RowsStay
<1>1. /\ UNCHANGED <<server, mcp>> /\ CallsStay /\ HooksStay
      /\ file' \in Held \cup {None} /\ forgotten' \subseteq Pairs
  <2>1. CASE HookStarts(h)
    <3>1. ASSUME age[file] = "FRESH", HookAt(h, "USE", file), UNCHANGED call
          PROVE  CallsStay /\ HooksStay
      BY <2>1, <3>1, FreeCalls, HookMoves DEF HookStarts, Known
    <3>2. ASSUME NEW c \in Calls, Send(c, "ROTATE", file), HookSends(h, "REFRESH", c)
          PROVE  CallsStay /\ HooksStay
      BY <2>1, <3>2, SendCalls, HookMoves DEF HookStarts, Known
    <3>3. QED
      BY <2>1, <3>1, <3>2 DEF HookStarts, Known, TypeOK, CallsStay
  <2>2. CASE RevokeStarts(h)
    BY <2>2, SendCalls, HookMoves DEF RevokeStarts, Known, TypeOK, CallsStay
  <2>3. CASE RefreshAnswered(h)
    <3>1. /\ hook[h].call \in Calls /\ hook[h].pair \in Held
          /\ call[hook[h].call].pc = "OK" => call[hook[h].call].pair \in Held
      BY <2>3 DEF RefreshAnswered, Known, CallsKnown, HooksKnown, TypeOK, Hook
    <3>2. CallsStay
      BY <2>3, FreeCalls DEF RefreshAnswered
    <3>3. HooksStay
      BY <2>3, <3>1, HookMoves DEF RefreshAnswered, WithoutRefresh
    <3>4. QED
      BY <2>3, <3>2, <3>3 DEF RefreshAnswered, Known, TypeOK, CallsStay
  <2>4. CASE RefreshTimesOut(h)
    <3>1. hook[h].pair \in Held
      BY <2>4 DEF RefreshTimesOut, Known, HooksKnown
    <3>2. CallsStay
      BY <2>4, FreeCalls DEF RefreshTimesOut
    <3>3. HooksStay
      BY <2>4, <3>1, HookMoves DEF RefreshTimesOut, WithoutRefresh
    <3>4. QED
      BY <2>4, <3>1, <3>2, <3>3 DEF RefreshTimesOut, Known, TypeOK, CallsStay
  <2>5. CASE RereadConfig(h)
    <3>1. hook[h].pair \in Held
      BY <2>5 DEF RereadConfig, Known, HooksKnown
    <3>2. HooksStay
      BY <2>5, <3>1, HookMoves DEF RereadConfig
    <3>3. QED
      BY <2>5, <3>2, FreeCalls DEF RereadConfig, Known, TypeOK, CallsStay
  <2>6. CASE WriteConfig(h)
    <3>1. hook[h].pair \in Held
      BY <2>6 DEF WriteConfig, Known, HooksKnown
    <3>2. HooksStay
      BY <2>6, <3>1, HookMoves DEF WriteConfig
    <3>3. QED
      BY <2>6, <3>1, <3>2, FreeCalls DEF WriteConfig, Known, TypeOK, CallsStay
  <2>7. CASE HookFails(h)
    <3>1. CallsStay
      BY <2>7, FreeCalls DEF HookFails
    <3>2. HooksStay
      <4>1. hook[h].pc = "WRITE" => hook[h].pair \in Held
        BY DEF Known, HooksKnown
      <4>2. QED
        BY <2>7, <4>1, HookMoves DEF HookFails
    <3>3. QED
      BY <2>7, <3>1, <3>2 DEF HookFails, Known, TypeOK, CallsStay
  <2>8. CASE PersistRead(h)
    <3>1. HooksStay
      BY <2>8, HookMoves DEF PersistRead, Known
    <3>2. QED
      BY <2>8, <3>1, FreeCalls DEF PersistRead, Known, TypeOK, CallsStay
  <2>9. CASE PersistWrite(h)
    <3>1. hook[h].pair \in Held
      BY <2>9 DEF PersistWrite, Known, HooksKnown
    <3>2. HooksStay
      BY <2>9, HookMoves DEF PersistWrite
    <3>3. QED
      BY <2>9, <3>1, <3>2, FreeCalls DEF PersistWrite, Known, TypeOK, CallsStay
  <2>10. CASE RevokeEnds(h)
    <3>1. HooksStay
      BY <2>10, HookMoves DEF RevokeEnds
    <3>2. QED
      BY <2>10, <3>1, FreeCalls DEF RevokeEnds, Known, TypeOK, CallsStay
  <2>11. QED
    BY <2>1, <2>2, <2>3, <2>4, <2>5, <2>6, <2>7, <2>8, <2>9, <2>10 DEF HookStep, CallsStay
<1>2. TypeOK'
  BY <1>1 DEF TypeOK, CallsStay, HooksStay
<1>3. Known'
  BY <1>1 DEF Known, CallsStay, HooksStay, Held
<1>4. QED
  BY <1>1, <1>2, <1>3 DEF CallsStay

(* A tool call joins the refresh in flight, or begins one.                 *)
LEMMA Joins ==
  ASSUME TokenAssumption, TypeOK, Known, issued' = issued,
         NEW t \in Callers, NEW n \in Pairs \cup {None}, Join(t, n)
  PROVE  /\ CallsStay /\ flight' \in Flight /\ caller' \in [Callers -> Caller]
         /\ flight'.call = None => flight'.attempt # MaxAttempts
<1>1. caller' \in [Callers -> Caller]
  BY DEF Join, CallerAt, Caller, TypeOK
<1>2. CASE flight = NoFlight
  <2>1. PICK c \in Calls: Send(c, "ROTATE", held) /\ flight' = [call |-> c, attempt |-> 1]
    BY <1>2 DEF Join
  <2>2. flight' \in Flight /\ flight'.call # None
    BY <2>1 DEF Flight, TokenAssumption
  <2>3. CallsStay
    BY <2>1, SendCalls DEF Known
  <2>4. QED
    BY <1>1, <2>2, <2>3
<1>3. CASE flight # NoFlight
  BY <1>1, <1>3, QuietCalls DEF Join, Known, TypeOK
<1>4. QED
  BY <1>2, <1>3

(* The steps of the MCP server.                                            *)
LEMMA McpTypes ==
  ASSUME TokenAssumption, TypeOK, Known, McpStep
  PROVE  TypeOK' /\ Known' /\ RowsStay /\ RotationsUnmoved
<1> DEFINE Good == /\ UNCHANGED <<server, cli>> /\ CallsStay
                   /\ held' \in Held /\ flight' \in Flight
                   /\ flight'.call = None => flight'.attempt # MaxAttempts
                   /\ caller' \in [Callers -> Caller]
                   /\ forgotten' \subseteq Pairs
<1> USE Numbers DEF server
<1>a. NoFlight \in Flight /\ NoFlight.attempt # MaxAttempts
  BY Records DEF NoFlight, TokenAssumption
<1>b. /\ AllFailed \in [Callers -> Caller]
      /\ AllFailed = [t \in Callers |-> [pc |-> "END", pair |-> None]]
  BY DEF AllFailed, Caller
<1>c. ASSUME NEW resumed \in [Callers -> Caller], Settle(resumed)
      PROVE  caller' \in [Callers -> Caller]
  BY <1>c DEF Settle, TypeOK
<1>d. flight.call # None => flight.call \in Calls
  BY DEF TypeOK, Flight
<1>1. ASSUME NEW t \in Callers, CallerStarts(t)
      PROVE  Good
  <2>1. CASE CallerAt(t, "CALL", held) /\ UNCHANGED <<call, flight>>
    <3>1. caller' \in [Callers -> Caller]
      BY <2>1 DEF CallerAt, Caller, TypeOK
    <3>2. QED
      BY <1>1, <2>1, <3>1, QuietCalls DEF CallerStarts, TypeOK, Known
  <2>2. CASE Join(t, None)
    BY <1>1, <2>2, Joins DEF CallerStarts, TypeOK, Known
  <2>3. QED
    BY <1>1, <2>1, <2>2 DEF CallerStarts
<1>2. ASSUME NEW t \in Callers, CallerAnswered(t)
      PROVE  Good
  <2>1. CASE CallerAt(t, "END", None) /\ UNCHANGED <<call, flight>>
    <3>1. caller' \in [Callers -> Caller]
      BY <2>1 DEF CallerAt, Caller, TypeOK
    <3>2. QED
      BY <1>2, <2>1, <3>1, QuietCalls DEF CallerAnswered, TypeOK, Known
  <2>2. CASE Join(t, caller[t].pair)
    <3>1. caller[t].pair \in Pairs \cup {None}
      BY DEF TypeOK, Caller
    <3>2. QED
      BY <1>2, <2>2, <3>1, Joins DEF CallerAnswered, TypeOK, Known
  <2>3. QED
    BY <1>2, <2>1, <2>2 DEF CallerAnswered
<1>3. ASSUME FlightLands
      PROVE  Good
  <2>1. call[flight.call].pair \in Held
    BY <1>3, <1>d DEF FlightLands, Known, CallsKnown
  <2>2. caller' \in [Callers -> Caller]
    <3> DEFINE resumed ==
                 [t \in Callers |-> [pc |-> IF caller[t].pair = None THEN "CALL" ELSE "RETRY",
                                     pair |-> call[flight.call].pair]]
    <3>1. resumed \in [Callers -> Caller]
      BY <2>1 DEF Caller
    <3>2. Settle(resumed)
      BY <1>3 DEF FlightLands
    <3>3. QED
      BY <3>1, <3>2, <1>c
  <2>3. CallsStay
    BY <1>3, FreeCalls DEF FlightLands
  <2>4. QED
    BY <1>3, <1>a, <2>1, <2>2, <2>3 DEF FlightLands, TypeOK
<1>4. ASSUME FlightRefused
      PROVE  Good
  <2>1. CallsStay
    BY <1>4, FreeCalls DEF FlightRefused
  <2>2. QED
    BY <1>4, <1>a, <1>b, <1>c, <2>1 DEF FlightRefused, TypeOK, Known
<1>5. ASSUME FlightFails
      PROVE  Good
  <2>1. CallsStay
    BY <1>5, FreeCalls DEF FlightFails
  <2>2. CASE flight.attempt = MaxAttempts
    BY <1>5, <1>a, <1>b, <1>c, <2>1, <2>2 DEF FlightFails, TypeOK, Known
  <2>3. CASE flight.attempt # MaxAttempts
    <3>1. flight' = [flight EXCEPT !.call = None] /\ UNCHANGED caller
      BY <1>5, <2>3 DEF FlightFails
    <3>2. flight' \in Flight /\ flight'.attempt = flight.attempt
      BY <3>1 DEF TypeOK, Flight
    <3>3. QED
      BY <1>5, <2>1, <2>3, <3>1, <3>2 DEF FlightFails, TypeOK, Known
  <2>4. QED
    BY <2>2, <2>3
<1>6. ASSUME FlightRetries
      PROVE  Good
  <2>1. PICK c \in Calls: /\ Send(c, "ROTATE", held)
                          /\ flight' = [call |-> c, attempt |-> flight.attempt + 1]
    BY <1>6 DEF FlightRetries
  <2>2. flight.attempt + 1 \in 0..MaxAttempts
    BY <1>6 DEF FlightRetries, Known, TypeOK, Flight, TokenAssumption
  <2>3. flight' \in Flight /\ flight'.call # None
    BY <2>1, <2>2 DEF Flight, TokenAssumption
  <2>4. CallsStay
    BY <1>6, <2>1, SendCalls DEF FlightRetries, Known
  <2>5. QED
    BY <1>6, <2>3, <2>4 DEF FlightRetries, TypeOK, Known
<1>7. ASSUME McpRestarts
      PROVE  Good
  <2>1. CallsStay
    <3>1. CASE Drop(flight.call) \/ UNCHANGED call
      BY <1>7, <3>1, FreeCalls DEF McpRestarts
    <3>2. ASSUME NEW c \in Calls, Send(c, "AUTHENTICATE", held)
          PROVE  CallsStay
      BY <1>7, <3>2, SendCalls DEF McpRestarts, Known
    <3>3. QED
      BY <1>7, <3>1, <3>2 DEF McpRestarts
  <2>2. caller' \in [Callers -> Caller]
    BY <1>7, <1>b DEF McpRestarts, TypeOK
  <2>3. Env \in Pairs
    OBVIOUS
  <2>4. QED
    BY <1>7, <1>a, <2>1, <2>2, <2>3 DEF McpRestarts, TypeOK
<1>8. Good
  BY <1>1, <1>2, <1>3, <1>4, <1>5, <1>6, <1>7 DEF McpStep
<1>9. TypeOK'
  BY <1>8 DEF Good, TypeOK, CallsStay, cli
<1>10. Known'
  BY <1>8 DEF Good, Known, CallsStay, HooksKnown, cli, Held
<1>11. QED
  BY <1>8, <1>9, <1>10 DEF Good, CallsStay, RowsStay

-----------------------------------------------------------------------------
(* The pairs. *)

Core == ParentsIssued /\ LockedIsGood /\ PairDiesTogether /\ OneSuccessor

(* Who leaves the rows and the rotations alone leaves the pairs as good as *)
(* they were.                                                              *)
LEMMA CoreStays ==
  ASSUME Core, RowsStay, RotationsUnmoved
  PROVE  Core'
<1>1. ParentsIssued' /\ PairDiesTogether' /\ OneSuccessor'
  BY DEF Core, RowsStay, ParentsIssued, PairDiesTogether, OneSuccessor, Held
<1>2. LockedIsGood'
  BY DEF Core, RowsStay, RotationsUnmoved, LockedIsGood
<1>3. QED
  BY <1>1, <1>2 DEF Core

(* An answer ends no rotation but the one it answers.                      *)
LEMMA AnswerLeavesRotations ==
  ASSUME TypeOK, NEW c \in Calls, NEW result \in {"OK", "REFUSED", "FAILED"}, NEW n,
         Answer(c, result, n)
  PROVE  /\ RotationsUnmoved
         /\ call'[c].pc # "REVOKE_OLD"
BY DEF Answer, TypeOK, RotationsUnmoved, Free

(* The rows a rotation or a revocation finds locked.                       *)
LEMMA LockedRow ==
  ASSUME TypeOK, NEW n, ~RefreshLocked(n), NEW d \in Calls, call[d].pc = "REVOKE_OLD"
  PROVE  call[d].pair # n
<1>1. call[d] = [pc |-> call[d].pc, pair |-> call[d].pair]
  BY DEF TypeOK, Call
<1>2. QED
  BY <1>1 DEF RefreshLocked

(* A rotation takes the row of a live token that nobody else holds.        *)
LEMMA RotateReadCore ==
  ASSUME TokenAssumption, TypeOK, Known, Core, NEW c \in Calls, RotateRead(c)
  PROVE  Core'
<1>1. RowsStay
  BY DEF RotateRead, RowsStay, server
<1>2. CASE refresh[call[c].pair] = "LIVE"
  <2>1. call' = [call EXCEPT ![c].pc = "REVOKE_OLD"]
    BY <1>2 DEF RotateRead, Step
  <2>2. \A d \in Calls: /\ call'[d].pair = call[d].pair
                        /\ d # c => call'[d] = call[d]
    BY <2>1 DEF TypeOK, Call
  <2>3. \A d \in Calls: call[d].pc = "REVOKE_OLD" => call[d].pair # call[c].pair
    BY LockedRow DEF RotateRead
  <2>4. LockedIsGood'
    BY <1>1, <1>2, <2>2, <2>3 DEF Core, LockedIsGood, RowsStay
  <2>5. ParentsIssued' /\ PairDiesTogether' /\ OneSuccessor'
    BY <1>1 DEF Core, RowsStay, ParentsIssued, PairDiesTogether, OneSuccessor, Held
  <2>6. QED
    BY <2>4, <2>5 DEF Core
<1>3. CASE refresh[call[c].pair] # "LIVE"
  BY <1>1, <1>3, AnswerLeavesRotations, CoreStays DEF RotateRead
<1>4. QED
  BY <1>2, <1>3

(* A rotation commits: it held the row, so the token was still good, had   *)
(* no successor and its access token was not revoked.                      *)
LEMMA RotateCommitCore ==
  ASSUME TokenAssumption, TypeOK, Known, Core, NEW c \in Calls, RotateCommit(c)
  PROVE  Core'
<1> DEFINE n == call[c].pair
           new == issued + 1
<1> USE Numbers
<1>1. /\ n \in Held /\ n \in Pairs /\ new \in Pairs /\ new \notin Held /\ n # new
      /\ refresh[n] \in {"LIVE", "EXPIRED"}
      /\ 1..issued' = Held \cup {new}
  <2>1. n \in Held
    BY DEF RotateCommit, Known, CallsKnown, Working
  <2>2. new \in Pairs /\ new \notin Held /\ 1..issued' = Held \cup {new}
    BY DEF RotateCommit, TypeOK, Pairs, Held, Env, TokenAssumption
  <2>3. refresh[n] \in {"LIVE", "EXPIRED"}
    BY DEF RotateCommit, Core, LockedIsGood
  <2>4. QED
    BY <2>1, <2>2, <2>3
<1>2. /\ access'[n] = "REVOKED" /\ access'[new] = "LIVE"
      /\ refresh'[n] = "ROTATED" /\ refresh'[new] = "LIVE"
      /\ parent'[new] = n
      /\ \A k \in Held: k # n => access'[k] = access[k] /\ refresh'[k] = refresh[k]
      /\ \A k \in Pairs: k # new => parent'[k] = parent[k]
  BY <1>1 DEF RotateCommit, TypeOK
<1>3. ParentsIssued'
  BY <1>1, <1>2 DEF Core, ParentsIssued, Held
<1>4. LockedIsGood'
  <2>1. RotationsUnmoved /\ call'[c].pc # "REVOKE_OLD"
    BY AnswerLeavesRotations DEF RotateCommit
  <2>2. \A d \in Calls: d # c /\ call[d].pc = "REVOKE_OLD" => call[d].pair # n
    BY DEF RotateCommit, Core, LockedIsGood
  <2>3. \A d \in Calls: call[d].pc = "REVOKE_OLD" => call[d].pair \in Held
    BY DEF Known, CallsKnown, Working
  <2>4. QED
    BY <1>2, <2>1, <2>2, <2>3 DEF Core, LockedIsGood, RotationsUnmoved
<1>5. PairDiesTogether'
  BY <1>1, <1>2 DEF Core, PairDiesTogether, Held
<1>6. \A m \in Held: parent[m] # n
  BY <1>1 DEF Core, OneSuccessor, Held
<1>7. \A i, j \in 1..issued': parent'[i] # None /\ parent'[i] = parent'[j] => i = j
  BY <1>1, <1>2, <1>6 DEF Core, OneSuccessor, Held
<1>8. ASSUME NEW k \in 1..issued'
      PROVE  (\E m \in 1..issued': parent'[m] = k) <=> refresh'[k] = "ROTATED"
  <2>1. CASE k = n
    BY <1>1, <1>2, <2>1
  <2>2. CASE k = new
    <3>1. \A m \in Held: parent[m] # new
      BY <1>1 DEF Core, ParentsIssued, TokenAssumption, Pairs
    <3>2. QED
      BY <1>1, <1>2, <2>2, <3>1
  <2>3. CASE k \in Held /\ k # n
    <3>1. (\E m \in Held: parent[m] = k) <=> refresh[k] = "ROTATED"
      BY <2>3 DEF Core, OneSuccessor, Held
    <3>2. QED
      BY <1>1, <1>2, <2>3, <3>1
  <2>4. QED
    BY <1>1, <2>1, <2>2, <2>3
<1>9. QED
  BY <1>3, <1>4, <1>5, <1>7, <1>8 DEF Core, OneSuccessor

(* A revocation waits for a rotation that holds the refresh token's row,   *)
(* and leaves a token that was rotated as it is.                           *)
LEMMA RevokeCommitCore ==
  ASSUME TokenAssumption, TypeOK, Known, Core, NEW c \in Calls, RevokeCommit(c)
  PROVE  Core'
<1> DEFINE n == call[c].pair
<1> USE Numbers
<1>1. n \in Held /\ n \in Pairs /\ UNCHANGED <<issued, parent>>
  BY DEF RevokeCommit, Known, CallsKnown, Working
<1>2. /\ access'[n] = "REVOKED"
      /\ refresh'[n] \in {"ROTATED", "REVOKED"}
      /\ refresh'[n] = "ROTATED" <=> refresh[n] = "ROTATED"
      /\ \A k \in Pairs: k # n => access'[k] = access[k] /\ refresh'[k] = refresh[k]
  BY <1>1 DEF RevokeCommit, TypeOK
<1>3. LockedIsGood'
  <2>1. RotationsUnmoved
    BY AnswerLeavesRotations DEF RevokeCommit
  <2>2. \A d \in Calls: call[d].pc = "REVOKE_OLD" => call[d].pair # n /\ call[d].pair \in Held
    BY LockedRow DEF RevokeCommit, Known, CallsKnown, Working
  <2>3. QED
    BY <1>2, <2>1, <2>2 DEF Core, LockedIsGood, RotationsUnmoved
<1>4. ParentsIssued' /\ PairDiesTogether'
  BY <1>1, <1>2 DEF Core, ParentsIssued, PairDiesTogether, Held
<1>5. OneSuccessor'
  <2>1. \A k \in Pairs: refresh'[k] = "ROTATED" <=> refresh[k] = "ROTATED"
    BY <1>1, <1>2
  <2>2. QED
    BY <1>1, <2>1 DEF Core, OneSuccessor, Held
<1>6. QED
  BY <1>3, <1>4, <1>5 DEF Core

(* Every step of the server.                                               *)
LEMMA ServerCore ==
  ASSUME TokenAssumption, TypeOK, Known, Core, ServerStep
  PROVE  Core'
<1>1. ASSUME NEW n \in Pairs, Age(n)
      PROVE  Core'
  <2>1. RowsStay /\ RotationsUnmoved
    BY <1>1 DEF Age, RowsStay, RotationsUnmoved
  <2>2. QED
    BY <2>1, CoreStays
<1>2. ASSUME NEW n \in Pairs, RefreshExpires(n)
      PROVE  Core'
  <2>1. /\ UNCHANGED <<issued, access, parent, call>>
        /\ refresh[n] = "LIVE" /\ refresh'[n] = "EXPIRED"
        /\ \A k \in Pairs: k # n => refresh'[k] = refresh[k]
    BY <1>2 DEF RefreshExpires, TypeOK
  <2>2. LockedIsGood'
    <3>1. \A d \in Calls: call[d].pc = "REVOKE_OLD" => call[d].pair \in Pairs
      BY Numbers DEF Known, CallsKnown, Working
    <3>2. QED
      BY <2>1, <3>1 DEF Core, LockedIsGood
  <2>3. \A k \in Held: /\ refresh'[k] = "ROTATED" <=> refresh[k] = "ROTATED"
                       /\ refresh'[k] \in {"ROTATED", "REVOKED"}
                            <=> refresh[k] \in {"ROTATED", "REVOKED"}
    BY <2>1, Numbers
  <2>4. ParentsIssued' /\ PairDiesTogether' /\ OneSuccessor'
    BY <2>1, <2>3 DEF Core, ParentsIssued, PairDiesTogether, OneSuccessor, Held
  <2>5. QED
    BY <2>2, <2>4 DEF Core
<1>3. ASSUME NEW c \in Calls, Authenticate(c) \/ RevokeAccess(c) \/ CallFails(c)
      PROVE  Core'
  <2>1. RowsStay
    BY <1>3 DEF Authenticate, RevokeAccess, CallFails, RowsStay, server
  <2>2. ASSUME NEW pc \in {"REVOKE_ACCESS", "REVOKE_REFRESH"}, Step(c, pc)
        PROVE  RotationsUnmoved
    BY <2>2 DEF Step, RotationsUnmoved, TypeOK, Call
  <2>3. RotationsUnmoved
    BY <1>3, <2>2, AnswerLeavesRotations DEF Authenticate, RevokeAccess, CallFails
  <2>4. QED
    BY <2>1, <2>3, CoreStays
<1>4. QED
  BY <1>1, <1>2, <1>3, RotateReadCore, RotateCommitCore, RevokeCommitCore DEF ServerStep

-----------------------------------------------------------------------------
(* The invariant holds at first, and every step keeps it.                  *)
LEMMA TokenInit ==
  ASSUME TokenAssumption, Init
  PROVE  TokenIInv
<1>1. Env \in Nat /\ Env <= MaxPairs /\ 1 \in 1..Env /\ Env \in 1..Env /\ 1..Env \subseteq Pairs
  BY DEF TokenAssumption, Env, Pairs
<1>2. TypeOK
  BY <1>1, Records DEF Init, TypeOK, Env, TokenAssumption
<1>3. Known
  BY <1>1 DEF Init, Known, CallsKnown, HooksKnown, Held, Free, NoHook, NoFlight, Working,
              TokenAssumption
<1>4. LockedIsGood
  BY DEF Init, LockedIsGood, Free
<1>5. ParentsIssued /\ PairDiesTogether /\ OneSuccessor
  BY <1>1 DEF Init, ParentsIssued, PairDiesTogether, OneSuccessor, TokenAssumption, Pairs
<1>6. QED
  BY <1>2, <1>3, <1>4, <1>5 DEF TokenIInv

LEMMA TokenStep ==
  ASSUME TokenAssumption, TokenIInv, [Next]_vars
  PROVE  TokenIInv'
<1>1. TypeOK /\ Known /\ Core
  BY DEF TokenIInv, Core
<1>2. CASE ServerStep
  BY <1>1, <1>2, ServerTypes, ServerCore DEF TokenIInv, Core
<1>3. CASE \E h \in Hooks: HookStep(h)
  BY <1>1, <1>3, HookTypes, CoreStays DEF TokenIInv, Core
<1>4. CASE McpStep
  BY <1>1, <1>4, McpTypes, CoreStays DEF TokenIInv, Core
<1>5. CASE UNCHANGED vars
  BY <1>5 DEF TokenIInv, TypeOK, Known, CallsKnown, HooksKnown, Held, ParentsIssued,
              LockedIsGood, PairDiesTogether, OneSuccessor, vars, server, cli, mcp
<1>6. QED
  BY <1>2, <1>3, <1>4, <1>5 DEF Next

(* For any number of clients, requests and pairs: the two tokens of a pair *)
(* die together, and a refresh token is rotated into one pair at most      *)
(* (rotateRefreshToken, revokeServiceTokenAndRefresh).                     *)
THEOREM TokenInvariant == Spec => []TokenInv
<1>1. Init => TokenIInv
  BY TokenAssumption, TokenInit
<1>2. TokenIInv /\ [Next]_vars => TokenIInv'
  BY TokenAssumption, TokenStep
<1>3. TokenIInv => TokenInv
  BY DEF TokenIInv, TokenInv
<1>4. QED
  BY <1>1, <1>2, <1>3, PTL DEF Spec

-----------------------------------------------------------------------------
(* The latest pair. *)

Rotating == {"ROTATE", "REVOKE_OLD"}

(* A request is awaited by one process or by the refresh in flight, and is *)
(* there until they let go of it.                                          *)
Waits ==
  /\ \A h \in Hooks: hook[h].call # None =>
       /\ hook[h].pc \in {"REFRESH", "REVOKE"}
       /\ call[hook[h].call].pc # "FREE"
       /\ flight.call # hook[h].call
       /\ \A g \in Hooks: hook[g].call = hook[h].call => g = h
  /\ flight.call # None => call[flight.call].pc # "FREE"

(* The CLI and the MCP server have no pair in common.                      *)
Apart ==
  /\ file \notin {held, Env}
  /\ \A h \in Hooks: hook[h].pair \notin {held, Env}

(* A pair on its way to whoever awaits it is not spent, and nobody else    *)
(* knows it.                                                               *)
New(n) ==
  /\ refresh[n] # "ROTATED"
  /\ n \notin {file, held, Env}
NewInCall(c) ==
  /\ New(call[c].pair)
  /\ \A d \in Calls: call[d].pair = call[c].pair => d = c
  /\ \A h \in Hooks: hook[h].pair # call[c].pair
NewInHook(h) ==
  /\ New(hook[h].pair)
  /\ \A d \in Calls: call[d].pair # hook[h].pair
  /\ \A g \in Hooks: hook[g].pair = hook[h].pair => g = h

(* Call c is a rotation of n, or its outcome.                              *)
Rotates(c, n) ==
  /\ call[c].pc \in Rotating \cup {"OK", "REFUSED", "FAILED"}
  /\ call[c].pc \in Rotating => call[c].pair = n
  /\ call[c].pc = "OK" => parent[call[c].pair] = n /\ NewInCall(c)

Carried ==
  /\ \A h \in Hooks: /\ hook[h].pc = "REFRESH" => Rotates(hook[h].call, hook[h].pair)
                     /\ hook[h].pc \in {"REREAD", "WRITE"} => NewInHook(h)
  /\ flight.call # None => Rotates(flight.call, held)

(* A rotation of a pair that is still in use is awaited, or its answer was *)
(* given up.                                                               *)
HeldAwaited ==
  \A c \in Calls: call[c].pc \in Rotating /\ call[c].pair = held =>
    flight.call = c \/ held \in forgotten
FileAwaited ==
  \A c \in Calls: call[c].pc \in Rotating /\ call[c].pair = file =>
    file \in forgotten \/ \E h \in Hooks: hook[h].pc = "REFRESH" /\ hook[h].call = c
Orphans == HeldAwaited /\ FileAwaited

(* FileIsLatest, where the process that brings the successor is one that   *)
(* asked for it: a revocation's answer is no successor.                    *)
Fetches(h, n) ==
  \/ /\ hook[h].pc = "REFRESH"
     /\ call[hook[h].call].pc = "OK" /\ parent[call[hook[h].call].pair] = n
  \/ hook[h].pc \in {"REREAD", "WRITE"} /\ parent[hook[h].pair] = n
FileFetched ==
  file # None /\ refresh[file] = "ROTATED"
    => file \in forgotten \/ \E h \in Hooks: Fetches(h, file)

LatestInv == Waits /\ Apart /\ Carried /\ Orphans /\ FileFetched /\ HeldIsLatest

(* A step of the server that rotates nothing.                              *)
RefuseOrMove(c) ==
  /\ call'[c].pair \in {call[c].pair, None}
  /\ call'[c].pc \in Rotating => call[c].pc \in Rotating /\ call'[c].pair = call[c].pair
  /\ call'[c].pc = "OK" => call[c].pc \notin Rotating
  /\ call[c].pc \in Rotating => call'[c].pc \in Rotating \cup {"REFUSED", "FAILED", "FREE"}
  /\ call[c].pc \in {"OK", "REFUSED", "FAILED", "FREE"} => call'[c] = call[c]
  /\ call'[c].pc = "FREE" => call[c].pc = "FREE" \/ ~Heard(c)

LEMMA LatestUnmoved ==
  ASSUME TokenAssumption, TypeOK, Known, LatestInv,
         UNCHANGED <<issued, parent, cli, mcp, forgotten>>,
         \A n \in Pairs: refresh'[n] = "ROTATED" <=> refresh[n] = "ROTATED",
         \A c \in Calls: RefuseOrMove(c)
  PROVE  LatestInv'
<1> USE Numbers DEF cli, mcp
<1>1. /\ flight.call # None => flight.call \in Calls
      /\ \A h \in Hooks: /\ hook[h].call # None => hook[h].call \in Calls
                         /\ hook[h].pc = "REFRESH" => hook[h].call \in Calls
      /\ \A c \in Calls: call[c].pc \in Rotating \cup {"OK"} => call[c].pair \in Held
      /\ held \in Pairs /\ file \in Pairs \cup {None}
  BY DEF TypeOK, Flight, Hook, Known, CallsKnown, HooksKnown, Working, Rotating
<1>2. /\ flight.call # None => call'[flight.call].pc # "FREE"
      /\ \A h \in Hooks: hook[h].call # None => call'[hook[h].call].pc # "FREE"
  BY <1>1 DEF LatestInv, Waits, RefuseOrMove, Heard
<1>3. Waits'
  BY <1>2 DEF LatestInv, Waits
<1>4. Apart'
  BY DEF LatestInv, Apart
<1>5. ASSUME NEW c \in Calls, NEW n, Rotates(c, n), call'[c].pc # "FREE"
      PROVE  Rotates(c, n)'
  <2>1. /\ call'[c].pc \in Rotating \cup {"OK", "REFUSED", "FAILED"}
        /\ call'[c].pc \in Rotating => call'[c].pair = n
    BY <1>5 DEF Rotates, RefuseOrMove
  <2>2. ASSUME call'[c].pc = "OK"
        PROVE  parent'[call'[c].pair] = n /\ NewInCall(c)'
    <3>1. call[c].pc = "OK" /\ call'[c] = call[c]
      BY <1>5, <2>2 DEF Rotates, RefuseOrMove
    <3>2. call[c].pair \in Held /\ None \notin Held
      BY <1>1, <3>1
    <3>3. \A d \in Calls: call'[d].pair = call[c].pair => d = c
      BY <1>5, <3>1, <3>2 DEF Rotates, RefuseOrMove, NewInCall
    <3>4. QED
      BY <1>5, <3>1, <3>2, <3>3 DEF Rotates, NewInCall, New
  <2>3. QED
    BY <2>1, <2>2 DEF Rotates
<1>6. ASSUME NEW h \in Hooks, hook[h].pc \in {"REREAD", "WRITE"}
      PROVE  NewInHook(h)'
  <2>1. hook[h].pair \in Held /\ None \notin Held
    BY <1>6 DEF Known, HooksKnown
  <2>2. NewInHook(h)
    BY <1>6 DEF LatestInv, Carried
  <2>3. \A d \in Calls: call'[d].pair # hook[h].pair
    BY <2>1, <2>2 DEF NewInHook, RefuseOrMove
  <2>4. QED
    BY <2>1, <2>2, <2>3 DEF NewInHook, New
<1>7. \A h \in Hooks: hook[h].pc = "REFRESH" => hook[h].call # None
  BY DEF Known, HooksKnown
<1>8. Carried'
  BY <1>1, <1>2, <1>5, <1>6, <1>7 DEF LatestInv, Carried
<1>9. Orphans'
  BY DEF LatestInv, Orphans, HeldAwaited, FileAwaited, RefuseOrMove
<1>10. \A c \in Calls: call[c].pc = "OK" => call'[c] = call[c]
  BY DEF RefuseOrMove
<1>11. FileFetched'
  <2>1. \A h \in Hooks: Fetches(h, file) => Fetches(h, file)'
    BY <1>1, <1>10 DEF Fetches
  <2>2. QED
    BY <1>1, <2>1 DEF LatestInv, FileFetched
<1>12. HeldIsLatest'
  BY <1>1, <1>10 DEF LatestInv, HeldIsLatest
<1>13. QED
  BY <1>3, <1>4, <1>8, <1>9, <1>11, <1>12 DEF LatestInv

LEMMA Moves ==
  ASSUME TokenAssumption, TypeOK, NEW c \in Calls,
         \/ call[c].pc = "ROTATE" /\ Step(c, "REVOKE_OLD")
         \/ /\ call[c].pc \in {"AUTHENTICATE", "REVOKE_ACCESS"}
            /\ Step(c, "REVOKE_ACCESS") \/ Step(c, "REVOKE_REFRESH")
         \/ /\ call[c].pc \in Working
            /\ \E result \in {"REFUSED", "FAILED"}: Answer(c, result, None)
         \/ call[c].pc = "REVOKE_REFRESH" /\ Answer(c, "OK", call[c].pair)
  PROVE  \A d \in Calls: RefuseOrMove(d)
<1>1. \A d \in Calls: d # c => call'[d] = call[d]
  BY DEF Step, Answer, TypeOK
<1>2. \A d \in Calls: call'[d] = call[d] => RefuseOrMove(d)
  BY DEF RefuseOrMove, Rotating
<1>3. RefuseOrMove(c)
  <2>1. ASSUME NEW pc \in {"REVOKE_OLD", "REVOKE_ACCESS", "REVOKE_REFRESH"}, Step(c, pc),
               pc = "REVOKE_OLD" <=> call[c].pc = "ROTATE",
               call[c].pc \in {"ROTATE", "AUTHENTICATE", "REVOKE_ACCESS"}
        PROVE  RefuseOrMove(c)
    <3>1. call'[c].pc = pc /\ call'[c].pair = call[c].pair
      BY <2>1 DEF Step, TypeOK, Call
    <3>2. QED
      BY <2>1, <3>1 DEF RefuseOrMove, Rotating
  <2>2. ASSUME NEW result \in {"REFUSED", "FAILED"}, Answer(c, result, None),
               call[c].pc \in Working
        PROVE  RefuseOrMove(c)
    BY <2>2 DEF Answer, RefuseOrMove, Rotating, TypeOK, Free, Working
  <2>3. CASE call[c].pc = "REVOKE_REFRESH" /\ Answer(c, "OK", call[c].pair)
    BY <2>3 DEF Answer, RefuseOrMove, Rotating, TypeOK, Free, Working
  <2>4. QED
    BY <2>1, <2>2, <2>3
<1>4. QED
  BY <1>1, <1>2, <1>3

(* A rotation commits: whoever awaits it is on the way to its successor,   *)
(* which nobody else knows.                                                *)
LEMMA RotateCommitLatest ==
  ASSUME TokenAssumption, TypeOK, Known, Core, LatestInv, NEW c \in Calls, RotateCommit(c)
  PROVE  LatestInv'
<1> DEFINE n == call[c].pair
           new == issued + 1
<1> USE Numbers DEF cli, mcp
<1>1. /\ n \in Held /\ n \in Pairs /\ new \in Pairs /\ new \notin Held
      /\ call[c].pc = "REVOKE_OLD"
      /\ None \notin Pairs /\ Env # new
      /\ held \in Held /\ file \in Held \cup {None}
      /\ \A h \in Hooks: hook[h].pair \in Held \cup {None}
      /\ \A d \in Calls: call[d].pair \in Held \cup {None}
      /\ \A d \in Calls: call[d].pc \in Rotating \cup {"OK"} => call[d].pair \in Held
      /\ UNCHANGED <<cli, mcp, forgotten>>
  <2>1. n \in Held
    BY DEF RotateCommit, Known, CallsKnown, Working
  <2>2. new \in Pairs /\ new \notin Held
    BY DEF RotateCommit, TypeOK, Pairs, Held, Env, TokenAssumption
  <2>3. QED
    BY <2>1, <2>2 DEF RotateCommit, Known, CallsKnown, HooksKnown, Working, Rotating
<1>2. /\ refresh'[new] = "LIVE" /\ parent'[new] = n
      /\ \A k \in Pairs: k # n /\ k # new => refresh'[k] = refresh[k]
      /\ \A k \in Pairs: k # new => parent'[k] = parent[k]
      /\ \A k \in Held: refresh[k] = "ROTATED" => refresh'[k] = "ROTATED"
  BY <1>1 DEF RotateCommit, TypeOK
<1>3. /\ \A d \in Calls: d # c => call'[d] = call[d]
      /\ Heard(c) => call'[c] = [pc |-> "OK", pair |-> new]
      /\ ~Heard(c) => call'[c] = Free
  BY DEF RotateCommit, Answer, TypeOK
<1>4. /\ flight.call # None => flight.call \in Calls
      /\ \A h \in Hooks: /\ hook[h].call # None => hook[h].call \in Calls
                         /\ hook[h].pc = "REFRESH" => hook[h].call # None
  BY DEF TypeOK, Flight, Hook, Known, HooksKnown
<1>5. Waits'
  BY <1>1, <1>3, <1>4 DEF LatestInv, Waits, Heard
<1>6. Apart'
  BY <1>1 DEF LatestInv, Apart
<1>7. ASSUME Heard(c)
      PROVE  NewInCall(c)'
  BY <1>1, <1>2, <1>3, <1>7 DEF NewInCall, New
<1>8. ASSUME NEW d \in Calls, NEW k, Rotates(d, k), d = c => Heard(c)
      PROVE  Rotates(d, k)'
  <2>1. CASE d = c
    <3>1. k = n
      BY <1>1, <1>8, <2>1 DEF Rotates, Rotating
    <3>2. QED
      BY <1>2, <1>3, <1>7, <1>8, <2>1, <3>1 DEF Rotates, Rotating
  <2>2. CASE d # c
    <3>1. ASSUME call[d].pc = "OK"
          PROVE  parent'[call'[d].pair] = k /\ NewInCall(d)'
      <4>1. call[d].pair \in Held /\ call[d].pair # n /\ NewInCall(d) /\ parent[call[d].pair] = k
        BY <1>1, <1>8, <2>2, <3>1 DEF Rotates, NewInCall
      <4>2. \A e \in Calls: call'[e].pair = call[d].pair => e = d
        BY <1>1, <1>3, <2>2, <4>1 DEF NewInCall, Free
      <4>3. refresh'[call[d].pair] # "ROTATED" /\ parent'[call[d].pair] = k
        BY <1>1, <1>2, <4>1 DEF NewInCall, New
      <4>4. QED
        BY <1>1, <1>3, <2>2, <4>1, <4>2, <4>3 DEF NewInCall, New
    <3>2. QED
      BY <1>3, <1>8, <2>2, <3>1 DEF Rotates
  <2>3. QED
    BY <2>1, <2>2
<1>9. ASSUME NEW h \in Hooks, hook[h].pc \in {"REREAD", "WRITE"}
      PROVE  NewInHook(h)'
  <2>1. hook[h].pair \in Held /\ hook[h].pair # n /\ NewInHook(h)
    BY <1>1, <1>9 DEF LatestInv, Carried, NewInHook, Known, HooksKnown
  <2>2. \A d \in Calls: call'[d].pair # hook[h].pair
    BY <1>1, <1>3, <2>1 DEF NewInHook, Free
  <2>3. QED
    BY <1>1, <1>2, <2>1, <2>2 DEF NewInHook, New
<1>10. Carried'
  <2>1. ASSUME NEW h \in Hooks, hook[h].pc = "REFRESH"
        PROVE  Rotates(hook[h].call, hook[h].pair)'
    <3>1. hook[h].call \in Calls /\ Heard(hook[h].call) /\ Rotates(hook[h].call, hook[h].pair)
      BY <1>4, <2>1 DEF LatestInv, Carried, Heard
    <3>2. hook' = hook
      BY <1>1
    <3>3. Rotates(hook[h].call, hook[h].pair)'
      BY <1>8, <3>1, <3>2, ZenonT(60) DEF Rotates, NewInCall, New
    <3>4. QED
      BY <3>3
  <2>2. ASSUME flight.call # None
        PROVE  Rotates(flight.call, held)'
    <3>1. flight.call \in Calls /\ Heard(flight.call) /\ Rotates(flight.call, held)
      BY <1>4, <2>2 DEF LatestInv, Carried, Heard
    <3>2. QED
      BY <1>1, <1>8, <3>1, ZenonT(60) DEF Rotates, NewInCall, New
  <2>3. QED
    BY <1>1, <1>9, <2>1, <2>2 DEF Carried
<1>11. Orphans'
  BY <1>1, <1>3 DEF LatestInv, Orphans, HeldAwaited, FileAwaited, Rotating, Free
<1>12. FileFetched'
  <2>1. SUFFICES ASSUME file # None, refresh'[file] = "ROTATED", file \notin forgotten
                 PROVE  \E h \in Hooks: Fetches(h, file)'
    BY <1>1 DEF FileFetched
  <2>2. CASE file = n
    <3>1. PICK h \in Hooks: hook[h].pc = "REFRESH" /\ hook[h].call = c
      BY <1>1, <2>1, <2>2 DEF LatestInv, Orphans, HeldAwaited, FileAwaited, Rotating
    <3>2. Fetches(h, file)'
      BY <1>1, <1>2, <1>3, <2>2, <3>1 DEF Fetches, Heard
    <3>3. QED
      BY <3>2
  <2>3. CASE file # n
    <3>1. PICK h \in Hooks: Fetches(h, file)
      BY <1>1, <1>2, <2>1, <2>3 DEF LatestInv, FileFetched
    <3>2. hook[h].pc = "REFRESH" => hook[h].call # c /\ hook[h].call \in Calls
      BY <1>1, <1>4, <3>1 DEF Fetches
    <3>3. hook[h].pc \in {"REREAD", "WRITE"} => hook[h].pair \in Held
      BY DEF Known, HooksKnown
    <3>4. Fetches(h, file)'
      BY <1>1, <1>2, <1>3, <3>1, <3>2, <3>3 DEF Fetches
    <3>5. QED
      BY <3>4
  <2>4. QED
    BY <2>2, <2>3
<1>13. HeldIsLatest'
  <2>1. CASE held = n
    BY <1>1, <1>2, <1>3, <2>1
       DEF LatestInv, Orphans, HeldAwaited, Rotating, HeldIsLatest, Heard
  <2>2. CASE held # n
    BY <1>1, <1>2, <1>3, <1>4, <2>2 DEF LatestInv, HeldIsLatest
  <2>3. QED
    BY <2>1, <2>2
<1>14. QED
  BY <1>5, <1>6, <1>10, <1>11, <1>12, <1>13 DEF LatestInv

LEMMA ServerLatest ==
  ASSUME TokenAssumption, TypeOK, Known, Core, LatestInv, ServerStep
  PROVE  LatestInv'
<1>1. ASSUME NEW n \in Pairs, Age(n) \/ RefreshExpires(n)
      PROVE  LatestInv'
  <2>1. /\ UNCHANGED <<issued, parent, cli, mcp, forgotten>> /\ call' = call
        /\ \A k \in Pairs: refresh'[k] = "ROTATED" <=> refresh[k] = "ROTATED"
    BY <1>1 DEF Age, RefreshExpires, TypeOK
  <2>2. \A c \in Calls: RefuseOrMove(c)
    BY <2>1 DEF RefuseOrMove, Rotating
  <2>3. QED
    BY <2>1, <2>2, LatestUnmoved
<1>2. ASSUME NEW c \in Calls,
             RotateRead(c) \/ Authenticate(c) \/ RevokeAccess(c) \/ CallFails(c)
      PROVE  LatestInv'
  <2>1. \A d \in Calls: RefuseOrMove(d)
    BY <1>2, Moves DEF RotateRead, Authenticate, RevokeAccess, CallFails, Working
  <2>2. UNCHANGED <<issued, parent, cli, mcp, forgotten, refresh>>
    BY <1>2 DEF RotateRead, Authenticate, RevokeAccess, CallFails, server
  <2>3. QED
    BY <2>1, <2>2, LatestUnmoved
<1>3. ASSUME NEW c \in Calls, RevokeCommit(c)
      PROVE  LatestInv'
  <2>1. \A d \in Calls: RefuseOrMove(d)
    BY <1>3, Moves DEF RevokeCommit
  <2>2. \A k \in Pairs: refresh'[k] = "ROTATED" <=> refresh[k] = "ROTATED"
    BY <1>3 DEF RevokeCommit, TypeOK
  <2>3. UNCHANGED <<issued, parent, cli, mcp, forgotten>>
    BY <1>3 DEF RevokeCommit
  <2>4. QED
    BY <2>1, <2>2, <2>3, LatestUnmoved
<1>4. QED
  BY <1>1, <1>2, <1>3, RotateCommitLatest DEF ServerStep

(* What any step of process h changes: its own state, its own request, one *)
(* it sends with the pair in the file, and the file.                       *)
OnlyMoves(h) ==
  /\ \A g \in Hooks: g # h => hook'[g] = hook[g]
  /\ \A c \in Calls: \/ call'[c] = call[c]
                     \/ call'[c] = Free /\ hook[h].call = c
                     \/ call[c].pc = "FREE" /\ call'[c].pair = file /\ file # None
  /\ file' \in {file, None, hook[h].pair}
  /\ \/ hook'[h].pair \in {None, hook[h].pair, file}
     \/ /\ hook[h].pc = "REFRESH" /\ call[hook[h].call].pc = "OK"
        /\ hook'[h].pair = call[hook[h].call].pair
  /\ \/ hook'[h].call = None
     \/ /\ hook'[h].pc \in {"REFRESH", "REVOKE"}
        /\ hook'[h].call \in Calls /\ call[hook'[h].call].pc = "FREE"
        /\ call'[hook'[h].call].pc # "FREE"

LEMMA OthersStay ==
  ASSUME TokenAssumption, TypeOK, Known, LatestInv, RowsStay, UNCHANGED mcp,
         forgotten \subseteq forgotten', NEW h \in Hooks, OnlyMoves(h)
  PROVE  /\ Waits' /\ Apart' /\ HeldIsLatest'
         /\ \A g \in Hooks: g # h =>
              /\ hook[g].pc = "REFRESH" => Rotates(hook[g].call, hook[g].pair)'
              /\ hook[g].pc \in {"REREAD", "WRITE"} => NewInHook(g)'
              /\ \A n \in Pairs: Fetches(g, n) => Fetches(g, n)'
         /\ flight.call # None => Rotates(flight.call, held)'
         /\ HeldAwaited'
<1> USE Numbers DEF mcp, RowsStay
<1>1. /\ flight.call # None => flight.call \in Calls
      /\ \A g \in Hooks: /\ hook[g].call # None => hook[g].call \in Calls
                         /\ hook[g].pc = "REFRESH" => hook[g].call # None
      /\ held \in Held /\ file \in Held \cup {None} /\ None \notin Held
      /\ \A g \in Hooks: hook[g].pc \in {"REFRESH", "REREAD", "WRITE"} => hook[g].pair \in Held
      /\ \A c \in Calls: call[c].pc \in Rotating \cup {"OK"} => call[c].pair \in Held
  BY DEF TypeOK, Flight, Hook, Known, HooksKnown, CallsKnown, Working, Rotating
<1>2. /\ \A g \in Hooks: g # h /\ hook[g].call # None => call'[hook[g].call] = call[hook[g].call]
      /\ flight.call # None => call'[flight.call] = call[flight.call]
  BY <1>1 DEF LatestInv, Waits, OnlyMoves
<1>3. Waits'
  BY <1>1, <1>2 DEF LatestInv, Waits, OnlyMoves
<1>4. hook[h].pc = "REFRESH" /\ call[hook[h].call].pc = "OK" => NewInCall(hook[h].call)
  BY <1>1 DEF LatestInv, Carried, Rotates
<1>5. Apart'
  BY <1>1, <1>4 DEF LatestInv, Apart, OnlyMoves, NewInCall, New, TokenAssumption, Env
<1>6. ASSUME NEW c \in Calls, call[c].pc = "OK", NewInCall(c), call'[c] = call[c],
             c # hook[h].call
      PROVE  NewInCall(c)'
  <2>1. call[c].pair \in Held /\ call[c].pair \notin {file, None, hook[h].pair}
    BY <1>1, <1>6 DEF NewInCall, New
  <2>2. \A d \in Calls: call'[d].pair = call[c].pair => d = c
    BY <1>6, <2>1 DEF NewInCall, OnlyMoves, Free
  <2>3. \A g \in Hooks: hook'[g].pair # call[c].pair
    <3>1. hook[h].pc = "REFRESH" => call[hook[h].call].pair # call[c].pair
      BY <1>1, <1>6 DEF NewInCall
    <3>2. QED
      BY <1>6, <2>1, <3>1 DEF NewInCall, OnlyMoves
  <2>4. QED
    BY <1>6, <2>1, <2>2, <2>3 DEF NewInCall, New, OnlyMoves
<1>7. ASSUME NEW c \in Calls, NEW n, Rotates(c, n), call'[c] = call[c], c # hook[h].call
      PROVE  Rotates(c, n)'
  BY <1>6, <1>7 DEF Rotates
<1>8. ASSUME NEW g \in Hooks, g # h, hook[g].pc \in {"REREAD", "WRITE"}
      PROVE  NewInHook(g)'
  <2>1. NewInHook(g) /\ hook[g].pair \in Held /\ hook'[g] = hook[g]
    BY <1>1, <1>8 DEF LatestInv, Carried, OnlyMoves
  <2>2. hook[g].pair \notin {file, None, hook[h].pair}
    BY <1>1, <1>8, <2>1 DEF NewInHook, New
  <2>3. \A d \in Calls: call'[d].pair # hook[g].pair
    BY <2>1, <2>2 DEF NewInHook, OnlyMoves, Free
  <2>4. hook'[h].pair # hook[g].pair
    BY <1>1, <2>1, <2>2 DEF NewInHook, OnlyMoves
  <2>5. \A k \in Hooks: hook'[k].pair = hook[g].pair => k = g
    BY <1>8, <2>1, <2>4 DEF NewInHook, OnlyMoves
  <2>6. QED
    BY <2>1, <2>2, <2>3, <2>5 DEF NewInHook, New, OnlyMoves
<1>9. ASSUME NEW g \in Hooks, g # h, hook[g].pc = "REFRESH"
      PROVE  Rotates(hook[g].call, hook[g].pair)'
  <2>1. /\ hook[g].call \in Calls /\ call'[hook[g].call] = call[hook[g].call]
        /\ hook[g].call # hook[h].call /\ Rotates(hook[g].call, hook[g].pair)
        /\ hook'[g] = hook[g]
    BY <1>1, <1>2, <1>9 DEF LatestInv, Carried, Waits, OnlyMoves
  <2>2. QED
    BY <1>7, <2>1 DEF Rotates, NewInCall, New
<1>10. ASSUME NEW g \in Hooks, g # h, NEW n \in Pairs, Fetches(g, n)
       PROVE  Fetches(g, n)'
  BY <1>1, <1>2, <1>10 DEF Fetches, OnlyMoves
<1>11. ASSUME flight.call # None
       PROVE  Rotates(flight.call, held)'
  <2>1. /\ flight.call \in Calls /\ call'[flight.call] = call[flight.call]
        /\ flight.call # hook[h].call /\ Rotates(flight.call, held)
    BY <1>1, <1>2, <1>11 DEF LatestInv, Carried, Waits
  <2>2. QED
    BY <1>7, <2>1 DEF Rotates, NewInCall, New
<1>12. HeldIsLatest'
  BY <1>1, <1>2 DEF LatestInv, HeldIsLatest
<1>13. HeldAwaited'
  BY <1>1 DEF LatestInv, Orphans, HeldAwaited, FileAwaited, Apart, OnlyMoves, Free, Rotating
<1>14. QED
  BY <1>3, <1>5, <1>8, <1>9, <1>10, <1>11, <1>12, <1>13

(* What is left to show of a step of process h.                            *)
OwnCarried(h) ==
  /\ hook[h].pc = "REFRESH" => Rotates(hook[h].call, hook[h].pair)
  /\ hook[h].pc \in {"REREAD", "WRITE"} => NewInHook(h)

LEMMA HookKeeps ==
  ASSUME TokenAssumption, TypeOK, Known, LatestInv, RowsStay, UNCHANGED mcp,
         forgotten \subseteq forgotten', NEW h \in Hooks, OnlyMoves(h),
         OwnCarried(h)', FileAwaited', FileFetched'
  PROVE  LatestInv'
<1> USE DEF mcp, RowsStay
<1>1. Waits' /\ Apart' /\ HeldIsLatest' /\ HeldAwaited'
  BY OthersStay
<1>2. ASSUME NEW g \in Hooks
      PROVE  OwnCarried(g)'
  <2>1. CASE g = h
    BY <2>1
  <2>2. CASE g # h
    <3>1. hook'[g] = hook[g]
      BY <2>2 DEF OnlyMoves
    <3>2. hook[g].pc = "REFRESH" => Rotates(hook[g].call, hook[g].pair)'
      BY <2>2, OthersStay
    <3>3. hook[g].pc \in {"REREAD", "WRITE"} => NewInHook(g)'
      BY <2>2, OthersStay
    <3>4. QED
      BY <3>1, <3>2, <3>3 DEF OwnCarried
  <2>3. QED
    BY <2>1, <2>2
<1>3. flight.call # None => Rotates(flight.call, held)'
  BY OthersStay
<1>4. Carried'
  BY <1>2, <1>3 DEF Carried, OwnCarried
<1>5. QED
  BY <1>1, <1>4 DEF LatestInv, Orphans

LEMMA Drops ==
  ASSUME TypeOK, NEW d, Drop(d), NEW c \in Calls
  PROVE  call'[c] = call[c] \/ (call'[c] = Free /\ c = d)
<1>1. CASE c = d
  BY <1>1 DEF Drop, TypeOK
<1>2. CASE c # d
  BY <1>2 DEF Drop, TypeOK
<1>3. QED
  BY <1>1, <1>2

LEMMA HookLatest ==
  ASSUME TokenAssumption, TypeOK, Known, Core, LatestInv, NEW h \in Hooks, HookStep(h),
         RowsStay
  PROVE  LatestInv'
<1> USE Numbers DEF mcp
<1>1. /\ UNCHANGED mcp /\ forgotten \subseteq forgotten'
      /\ UNCHANGED <<refresh, parent>>
  BY DEF HookStep, HookStarts, RevokeStarts, RefreshAnswered, RefreshTimesOut, RereadConfig,
         WriteConfig, HookFails, PersistRead, PersistWrite, RevokeEnds, RowsStay
<1>2. /\ hook[h].pc = "REFRESH" => hook[h].call \in Calls /\ hook[h].call # None
      /\ hook[h].pc = "REVOKE" => hook[h].call \in Calls /\ hook[h].call # None
      /\ hook[h].pc \notin {"REFRESH", "REVOKE"} => hook[h].call = None
      /\ hook[h].pc \notin {"IDLE", "REVOKED", "END"} => hook[h].pair \in Held
      /\ None \notin Held /\ file \in Held \cup {None}
      /\ \A c \in Calls: call[c].pc \in Rotating \cup {"OK"} => call[c].pair \in Held
  BY DEF TypeOK, Hook, Known, HooksKnown, CallsKnown, Working, Rotating, LatestInv, Waits
(* Whoever waited for a rotation of the file's pair still does, unless it  *)
(* is h; and h knows what it waited for.                                   *)
<1>3. \A g \in Hooks: /\ hook[g].call # None => hook[g].call \in Calls
                      /\ hook[g].pc = "REFRESH" => hook[g].call # None
  BY DEF TypeOK, Hook, Known, HooksKnown
<1>4. hook[h].pc = "REFRESH" => Rotates(hook[h].call, hook[h].pair)
  BY DEF LatestInv, Carried
<1>5. ASSUME file' = file, OnlyMoves(h),
             hook[h].pc = "REFRESH" /\ call[hook[h].call].pc \in Rotating
               /\ call[hook[h].call].pair = file => file \in forgotten',
             \A c \in Calls: call[c].pc = "FREE" /\ call'[c].pc \in Rotating =>
               hook'[h].pc = "REFRESH" /\ hook'[h].call = c
      PROVE  FileAwaited'
  <2>1. SUFFICES ASSUME NEW c \in Calls, call'[c].pc \in Rotating, call'[c].pair = file,
                        file \notin forgotten'
                 PROVE  \E g \in Hooks: hook'[g].pc = "REFRESH" /\ hook'[g].call = c
    BY <1>5 DEF FileAwaited
  <2>2. CASE call[c].pc = "FREE" 
    BY <1>5, <2>1, <2>2
  <2>3. CASE call[c].pc # "FREE"
    <3>1. call'[c] = call[c]
      BY <1>5, <2>1, <2>3 DEF OnlyMoves, Free, Rotating
    <3>2. PICK g \in Hooks: hook[g].pc = "REFRESH" /\ hook[g].call = c
      BY <1>1, <2>1, <3>1 DEF LatestInv, Orphans, FileAwaited
    <3>3. g # h
      BY <1>5, <2>1, <3>1, <3>2
    <3>4. QED
      BY <1>5, <3>2, <3>3 DEF OnlyMoves
  <2>4. QED
    BY <2>2, <2>3
<1>6. ASSUME file' = file, OnlyMoves(h),
             file \in Pairs /\ Fetches(h, file) => Fetches(h, file)' \/ file \in forgotten'
      PROVE  FileFetched'
  <2>1. SUFFICES ASSUME file # None, refresh[file] = "ROTATED", file \notin forgotten'
                 PROVE  \E g \in Hooks: Fetches(g, file)'
    BY <1>1, <1>6 DEF FileFetched, Fetches
  <2>2. PICK g \in Hooks: Fetches(g, file)
    BY <1>1, <2>1 DEF LatestInv, FileFetched
  <2>3. Fetches(g, file)'
    BY <1>1, <1>2, <1>6, <2>1, <2>2, OthersStay DEF Fetches
  <2>4. QED
    BY <2>3
<1>7. CASE HookStarts(h)
  <2>1. CASE HookAt(h, "USE", file) /\ UNCHANGED call
    <3>1. OnlyMoves(h) /\ file' = file /\ hook'[h].pc = "USE"
      BY <1>7, <2>1 DEF HookStarts, HookAt, OnlyMoves, TypeOK
    <3>2. OwnCarried(h)' /\ FileAwaited' /\ FileFetched'
      BY <1>5, <1>6, <1>7, <2>1, <3>1 DEF OwnCarried, HookStarts, Fetches, Rotating
    <3>3. QED
      BY <1>1, <3>1, <3>2, HookKeeps
  <2>2. ASSUME NEW c \in Calls, Send(c, "ROTATE", file), HookSends(h, "REFRESH", c)
        PROVE  LatestInv'
    <3>1. /\ hook'[h] = [pc |-> "REFRESH", pair |-> file, call |-> c] /\ file' = file
          /\ call'[c] = [pc |-> "ROTATE", pair |-> file] /\ call[c].pc = "FREE"
          /\ \A d \in Calls: d # c => call'[d] = call[d]
      BY <1>7, <2>2 DEF HookStarts, HookSends, Send, TypeOK, Free
    <3>2. OnlyMoves(h)
      BY <1>7, <2>2, <3>1 DEF HookStarts, HookSends, OnlyMoves, TypeOK
    <3>3. OwnCarried(h)'
      BY <3>1 DEF OwnCarried, Rotates, Rotating
    <3>4. hook[h].pc = "IDLE"
      BY <1>7 DEF HookStarts
    <3>5. FileAwaited'
      BY <1>5, <3>1, <3>2, <3>4 DEF Rotating
    <3>6. FileFetched'
      BY <1>6, <3>1, <3>2, <3>4 DEF Fetches
    <3>7. QED
      BY <1>1, <3>2, <3>3, <3>5, <3>6, HookKeeps
  <2>3. QED
    BY <1>7, <2>1, <2>2 DEF HookStarts
<1>8. CASE RevokeStarts(h)
  <2>1. PICK c \in Calls: Send(c, "AUTHENTICATE", file) /\ HookSends(h, "REVOKE", c)
    BY <1>8 DEF RevokeStarts
  <2>2. /\ hook'[h] = [pc |-> "REVOKE", pair |-> file, call |-> c] /\ file' = file
        /\ call'[c] = [pc |-> "AUTHENTICATE", pair |-> file] /\ call[c].pc = "FREE"
        /\ \A d \in Calls: d # c => call'[d] = call[d]
    BY <1>8, <2>1 DEF RevokeStarts, HookSends, Send, TypeOK, Free
  <2>3. OnlyMoves(h)
    BY <1>8, <2>1, <2>2 DEF RevokeStarts, HookSends, OnlyMoves, TypeOK
  <2>4. OwnCarried(h)' /\ FileAwaited' /\ FileFetched'
    BY <1>5, <1>6, <1>8, <2>2, <2>3 DEF RevokeStarts, Fetches, Rotating, OwnCarried
  <2>5. QED
    BY <1>1, <2>3, <2>4, HookKeeps
<1>9. CASE RefreshAnswered(h)
  <2> DEFINE c == hook[h].call
  <2>1. /\ hook[h].pc = "REFRESH" /\ c \in Calls /\ file' = file
        /\ call[c].pc \in {"OK", "REFUSED", "FAILED"}
        /\ call' = [call EXCEPT ![c] = Free]
        /\ call'[c] = Free /\ \A d \in Calls: d # c => call'[d] = call[d]
        /\ Rotates(c, hook[h].pair)
    BY <1>2, <1>4, <1>9 DEF RefreshAnswered, TypeOK
  <2>2. CASE call[c].pc = "OK"
    <3>1. /\ hook' = [hook EXCEPT ![h] = [pc |-> "REREAD", pair |-> call[c].pair, call |-> None]]
          /\ hook'[h] = [pc |-> "REREAD", pair |-> call[c].pair, call |-> None]
      BY <1>9, <2>2 DEF RefreshAnswered, HookAt, TypeOK
    <3>2. OnlyMoves(h)
      BY <2>1, <2>2, <3>1 DEF OnlyMoves
    <3>3. NewInCall(c) /\ parent[call[c].pair] = hook[h].pair /\ call[c].pair \in Held
      BY <1>2, <2>1, <2>2 DEF Rotates
    <3>4. NewInHook(h)'
      BY <1>1, <1>2, <2>1, <3>1, <3>3 DEF NewInCall, NewInHook, New, Free
    <3>5. OwnCarried(h)'
      BY <3>1, <3>4 DEF OwnCarried
    <3>6. FileAwaited'
      BY <1>5, <2>1, <3>2 DEF Rotating, Free
    <3>7. Fetches(h, file) => Fetches(h, file)'
      BY <1>1, <2>1, <3>1 DEF Fetches
    <3>8. QED
      BY <1>1, <1>6, <2>1, <3>2, <3>5, <3>6, <3>7, HookKeeps
  <2>3. CASE call[c].pc # "OK"
    <3>1. WithoutRefresh(h)
      BY <1>9, <2>3 DEF RefreshAnswered
    <3>2. OnlyMoves(h) /\ hook'[h].pc \in {"USE", "END"}
      BY <2>1, <3>1 DEF OnlyMoves, WithoutRefresh, HookAt, HookEnds, NoHook, TypeOK
    <3>3. OwnCarried(h)' /\ FileAwaited' /\ FileFetched'
      BY <1>5, <1>6, <2>1, <2>3, <3>2 DEF OwnCarried, Fetches, Rotating, Free
    <3>4. QED
      BY <1>1, <3>2, <3>3, HookKeeps
  <2>4. QED
    BY <2>2, <2>3
<1>10. CASE RefreshTimesOut(h)
  <2>1. /\ hook[h].pc = "REFRESH" /\ file' = file /\ hook[h].call \in Calls
        /\ WithoutRefresh(h) /\ Drop(hook[h].call)
        /\ hook[h].pair \in forgotten'
    BY <1>2, <1>10 DEF RefreshTimesOut
  <2>2. OnlyMoves(h) /\ hook'[h].pc \in {"USE", "END"}
    BY <2>1 DEF OnlyMoves, WithoutRefresh, HookAt, HookEnds, NoHook, TypeOK, Drop
  <2>3. \A c \in Calls: call'[c] = call[c] \/ call'[c] = Free
    BY <2>1 DEF Drop, TypeOK
  <2>4. FileAwaited'
    BY <1>4, <1>5, <2>1, <2>2, <2>3 DEF Rotates, Rotating, Free
  <2>5. FileFetched'
    BY <1>4, <1>6, <2>1, <2>2 DEF Rotates, Fetches
  <2>6. QED
    BY <1>1, <2>2, <2>4, <2>5, HookKeeps DEF OwnCarried
<1>11. CASE RereadConfig(h)
  <2>1. /\ hook[h].pc = "REREAD" /\ UNCHANGED <<call, file>>
        /\ \A g \in Hooks: g # h => hook'[g] = hook[g]
        /\ hook'[h].pair = hook[h].pair /\ hook'[h].call = None
        /\ hook'[h].pc \in {"USE", "WRITE"}
        /\ file # None => hook'[h].pc = "WRITE"
    BY <1>11 DEF RereadConfig, HookAt, TypeOK
  <2>2. OnlyMoves(h)
    BY <2>1 DEF OnlyMoves
  <2>3. NewInHook(h)
    BY <2>1 DEF LatestInv, Carried
  <2>4. OwnCarried(h)'
    BY <1>1, <2>1, <2>3 DEF OwnCarried, NewInHook, New
  <2>5. FileAwaited'
    BY <1>5, <2>1, <2>2 DEF Rotating
  <2>6. FileFetched'
    BY <1>1, <1>6, <2>1, <2>2, Numbers DEF Fetches
  <2>7. QED
    BY <1>1, <2>2, <2>4, <2>5, <2>6, HookKeeps
<1>12. CASE WriteConfig(h)
  <2>1. /\ hook[h].pc = "WRITE" /\ call' = call /\ file' = hook[h].pair
        /\ hook' = [hook EXCEPT ![h] = [pc |-> "USE", pair |-> hook[h].pair, call |-> None]]
        /\ hook'[h] = [pc |-> "USE", pair |-> hook[h].pair, call |-> None]
    BY <1>12 DEF WriteConfig, HookAt, TypeOK
  <2>2. OnlyMoves(h)
    BY <2>1 DEF OnlyMoves
  <2>3. NewInHook(h)
    BY <2>1 DEF LatestInv, Carried
  <2>4. OwnCarried(h)' /\ FileAwaited' /\ FileFetched'
    BY <1>1, <2>1, <2>3 DEF OwnCarried, NewInHook, New, FileAwaited, FileFetched
  <2>5. QED
    BY <1>1, <2>2, <2>4, HookKeeps
<1>13. CASE HookFails(h)
  <2>1. /\ file' = file /\ hook[h].pc \notin {"IDLE", "USE", "REVOKED", "END"}
        /\ \A g \in Hooks: g # h => hook'[g] = hook[g]
        /\ hook'[h].pc \in {"USE", "END"} /\ hook'[h].call = None
        /\ hook'[h].pair \in {None, hook[h].pair}
    BY <1>13 DEF HookFails, HookAt, HookEnds, NoHook, TypeOK
  <2>2. \A c \in Calls: \/ call'[c] = call[c]
                        \/ call'[c] = Free /\ hook[h].call = c
    <3>1. UNCHANGED call \/ Drop(hook[h].call)
      BY <1>13 DEF HookFails
    <3>2. QED
      BY <3>1, Drops
  <2>3. OnlyMoves(h)
    BY <2>1, <2>2 DEF OnlyMoves
  <2>4. /\ hook[h].pc = "REFRESH" => hook[h].pair \in forgotten'
        /\ hook[h].pc \in {"REREAD", "WRITE"} /\ file = parent[hook[h].pair] /\ file \in Pairs
             => file \in forgotten'
    BY <1>2, <1>13 DEF HookFails
  <2>5. FileAwaited'
    BY <1>4, <1>5, <2>1, <2>2, <2>3, <2>4 DEF Rotates, Rotating, Free
  <2>6. FileFetched'
    BY <1>4, <1>6, <2>1, <2>3, <2>4 DEF Rotates, Fetches
  <2>7. QED
    BY <1>1, <2>1, <2>3, <2>5, <2>6, HookKeeps DEF OwnCarried
<1>14. CASE PersistRead(h)
  <2>1. /\ hook[h].pc = "USE" /\ UNCHANGED <<call, file>>
        /\ hook' = [hook EXCEPT ![h] = [pc |-> "PERSIST", pair |-> file, call |-> None]]
        /\ hook'[h] = [pc |-> "PERSIST", pair |-> file, call |-> None]
    BY <1>14 DEF PersistRead, HookAt, TypeOK
  <2>2. OnlyMoves(h)
    BY <2>1 DEF OnlyMoves
  <2>3. OwnCarried(h)' /\ FileAwaited' /\ FileFetched'
    BY <1>5, <1>6, <2>1, <2>2 DEF OwnCarried, Fetches, Rotating
  <2>4. QED
    BY <1>1, <2>2, <2>3, HookKeeps
<1>15. CASE PersistWrite(h)
  <2>1. /\ hook[h].pc = "PERSIST" /\ call' = call /\ file' = hook[h].pair
        /\ \A g \in Hooks: g # h => hook'[g] = hook[g]
        /\ hook'[h].pc = "END" /\ hook'[h].pair = None /\ hook'[h].call = None
        /\ hook[h].pair # file => file' \in forgotten'
    BY <1>15 DEF PersistWrite, HookEnds, NoHook, TypeOK
  <2>2. OnlyMoves(h)
    BY <2>1 DEF OnlyMoves
  <2>3. OwnCarried(h)'
    BY <2>1 DEF OwnCarried
  <2>4. CASE hook[h].pair = file
    <3>1. FileAwaited'
      BY <1>5, <2>1, <2>2, <2>4 DEF Rotating
    <3>2. FileFetched'
      BY <1>6, <2>1, <2>2, <2>4 DEF Fetches
    <3>3. QED
      BY <1>1, <2>2, <2>3, <3>1, <3>2, HookKeeps
  <2>5. CASE hook[h].pair # file
    <3>1. FileAwaited' /\ FileFetched'
      BY <2>1, <2>5 DEF FileAwaited, FileFetched
    <3>2. QED
      BY <1>1, <2>2, <2>3, <3>1, HookKeeps
  <2>6. QED
    BY <2>4, <2>5
<1>16. CASE RevokeEnds(h)
  <2>1. /\ hook[h].pc = "REVOKE" /\ file' = None /\ hook[h].call \in Calls
        /\ \A g \in Hooks: g # h => hook'[g] = hook[g]
        /\ hook'[h].pc \in {"REVOKED", "END"} /\ hook'[h].pair = None /\ hook'[h].call = None
    BY <1>2, <1>16 DEF RevokeEnds, HookEnds, NoHook, TypeOK
  <2>2. \A c \in Calls: \/ call'[c] = call[c]
                        \/ call'[c] = Free /\ hook[h].call = c
    BY <1>16, Drops DEF RevokeEnds
  <2>3. OnlyMoves(h)
    BY <2>1, <2>2 DEF OnlyMoves
  <2>4. OwnCarried(h)' /\ FileAwaited' /\ FileFetched'
    BY <1>2, <2>1, <2>2 DEF OwnCarried, FileAwaited, FileFetched, Free, Rotating
  <2>5. QED
    BY <1>1, <2>3, <2>4, HookKeeps
<1>17. QED
  BY <1>7, <1>8, <1>9, <1>10, <1>11, <1>12, <1>13, <1>14, <1>15, <1>16 DEF HookStep

(* What any step of the MCP server changes: its own request, one it sends  *)
(* with the pair it holds, and that pair.                                  *)
OnlyFlies ==
  /\ \A c \in Calls: \/ call'[c] = call[c]
                     \/ call'[c] = Free /\ flight.call = c
                     \/ call[c].pc = "FREE" /\ call'[c].pair = held
  /\ \/ held' \in {held, Env}
     \/ /\ flight.call # None /\ call[flight.call].pc = "OK"
        /\ held' = call[flight.call].pair
  /\ \/ flight'.call = None
     \/ flight'.call = flight.call /\ call'[flight.call] = call[flight.call]
     \/ /\ flight'.call \in Calls /\ call[flight'.call].pc = "FREE"
        /\ call'[flight'.call].pc # "FREE"

LEMMA HooksUnmoved ==
  ASSUME TokenAssumption, TypeOK, Known, LatestInv, RowsStay, UNCHANGED cli,
         forgotten \subseteq forgotten', OnlyFlies
  PROVE  /\ Waits' /\ Apart' /\ FileAwaited' /\ FileFetched'
         /\ \A h \in Hooks: OwnCarried(h)'
<1> USE Numbers DEF cli, RowsStay
<1>1. /\ flight.call # None => flight.call \in Calls
      /\ \A g \in Hooks: /\ hook[g].call # None => hook[g].call \in Calls
                         /\ hook[g].pc = "REFRESH" => hook[g].call # None
      /\ held \in Held /\ file \in Held \cup {None} /\ None \notin Held
      /\ \A g \in Hooks: hook[g].pc \in {"REFRESH", "REREAD", "WRITE"} => hook[g].pair \in Held
      /\ \A c \in Calls: call[c].pc \in Rotating \cup {"OK"} => call[c].pair \in Held
  BY DEF TypeOK, Flight, Hook, Known, HooksKnown, CallsKnown, Working, Rotating
<1>2. \A h \in Hooks: hook[h].call # None =>
        call'[hook[h].call] = call[hook[h].call] /\ hook[h].call # flight.call
  BY <1>1 DEF LatestInv, Waits, OnlyFlies
<1>3. Waits'
  BY <1>1, <1>2 DEF LatestInv, Waits, OnlyFlies
<1>4. flight.call # None /\ call[flight.call].pc = "OK" => NewInCall(flight.call)
  BY DEF LatestInv, Carried, Rotates
<1>5. Apart'
  BY <1>1, <1>4 DEF LatestInv, Apart, OnlyFlies, NewInCall, New, TokenAssumption, Env
<1>6. FileAwaited'
  BY <1>1 DEF LatestInv, Orphans, FileAwaited, Apart, OnlyFlies, Free, Rotating
<1>7. FileFetched'
  <2>1. \A h \in Hooks: Fetches(h, file) => Fetches(h, file)'
    BY <1>1, <1>2 DEF Fetches
  <2>2. QED
    BY <2>1 DEF LatestInv, FileFetched
<1>8. ASSUME NEW h \in Hooks, hook[h].pc = "REFRESH"
      PROVE  Rotates(hook[h].call, hook[h].pair)'
  <2> DEFINE c == hook[h].call
  <2>1. c \in Calls /\ call'[c] = call[c] /\ c # flight.call /\ Rotates(c, hook[h].pair)
    BY <1>1, <1>2, <1>8 DEF LatestInv, Carried
  <2>2. ASSUME call[c].pc = "OK"
        PROVE  NewInCall(c)'
    <3>1. NewInCall(c) /\ call[c].pair \in Held
      BY <1>1, <2>1, <2>2 DEF Rotates
    <3>2. call[c].pair # held'
      BY <1>1, <2>1, <3>1 DEF NewInCall, New, OnlyFlies
    <3>3. \A d \in Calls: call'[d].pair = call[c].pair => d = c
      BY <1>1, <2>1, <3>1 DEF NewInCall, New, OnlyFlies, Free
    <3>4. QED
      BY <2>1, <3>1, <3>2, <3>3 DEF NewInCall, New
  <2>3. QED
    BY <2>1, <2>2 DEF Rotates
<1>9. ASSUME NEW h \in Hooks, hook[h].pc \in {"REREAD", "WRITE"}
      PROVE  NewInHook(h)'
  <2>1. NewInHook(h) /\ hook[h].pair \in Held
    BY <1>1, <1>9 DEF LatestInv, Carried
  <2>2. hook[h].pair # held'
    BY <1>1, <2>1 DEF NewInHook, New, OnlyFlies
  <2>3. \A d \in Calls: call'[d].pair # hook[h].pair
    BY <1>1, <2>1 DEF NewInHook, New, OnlyFlies, Free
  <2>4. QED
    BY <2>1, <2>2, <2>3 DEF NewInHook, New
<1>10. QED
  BY <1>3, <1>5, <1>6, <1>7, <1>8, <1>9 DEF OwnCarried

LEMMA McpLatest ==
  ASSUME TokenAssumption, TypeOK, Known, Core, LatestInv, McpStep, RowsStay
  PROVE  LatestInv'
<1> USE Numbers DEF cli
<1>1. /\ UNCHANGED cli /\ forgotten \subseteq forgotten'
      /\ UNCHANGED <<refresh, parent>>
  BY DEF McpStep, CallerStarts, CallerAnswered, FlightLands, FlightRefused, FlightFails,
         FlightRetries, McpRestarts, RowsStay
<1>2. /\ flight.call # None => flight.call \in Calls
      /\ None \notin Calls /\ NoFlight.call = None
  BY DEF TypeOK, Flight, NoFlight
<1>3. flight.call # None => Rotates(flight.call, held)
  BY DEF LatestInv, Carried
<1>4. ASSUME OnlyFlies, flight'.call # None => Rotates(flight.call, held)',
             HeldAwaited', HeldIsLatest'
      PROVE  LatestInv'
  BY <1>1, <1>4, HooksUnmoved DEF LatestInv, Carried, Orphans, OwnCarried
(* What does not touch the refresh.                                        *)
<1>5. ASSUME UNCHANGED <<call, held, flight, forgotten>>
      PROVE  LatestInv'
  <2>1. OnlyFlies
    BY <1>5 DEF OnlyFlies
  <2>2. flight'.call # None => Rotates(flight.call, held)'
    BY <1>1, <1>3, <1>5 DEF Rotates, NewInCall, New
  <2>3. HeldAwaited' /\ HeldIsLatest'
    BY <1>1, <1>5 DEF LatestInv, Orphans, HeldAwaited, HeldIsLatest
  <2>4. QED
    BY <1>4, <2>1, <2>2, <2>3
(* A refresh is sent when none is in flight.                               *)
<1>6. ASSUME NEW c \in Calls, flight.call = None, Send(c, "ROTATE", held), flight'.call = c,
             UNCHANGED <<held, forgotten>>
      PROVE  LatestInv'
  <2>1. /\ call[c].pc = "FREE" /\ call'[c] = [pc |-> "ROTATE", pair |-> held]
        /\ \A d \in Calls: d # c => call'[d] = call[d]
    BY <1>6 DEF Send, TypeOK, Free
  <2>2. OnlyFlies
    BY <1>6, <2>1 DEF OnlyFlies
  <2>3. Rotates(flight.call, held)'
    BY <1>6, <2>1 DEF Rotates, Rotating
  <2>4. HeldAwaited' /\ HeldIsLatest'
    BY <1>1, <1>2, <1>6, <2>1 DEF LatestInv, Orphans, HeldAwaited, HeldIsLatest
  <2>5. QED
    BY <1>4, <2>2, <2>3, <2>4
(* A refresh ends, and its request is let go of.                           *)
<1>7. ASSUME flight.call # None, flight'.call = None, held' = held,
             \A c \in Calls: call'[c] = call[c] \/ (call'[c] = Free /\ c = flight.call),
             call[flight.call].pc \in {"REFUSED", "FAILED"} \/ held \in forgotten'
      PROVE  LatestInv'
  <2>1. OnlyFlies
    BY <1>7 DEF OnlyFlies
  <2>2. HeldAwaited' /\ HeldIsLatest'
    BY <1>1, <1>2, <1>7 DEF LatestInv, Orphans, HeldAwaited, HeldIsLatest, Free, Rotating
  <2>3. QED
    BY <1>4, <1>7, <2>1, <2>2
<1>8. ASSUME NEW t \in Callers, NEW n, Join(t, n), UNCHANGED <<held, forgotten>>
      PROVE  LatestInv'
  BY <1>2, <1>5, <1>6, <1>8 DEF Join
<1>9. ASSUME NEW t \in Callers, CallerStarts(t) \/ CallerAnswered(t)
      PROVE  LatestInv'
  BY <1>5, <1>8, <1>9 DEF CallerStarts, CallerAnswered
<1>10. CASE FlightLands
  <2> DEFINE c == flight.call
  <2>1. /\ c \in Calls /\ c # None /\ call[c].pc = "OK" /\ held' = call[c].pair
        /\ flight'.call = None /\ call'[c] = Free
        /\ \A d \in Calls: d # c => call'[d] = call[d]
    BY <1>2, <1>10 DEF FlightLands, TypeOK
  <2>2. OnlyFlies
    BY <2>1 DEF OnlyFlies
  <2>3. NewInCall(c)
    BY <1>3, <2>1 DEF Rotates
  <2>4. HeldAwaited' /\ HeldIsLatest'
    BY <1>1, <2>1, <2>3 DEF HeldAwaited, HeldIsLatest, NewInCall, New, Free, Rotating
  <2>5. QED
    BY <1>4, <2>1, <2>2, <2>4
<1>11. CASE FlightRefused
  BY <1>2, <1>7, <1>11 DEF FlightRefused, TypeOK
<1>12. CASE FlightFails
  <2>1. flight'.call = None
    BY <1>2, <1>12 DEF FlightFails, TypeOK, Flight
  <2>2. \A c \in Calls: call'[c] = call[c] \/ (call'[c] = Free /\ c = flight.call)
    BY <1>12, Drops DEF FlightFails
  <2>3. QED
    BY <1>7, <1>12, <2>1, <2>2 DEF FlightFails
<1>13. CASE FlightRetries
  BY <1>6, <1>13 DEF FlightRetries
<1>14. CASE McpRestarts
  <2>1. held' = Env /\ flight'.call = None /\ Env \in forgotten'
    BY <1>2, <1>14 DEF McpRestarts
  <2>2. \A c \in Calls: \/ call'[c] = call[c]
                        \/ call'[c] = Free /\ flight.call = c
                        \/ call[c].pc = "FREE" /\ call'[c].pair = held
    <3>1. CASE Drop(flight.call)
      BY <3>1, Drops
    <3>2. ASSUME NEW d \in Calls, Send(d, "AUTHENTICATE", held)
          PROVE  \A c \in Calls: \/ call'[c] = call[c]
                                 \/ call[c].pc = "FREE" /\ call'[c].pair = held
      BY <3>2 DEF Send, Free, TypeOK
    <3>3. QED
      BY <1>14, <3>1, <3>2 DEF McpRestarts
  <2>3. OnlyFlies
    BY <2>1, <2>2 DEF OnlyFlies
  <2>4. HeldAwaited' /\ HeldIsLatest'
    BY <2>1 DEF HeldAwaited, HeldIsLatest
  <2>5. QED
    BY <1>4, <2>1, <2>3, <2>4
<1>15. QED
  BY <1>9, <1>10, <1>11, <1>12, <1>13, <1>14 DEF McpStep

LEMMA LatestStep ==
  ASSUME TokenAssumption, TokenIInv, LatestInv, [Next]_vars
  PROVE  LatestInv'
<1>1. TypeOK /\ Known /\ Core
  BY DEF TokenIInv, Core
<1>2. CASE ServerStep
  BY <1>1, <1>2, ServerLatest
<1>3. CASE \E h \in Hooks: HookStep(h)
  BY <1>1, <1>3, HookTypes, HookLatest
<1>4. CASE McpStep
  BY <1>1, <1>4, McpTypes, McpLatest
<1>5. CASE UNCHANGED vars
  <2>1. UNCHANGED <<issued, parent, cli, mcp, forgotten, refresh, call>>
    BY <1>5 DEF vars, server
  <2>2. \A c \in Calls: RefuseOrMove(c)
    BY <2>1 DEF RefuseOrMove, Rotating
  <2>3. QED
    BY <1>1, <2>1, <2>2, LatestUnmoved
<1>6. QED
  BY <1>2, <1>3, <1>4, <1>5 DEF Next

LEMMA LatestHolds == Spec => [](TokenIInv /\ LatestInv)
<1>1. Init => TokenIInv /\ LatestInv
  <2>1. ASSUME Init
        PROVE  LatestInv
    <3>1. 1 \in Pairs /\ Env \in Pairs /\ 1 # Env /\ None \notin Pairs /\ 1 <= Env
      BY TokenAssumption DEF TokenAssumption, Pairs, Env
    <3>2. Waits /\ Apart /\ Carried
      BY <2>1, <3>1 DEF Init, Waits, Apart, Carried, NoHook, NoFlight
    <3>3. Orphans
      BY <2>1 DEF Init, Orphans, HeldAwaited, FileAwaited, Free, Rotating
    <3>4. refresh[1] = "LIVE" /\ refresh[Env] = "LIVE"
      BY <2>1, <3>1 DEF Init, Env
    <3>5. FileFetched /\ HeldIsLatest
      BY <2>1, <3>4 DEF Init, FileFetched, HeldIsLatest
    <3>6. QED
      BY <3>2, <3>3, <3>5 DEF LatestInv
  <2>2. QED
    BY <2>1, TokenAssumption, TokenInit
<1>2. TokenIInv /\ LatestInv /\ [Next]_vars => TokenIInv' /\ LatestInv'
  BY TokenAssumption, TokenStep, LatestStep
<1>3. QED
  BY <1>1, <1>2, PTL DEF Spec

(* config.json holds the last pair, or its successor is on the way there,  *)
(* or was lost in one of the ways named: whatever processes of the CLI do  *)
(* to the file at once (refresh.ts, config.ts, sync.ts).                   *)
THEOREM FileTheorem == Spec => []FileIsLatest
<1>1. TokenIInv /\ LatestInv => FileIsLatest
  <2>1. SUFFICES ASSUME TokenIInv, LatestInv, NEW h \in Hooks, Fetches(h, file)
                 PROVE  Brings(h, file)
    BY DEF LatestInv, FileFetched, FileIsLatest
  <2>2. QED
    BY <2>1 DEF Fetches, Brings, TokenIInv, Known, HooksKnown
<1>2. QED
  BY <1>1, LatestHolds, PTL

(* The MCP server never spends its pair behind a tool call's back: a spent *)
(* one has its successor in the answer of the refresh in flight, or lost   *)
(* it in one of the ways named (token.ts).                                 *)
THEOREM HeldTheorem == Spec => []HeldIsLatest
<1>1. LatestInv => HeldIsLatest
  BY DEF LatestInv
<1>2. QED
  BY <1>1, LatestHolds, PTL

-----------------------------------------------------------------------------
(* The pairs as an abstract store.                                         *)

(* Rows that are not touched keep their lives.                             *)
LEMMA LifeStays ==
  ASSUME RowsStay
  PROVE  UNCHANGED AbstractPairs!pairVars
BY DEF RowsStay, Life, AbstractPairs!pairVars

(* The life of one pair, or of two, changes.                               *)
LEMMA RotateCommitRotates ==
  ASSUME TokenAssumption, TypeOK, Known, Core, NEW c \in Calls, RotateCommit(c)
  PROVE  AbstractPairs!PairsNext
<1> DEFINE n == call[c].pair
           new == issued + 1
<1> USE Numbers
<1>1. /\ n \in Held /\ n \in Pairs /\ n <= issued
      /\ refresh[n] \in {"LIVE", "EXPIRED"} /\ access[n] # "REVOKED"
  <2>1. n \in Held /\ refresh[n] \in {"LIVE", "EXPIRED"}
    BY DEF RotateCommit, Known, CallsKnown, Working, Core, LockedIsGood
  <2>2. QED
    BY <2>1 DEF Core, PairDiesTogether, Held
<1>2. new \in Pairs /\ issued \in Nat /\ n # new /\ \A k \in Pairs: k \in Nat
  BY <1>1 DEF RotateCommit, TypeOK, Pairs, Env, TokenAssumption
<1>3. Life[n] = "live" /\ Life[new] = "none"
  BY <1>1, <1>2 DEF Life
<1>4. /\ issued' = issued + 1
      /\ access' = [access EXCEPT ![n] = "REVOKED", ![new] = "LIVE"]
      /\ refresh' = [refresh EXCEPT ![new] = "LIVE",
                                    ![n] = IF @ = "REVOKED" THEN @ ELSE "ROTATED"]
      /\ parent' = [parent EXCEPT ![new] = n]
  BY DEF RotateCommit
<1>5. /\ access'[n] = "REVOKED" /\ access'[new] = "LIVE" /\ refresh'[n] = "ROTATED"
      /\ \A k \in Pairs: k # n /\ k # new => access'[k] = access[k] /\ refresh'[k] = refresh[k]
  BY <1>1, <1>2, <1>4 DEF TypeOK
<1>6. \A k \in Pairs: k # new => (k > issued' <=> k > issued)
  BY <1>2, <1>4
<1>7. ASSUME NEW k \in Pairs
      PROVE  Life'[k] = [Life EXCEPT ![n] = "spent", ![new] = "live"][k]
  <2>1. CASE k = n
    <3>1. ~(n > issued')
      BY <1>1, <1>2, <1>4
    <3>2. Life'[n] = "spent"
      BY <1>1, <1>5, <3>1 DEF Life
    <3>3. QED
      BY <1>1, <1>2, <2>1, <3>2 DEF Life
  <2>2. CASE k = new
    BY <1>2, <1>4, <1>5, <2>2 DEF Life
  <2>3. CASE k # n /\ k # new
    BY <1>5, <1>6, <2>3 DEF Life
  <2>4. QED
    BY <2>1, <2>2, <2>3
<1>8. Life' = [Life EXCEPT ![n] = "spent", ![new] = "live"]
  BY <1>7 DEF Life
<1>9. AbstractPairs!Rotate(n, new)
  BY <1>3, <1>4, <1>8 DEF AbstractPairs!Rotate
<1>10. QED
  BY <1>1, <1>2, <1>9 DEF AbstractPairs!PairsNext

LEMMA RevokeCommitRevokes ==
  ASSUME TokenAssumption, TypeOK, Known, Core, NEW c \in Calls, RevokeCommit(c)
  PROVE  [AbstractPairs!PairsNext]_(AbstractPairs!pairVars)
<1> DEFINE n == call[c].pair
<1> USE Numbers
<1>1. n \in Held /\ n \in Pairs /\ n <= issued /\ UNCHANGED <<issued, parent>>
  BY DEF RevokeCommit, Known, CallsKnown, Working
<1>2. /\ access'[n] = "REVOKED"
      /\ refresh'[n] = "ROTATED" <=> refresh[n] = "ROTATED"
      /\ \A k \in Pairs: k # n => access'[k] = access[k] /\ refresh'[k] = refresh[k]
  BY <1>1 DEF RevokeCommit, TypeOK
<1>3. \A k \in Pairs: k # n => Life'[k] = Life[k]
  BY <1>1, <1>2 DEF Life
<1>4. CASE access[n] = "REVOKED"
  <2>1. Life'[n] = Life[n]
    BY <1>1, <1>2, <1>4 DEF Life
  <2>2. Life' = Life
    BY <1>3, <2>1 DEF Life
  <2>3. QED
    BY <1>1, <2>2 DEF AbstractPairs!pairVars
<1>5. CASE access[n] # "REVOKED"
  <2>1. refresh[n] # "ROTATED"
    BY <1>1, <1>5 DEF Core, PairDiesTogether, Held
  <2>2. Life[n] = "live" /\ Life'[n] = "revoked"
    <3>1. ~(n > issued) /\ ~(n > issued')
      BY <1>1 DEF TypeOK, Env, Pairs, TokenAssumption
    <3>2. QED
      BY <1>1, <1>2, <1>5, <2>1, <3>1 DEF Life
  <2>3. Life' = [Life EXCEPT ![n] = "revoked"]
    BY <1>3, <2>2 DEF Life
  <2>4. AbstractPairs!Revoke(n)
    BY <1>1, <2>2, <2>3 DEF AbstractPairs!Revoke
  <2>5. QED
    BY <1>1, <2>4 DEF AbstractPairs!PairsNext
<1>6. QED
  BY <1>4, <1>5

(* The rows of the two tables are a store in which a pair lives once: each *)
(* step of the server, the CLI and the MCP server rotates a live pair,     *)
(* revokes one, or leaves all as they are.  (rotateRefreshToken,           *)
(* revokeServiceTokenAndRefresh)                                           *)
THEOREM PairsTheorem == Spec => ImplementsPairs
<1>1. Init => AbstractPairs!PairsInit
  <2> SUFFICES ASSUME Init PROVE AbstractPairs!PairsInit
    OBVIOUS
  <2>1. \A n \in Pairs: n > Env <=> n \notin 1..Env
    BY DEF Pairs, Env, TokenAssumption
  <2>2. \A n \in Pairs: n <= Env => access[n] # "REVOKED"
    BY DEF Init
  <2>3. Life = [n \in Pairs |-> IF n \in 1..Env THEN "live" ELSE "none"]
    BY <2>1, <2>2 DEF Init, Life, Pairs, Env, TokenAssumption
  <2>4. QED
    BY <2>3 DEF Init, AbstractPairs!PairsInit
<1>2. ASSUME TokenIInv, [Next]_vars
      PROVE  [AbstractPairs!PairsNext]_(AbstractPairs!pairVars)
  <2>1. TokenAssumption /\ TypeOK /\ Known /\ Core
    BY <1>2, TokenAssumption DEF TokenIInv, Core
  <2>2. CASE RowsStay
    BY <2>2, LifeStays
  <2>3. CASE ServerStep
    <3>1. ASSUME NEW n \in Pairs, Age(n)
          PROVE  RowsStay
      BY <3>1 DEF Age, RowsStay
    <3>2. ASSUME NEW n \in Pairs, RefreshExpires(n)
          PROVE  UNCHANGED AbstractPairs!pairVars
      <4>1. /\ UNCHANGED <<issued, access, parent>>
            /\ \A k \in Pairs: refresh'[k] = "ROTATED" <=> refresh[k] = "ROTATED"
        BY <2>1, <3>2 DEF RefreshExpires, TypeOK
      <4>2. Life' = Life
        BY <4>1 DEF Life
      <4>3. QED
        BY <4>1, <4>2 DEF AbstractPairs!pairVars
    <3>3. ASSUME NEW c \in Calls,
                 RotateRead(c) \/ Authenticate(c) \/ RevokeAccess(c) \/ CallFails(c)
          PROVE  RowsStay
      BY <3>3 DEF RotateRead, Authenticate, RevokeAccess, CallFails, RowsStay, server
    <3>4. QED
      BY <2>1, <2>2, <2>3, <3>1, <3>2, <3>3, RotateCommitRotates, RevokeCommitRevokes
         DEF ServerStep
  <2>4. CASE (\E h \in Hooks: HookStep(h)) \/ McpStep \/ UNCHANGED vars
    <3>1. RowsStay
      BY <2>1, <2>4, HookTypes, McpTypes DEF vars, server, RowsStay
    <3>2. QED
      BY <2>2, <3>1
  <2>5. QED
    BY <1>2, <2>3, <2>4 DEF Next
<1>3. Spec => []TokenIInv
  <2>1. Init => TokenIInv
    BY TokenAssumption, TokenInit
  <2>2. TokenIInv /\ [Next]_vars => TokenIInv'
    BY TokenAssumption, TokenStep
  <2>3. QED
    BY <2>1, <2>2, PTL DEF Spec
<1>4. QED
  BY <1>1, <1>2, <1>3, PTL DEF Spec, ImplementsPairs, AbstractPairs!PairsSpec

(* Whoever presents them and however often: of all that came of one pair   *)
(* an agent was set up with, at most one is live.  A spent pair has one    *)
(* successor and takes its place, and a pair not yet issued is nobody's    *)
(* parent, so that a line goes on in one way.                              *)
THEOREM LineTheorem == ImplementsPairs => []AbstractPairs!OneLivePerLine
<1> DEFINE First == 1..Env
           Apartness == /\ \A n \in Pairs: Life[n] = "none" => parent[n] = None
                        /\ \A n \in Pairs: parent[n] # None =>
                             parent[n] \in Pairs /\ Life[parent[n]] = "spent"
                        /\ \A n \in First: parent[n] = None /\ Life[n] # "none"
           IInv == /\ Life \in [Pairs -> {"none", "live", "spent", "revoked"}]
                   /\ parent \in [Pairs -> Pairs \cup {None}]
                   /\ Apartness
                   /\ AbstractPairs!OneLivePerLine
<1>0. /\ First \subseteq Pairs /\ 1 \in First /\ None \notin Pairs
  BY TokenAssumption DEF TokenAssumption, Pairs, Env
<1>1. AbstractPairs!PairsInit => IInv
  <2> SUFFICES ASSUME AbstractPairs!PairsInit PROVE IInv
    OBVIOUS
  <2>1. /\ Life = [n \in Pairs |-> IF n \in First THEN "live" ELSE "none"]
        /\ parent = [n \in Pairs |-> None]
    BY DEF AbstractPairs!PairsInit
  <2>2. Apartness
    BY <1>0, <2>1
  <2>3. [n \in Pairs |-> IF n \in First THEN n ELSE 1] \in AbstractPairs!Lines
    BY <1>0, <2>1 DEF AbstractPairs!Lines, AbstractPairs!IsLine
  <2>4. ASSUME NEW line \in AbstractPairs!Lines, NEW m \in Pairs, NEW n \in Pairs,
               Life[m] = "live", Life[n] = "live", line[m] = line[n]
        PROVE  m = n
    <3>1. m \in First /\ n \in First
      BY <2>1, <2>4
    <3>2. QED
      BY <2>4, <3>1 DEF AbstractPairs!Lines, AbstractPairs!IsLine
  <2>5. QED
    BY <2>1, <2>2, <2>3, <2>4 DEF AbstractPairs!OneLivePerLine
<1>2. IInv /\ [AbstractPairs!PairsNext]_(AbstractPairs!pairVars) => IInv'
  <2> SUFFICES ASSUME IInv, [AbstractPairs!PairsNext]_(AbstractPairs!pairVars)
               PROVE  IInv'
    OBVIOUS
  <2>1. CASE UNCHANGED AbstractPairs!pairVars
    BY <2>1 DEF AbstractPairs!pairVars, AbstractPairs!OneLivePerLine, AbstractPairs!Lines,
                AbstractPairs!IsLine
  <2>2. ASSUME NEW n \in Pairs, AbstractPairs!Revoke(n)
        PROVE  IInv'
    <3>1. /\ Life[n] = "live" /\ Life' = [Life EXCEPT ![n] = "revoked"]
          /\ parent' = parent
      BY <2>2 DEF AbstractPairs!Revoke
    <3>2. AbstractPairs!Lines' = AbstractPairs!Lines
      BY <3>1 DEF AbstractPairs!Lines, AbstractPairs!IsLine
    <3>3. \A k \in Pairs: Life'[k] = "live" => Life[k] = "live"
      BY <3>1
    <3>4. AbstractPairs!OneLivePerLine'
      BY <3>2, <3>3 DEF AbstractPairs!OneLivePerLine
    <3>5. Apartness'
      BY <1>0, <3>1
    <3>6. QED
      BY <3>1, <3>4, <3>5
  <2>3. ASSUME NEW n \in Pairs, NEW m \in Pairs, AbstractPairs!Rotate(n, m)
        PROVE  IInv'
    <3>1. /\ Life[n] = "live" /\ Life[m] = "none"
          /\ Life' = [Life EXCEPT ![n] = "spent", ![m] = "live"]
          /\ parent' = [parent EXCEPT ![m] = n]
      BY <2>3 DEF AbstractPairs!Rotate
    <3>2. /\ m # n /\ m \notin First /\ parent[m] = None
          /\ \A k \in Pairs: parent[k] # m
      BY <1>0, <3>1
    <3>3. /\ Life'[n] = "spent" /\ Life'[m] = "live"
          /\ parent'[m] = n
          /\ \A k \in Pairs: k # m /\ k # n => Life'[k] = Life[k]
          /\ \A k \in Pairs: k # m => parent'[k] = parent[k]
      BY <3>1, <3>2
    <3>4. Apartness'
      BY <1>0, <3>1, <3>2, <3>3
    <3>5. ASSUME NEW line \in AbstractPairs!Lines'
          PROVE  line \in AbstractPairs!Lines /\ line[m] = line[n]
      <4>1. /\ line \in [Pairs -> First]
            /\ \A k \in First: line[k] = k
            /\ \A k \in Pairs: parent'[k] # None => line[k] = line[parent'[k]]
        BY <3>5 DEF AbstractPairs!Lines, AbstractPairs!IsLine
      <4>2. \A k \in Pairs: parent[k] # None => line[k] = line[parent[k]]
        BY <3>2, <3>3, <4>1
      <4>3. line[m] = line[n]
        BY <1>0, <3>3, <4>1
      <4>4. QED
        BY <4>1, <4>2, <4>3 DEF AbstractPairs!Lines, AbstractPairs!IsLine
    <3>6. AbstractPairs!Lines' # {}
      <4>1. PICK line \in AbstractPairs!Lines: TRUE
        BY DEF AbstractPairs!OneLivePerLine
      <4>2. /\ line \in [Pairs -> First]
            /\ \A k \in First: line[k] = k
            /\ \A k \in Pairs: parent[k] # None => line[k] = line[parent[k]]
        BY <4>1 DEF AbstractPairs!Lines, AbstractPairs!IsLine
      <4>3. PICK longer: longer = [line EXCEPT ![m] = line[n]]
        OBVIOUS
      <4>4. /\ longer \in [Pairs -> First] /\ longer[m] = line[n]
            /\ \A k \in Pairs: k # m => longer[k] = line[k]
        BY <4>2, <4>3
      <4>5. \A k \in First: longer[k] = k
        BY <1>0, <3>2, <4>2, <4>4
      <4>6. ASSUME NEW k \in Pairs, parent'[k] # None
            PROVE  longer[k] = longer[parent'[k]]
        <5>1. CASE k = m
          BY <3>2, <3>3, <4>4, <5>1
        <5>2. CASE k # m
          <6>1. parent'[k] = parent[k] /\ parent[k] \in Pairs /\ parent[k] # m
            BY <3>2, <3>3, <4>6, <5>2
          <6>2. QED
            BY <4>2, <4>4, <4>6, <5>2, <6>1
        <5>3. QED
          BY <5>1, <5>2
      <4>7. longer \in AbstractPairs!Lines'
        BY <4>4, <4>5, <4>6 DEF AbstractPairs!Lines, AbstractPairs!IsLine
      <4>8. QED
        BY <4>7
    <3>7. ASSUME NEW line \in AbstractPairs!Lines', NEW j \in Pairs, NEW k \in Pairs,
                 Life'[j] = "live", Life'[k] = "live", line[j] = line[k]
          PROVE  j = k
      <4>1. line \in AbstractPairs!Lines /\ line[m] = line[n]
        BY <3>5
      <4>2. \A i \in Pairs: Life[i] = "live" /\ line[i] = line[n] => i = n
        BY <3>1, <4>1 DEF AbstractPairs!OneLivePerLine
      <4>3. \A i \in Pairs: Life'[i] = "live" /\ i # m => Life[i] = "live" /\ i # n
        BY <3>3
      <4>4. CASE j # m /\ k # m
        BY <3>7, <4>1, <4>3, <4>4 DEF AbstractPairs!OneLivePerLine
      <4>5. CASE j = m \/ k = m
        BY <3>7, <4>1, <4>2, <4>3, <4>5
      <4>6. QED
        BY <4>4, <4>5
    <3>8. AbstractPairs!OneLivePerLine'
      BY <3>6, <3>7 DEF AbstractPairs!OneLivePerLine
    <3>9. QED
      BY <3>1, <3>4, <3>8
  <2>4. QED
    BY <2>1, <2>2, <2>3 DEF AbstractPairs!PairsNext
<1>3. IInv => AbstractPairs!OneLivePerLine
  OBVIOUS
<1> HIDE DEF IInv
<1>4. QED
  BY <1>1, <1>2, <1>3, PTL DEF ImplementsPairs, AbstractPairs!PairsSpec
=============================================================================
