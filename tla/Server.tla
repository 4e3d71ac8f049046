-------------------------------- MODULE Server --------------------------------
(***************************************************************************)
(* The HTTP server (src/src/server.cpp) and the serve command that owns it *)
(* (src/src/main.cpp).  Three kinds of threads interact: the accept loop,  *)
(* one detached handler per accepted connection, and the main thread,      *)
(* which starts the server, waits for a signal and stops it.  They share   *)
(* the atomics in_flight_, running_ and the counters of /metrics; an       *)
(* action is one atomic operation, one system call, or a run of code that  *)
(* touches no shared state.                                                *)
(*                                                                         *)
(* What a request asks for is abstracted to its kind: "complete" is a      *)
(* completion or chat request that passes validation, "invalid" one that   *)
(* does not, "probe" is GET /healthz, GET /metrics or an unknown path,     *)
(* "garbage" never completes its headers.                                  *)
(***************************************************************************)
EXTENDS Naturals, Sequences, FiniteSets, Functions

CONSTANTS
    Conns,           \* the connections clients may open, each with its handler
    MaxConcurrency,  \* cfg_.max_concurrency
    MaxTokens,       \* bound: new tokens of one completion
    AuditOn          \* cfg_.audit_log is set

ASSUME ServerAssumption ==
    /\ IsFiniteSet(Conns)
    /\ MaxConcurrency \in Nat
    /\ MaxTokens \in Nat \ {0}
    /\ AuditOn \in BOOLEAN

VARIABLES
    main,       \* the main thread: see MainStates
    running,    \* running_
    listening,  \* the listening socket: "none", "open", "closed"
    acceptor,   \* the accept thread: "none", "check", "select", "accept", "exited"
    conn,       \* each connection and its handler: see ConnStates
    kind,       \* what each connection's client sends
    cur,        \* try_enter's local copy of in_flight_, per handler
    in_flight,  \* in_flight_
    status,     \* each handler's response status, 0 before there is one
    new_tokens, \* new tokens of each handler's completion
    requests_total,  \* requests_total_
    tokens_total,    \* tokens_total_
    audit       \* the audit log: the token count of each line

lifecycle == <<main, running, listening, acceptor>>
gate == <<cur, in_flight>>
counters == <<requests_total, tokens_total, audit>>
vars == <<lifecycle, conn, kind, gate, status, new_tokens, counters>>

Kinds == {"complete", "invalid", "probe", "garbage"}

MainStates == {"new", "serving", "stopping", "shut", "stopped", "exited"}

ConnStates == {
    "away",      \* not connected yet
    "backlog",   \* in the listen queue
    "reset",     \* dropped from the listen queue by the kernel
    "reading",   \* handler: in recv, for headers and body
    "entering",  \* handler: in try_enter, before its load of in_flight_
    "cas",       \* handler: in try_enter, about to compare and swap
    "dispatch",  \* handler: admitted
    "generated", \* handler: completion done, nothing counted
    "counted",   \* handler: requests_total_ incremented
    "summed",    \* handler: tokens_total_ increased
    "leaving",   \* handler: response built, about to leave the gate
    "sending",   \* handler: in send
    "closed" }   \* handler: ended

\* The handlers that hold a slot of the gate.
Slots == {"dispatch", "generated", "counted", "summed", "leaving"}
Admitted == {c \in Conns : conn[c] \in Slots}

\* The handler threads that exist.
Handlers == {c \in Conns : conn[c] \in Slots \cup {"reading", "entering", "cas", "sending"}}

-----------------------------------------------------------------------------
Init == /\ main = "new"
        /\ running = FALSE
        /\ listening = "none"
        /\ acceptor = "none"
        /\ conn = [c \in Conns |-> "away"]
        /\ kind \in [Conns -> Kinds]
        /\ cur = [c \in Conns |-> 0]
        /\ in_flight = 0
        /\ status = [c \in Conns |-> 0]
        /\ new_tokens = [c \in Conns |-> 0]
        /\ requests_total = 0
        /\ tokens_total = 0
        /\ audit = <<>>

\* The process lives until main returns; detached handlers die with it.
Alive == main # "exited"

Goto(c, s) == conn' = [conn EXCEPT ![c] = s]

-----------------------------------------------------------------------------
(* The main thread: start(), wait for SIGTERM or SIGINT, stop(), return.   *)

Start ==
    /\ main = "new"
    /\ main' = "serving"
    /\ listening' = "open"
    /\ running' = TRUE
    /\ acceptor' = "check"
    /\ UNCHANGED <<conn, kind, gate, status, new_tokens, counters>>

\* socket, bind or listen fails: start() returns false and serve returns 1.
StartFails ==
    /\ main = "new"
    /\ main' = "exited"
    /\ UNCHANGED <<running, listening, acceptor, conn, kind, gate, status, new_tokens, counters>>

\* A signal was seen; running_.exchange(false).
StopFlag ==
    /\ main = "serving"
    /\ running' = FALSE
    /\ main' = "stopping"
    /\ UNCHANGED <<listening, acceptor, conn, kind, gate, status, new_tokens, counters>>

\* shutdown and close of the listening socket: the kernel drops its queue.
StopClose ==
    /\ main = "stopping"
    /\ main' = "shut"
    /\ listening' = "closed"
    /\ conn' = [c \in Conns |-> IF conn[c] = "backlog" THEN "reset" ELSE conn[c]]
    /\ UNCHANGED <<running, acceptor, kind, gate, status, new_tokens, counters>>

\* Mutant: stop() does not join the accept thread.
StopJoinSkipped ==
    /\ main = "shut"
    /\ main' = "stopped"
    /\ UNCHANGED <<running, listening, acceptor, conn, kind, gate, status, new_tokens, counters>>

StopJoin ==
    /\ main = "shut"
    /\ acceptor = "exited"
    /\ main' = "stopped"
    /\ UNCHANGED <<running, listening, acceptor, conn, kind, gate, status, new_tokens, counters>>

\* "drained, bye": ~Server calls stop() again, which finds nothing to do.
Exit ==
    /\ main = "stopped"
    /\ main' = "exited"
    /\ UNCHANGED <<running, listening, acceptor, conn, kind, gate, status, new_tokens, counters>>

Main == Start \/ StartFails \/ StopFlag \/ StopClose \/ StopJoin \/ Exit

-----------------------------------------------------------------------------
(* The accept loop.                                                        *)

AcceptTo(a) == acceptor' = a

\* Mutant: the loop tests nothing.
LoopCheckAlways ==
    /\ Alive
    /\ acceptor = "check"
    /\ AcceptTo("select")
    /\ UNCHANGED <<main, running, listening, conn, kind, gate, status, new_tokens, counters>>

LoopCheck ==
    /\ Alive
    /\ acceptor = "check"
    /\ AcceptTo(IF running THEN "select" ELSE "exited")
    /\ UNCHANGED <<main, running, listening, conn, kind, gate, status, new_tokens, counters>>

\* select: readable, or an error on the closed socket, or 200 ms have passed.
Select ==
    /\ Alive
    /\ acceptor = "select"
    /\ \/ /\ \/ listening = "closed"
             \/ \E c \in Conns : conn[c] = "backlog"
          /\ AcceptTo("accept")
       \/ AcceptTo("check")
    /\ UNCHANGED <<main, running, listening, conn, kind, gate, status, new_tokens, counters>>

\* accept gives a connection, and a detached thread to serve it.
AcceptOne(c) ==
    /\ Alive
    /\ acceptor = "accept"
    /\ conn[c] = "backlog"
    /\ Goto(c, "reading")
    /\ AcceptTo("check")
    /\ UNCHANGED <<main, running, listening, kind, gate, status, new_tokens, counters>>

\* accept fails: the socket was closed after select.
AcceptFails ==
    /\ Alive
    /\ acceptor = "accept"
    /\ \A c \in Conns : conn[c] # "backlog"
    /\ AcceptTo("check")
    /\ UNCHANGED <<main, running, listening, conn, kind, gate, status, new_tokens, counters>>

Acceptor == LoopCheck \/ Select \/ (\E c \in Conns : AcceptOne(c)) \/ AcceptFails

-----------------------------------------------------------------------------
(* Clients.                                                                *)

Connect(c) ==
    /\ Alive
    /\ listening = "open"
    /\ conn[c] = "away"
    /\ Goto(c, "backlog")
    /\ UNCHANGED <<lifecycle, kind, gate, status, new_tokens, counters>>

\* recv ends: with a whole request, or without the end of the headers (the
\* peer closed, or sent more than 1 MB of them), and then without a response.
Received(c) ==
    /\ Alive
    /\ conn[c] = "reading"
    /\ Goto(c, IF kind[c] = "garbage" THEN "closed" ELSE "entering")
    /\ UNCHANGED <<lifecycle, kind, gate, status, new_tokens, counters>>

\* send has sent everything, or failed because the peer is gone.
Sent(c) ==
    /\ Alive
    /\ conn[c] = "sending"
    /\ Goto(c, "closed")
    /\ UNCHANGED <<lifecycle, kind, gate, status, new_tokens, counters>>

-----------------------------------------------------------------------------
(* try_enter and leave.                                                    *)

\* Mutant: the last slot is never given.
TestGateOneLess(c, seen) ==
    IF seen + 1 < MaxConcurrency
    THEN Goto(c, "cas") /\ cur' = [cur EXCEPT ![c] = seen] /\ UNCHANGED status
    ELSE Goto(c, "sending") /\ status' = [status EXCEPT ![c] = 429] /\ UNCHANGED cur

\* The test of the loop, on the value just read from in_flight_.
TestGate(c, seen) ==
    IF seen < MaxConcurrency
    THEN Goto(c, "cas") /\ cur' = [cur EXCEPT ![c] = seen] /\ UNCHANGED status
    ELSE Goto(c, "sending") /\ status' = [status EXCEPT ![c] = 429] /\ UNCHANGED cur

Load(c) ==
    /\ Alive
    /\ conn[c] = "entering"
    /\ TestGate(c, in_flight)
    /\ UNCHANGED <<lifecycle, kind, in_flight, new_tokens, counters>>

\* Mutant: a plain store in place of the compare-and-swap.
CasEntersBlindly(c) ==
    /\ Alive
    /\ conn[c] = "cas"
    /\ in_flight' = cur[c] + 1
    /\ Goto(c, "dispatch")
    /\ UNCHANGED <<lifecycle, kind, cur, status, new_tokens, counters>>

CasEnters(c) ==
    /\ Alive
    /\ conn[c] = "cas"
    /\ in_flight = cur[c]
    /\ in_flight' = cur[c] + 1
    /\ Goto(c, "dispatch")
    /\ UNCHANGED <<lifecycle, kind, cur, status, new_tokens, counters>>

\* Mutant: a failed exchange retries with the count it already had.
CasFailsStale(c) ==
    /\ Alive
    /\ conn[c] = "cas"
    /\ UNCHANGED vars

\* The exchange fails, truly or spuriously, and reloads cur.
CasFails(c) ==
    /\ Alive
    /\ conn[c] = "cas"
    /\ TestGate(c, in_flight)
    /\ UNCHANGED <<lifecycle, kind, in_flight, new_tokens, counters>>

\* Mutant: the slot is kept when the request was refused by validation.
LeaveUnlessRefused(c) ==
    /\ Alive
    /\ conn[c] = "leaving"
    /\ in_flight' = IF status[c] = 400 THEN in_flight ELSE in_flight - 1
    /\ Goto(c, "sending")
    /\ UNCHANGED <<lifecycle, kind, cur, status, new_tokens, counters>>

Leave(c) ==
    /\ Alive
    /\ conn[c] = "leaving"
    /\ in_flight' = in_flight - 1
    /\ Goto(c, "sending")
    /\ UNCHANGED <<lifecycle, kind, cur, status, new_tokens, counters>>

-----------------------------------------------------------------------------
(* dispatch, serve_completions and serve_chat.                             *)

\* /healthz, /metrics, unknown paths and refused completions change no state.
Answer(c) ==
    /\ Alive
    /\ conn[c] = "dispatch"
    /\ kind[c] \in {"probe", "invalid"}
    /\ \E s \in (IF kind[c] = "probe" THEN {200, 404} ELSE {400}) :
         status' = [status EXCEPT ![c] = s]
    /\ Goto(c, "leaving")
    /\ UNCHANGED <<lifecycle, kind, gate, new_tokens, counters>>

Generate(c) ==
    /\ Alive
    /\ conn[c] = "dispatch"
    /\ kind[c] = "complete"
    /\ \E n \in 0..MaxTokens : new_tokens' = [new_tokens EXCEPT ![c] = n]
    /\ Goto(c, "generated")
    /\ UNCHANGED <<lifecycle, kind, gate, status, counters>>

CountRequest(c) ==
    /\ Alive
    /\ conn[c] = "generated"
    /\ requests_total' = requests_total + 1
    /\ Goto(c, "counted")
    /\ UNCHANGED <<lifecycle, kind, gate, status, new_tokens, tokens_total, audit>>

\* Mutant: a load and a store in place of the atomic addition lose an update;
\* seen from here, the total is what one handler contributed.
CountTokensLost(c) ==
    /\ Alive
    /\ conn[c] = "counted"
    /\ tokens_total' = new_tokens[c]
    /\ Goto(c, "summed")
    /\ UNCHANGED <<lifecycle, kind, gate, status, new_tokens, requests_total, audit>>

CountTokens(c) ==
    /\ Alive
    /\ conn[c] = "counted"
    /\ tokens_total' = tokens_total + new_tokens[c]
    /\ Goto(c, "summed")
    /\ UNCHANGED <<lifecycle, kind, gate, status, new_tokens, requests_total, audit>>

\* audit_append, then the 200.  A log that cannot be opened or written is
\* not noticed: the line is missing and the request goes on.
Audit(c) ==
    /\ Alive
    /\ conn[c] = "summed"
    /\ audit' \in (IF AuditOn THEN {audit, Append(audit, new_tokens[c])} ELSE {audit})
    /\ status' = [status EXCEPT ![c] = 200]
    /\ Goto(c, "leaving")
    /\ UNCHANGED <<lifecycle, kind, gate, new_tokens, requests_total, tokens_total>>

-----------------------------------------------------------------------------
\* The steps of a handler that wait for nobody outside the process.
Handler(c) == \/ Load(c) \/ CasEnters(c) \/ CasFails(c) \/ Leave(c)
              \/ Answer(c) \/ Generate(c)
              \/ CountRequest(c) \/ CountTokens(c) \/ Audit(c)

Exited == main = "exited" /\ UNCHANGED vars

Next == \/ Main
        \/ Acceptor
        \/ \E c \in Conns : Connect(c) \/ Received(c) \/ Sent(c) \/ Handler(c)
        \/ Exited

Spec == Init /\ [][Next]_vars

\* Every thread runs.  Nothing is assumed of clients: a handler may wait in
\* recv or send for ever.  Main is fair once it has been told to stop.
FairSpec == /\ Spec
            /\ WF_vars(Acceptor)
            /\ WF_vars(StopClose \/ StopJoin)
            /\ \A c \in Conns : WF_vars(Handler(c))

-----------------------------------------------------------------------------
TypeOK ==
    /\ main \in MainStates
    /\ running \in BOOLEAN
    /\ listening \in {"none", "open", "closed"}
    /\ acceptor \in {"none", "check", "select", "accept", "exited"}
    /\ conn \in [Conns -> ConnStates]
    /\ kind \in [Conns -> Kinds]
    /\ cur \in [Conns -> Nat]
    /\ in_flight \in Nat
    /\ status \in [Conns -> {0, 200, 400, 404, 429}]
    /\ new_tokens \in [Conns -> 0..MaxTokens]
    /\ requests_total \in Nat
    /\ tokens_total \in Nat
    /\ audit \in Seq(0..MaxTokens)

(***************************************************************************)
(* The gate: in_flight_ counts exactly the handlers between try_enter and  *)
(* leave, and they are never more than max_concurrency.                    *)
(***************************************************************************)
GateExact ==
    /\ in_flight = Cardinality(Admitted)
    /\ in_flight <= MaxConcurrency

(***************************************************************************)
(* A request is refused with 429 only at a moment when every slot is held  *)
(* by another handler: try_enter never refuses on a stale count.           *)
(***************************************************************************)
RefusedOnlyWhenFull ==
    [][\A c \in Conns :
         status[c] # 429 /\ status'[c] = 429
           => Cardinality(Admitted) >= MaxConcurrency]_vars

(***************************************************************************)
(* A full gate opens again (or the process ends), whatever the clients do  *)
(* or fail to do: a slot is held for work only, and given back on every    *)
(* path through dispatch.                                                  *)
(***************************************************************************)
GateReopens ==
    in_flight = MaxConcurrency ~> in_flight < MaxConcurrency \/ ~Alive

(***************************************************************************)
(* A request that was read gets an answer, an admission or a 429, though   *)
(* other handlers make its compare-and-swap fail.                          *)
(***************************************************************************)
EntryDecided ==
    \A c \in Conns : conn[c] = "entering" ~> conn[c] \in Slots \cup {"sending"} \/ ~Alive

\* The completions that were answered.
Complete200 == {c \in Conns : kind[c] = "complete" /\ status[c] = 200}

(***************************************************************************)
(* Accounting.  Whenever no handler is between its generation and its      *)
(* reply, the counters of /metrics are exactly the completions answered    *)
(* with 200 and their tokens; the audit log never claims more than them.   *)
(***************************************************************************)
Accounted ==
    /\ (\A c \in Conns : conn[c] \notin {"counted", "summed"}) =>
         /\ requests_total = Cardinality(Complete200)
         /\ tokens_total = SumFunctionOnSet(new_tokens, Complete200)
    /\ Len(audit) <= requests_total
    /\ SumFunction(audit) <= tokens_total

(***************************************************************************)
(* stop() returns only when the accept thread has ended and no client is   *)
(* left in the listen queue: nobody waits for a server that is gone.       *)
(***************************************************************************)
StopLeavesNobody ==
    main = "stopped" =>
      /\ acceptor = "exited"
      /\ \A c \in Conns : conn[c] # "backlog"

(***************************************************************************)
(* stop() returns: the accept loop notices it wherever it is.              *)
(***************************************************************************)
StopReturns == main = "stopping" ~> main = "stopped"

(***************************************************************************)
(* stop() drains: when it has returned, no handler is still at work.       *)
(***************************************************************************)
StopDrains == main = "stopped" => in_flight = 0
=============================================================================
