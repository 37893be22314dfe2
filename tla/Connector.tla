------------------------------ MODULE Connector ------------------------------
(***************************************************************************)
(* gtctl connect: commands that each start a kubectl port-forward, try the *)
(* local port until a database answers, and then run a client (mysql or    *)
(* psql) over it.  A goroutine of each command waits for the forward, by a *)
(* variable, cmd, that the command later sets to the client.               *)
(*                                                                         *)
(* kubectl and the clients are external: a forward serves its local port   *)
(* unless another has it, and may exit at any time; a client exits with    *)
(* status zero or not.                                                     *)
(***************************************************************************)
EXTENDS FiniteSets

CONSTANTS
    Conns,      \* connect commands
    Ports,
    Port        \* the local port of each, that of the cluster's service

ASSUME ConnectorAssumption == Port \in [Conns -> Ports] /\ "none" \notin Conns

VARIABLES
    stage,      \* where each command is
    outcome,    \* how it ended
    fwd,        \* its port-forward process
    client,     \* its client process
    via,        \* the command whose forward the client talks through
    cmd,        \* what the variable cmd refers to
    waiter,     \* the goroutine: which process it waits for
    reaper      \* who has got the status of the client: a process has one

vars == <<stage, outcome, fwd, client, via, cmd, waiter, reaper>>

processVars == <<fwd, client, via, reaper>>
commandVars == <<stage, outcome>>

Init ==
    /\ stage = [c \in Conns |-> "lookup"]
    /\ outcome = [c \in Conns |-> "none"]
    /\ fwd = [c \in Conns |-> "none"]
    /\ client = [c \in Conns |-> "none"]
    /\ via = [c \in Conns |-> "none"]
    /\ cmd = [c \in Conns |-> "none"]
    /\ waiter = [c \in Conns |-> "none"]
    /\ reaper = [c \in Conns |-> "none"]

\* The commands whose forward serves a port.
Serving(p) == {c \in Conns : Port[c] = p /\ fwd[c] = "serving"}

-----------------------------------------------------------------------------
(***************************************************************************)
(* Faulty variants of definitions below, each a plausible slip in the      *)
(* code.  No specification uses them; they show which property catches     *)
(* the slip.                                                               *)
(***************************************************************************)

\* The command waits for the port-forward too before it returns.
WaitBoth(c) ==
    /\ stage[c] = "waiting"
    /\ fwd[c] = "gone"
    /\ \/ /\ client[c] \in {"zero", "nonzero"} /\ reaper[c] = "none"
          /\ reaper' = [reaper EXCEPT ![c] = "command"]
          /\ outcome' = [outcome EXCEPT ![c] = IF client[c] = "zero" THEN "ok" ELSE "error"]
       \/ /\ reaper[c] = "waiter"
          /\ outcome' = [outcome EXCEPT ![c] = "error"]
          /\ UNCHANGED reaper
    /\ stage' = [stage EXCEPT ![c] = "ended"]
    /\ UNCHANGED <<fwd, client, via, cmd, waiter>>

\* The error of killing what has ended is an error of the command.
KillFails(c) == "error"

\* The first failed try ends the command.
TryOnce(c) ==
    /\ stage[c] = "connecting"
    /\ IF Serving(Port[c]) # {}
       THEN stage' = [stage EXCEPT ![c] = "connected"] /\ UNCHANGED outcome
       ELSE /\ stage' = [stage EXCEPT ![c] = "ended"]
            /\ outcome' = [outcome EXCEPT ![c] = "error"]
    /\ UNCHANGED <<processVars, cmd, waiter>>

\* An error is reported, and the command goes on: a missing return.
ReportOnly(c, o) ==
    /\ outcome' = [outcome EXCEPT ![c] = o]
    /\ UNCHANGED stage

-----------------------------------------------------------------------------
(* The command *)

Goto(c, s) == stage' = [stage EXCEPT ![c] = s] /\ UNCHANGED outcome

End(c, o) ==
    /\ stage' = [stage EXCEPT ![c] = "ended"]
    /\ outcome' = [outcome EXCEPT ![c] = o]

\* A cluster that is not found ends the command without an error; any other
\* error of the lookup leaves a nil cluster, which is used.
Lookup(c) ==
    /\ stage[c] = "lookup"
    /\ \/ Goto(c, "start")
       \/ \E o \in {"notFound", "panic"} : End(c, o)
    /\ UNCHANGED <<processVars, cmd, waiter>>

StartForward(c) ==
    /\ stage[c] = "start"
    /\ \/ /\ fwd' = [fwd EXCEPT ![c] = "starting"]
          /\ cmd' = [cmd EXCEPT ![c] = "forward"]
          /\ waiter' = [waiter EXCEPT ![c] = "spawned"]
          /\ Goto(c, "connecting")
       \/ End(c, "error") /\ UNCHANGED <<fwd, cmd, waiter>>
    /\ UNCHANGED <<client, via, reaper>>

\* One round of the loop: a try that succeeds ends it, whoever serves the
\* port; any other leads to the next, at once and without end.
Try(c) ==
    /\ stage[c] = "connecting"
    /\ Serving(Port[c]) # {}
    /\ Goto(c, "connected")
    /\ UNCHANGED <<processVars, cmd, waiter>>

\* The connection of the mysql driver is closed, which can fail; one error, that
\* of a process that is done already, is taken for success.  Otherwise cmd is
\* the client from here on, also for a goroutine that has not read it yet.
NewClient(c) ==
    /\ stage[c] = "connected"
    /\ \/ Goto(c, "assigned") /\ cmd' = [cmd EXCEPT ![c] = "client"]
       \/ \E o \in {"ok", "error"} : End(c, o) /\ UNCHANGED cmd
    /\ UNCHANGED <<processVars, waiter>>

StartClient(c) ==
    /\ stage[c] = "assigned"
    /\ \/ /\ client' = [client EXCEPT ![c] = "running"]
          /\ \/ Serving(Port[c]) = {} /\ UNCHANGED via
             \/ \E d \in Serving(Port[c]) : via' = [via EXCEPT ![c] = d]
          /\ Goto(c, "waiting")
       \/ End(c, "error") /\ UNCHANGED <<client, via>>
    /\ UNCHANGED <<fwd, reaper, cmd, waiter>>

\* Killing the process of cmd, the client that has just ended, kills nothing:
\* its error is taken for a forward that was shut down.
AfterKill(c) == "ok"

StatusOutcome(c) == IF client[c] = "zero" THEN AfterKill(c) ELSE "error"

\* The status of a process can be had once; who comes second gets an error.
WaitClient(c) ==
    /\ stage[c] = "waiting"
    /\ \/ /\ client[c] \in {"zero", "nonzero"} /\ reaper[c] = "none"
          /\ reaper' = [reaper EXCEPT ![c] = "command"]
          /\ End(c, StatusOutcome(c))
       \/ /\ reaper[c] = "waiter"
          /\ End(c, "error")
          /\ UNCHANGED reaper
    /\ UNCHANGED <<fwd, client, via, cmd, waiter>>

\* Ctrl-C reaches the command and its forward.
Interrupt(c) ==
    /\ stage[c] \in {"connecting", "connected", "assigned", "waiting"}
    /\ End(c, "killed")
    /\ fwd' = [fwd EXCEPT ![c] = "gone"]
    /\ UNCHANGED <<client, via, reaper, cmd, waiter>>

-----------------------------------------------------------------------------
(* Its goroutine, which lives as long as the command *)

WaiterStep(c, s) == waiter' = [waiter EXCEPT ![c] = s]

\* The read of cmd races with its assignment.  A client that is not started
\* yet cannot be waited for.
WaiterReads(c) ==
    /\ stage[c] # "ended" /\ waiter[c] = "spawned"
    /\ WaiterStep(c, IF cmd[c] = "client" /\ client[c] = "none" THEN "done" ELSE cmd[c])
    /\ UNCHANGED <<commandVars, processVars, cmd>>

WaiterForward(c) ==
    /\ stage[c] # "ended" /\ waiter[c] = "forward"
    /\ fwd[c] = "gone"
    /\ WaiterStep(c, "done")
    /\ UNCHANGED <<commandVars, processVars, cmd>>

WaiterClient(c) ==
    /\ stage[c] # "ended" /\ waiter[c] = "client"
    /\ client[c] \in {"zero", "nonzero"}
    /\ reaper' = [reaper EXCEPT ![c] = "waiter"]
    /\ WaiterStep(c, "done")
    /\ UNCHANGED <<commandVars, fwd, client, via, cmd>>

-----------------------------------------------------------------------------
(* The processes *)

\* A forward that finds its port taken exits.
ForwardListens(c) ==
    /\ fwd[c] = "starting"
    /\ fwd' = [fwd EXCEPT ![c] = IF Serving(Port[c]) = {} THEN "serving" ELSE "gone"]
    /\ UNCHANGED <<commandVars, client, via, reaper, cmd, waiter>>

ForwardExits(c) ==
    /\ fwd[c] \in {"starting", "serving"}
    /\ fwd' = [fwd EXCEPT ![c] = "gone"]
    /\ UNCHANGED <<commandVars, client, via, reaper, cmd, waiter>>

\* A client that reaches nobody fails.
ClientExits(c) ==
    /\ client[c] = "running"
    /\ \E s \in {"zero", "nonzero"} :
          /\ via[c] = "none" => s = "nonzero"
          /\ client' = [client EXCEPT ![c] = s]
    /\ UNCHANGED <<commandVars, fwd, via, reaper, cmd, waiter>>

-----------------------------------------------------------------------------
Connect(c) ==
    \/ Lookup(c) \/ StartForward(c) \/ Try(c) \/ NewClient(c) \/ StartClient(c)
    \/ WaitClient(c)

Waiter(c) == WaiterReads(c) \/ WaiterForward(c) \/ WaiterClient(c)

Next ==
    \E c \in Conns :
        \/ Connect(c) \/ Interrupt(c) \/ Waiter(c)
        \/ ForwardListens(c) \/ ForwardExits(c) \/ ClientExits(c)

(***************************************************************************)
(* Fairness: a command that can go on does, and so does its goroutine; a   *)
(* forward gets to its port.  Nobody has to end a client, a forward or a   *)
(* command.                                                                *)
(***************************************************************************)
Fairness ==
    \A c \in Conns :
        WF_vars(Connect(c)) /\ WF_vars(Waiter(c)) /\ WF_vars(ForwardListens(c))

Spec == Init /\ [][Next]_vars /\ Fairness

-----------------------------------------------------------------------------
(* Properties *)

TypeOK ==
    /\ stage \in [Conns -> {"lookup", "start", "connecting", "connected", "assigned",
                            "waiting", "ended"}]
    /\ outcome \in [Conns -> {"none", "ok", "error", "notFound", "panic", "killed"}]
    /\ fwd \in [Conns -> {"none", "starting", "serving", "gone"}]
    /\ client \in [Conns -> {"none", "running", "zero", "nonzero"}]
    /\ via \in [Conns -> Conns \cup {"none"}]
    /\ cmd \in [Conns -> {"none", "forward", "client"}]
    /\ waiter \in [Conns -> {"none", "spawned", "forward", "client", "done"}]
    /\ reaper \in [Conns -> {"none", "command", "waiter"}]
    /\ \A c \in Conns : outcome[c] = "none" <=> stage[c] # "ended"

\* A command that fails though its client succeeded has lost the status to its
\* goroutine, by the race on cmd; nothing else can make it fail (mysql.go: a
\* kill that comes too late is no error).
OnlyRaceLosesOk ==
    \A c \in Conns : outcome[c] = "error" /\ client[c] = "zero" => reaper[c] = "waiter"

\* A command whose port is served from some time on gets out of the loop,
\* however often it failed before (unless it is interrupted).
ServedConnects ==
    \A c \in Conns :
        <>[](Serving(Port[c]) # {}) =>
            (stage[c] = "connecting" ~>
                stage[c] = "connected" \/ outcome[c] = "killed")

\* A command whose client has ended ends, whichever of the command and its
\* goroutine gets the status, and whether or not a forward goes on serving
\* (mysql.go: Wait is called on one process from two places).
ClientEndEnds ==
    \A c \in Conns : client[c] \in {"zero", "nonzero"} ~> stage[c] = "ended"

-----------------------------------------------------------------------------
(* What a comment of the code says, and the code does not do *)

\* mysql.go: "gracefully stop port-forwarding", before a command whose client
\* has succeeded returns.
PortForwardStops ==
    \A c \in Conns : outcome[c] = "ok" /\ client[c] = "zero" => fwd[c] # "serving"

=============================================================================
