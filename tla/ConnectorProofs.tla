--------------------------- MODULE ConnectorProofs ---------------------------
(***************************************************************************)
(* Connector for any commands and ports: proofs.                           *)
(***************************************************************************)
EXTENDS Connector, TLAPS

Ended == {"zero", "nonzero"}

\* A client is started by the step out of "assigned", and by no other.
NotYetStarted ==
    \A c \in Conns :
        stage[c] \in {"lookup", "start", "connecting", "connected", "assigned"} =>
            client[c] = "none"

\* Only a client that has ended has a status to take.
ReapedEnded == \A c \in Conns : reaper[c] = "waiter" => client[c] \in Ended

\* A command that failed leaves no client behind that could still succeed.
FailedWithout == \A c \in Conns : outcome[c] = "error" => client[c] # "running"

Inv ==
    /\ TypeOK /\ NotYetStarted /\ ReapedEnded /\ FailedWithout
    /\ OnlyRaceLosesOk

LEMMA InitInv == Init => Inv
  BY DEF Init, Inv, TypeOK, NotYetStarted, ReapedEnded, FailedWithout, OnlyRaceLosesOk

-----------------------------------------------------------------------------
(* Types *)

LEMMA TypeStep ==
    ASSUME TypeOK, [Next]_vars
    PROVE  TypeOK'
<1> USE DEF TypeOK, processVars, commandVars
<1>1. ASSUME NEW c \in Conns, Lookup(c) PROVE TypeOK'
  BY <1>1 DEF Lookup, Goto, End
<1>2. ASSUME NEW c \in Conns, StartForward(c) PROVE TypeOK'
  BY <1>2 DEF StartForward, Goto, End
<1>3. ASSUME NEW c \in Conns, Try(c) PROVE TypeOK'
  BY <1>3 DEF Try, Goto
<1>4. ASSUME NEW c \in Conns, NewClient(c) PROVE TypeOK'
  BY <1>4 DEF NewClient, Goto, End
<1>5. ASSUME NEW c \in Conns, StartClient(c) PROVE TypeOK'
  BY <1>5 DEF StartClient, Goto, End, Serving
<1>6. ASSUME NEW c \in Conns, WaitClient(c) PROVE TypeOK'
  BY <1>6 DEF WaitClient, StatusOutcome, AfterKill, End
<1>7. ASSUME NEW c \in Conns, Interrupt(c) PROVE TypeOK'
  BY <1>7 DEF Interrupt, End
<1>8. ASSUME NEW c \in Conns, Waiter(c) PROVE TypeOK'
  BY <1>8 DEF Waiter, WaiterReads, WaiterForward, WaiterClient, WaiterStep
<1>9. ASSUME NEW c \in Conns, ForwardListens(c) \/ ForwardExits(c) PROVE TypeOK'
  BY <1>9 DEF ForwardListens, ForwardExits
<1>10. ASSUME NEW c \in Conns, ClientExits(c) PROVE TypeOK'
  BY <1>10 DEF ClientExits
<1>11. CASE UNCHANGED vars
  BY <1>11 DEF vars
<1>12. QED
  BY <1>1, <1>2, <1>3, <1>4, <1>5, <1>6, <1>7, <1>8, <1>9, <1>10, <1>11 DEF Next, Connect

-----------------------------------------------------------------------------
(* The client, its status and the outcome *)

LEMMA OutcomeStep ==
    ASSUME Inv, [Next]_vars
    PROVE  /\ NotYetStarted' /\ ReapedEnded' /\ FailedWithout'
           /\ OnlyRaceLosesOk'
<1> DEFINE Goal == /\ NotYetStarted' /\ ReapedEnded' /\ FailedWithout'
                   /\ OnlyRaceLosesOk'
<1> USE DEF Inv, TypeOK, Ended, NotYetStarted, ReapedEnded, FailedWithout, OnlyRaceLosesOk,
            processVars, commandVars
<1>1. ASSUME NEW c \in Conns, Lookup(c) PROVE Goal
  BY <1>1 DEF Lookup, Goto, End
<1>2. ASSUME NEW c \in Conns, StartForward(c) PROVE Goal
  BY <1>2 DEF StartForward, Goto, End
<1>3. ASSUME NEW c \in Conns, Try(c) PROVE Goal
  BY <1>3 DEF Try, Goto
<1>4. ASSUME NEW c \in Conns, NewClient(c) PROVE Goal
  BY <1>4 DEF NewClient, Goto, End
<1>5. ASSUME NEW c \in Conns, StartClient(c) PROVE Goal
  BY <1>5 DEF StartClient, Goto, End
<1>6. ASSUME NEW c \in Conns, WaitClient(c) PROVE Goal
  BY <1>6 DEF WaitClient, StatusOutcome, AfterKill, End
<1>7. ASSUME NEW c \in Conns, Interrupt(c) PROVE Goal
  BY <1>7 DEF Interrupt, End
<1>8. ASSUME NEW c \in Conns, Waiter(c) PROVE Goal
  BY <1>8 DEF Waiter, WaiterReads, WaiterForward, WaiterClient
<1>9. ASSUME NEW c \in Conns, ForwardListens(c) \/ ForwardExits(c) PROVE Goal
  BY <1>9 DEF ForwardListens, ForwardExits
<1>10. ASSUME NEW c \in Conns, ClientExits(c) PROVE Goal
  BY <1>10 DEF ClientExits
<1>11. CASE UNCHANGED vars
  BY <1>11 DEF vars
<1>12. QED
  BY <1>1, <1>2, <1>3, <1>4, <1>5, <1>6, <1>7, <1>8, <1>9, <1>10, <1>11 DEF Next, Connect

-----------------------------------------------------------------------------
(* The theorems *)

\* The inductive invariant.
THEOREM Invariance == Spec => []Inv
<1>1. Inv /\ [Next]_vars => Inv'
  BY TypeStep, OutcomeStep DEF Inv
<1>2. QED
  BY InitInv, <1>1, PTL DEF Spec

\* Every variable keeps its type, and a command has an outcome once it ended.
THEOREM Typing == Spec => []TypeOK
<1>1. Inv => TypeOK
  BY DEF Inv
<1>2. QED
  BY <1>1, Invariance, PTL

\* Only the race on cmd turns the success of a client into an error.
THEOREM RaceAloneLosesOks == Spec => []OnlyRaceLosesOk
<1>1. Inv => OnlyRaceLosesOk
  BY DEF Inv
<1>2. QED
  BY <1>1, Invariance, PTL

=============================================================================
