---------------------------- MODULE AgentProofs ----------------------------
(***************************************************************************)
(* Theorems about the session cache, for any sets of agents and clients    *)
(* and any number of kills.                                                *)
(***************************************************************************)
EXTENDS Agent, TLAPS

\* Where an agent's process is decides what its memory holds: only a serving or
\* stopping agent handles a connection, a live agent has the key, only a serving
\* or starting one listens, and two live agents mean that their starts overlapped.
Process ==
    /\ \A a \in Agents :
          /\ conn[a] # None \/ verdict[a] # None => pc[a] \in {"serve", "stopping"}
          /\ Alive(a) => held[a]
          /\ listening[a] => pc[a] \in {"restrict", "serve"}
    /\ ~overlap => \A a, b \in Agents : Alive(a) /\ Alive(b) => a = b

IInv == TypeOK /\ Process /\ ReachableUnlessOverlap

\* The names of verdicts, answers and labels, and what None is not.
LEMMA Names ==
    /\ Verdicts \subseteq Calls
    /\ {"identity", "status", "stop"} \subseteq Verdicts
    /\ None \notin Conn /\ None \notin Agents /\ None \notin Callers /\ None \notin Verdicts
    /\ Agents \subseteq Callers /\ Clients \subseteq Callers
    /\ \A c \in Conn : c.op \in Verdicts
  BY AgentConstants DEF Verdicts, Calls, Conn, Callers

\* Hanging up leaves every backlog and every connection a well-formed one.
LEMMA AbandonedType ==
    ASSUME NEW x \in Callers
    PROVE  /\ \A c \in Conn : Abandoned(x, c) \in Conn
           /\ Abandoned(x, None) = None
  BY Names DEF Abandoned, Conn

\* A call reaches one agent's backlog or finds nobody.
LEMMA CallType ==
    ASSUME TypeOK, NEW x \in Callers, NEW op \in {"identity", "status", "stop"}, Call(x, op)
    PROVE  /\ backlog' \in [Agents -> SUBSET Conn]
           /\ call' \in [Callers -> Calls]
  <1>1. [from |-> x, op |-> op] \in Conn
    BY DEF Conn
  <1>2. CASE ~\E a \in Agents : Reached(a)
    BY <1>2 DEF Call, TypeOK, Calls, Reached
  <1>3. CASE \E a \in Agents :
               /\ backlog' = [backlog EXCEPT ![a] = @ \cup {[from |-> x, op |-> op]}]
               /\ call' = [call EXCEPT ![x] = "waiting"]
    BY <1>1, <1>3 DEF TypeOK, Calls
  <1> QED
    BY <1>2, <1>3 DEF Call

\* A caller that hangs up changes no agent's memory.
LEMMA HangUpType ==
    ASSUME TypeOK, NEW x \in Callers, HangUp(x)
    PROVE  /\ backlog' \in [Agents -> SUBSET Conn]
           /\ conn' \in [Agents -> Conn \cup {None}]
           /\ \A a \in Agents : conn'[a] # None => conn[a] # None
  BY AbandonedType DEF HangUp, TypeOK

\* Init establishes the invariant.
LEMMA InitIInv == Init => IInv
  <1>1. Init => TypeOK
    <2> SUFFICES ASSUME Init PROVE TypeOK
      OBVIOUS
    <2>1. kills \in 0..MaxKills
      BY AgentConstants DEF Init
    <2>2. /\ pc \in [Agents -> Pcs]
          /\ call \in [Callers -> Calls]
      BY DEF Init, Pcs, Calls
    <2>3. /\ conn \in [Agents -> Conn \cup {None}]
          /\ backlog \in [Agents -> SUBSET Conn]
          /\ verdict \in [Agents -> Verdicts \cup {None}]
      BY DEF Init
    <2> QED
      BY <2>1, <2>2, <2>3 DEF Init, TypeOK
  <1>2. Init => Process /\ ReachableUnlessOverlap
    BY DEF Init, Process, Alive, ReachableUnlessOverlap
  <1> QED
    BY <1>1, <1>2 DEF IInv

\* Every step preserves the types of the variables.
LEMMA NextTypeOK == TypeOK /\ [Next]_vars => TypeOK'
  <1> SUFFICES ASSUME TypeOK, [Next]_vars PROVE TypeOK'
    OBVIOUS
  <1> USE Names
  <1>1. CASE UNCHANGED vars
    BY <1>1 DEF TypeOK, vars
  <1>2. ASSUME NEW a \in Agents, AskState(a) PROVE TypeOK'
    BY <1>2, CallType DEF AskState, Goto, TypeOK, Pcs
  <1>3. ASSUME NEW a \in Agents, Decide(a) PROVE TypeOK'
    BY <1>3 DEF Decide, Goto, TypeOK, Pcs, Calls
  <1>4. ASSUME NEW a \in Agents, Unlocked(a) PROVE TypeOK'
    BY <1>4 DEF Unlocked, Goto, TypeOK, Pcs
  <1>5. ASSUME NEW a \in Agents, ClearPath(a) PROVE TypeOK'
    BY <1>5 DEF ClearPath, Goto, TypeOK, Pcs
  <1>6. ASSUME NEW a \in Agents, Bind(a) PROVE TypeOK'
    BY <1>6 DEF Bind, Goto, TypeOK, Pcs
  <1>7. ASSUME NEW a \in Agents, Expire(a) PROVE TypeOK'
    BY <1>7 DEF Expire, TypeOK
  <1>8. ASSUME NEW a \in Agents, Timer(a) PROVE TypeOK'
    BY <1>8 DEF Timer, Stop, ResetCalls, Goto, TypeOK, Pcs, Calls
  <1>9. ASSUME NEW a \in Agents, Accept(a) PROVE TypeOK'
    BY <1>9 DEF Accept, TypeOK
  <1>10. ASSUME NEW a \in Agents, Judge(a) PROVE TypeOK'
    <2>1. conn[a] \in Conn
      BY <1>10 DEF Judge, TypeOK
    <2> QED
      BY <1>10, <2>1 DEF Judge, TypeOK, Verdicts
  <1>11. ASSUME NEW a \in Agents, Answer(a) PROVE TypeOK'
    BY <1>11 DEF Answer, Delivered, TypeOK
  <1>12. ASSUME NEW a \in Agents, StopAfterAnswer(a) PROVE TypeOK'
    <2>1. CASE pc[a] = "serve"
      BY <1>12, <2>1, ZenonT(60) DEF StopAfterAnswer, Stop, ResetCalls, Goto, TypeOK, Pcs, Calls
    <2>2. CASE pc[a] # "serve"
      BY <1>12, <2>2 DEF StopAfterAnswer, TypeOK
    <2> QED
      BY <2>1, <2>2
  <1>13. ASSUME NEW a \in Agents, Cleanup(a) PROVE TypeOK'
    BY <1>13 DEF Cleanup, Goto, TypeOK, Pcs
  <1>14. ASSUME NEW a \in Agents, KillStarter(a) PROVE TypeOK'
    <2>1. kills' \in 0..MaxKills
      BY <1>14, AgentConstants DEF KillStarter, TypeOK
    <2> QED
      BY <1>14, <2>1, HangUpType DEF KillStarter, Goto, TypeOK, Pcs, Calls
  <1>15. ASSUME NEW a \in Agents, KillAgent(a) PROVE TypeOK'
    <2>1. kills' \in 0..MaxKills
      BY <1>15, AgentConstants DEF KillAgent, TypeOK
    <2> QED
      BY <1>15, <2>1 DEF KillAgent, Goto, TypeOK, Pcs, Calls
  <1>16. ASSUME NEW c \in Clients, NEW op \in {"identity", "stop"}, ClientCalls(c, op)
         PROVE  TypeOK'
    BY <1>16, CallType DEF ClientCalls, TypeOK
  <1>17. ASSUME NEW c \in Clients, ClientDone(c) PROVE TypeOK'
    BY <1>17 DEF ClientDone, TypeOK, Calls
  <1>18. ASSUME NEW x \in Callers, TimeOut(x) PROVE TypeOK'
    <2>1. kills' \in 0..MaxKills
      BY <1>18, AgentConstants DEF TimeOut, TypeOK
    <2> QED
      BY <1>18, <2>1, HangUpType DEF TimeOut, TypeOK, Calls
  <1>19. ASSUME NEW a \in Agents, Restrict(a) PROVE TypeOK'
    <2>1. ResetCalls(a) \in [Callers -> Calls]
      BY DEF ResetCalls, TypeOK, Calls
    <2>2. CASE socket # None
      BY <1>19, <2>2 DEF Restrict, Goto, TypeOK, Pcs
    <2>3. CASE socket = None
      BY <1>19, <2>1, <2>3 DEF Restrict, Goto, TypeOK, Pcs
    <2> QED
      BY <2>2, <2>3
  <1>20. ASSUME NEW a \in Agents, AcceptFails(a) PROVE TypeOK'
    <2>1. kills' \in 0..MaxKills
      BY <1>20, AgentConstants DEF AcceptFails, TypeOK
    <2>2. ResetCalls(a) \in [Callers -> Calls]
      BY DEF ResetCalls, TypeOK, Calls
    <2> QED
      BY <1>20, <2>1, <2>2 DEF AcceptFails, Goto, TypeOK, Pcs
  <1>21. ASSUME NEW a \in Agents, Refuse(a) PROVE TypeOK'
    <2>1. kills' \in 0..MaxKills
      BY <1>21, AgentConstants DEF Refuse, TypeOK
    <2>2. Delivered(conn[a], "error") \in [Callers -> Calls]
      BY DEF Delivered, TypeOK, Calls
    <2> QED
      BY <1>21, <2>1, <2>2 DEF Refuse, TypeOK
  <1> QED
    BY <1>1, <1>2, <1>3, <1>4, <1>5, <1>6, <1>7, <1>8, <1>9, <1>10, <1>11, <1>12, <1>13,
       <1>14, <1>15, <1>16, <1>17, <1>18, <1>19, <1>20, <1>21 DEF Next, AgentStep

\* Every variable keeps its type.
THEOREM TypeCorrect == Spec => []TypeOK
  <1>1. Init => TypeOK
    BY InitIInv DEF IInv
  <1> QED
    BY <1>1, NextTypeOK, PTL DEF Spec

\* Every step preserves the invariant.  The steps that remove a file from the
\* socket path are the ones that need it: whoever else listens is another live
\* agent, and there is none unless starts overlapped.
LEMMA NextIInv == IInv /\ [Next]_vars => IInv'
  <1> SUFFICES ASSUME IInv, [Next]_vars PROVE Process' /\ ReachableUnlessOverlap'
    BY NextTypeOK DEF IInv
  <1> USE Names DEF IInv, Process, ReachableUnlessOverlap, Alive
  <1>1. CASE UNCHANGED vars
    BY <1>1 DEF vars
  <1>2. ASSUME NEW a \in Agents, AskState(a) PROVE Process' /\ ReachableUnlessOverlap'
    BY <1>2 DEF AskState, Goto, TypeOK
  <1>3. ASSUME NEW a \in Agents, Decide(a) PROVE Process' /\ ReachableUnlessOverlap'
    BY <1>3 DEF Decide, Goto, TypeOK
  <1>4. ASSUME NEW a \in Agents, Unlocked(a) PROVE Process' /\ ReachableUnlessOverlap'
    BY <1>4 DEF Unlocked, Goto, TypeOK
  <1>5. ASSUME NEW a \in Agents, ClearPath(a) PROVE Process' /\ ReachableUnlessOverlap'
    BY <1>5 DEF ClearPath, Goto, TypeOK
  <1>6. ASSUME NEW a \in Agents, Bind(a) PROVE Process' /\ ReachableUnlessOverlap'
    BY <1>6 DEF Bind, Goto, TypeOK
  <1>7. ASSUME NEW a \in Agents, Expire(a) PROVE Process' /\ ReachableUnlessOverlap'
    BY <1>7 DEF Expire, TypeOK
  <1>8. ASSUME NEW a \in Agents, Timer(a) PROVE Process' /\ ReachableUnlessOverlap'
    BY <1>8 DEF Timer, Stop, Goto, TypeOK
  <1>9. ASSUME NEW a \in Agents, Accept(a) PROVE Process' /\ ReachableUnlessOverlap'
    BY <1>9 DEF Accept, TypeOK
  <1>10. ASSUME NEW a \in Agents, Judge(a) PROVE Process' /\ ReachableUnlessOverlap'
    BY <1>10 DEF Judge, TypeOK
  <1>11. ASSUME NEW a \in Agents, Answer(a) PROVE Process' /\ ReachableUnlessOverlap'
    BY <1>11 DEF Answer, TypeOK
  <1>12. ASSUME NEW a \in Agents, StopAfterAnswer(a) PROVE Process' /\ ReachableUnlessOverlap'
    BY <1>12 DEF StopAfterAnswer, Stop, Goto, TypeOK
  <1>13. ASSUME NEW a \in Agents, Cleanup(a) PROVE Process' /\ ReachableUnlessOverlap'
    BY <1>13 DEF Cleanup, Goto, TypeOK
  <1>14. ASSUME NEW a \in Agents, KillStarter(a) PROVE Process' /\ ReachableUnlessOverlap'
    BY <1>14, HangUpType DEF KillStarter, Goto, TypeOK
  <1>15. ASSUME NEW a \in Agents, KillAgent(a) PROVE Process' /\ ReachableUnlessOverlap'
    BY <1>15 DEF KillAgent, Goto, TypeOK
  <1>16. ASSUME NEW c \in Clients, NEW op \in {"identity", "stop"}, ClientCalls(c, op)
         PROVE  Process' /\ ReachableUnlessOverlap'
    BY <1>16 DEF ClientCalls, TypeOK
  <1>17. ASSUME NEW c \in Clients, ClientDone(c) PROVE Process' /\ ReachableUnlessOverlap'
    BY <1>17 DEF ClientDone, TypeOK
  <1>18. ASSUME NEW x \in Callers, TimeOut(x) PROVE Process' /\ ReachableUnlessOverlap'
    BY <1>18, HangUpType DEF TimeOut, TypeOK
  <1>19. ASSUME NEW a \in Agents, Restrict(a) PROVE Process' /\ ReachableUnlessOverlap'
    BY <1>19 DEF Restrict, Goto, TypeOK
  <1>20. ASSUME NEW a \in Agents, AcceptFails(a) PROVE Process' /\ ReachableUnlessOverlap'
    BY <1>20 DEF AcceptFails, Goto, TypeOK
  <1>21. ASSUME NEW a \in Agents, Refuse(a) PROVE Process' /\ ReachableUnlessOverlap'
    BY <1>21 DEF Refuse, TypeOK
  <1> QED
    BY <1>1, <1>2, <1>3, <1>4, <1>5, <1>6, <1>7, <1>8, <1>9, <1>10, <1>11, <1>12, <1>13,
       <1>14, <1>15, <1>16, <1>17, <1>18, <1>19, <1>20, <1>21 DEF Next, AgentStep

\* The invariant holds in every state.
THEOREM AgentInvariant == Spec => []IInv
  BY InitIInv, NextIInv, PTL DEF Spec

\* An agent that listens can be reached through the socket path, as long as no
\* start overlapped another agent's life (Listen, Stop, cleanup).
THEOREM Reachable == Spec => []ReachableUnlessOverlap
  BY AgentInvariant, PTL DEF IInv

\* The key is still in memory whenever it is about to be sent (handle, cleanup).
THEOREM KeySent == Spec => []AnswersWithTheKey
  <1>1. IInv => AnswersWithTheKey
    BY Names DEF IInv, Process, AnswersWithTheKey, Alive
  <1> QED
    BY <1>1, AgentInvariant, PTL

\* An agent that will answer no more requests for the key: it has decided to
\* stop, or its listener is closed and it handles no connection.
Over(a) ==
    \/ verdict[a] \in {"stop", "expired"}
    \/ pc[a] \in {"stopping", "gone"} /\ conn[a] = None /\ verdict[a] = None

\* Over is for good.
LEMMA OverStays ==
    ASSUME NEW a \in Agents
    PROVE  IInv /\ Over(a) /\ [Next]_vars => Over(a)'
  <1> SUFFICES ASSUME IInv, Over(a), [Next]_vars PROVE Over(a)'
    OBVIOUS
  <1> USE Names DEF IInv, Process, Over, TypeOK
  <1>1. CASE UNCHANGED vars
    BY <1>1 DEF vars
  <1>2. ASSUME NEW b \in Agents,
               AskState(b) \/ Decide(b) \/ Unlocked(b) \/ ClearPath(b) \/ Bind(b)
               \/ Restrict(b) \/ Expire(b)
        PROVE  Over(a)'
    BY <1>2 DEF AskState, Decide, Unlocked, ClearPath, Bind, Restrict, Expire, Goto
  <1>3. ASSUME NEW b \in Agents, Timer(b) \/ StopAfterAnswer(b) \/ Cleanup(b) PROVE Over(a)'
    BY <1>3 DEF Timer, StopAfterAnswer, Cleanup, Stop, Goto
  <1>4. ASSUME NEW b \in Agents, Accept(b) \/ Judge(b) \/ Answer(b) PROVE Over(a)'
    <2>1. CASE Accept(b)
      BY <2>1 DEF Accept
    <2>2. CASE Judge(b)
      <3>1. b # a
        BY <2>2 DEF Judge, Verdicts
      <3> QED
        BY <2>2, <3>1 DEF Judge
    <2>3. CASE Answer(b)
      BY <2>3 DEF Answer
    <2> QED
      BY <1>4, <2>1, <2>2, <2>3
  <1>5. ASSUME NEW b \in Agents, KillStarter(b) PROVE Over(a)'
    BY <1>5, HangUpType DEF KillStarter, Goto
  <1>6. ASSUME NEW b \in Agents, KillAgent(b) PROVE Over(a)'
    BY <1>6 DEF KillAgent, Goto
  <1>7. ASSUME NEW c \in Clients, NEW op \in {"identity", "stop"},
               ClientCalls(c, op) \/ ClientDone(c)
        PROVE  Over(a)'
    BY <1>7 DEF ClientCalls, ClientDone
  <1>8. ASSUME NEW x \in Callers, TimeOut(x) PROVE Over(a)'
    BY <1>8, HangUpType DEF TimeOut
  <1>9. ASSUME NEW b \in Agents, AcceptFails(b) \/ Refuse(b) PROVE Over(a)'
    BY <1>9 DEF AcceptFails, Refuse, Goto
  <1> QED
    BY <1>1, <1>2, <1>3, <1>4, <1>5, <1>6, <1>7, <1>8, <1>9 DEF Next, AgentStep

\* An agent that has decided to answer "stopped" or "expired" hands the key to
\* no later caller (handle, Stop, the accept loop of Serve).
THEOREM SilentOnceOver == Spec => SilentAfterStop
  <1>1. ASSUME NEW a \in Agents
        PROVE  Spec => [](verdict[a] \in {"stop", "expired"} => [](verdict[a] # "identity"))
    <2>1. verdict[a] \in {"stop", "expired"} => Over(a)
      BY DEF Over
    <2>2. Over(a) => verdict[a] # "identity"
      BY Names DEF Over, Verdicts
    <2> QED
      BY <2>1, <2>2, OverStays, AgentInvariant, PTL DEF Spec
  <1> QED
    BY <1>1 DEF SilentAfterStop
=============================================================================
