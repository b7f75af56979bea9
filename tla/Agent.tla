------------------------------- MODULE Agent -------------------------------
(***************************************************************************)
(* The session cache (internal/agent and the agent commands): a process    *)
(* that holds a store's key behind a Unix socket until its lifetime ends   *)
(* or somebody asks it to stop.                                            *)
(*                                                                         *)
(* The socket's path depends on the store alone, so every agent of a store *)
(* uses the same one, and removing the file at the path removes whoever's  *)
(* file it is by then.  An agent handles one connection at a time; its     *)
(* timer runs beside it.  A caller connects, sends one request and waits   *)
(* for the answer or its deadline.                                         *)
(***************************************************************************)
EXTENDS Naturals, FiniteSets

CONSTANTS
    Agents,     \* processes of `agent start`
    Clients,    \* processes of `agent stop`, and of commands that want the key
    MaxKills,   \* bound: agents killed, calls that pass their deadline or fail
    None        \* no caller, no file

Callers == Agents \cup Clients

\* A connection as the agent has it: who called (None: it has hung up), and
\* what for.
Conn == [from : Callers \cup {None}, op : {"identity", "status", "stop"}]

\* What an agent decides to answer.
Verdicts == {"identity", "status", "stop", "expired"}

ASSUME AgentConstants ==
    /\ Agents \cap Clients = {}
    /\ MaxKills \in Nat
    /\ None \notin Callers
    /\ None \notin Conn
    /\ None \notin Verdicts

VARIABLES
    socket,     \* the agent whose file is at the socket path, or None
    pc,         \* pc[a]: where agent a's process is
    held,       \* held[a]: a's memory has the key
    expired,    \* expired[a]: a's lifetime has run out
    listening,  \* listening[a]: a's listener accepts connections
    backlog,    \* backlog[a]: connections not accepted yet
    conn,       \* conn[a]: the connection a is handling, or None
    verdict,    \* verdict[a]: what a decided to answer on it, or None
    call,       \* call[x]: the state of x's call, or its answer
    kills,      \* kills, passed deadlines and failures so far
    overlap     \* history: an agent was about to listen while another one lived

vars == <<socket, pc, held, expired, listening, backlog, conn, verdict, call, kills, overlap>>

Calls == {"idle", "waiting", "identity", "status", "stop", "expired", "error", "noAgent"}

\* idle, asking whether an agent runs, unlocking the store, clearing the path,
\* binding it, restricting it, serving, stopping (listener closed), gone.
Pcs == {"idle", "asking", "unlock", "clear", "bind", "restrict", "serve", "stopping", "gone"}

TypeOK ==
    /\ socket \in Agents \cup {None}
    /\ pc \in [Agents -> Pcs]
    /\ held \in [Agents -> BOOLEAN]
    /\ expired \in [Agents -> BOOLEAN]
    /\ listening \in [Agents -> BOOLEAN]
    /\ backlog \in [Agents -> SUBSET Conn]
    /\ conn \in [Agents -> Conn \cup {None}]
    /\ verdict \in [Agents -> Verdicts \cup {None}]
    /\ call \in [Callers -> Calls]
    /\ kills \in 0..MaxKills
    /\ overlap \in BOOLEAN

Init ==
    /\ socket = None
    /\ pc = [a \in Agents |-> "idle"]
    /\ held = [a \in Agents |-> FALSE]
    /\ expired = [a \in Agents |-> FALSE]
    /\ listening = [a \in Agents |-> FALSE]
    /\ backlog = [a \in Agents |-> {}]
    /\ conn = [a \in Agents |-> None]
    /\ verdict = [a \in Agents |-> None]
    /\ call = [x \in Callers |-> "idle"]
    /\ kills = 0
    /\ overlap = FALSE

Goto(a, label) == pc' = [pc EXCEPT ![a] = label]

---------------------------------------------------------------------------
\* Calling an agent (client.go).

Reached(a) == socket = a /\ listening[a]

\* Dial finds no file, or a file nobody listens behind; or the request is sent.
Call(x, op) ==
    \/ /\ ~\E a \in Agents : Reached(a)
       /\ call' = [call EXCEPT ![x] = "noAgent"]
       /\ UNCHANGED backlog
    \/ \E a \in Agents :
       /\ Reached(a)
       /\ backlog' = [backlog EXCEPT ![a] = @ \cup {[from |-> x, op |-> op]}]
       /\ call' = [call EXCEPT ![x] = "waiting"]

ClientCalls(c, op) ==
    /\ call[c] = "idle"
    /\ Call(c, op)
    /\ UNCHANGED <<socket, pc, held, expired, listening, conn, verdict, kills, overlap>>

\* The client's command ends; another one may follow.
ClientDone(c) ==
    /\ call[c] \notin {"idle", "waiting"}
    /\ call' = [call EXCEPT ![c] = "idle"]
    /\ UNCHANGED <<socket, pc, held, expired, listening, backlog, conn, verdict, kills, overlap>>

Abandoned(x, c) == IF c # None /\ c.from = x THEN [c EXCEPT !.from = None] ELSE c

\* x hangs up; what it sent is still there to be read.
HangUp(x) ==
    /\ backlog' = [a \in Agents |-> {Abandoned(x, c) : c \in backlog[a]}]
    /\ conn' = [a \in Agents |-> Abandoned(x, conn[a])]

\* The call's deadline passes before the answer comes.
TimeOut(x) ==
    /\ call[x] = "waiting"
    /\ kills < MaxKills /\ kills' = kills + 1
    /\ call' = [call EXCEPT ![x] = "error"]
    /\ HangUp(x)
    /\ UNCHANGED <<socket, pc, held, expired, listening, verdict, overlap>>

---------------------------------------------------------------------------
\* agent start: AgentState, unlock, NewServer, Listen.

AskState(a) ==
    /\ pc[a] = "idle"
    /\ Call(a, "status")
    /\ Goto(a, "asking")
    /\ UNCHANGED <<socket, held, expired, listening, conn, verdict, kills, overlap>>

\* Only an agent that answers with its remaining lifetime stops the start: a
\* call that fails is no reason not to.
Decide(a) ==
    /\ pc[a] = "asking" /\ call[a] # "waiting"
    /\ Goto(a, IF call[a] = "status" THEN "gone" ELSE "unlock")
    /\ call' = [call EXCEPT ![a] = "idle"]
    /\ UNCHANGED <<socket, held, expired, listening, backlog, conn, verdict, kills, overlap>>

Alive(a) == pc[a] \in {"clear", "bind", "restrict", "serve", "stopping"}

\* The store is unlocked (a prompt, perhaps) or not; NewServer copies the key
\* and the lifetime starts.
Unlocked(a) ==
    /\ pc[a] = "unlock"
    /\ \/ /\ held' = [held EXCEPT ![a] = TRUE]
          /\ overlap' = (overlap \/ \E b \in Agents \ {a} : Alive(b))
          /\ Goto(a, "clear")
       \/ /\ Goto(a, "gone")
          /\ UNCHANGED <<held, overlap>>
    /\ UNCHANGED <<socket, expired, listening, backlog, conn, verdict, call, kills>>

\* Listen removes what is at the path, whoever bound it.
ClearPath(a) ==
    /\ pc[a] = "clear"
    /\ socket' = None
    /\ Goto(a, "bind")
    /\ UNCHANGED <<held, expired, listening, backlog, conn, verdict, call, kills, overlap>>

\* Closing a's listener resets the connections nobody accepted.
ResetCalls(a) ==
    [x \in Callers |-> IF \E c \in backlog[a] : c.from = x THEN "error" ELSE call[x]]

\* Mutant: the agent binds another path than the one callers dial.
BindElsewhere(a) ==
    /\ pc[a] = "bind"
    /\ listening' = [listening EXCEPT ![a] = TRUE]
    /\ Goto(a, "restrict")
    /\ UNCHANGED <<socket, held, expired, backlog, conn, verdict, call, kills, overlap>>

\* The bind fails if there is a file again; the process then exits.
Bind(a) ==
    /\ pc[a] = "bind"
    /\ \/ /\ socket = None
          /\ socket' = a
          /\ listening' = [listening EXCEPT ![a] = TRUE]
          /\ Goto(a, "restrict")
          /\ UNCHANGED held
       \/ /\ socket # None
          /\ held' = [held EXCEPT ![a] = FALSE]
          /\ Goto(a, "gone")
          /\ UNCHANGED <<socket, listening>>
    /\ UNCHANGED <<expired, backlog, conn, verdict, call, kills, overlap>>

\* Chmod acts on the file at the path, whoever's it is by now; without one the
\* listener is closed and the process exits.
Restrict(a) ==
    /\ pc[a] = "restrict"
    /\ \/ /\ socket # None
          /\ Goto(a, "serve")
          /\ UNCHANGED <<held, listening, backlog, call>>
       \/ /\ socket = None
          /\ held' = [held EXCEPT ![a] = FALSE]
          /\ listening' = [listening EXCEPT ![a] = FALSE]
          /\ backlog' = [backlog EXCEPT ![a] = {}]
          /\ call' = ResetCalls(a)
          /\ Goto(a, "gone")
    /\ UNCHANGED <<socket, expired, conn, verdict, kills, overlap>>

---------------------------------------------------------------------------
\* Serving (server.go).

Expire(a) ==
    /\ Alive(a) /\ ~expired[a]
    /\ expired' = [expired EXCEPT ![a] = TRUE]
    /\ UNCHANGED <<socket, pc, held, listening, backlog, conn, verdict, call, kills, overlap>>

\* Stop: closing the listener unlinks the path, whoever bound it.
Stop(a) ==
    /\ listening' = [listening EXCEPT ![a] = FALSE]
    /\ socket' = None
    /\ backlog' = [backlog EXCEPT ![a] = {}]
    /\ Goto(a, "stopping")

\* Mutant: an expired agent notices only when somebody calls.
TimerOnRequest(a) ==
    /\ pc[a] = "serve" /\ expired[a] /\ conn[a] # None
    /\ Stop(a)
    /\ call' = ResetCalls(a)
    /\ UNCHANGED <<held, expired, conn, verdict, kills, overlap>>

\* The timer; a request may be in the middle of being handled.
Timer(a) ==
    /\ pc[a] = "serve" /\ expired[a]
    /\ Stop(a)
    /\ call' = ResetCalls(a)
    /\ UNCHANGED <<held, expired, conn, verdict, kills, overlap>>

Accept(a) ==
    /\ pc[a] = "serve" /\ conn[a] = None /\ verdict[a] = None
    /\ \E c \in backlog[a] :
          /\ conn' = [conn EXCEPT ![a] = c]
          /\ backlog' = [backlog EXCEPT ![a] = @ \ {c}]
    /\ UNCHANGED <<socket, pc, held, expired, listening, verdict, call, kills, overlap>>

\* The answer, as far as its caller still waits.
Delivered(c, answer) == [x \in Callers |-> IF x = c.from THEN answer ELSE call[x]]

\* Accept returns an error though nobody asked the agent to stop: Serve wipes the
\* key, removes the path and returns, and the process exits with its listener.
AcceptFails(a) ==
    /\ pc[a] = "serve" /\ conn[a] = None /\ verdict[a] = None
    /\ kills < MaxKills /\ kills' = kills + 1
    /\ held' = [held EXCEPT ![a] = FALSE]
    /\ listening' = [listening EXCEPT ![a] = FALSE]
    /\ socket' = None
    /\ backlog' = [backlog EXCEPT ![a] = {}]
    /\ call' = ResetCalls(a)
    /\ Goto(a, "gone")
    /\ UNCHANGED <<expired, conn, verdict, overlap>>

\* handle returns before it has looked at the key: the caller is refused, or
\* what it sent is not a request.
Refuse(a) ==
    /\ conn[a] # None /\ verdict[a] = None
    /\ kills < MaxKills /\ kills' = kills + 1
    /\ call' = Delivered(conn[a], "error")
    /\ conn' = [conn EXCEPT ![a] = None]
    /\ UNCHANGED <<socket, pc, held, expired, listening, backlog, verdict, overlap>>

\* handle reads the clock and the key under the lock, and answers after it.
Judge(a) ==
    /\ conn[a] # None /\ verdict[a] = None
    /\ verdict' = [verdict EXCEPT ![a] = IF expired[a] THEN "expired" ELSE conn[a].op]
    /\ UNCHANGED <<socket, pc, held, expired, listening, backlog, conn, call, kills, overlap>>

\* Mutant: the agent answers a stop and goes on serving.
AnswerAndServeOn(a) ==
    /\ conn[a] # None /\ verdict[a] # None
    /\ call' = Delivered(conn[a], verdict[a])
    /\ conn' = [conn EXCEPT ![a] = None]
    /\ verdict' = [verdict EXCEPT ![a] = None]
    /\ UNCHANGED <<socket, pc, held, expired, listening, backlog, kills, overlap>>

\* After answering "stop" or "expired" the agent has still to stop itself.
Answer(a) ==
    /\ conn[a] # None /\ verdict[a] # None
    /\ call' = Delivered(conn[a], verdict[a])
    /\ conn' = [conn EXCEPT ![a] = None]
    /\ verdict' = [verdict EXCEPT ![a] = IF @ \in {"stop", "expired"} THEN @ ELSE None]
    /\ UNCHANGED <<socket, pc, held, expired, listening, backlog, kills, overlap>>

\* handle's own call of Stop, once only: the timer may have been first.
StopAfterAnswer(a) ==
    /\ conn[a] = None /\ verdict[a] # None
    /\ verdict' = [verdict EXCEPT ![a] = None]
    /\ \/ /\ pc[a] = "serve"
          /\ Stop(a)
          /\ call' = ResetCalls(a)
       \/ /\ pc[a] # "serve"
          /\ UNCHANGED <<pc, listening, socket, backlog, call>>
    /\ UNCHANGED <<held, expired, conn, kills, overlap>>

\* Mutant: the key is wiped as soon as the listener is closed.
CleanupAtOnce(a) ==
    /\ pc[a] = "stopping"
    /\ held' = [held EXCEPT ![a] = FALSE]
    /\ socket' = None
    /\ Goto(a, "gone")
    /\ UNCHANGED <<expired, listening, backlog, conn, verdict, call, kills, overlap>>

\* The accept loop ends, when the connection at hand is done: the key is wiped
\* and the path removed once more, whoever bound it since.
Cleanup(a) ==
    /\ pc[a] = "stopping" /\ conn[a] = None /\ verdict[a] = None
    /\ held' = [held EXCEPT ![a] = FALSE]
    /\ socket' = None
    /\ Goto(a, "gone")
    /\ UNCHANGED <<expired, listening, backlog, conn, verdict, call, kills, overlap>>

\* A starting process is killed, its call with it.
KillStarter(a) ==
    /\ pc[a] \in {"asking", "unlock"}
    /\ kills < MaxKills /\ kills' = kills + 1
    /\ HangUp(a)
    /\ call' = [call EXCEPT ![a] = "idle"]
    /\ Goto(a, "gone")
    /\ UNCHANGED <<socket, held, expired, listening, verdict, overlap>>

\* An agent is killed: its memory and its connections go, the file at the
\* socket path stays.
KillAgent(a) ==
    /\ Alive(a)
    /\ kills < MaxKills /\ kills' = kills + 1
    /\ held' = [held EXCEPT ![a] = FALSE]
    /\ listening' = [listening EXCEPT ![a] = FALSE]
    /\ backlog' = [backlog EXCEPT ![a] = {}]
    /\ conn' = [conn EXCEPT ![a] = None]
    /\ verdict' = [verdict EXCEPT ![a] = None]
    /\ call' = [x \in Callers |->
          IF \E c \in backlog[a] \cup ({conn[a]} \ {None}) : c.from = x THEN "error" ELSE call[x]]
    /\ Goto(a, "gone")
    /\ UNCHANGED <<socket, expired, overlap>>

---------------------------------------------------------------------------
AgentStep(a) ==
    \/ AskState(a) \/ Decide(a) \/ Unlocked(a) \/ ClearPath(a) \/ Bind(a) \/ Restrict(a)
    \/ Expire(a) \/ Timer(a)
    \/ Accept(a) \/ Judge(a) \/ Answer(a) \/ StopAfterAnswer(a) \/ Cleanup(a)

Next ==
    \/ \E a \in Agents : AgentStep(a) \/ AcceptFails(a) \/ Refuse(a) \/ KillStarter(a) \/ KillAgent(a)
    \/ \E c \in Clients : ClientCalls(c, "identity") \/ ClientCalls(c, "stop") \/ ClientDone(c)
    \/ \E x \in Callers : TimeOut(x)

\* A running agent's own steps happen, and time passes.
Fairness ==
    \A a \in Agents :
        /\ WF_vars(ClearPath(a)) /\ WF_vars(Bind(a)) /\ WF_vars(Restrict(a))
        /\ WF_vars(Expire(a)) /\ WF_vars(Timer(a))
        /\ WF_vars(Judge(a)) /\ WF_vars(Answer(a)) /\ WF_vars(StopAfterAnswer(a))
        /\ WF_vars(Cleanup(a))

Spec == Init /\ [][Next]_vars
FairSpec == Spec /\ Fairness

---------------------------------------------------------------------------
\* Properties.

\* As long as no start overlapped another agent's life, an agent that listens is
\* the one the socket path leads to, so it can be stopped (Listen, Stop and
\* cleanup all remove the path without asking whose it is).
ReachableUnlessOverlap ==
    ~overlap => \A a \in Agents : listening[a] => socket = a

\* The key an agent is about to send is never wiped before it is sent: the timer
\* stops the listener but leaves the wiping to the goroutine that answers.
AnswersWithTheKey ==
    \A a \in Agents : verdict[a] = "identity" => held[a]

\* An agent that has decided to answer "stopped" or "expired" hands the key to
\* no later caller, those already connected included.
SilentAfterStop ==
    \A a \in Agents :
        [](verdict[a] \in {"stop", "expired"} => [](verdict[a] # "identity"))

\* Every agent gives its key up in the end, also one that can no longer be
\* reached: through a stop, its timer, a bind that fails, or its death.
KeyIsReleased == \A a \in Agents : held[a] ~> ~held[a]
=============================================================================
