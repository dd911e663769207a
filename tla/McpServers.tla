------------------------------- MODULE McpServers -------------------------------
(***************************************************************************)
(* The connections to MCP services behind McpToolHandler: the startup of   *)
(* McpServerManager, which connects one service after the other and goes   *)
(* on without those that fail, the index of their tools, and the exit      *)
(* stack that closes them.                                                 *)
(*                                                                         *)
(* The agent's operation lock lets one startup or shutdown run at a time;  *)
(* pc names the await it is suspended at.  Each startup makes new clients, *)
(* so a client is a service and the number of the startup that made it.    *)
(* A service may fail at any call, and closing it may fail too.            *)
(***************************************************************************)
EXTENDS Naturals, FiniteSets, SequencesExt

CONSTANTS
    Services,    \* sequence of the configured services' names
    ToolNames,   \* names that the services' tools may have
    MaxStartups  \* bound: startups explored

\* A name is the sequence of its parts between double underscores.
ASSUME McpAssumption ==
    /\ Services \in Seq(Seq(STRING) \ {<<>>})
    /\ IsInjective(Services)
    /\ ToolNames \subseteq Seq(STRING) \ {<<>>}
    /\ IsFiniteSet(ToolNames)
    /\ MaxStartups \in Nat

VARIABLES
    pc,         \* where the startup or shutdown is
    startups,   \* startups begun
    at,         \* the service being connected
    offered,    \* the tools that client's service listed
    stack,      \* services to close: the local stack, later _exit_stack
    owned,      \* _exit_stack is set
    clients,    \* _clients_by_service
    routes,     \* _tool_routes: prefixed name, raw name and client
    tools,      \* _openai_tools, by name
    exposed,    \* McpToolHandler._tools
    started,    \* McpToolHandler._started
    failing,    \* a close of the running shutdown has raised
    connected,  \* the clients that are really connected
    cutShort,   \* a startup was cut short by a cancel or a failed close
    leaked      \* a failed or interrupted close may have left its client

vars == <<pc, startups, at, offered, stack, owned, clients, routes, tools,
          exposed, started, failing, connected, cutShort, leaked>>

history == <<cutShort, leaked>>
managerVars == <<stack, owned, clients, routes, tools>>
handlerVars == <<exposed, started>>

Client == <<at, startups>>
Names(rs) == {r.name : r \in rs}

Prefixed(service, tool) == service \o tool

Init ==
    /\ pc = "idle"
    /\ startups = 0
    /\ at = 0
    /\ offered = <<>>
    /\ stack = <<>>
    /\ owned = FALSE
    /\ clients = {}
    /\ routes = {}
    /\ tools = <<>>
    /\ exposed = <<>>
    /\ started = FALSE
    /\ failing = FALSE
    /\ connected = {}
    /\ cutShort = FALSE
    /\ leaked = FALSE

-----------------------------------------------------------------------------
(* Startup.                                                                *)

\* On to the next service, or the end of startup.
NextService ==
    IF at < Len(Services)
    THEN /\ at' = at + 1
         /\ pc' = "connecting"
         /\ UNCHANGED <<owned, exposed, started>>
    ELSE /\ at' = 0
         /\ pc' = "idle"
         /\ owned' = TRUE
         /\ exposed' = tools'
         /\ started' = TRUE

\* McpToolHandler.startup up to the first connection.  A handler that is
\* started returns, and an unreadable configuration raises.
BeginStartup ==
    /\ pc = "idle"
    /\ ~started
    /\ startups < MaxStartups
    /\ Len(Services) > 0
    /\ startups' = startups + 1
    /\ pc' = "connecting"
    /\ at' = 1
    /\ stack' = <<>>
    /\ offered' = <<>>
    /\ UNCHANGED <<owned, clients, routes, tools, handlerVars, failing,
                   connected, history>>

\* enter_async_context returns or raises.  What was not entered needs no
\* close, so discarding it cannot fail.
Connect ==
    /\ pc = "connecting"
    /\ \/ /\ connected' = connected \cup {Client}
          /\ pc' = "listing"
          /\ UNCHANGED <<at, owned, exposed, started, tools>>
       \/ /\ UNCHANGED <<connected, tools>>
          /\ NextService
    /\ UNCHANGED <<startups, offered, stack, clients, routes, failing, history>>

Taken(name) == name \in Names(routes)

Entry(t) == [name |-> Prefixed(Services[at], t), raw |-> t, client |-> Client]

\* A service is registered with its client, in the place of an earlier one.
Registered == {c \in clients : c[1] # at} \cup {Client}

\* Mutant: only the names that are taken are left out.
MutantRegister(listed) ==
    LET added == {Entry(t) : t \in {u \in listed :
                                     ~Taken(Prefixed(Services[at], u))}}
    IN  /\ clients' = Registered
        /\ routes' = routes \cup added
        /\ tools' = tools \o SetToSeq(Names(added))
        /\ stack' = Append(stack, at)
        /\ NextService

\* _register_service_tools accepts the tools, and the service's stack is pushed.
Register(listed) ==
    LET added == {Entry(t) : t \in listed}
    IN  /\ \A r \in added : ~Taken(r.name)
        /\ clients' = Registered
        /\ routes' = routes \cup added
        /\ tools' = tools \o SetToSeq(Names(added))
        /\ stack' = Append(stack, at)
        /\ NextService

\* It raises: a name is taken, or the service listed a name twice.
Refuse(listed) ==
    /\ listed # {}
    /\ pc' = "discarding"
    /\ UNCHANGED <<at, managerVars, handlerVars>>

\* list_tools returns what the service offers, or raises.
ListTools ==
    /\ pc = "listing"
    /\ \/ \E listed \in SUBSET ToolNames :
            /\ offered' = [c \in DOMAIN offered \cup {Client} |->
                             IF c = Client THEN listed ELSE offered[c]]
            /\ Register(listed) \/ Refuse(listed)
       \/ /\ pc' = "discarding"
          /\ UNCHANGED <<at, offered, managerVars, handlerVars>>
    /\ UNCHANGED <<startups, failing, connected, history>>

\* The except block: the failed service is closed.
\* Mutant: it is not.
MutantDisconnect(c) == UNCHANGED connected
Disconnect(c) == connected' = connected \ {c}

Discard ==
    /\ pc = "discarding"
    /\ UNCHANGED <<startups, offered, stack, clients, routes, tools, failing,
                   history>>
    /\ Disconnect(Client)
    /\ NextService

\* A close that raises may have left the client connected.
CloseRaises(c) ==
    /\ connected' \in {connected, connected \ {c}}
    /\ leaked' = TRUE

\* Closing the failed service raises: the exception leaves startup.
DiscardFails ==
    /\ pc = "discarding"
    /\ CloseRaises(Client)
    /\ pc' = "idle"
    /\ at' = 0
    /\ cutShort' = TRUE
    /\ UNCHANGED <<startups, offered, managerVars, handlerVars, failing>>

\* The task of the operation is cancelled: CancelledError passes the except
\* block.  An interrupted connection attempt leaves nothing behind.
CancelStartup ==
    /\ pc \in {"connecting", "listing", "discarding"}
    /\ pc' = "idle"
    /\ at' = 0
    /\ cutShort' = TRUE
    /\ UNCHANGED <<startups, offered, managerVars, handlerVars, failing,
                   connected, leaked>>

-----------------------------------------------------------------------------
(* Shutdown.                                                               *)

\* McpToolHandler.shutdown of a handler that is started.
BeginShutdown ==
    /\ pc = "idle"
    /\ started
    /\ pc' = "stopping"
    /\ failing' = FALSE
    /\ UNCHANGED <<startups, at, offered, managerVars, handlerVars, connected,
                   history>>

\* The clients of the exit stack belong to the startup that filled it.
OnTop == <<stack[Len(stack)], startups>>

\* AsyncExitStack.aclose: the last service first, all of them whatever
\* raises, an interruption of the task among it.
CloseService ==
    /\ pc = "stopping"
    /\ stack # <<>>
    /\ stack' = Front(stack)
    /\ \/ Disconnect(OnTop) /\ UNCHANGED <<failing, leaked>>
       \/ CloseRaises(OnTop) /\ failing' = TRUE
    /\ UNCHANGED <<pc, startups, at, offered, owned, clients, routes, tools,
                   handlerVars, cutShort>>

\* aclose returns: the manager and the handler are cleared.
ShutdownEnds ==
    /\ pc = "stopping"
    /\ stack = <<>>
    /\ ~failing
    /\ pc' = "idle"
    /\ owned' = FALSE
    /\ clients' = {}
    /\ routes' = {}
    /\ tools' = <<>>
    /\ exposed' = <<>>
    /\ started' = FALSE
    /\ UNCHANGED <<startups, at, offered, stack, failing, connected,
                   history>>

\* aclose raises in the end: nothing is cleared, and the handler still counts
\* as started, so that the shutdown can be tried again.
ShutdownFails ==
    /\ pc = "stopping"
    /\ stack = <<>>
    /\ failing
    /\ pc' = "idle"
    /\ UNCHANGED <<startups, at, offered, managerVars, handlerVars, failing,
                   connected, history>>

Next ==
    \/ BeginStartup \/ Connect \/ ListTools \/ Discard \/ DiscardFails
    \/ CancelStartup
    \/ BeginShutdown \/ CloseService \/ ShutdownEnds \/ ShutdownFails

Spec == Init /\ [][Next]_vars

-----------------------------------------------------------------------------
(* Properties.                                                             *)

Starting == {"connecting", "listing", "discarding"}
AllClients == (1..Len(Services)) \X (1..MaxStartups)

TypeOK ==
    /\ pc \in Starting \cup {"idle", "stopping"}
    /\ startups \in 0..MaxStartups
    /\ at \in 0..Len(Services) /\ (at = 0 <=> pc \notin Starting)
    /\ \A c \in DOMAIN offered : c \in AllClients /\ offered[c] \subseteq ToolNames
    /\ stack \in Seq(1..Len(Services)) /\ IsInjective(stack)
    /\ clients \subseteq AllClients
    /\ \A c, d \in clients : c[1] = d[1] => c = d
    /\ \A r \in routes : r.raw \in ToolNames /\ r.client \in AllClients
    /\ connected \subseteq AllClients
    /\ {owned, started, failing, cutShort, leaked} \subseteq BOOLEAN
    /\ started => owned

\* No two tools the agent offers a model have one name, across services,
\* repeated startups and failures, and each of them has its route; the names
\* of two services collide when they end and begin with the same parts.  A
\* service contributes all tools it listed, or none when it was refused.
ToolsExact ==
    /\ IsInjective(tools)
    /\ ToSet(tools) = Names(routes)
    /\ Cardinality(routes) = Len(tools)
    /\ \A c \in DOMAIN offered :
        {r.raw : r \in {q \in routes : q.client = c}}
          = IF c \in clients THEN offered[c] ELSE {}
    /\ started /\ pc = "idle" => exposed = tools

\* As long as no startup was cut short, the connections of an agent at rest
\* are those of the registered services, unless a close failed: a service
\* that was refused leaves none, every route leads to a live one, and a
\* shutdown that returned, the first or a retried one, forgets all of them.
ConnectionsExact ==
    pc = "idle" /\ ~cutShort =>
        /\ ~leaked => connected = clients
        /\ ~started => clients = {} /\ routes = {} /\ exposed = <<>>

-----------------------------------------------------------------------------
(* The inductive invariant behind both.                                    *)

StackClients == {<<s, startups>> : s \in ToSet(stack)}

\* The services of the running startup that are registered or refused so far
\* come before the one being connected, and their clients are of this startup;
\* the other clients are of earlier ones.
InOrder ==
    /\ \A c \in clients : c[2] <= startups
    /\ \A c \in DOMAIN offered : c[2] = startups
    /\ pc \in Starting =>
        /\ startups > 0
        /\ \A c \in clients : c[2] = startups => c[1] < at
        /\ \A c \in DOMAIN offered :
            c[1] < at \/ (c[1] = at /\ pc = "discarding")
        /\ \A s \in ToSet(stack) : s < at

\* A route has the name of its tool at the service it leads to, a name leads
\* to one route, and the service of a route is registered: with the client the
\* route leads to, or with a later one that took its place.
RoutesExact ==
    /\ \A r \in routes :
        /\ r = [name |-> Prefixed(Services[r.client[1]], r.raw),
                raw |-> r.raw, client |-> r.client]
        /\ \E c \in clients : c[1] = r.client[1] /\ r.client[2] <= c[2]
    /\ \A r, q \in routes : r.name = q.name => r = q
    /\ tools \in Seq(Names(routes))

\* The handler offers a model nothing before a startup has ended.
ExposedExact ==
    /\ pc \in Starting => ~started
    /\ pc = "stopping" => started
    /\ started => exposed = tools

\* The connections at every await of a startup or a shutdown: those on the
\* exit stack, and the one under way.
ConnectionsInv ==
    /\ failing => leaked
    /\ ~cutShort =>
        /\ pc = "idle" /\ ~started => clients = {}
        /\ pc = "idle" /\ ~started /\ ~leaked => connected = {}
        /\ ~started => exposed = <<>>
        /\ pc \in Starting => clients = StackClients
        /\ started /\ pc = "idle" /\ ~leaked => clients = StackClients
        /\ ~leaked /\ (started \/ pc \in Starting) =>
            connected = StackClients \cup
                          IF pc \in {"listing", "discarding"} THEN {Client} ELSE {}

IInv == TypeOK /\ InOrder /\ RoutesExact /\ ToolsExact /\ ExposedExact
        /\ ConnectionsInv

=================================================================================
