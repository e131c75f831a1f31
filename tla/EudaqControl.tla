---------------------------- MODULE EudaqControl ----------------------------
(***************************************************************************)
(* The command and status protocol of EUDAQ2: one RunControl, the clients  *)
(* it drives (Producers, DataCollectors and the remaining types, of which  *)
(* the Monitor is modelled), and the two FIFO channels of each connection, *)
(* commands to the client and statuses back.                               *)
(*                                                                         *)
(* RunControl is three threads: the user's thread, which runs Initialise,  *)
(* Configure, StartRun, StopRun, Reset and Terminate; the command thread,  *)
(* which stores every status it receives; and the status thread, which     *)
(* polls all clients.  A client is the command-forwarding thread that runs *)
(* the On... handlers one at a time, and, during a run, the thread of the  *)
(* user's RunLoop.                                                         *)
(*                                                                         *)
(* An element of Clients is one connection (a ConnectionInfo object), so a *)
(* client process that is started again is another element.                *)
(***************************************************************************)
EXTENDS Integers, Sequences, FiniteSets

CONSTANTS Producers,    \* connections of type "Producer"
          Collectors,   \* connections of type "DataCollector"
          Others,       \* connections of any other type
          NoClient,     \* not a connection
          LastStart,    \* EUDAQ_CTRL_PRODUCER_LAST_START, or NoClient
          FirstStop,    \* EUDAQ_CTRL_PRODUCER_FIRST_STOP, or NoClient
          Faulty,       \* clients whose user code may throw, hang or crash
          Polled,       \* bound: clients polled even if that can bring no news
          MaxRun,       \* bound: the last run number that is started
          MaxQ,         \* bound: user commands and statuses in flight
          MaxCalls      \* bound: calls the user makes

Clients == Producers \cup Collectors \cup Others
Servers == Collectors \cup Others  \* the types that derive from DataReceiver

ASSUME ClientsAssumption ==
  /\ Producers \cap Servers = {}
  /\ Collectors \cap Others = {}
  /\ NoClient \notin Clients
  /\ LastStart \in Producers \cup {NoClient}
  /\ FirstStop \in Producers \cup {NoClient}
  /\ Faulty \subseteq Clients

ASSUME BoundsAssumption == MaxRun \in Nat /\ MaxQ \in Nat \ {0} /\ MaxCalls \in Nat

States == {"ERROR", "UNINIT", "UNCONF", "CONF", "STOPPED", "RUNNING"}

\* What RunControl has in m_conn_status for a connection: a state or nothing.
Views == States \cup {"none"}

Command == [op   : {"INIT", "CONFIG", "START", "STOP", "RESET", "STATUS",
                    "TERMINATE"},
            run  : 0 .. MaxRun,
            addr : SUBSET Servers]

\* A command with an empty parameter.
Cmd(o) == [op |-> o, run |-> 0, addr |-> {}]

Phases == {"idle", "initialise", "configure",
           "startOthers", "startCollectors", "startProducers",
           "stopFirst", "stopProducers", "stopOthers", "closed", "segv"}

VARIABLES
  rcpc,       \* where the user's thread is in RunControl
  batch,      \* conn_to_init, conn_to_conf, conn_to_run or conn_to_stop of the call
  todo,       \* members of batch the loop in progress has still to visit
  cur,        \* the connection whose RUNNING status is awaited
  listening,  \* m_listening
  runN,       \* m_run_n, counted from 0
  addrs,      \* the servers whose address m_conf names
  calls,      \* how many calls the user has made (for the bound alone)
  view,       \* m_conn_status: the last status received, by connection
  conn,       \* "absent", "up" or "gone"
  cmdq,       \* commands on the way to the client: the socket, then m_qu_cmd
  statq,      \* statuses on the way to RunControl; "BYE" is the disconnection
  st,         \* m_status of the client
  hpc,        \* what its forwarding thread is doing; "dead" after a throw
  loop,       \* m_fut_runloop
  flag,       \* m_is_runlooping
  run,        \* m_run_number of the client
  hasConf,    \* m_conf of the client is not null
  conf,       \* the servers whose address m_conf of the client names
  lis,        \* the server has a m_dataserver
  link        \* m_senders: the servers the client has a data connection to

rcVars  == <<rcpc, batch, todo, cur, listening, runN, addrs, calls>>
hvars   == <<st, hpc, loop, flag, run, hasConf, conf>>
netVars == <<cmdq, statq>>
vars    == <<rcVars, view, conn, netVars, hvars, lis, link>>

TypeOK ==
  /\ rcpc \in Phases
  /\ batch \in SUBSET Clients
  /\ todo \in SUBSET batch
  /\ cur \in Clients \cup {NoClient}
  /\ listening \in BOOLEAN
  /\ runN \in 0 .. MaxRun + 1
  /\ addrs \in SUBSET Servers
  /\ calls \in 0 .. MaxCalls
  /\ view \in [Clients -> Views]
  /\ conn \in [Clients -> {"absent", "up", "gone"}]
  /\ cmdq \in [Clients -> Seq(Command)]
  /\ statq \in [Clients -> Seq(States \cup {"BYE"})]
  /\ st \in [Clients -> States]
  /\ hpc \in [Clients -> {"idle", "starting", "stopping", "resetting", "dead"}]
  /\ loop \in [Clients -> {"none", "alive", "ended", "failed"}]
  /\ flag \in [Clients -> BOOLEAN]
  /\ run \in [Clients -> 0 .. MaxRun]
  /\ hasConf \in [Clients -> BOOLEAN]
  /\ conf \in [Clients -> SUBSET Servers]
  /\ lis \in [Clients -> BOOLEAN]
  /\ link \in [Clients -> SUBSET Servers]

Init ==
  /\ rcpc = "idle" /\ batch = {} /\ todo = {} /\ cur = NoClient
  /\ listening = TRUE
  /\ runN = 0
  /\ addrs = {}
  /\ calls = 0
  /\ view = [c \in Clients |-> "none"]
  /\ conn = [c \in Clients |-> "absent"]
  /\ cmdq = [c \in Clients |-> <<>>]
  /\ statq = [c \in Clients |-> <<>>]
  /\ st = [c \in Clients |-> "UNINIT"]
  /\ hpc = [c \in Clients |-> "idle"]
  /\ loop = [c \in Clients |-> "none"]
  /\ flag = [c \in Clients |-> FALSE]
  /\ run = [c \in Clients |-> 0]
  /\ hasConf = [c \in Clients |-> FALSE]
  /\ conf = [c \in Clients |-> {}]
  /\ lis = [c \in Clients |-> FALSE]
  /\ link = [c \in Clients |-> {}]

-----------------------------------------------------------------------------
(***************************************************************************)
(* RunControl: sending commands.  A packet to a connection that has closed *)
(* is lost, and one to a dead forwarding thread is never looked at.        *)
(***************************************************************************)

Reachable(c) == conn[c] = "up" /\ hpc[c] # "dead"

SendCommand(S, m) ==
  cmdq' = [c \in Clients |->
             IF c \in S /\ Reachable(c) THEN Append(cmdq[c], m) ELSE cmdq[c]]

\* The bound on user commands in flight.
Room(S) == \A c \in S : Len(cmdq[c]) < MaxQ

Known == {c \in Clients : view[c] # "none"}
Seen(S) == {c \in Clients : view[c] \in S}

(***************************************************************************)
(* The calls of the user's thread.                                         *)
(***************************************************************************)

\* The user's thread is free; the user's patience is bounded.
Call == rcpc = "idle" /\ calls < MaxCalls /\ calls' = calls + 1

\* A bound: a call that only prepares others is not the last one.
Preparation == calls + 1 < MaxCalls

\* One client out of place and nothing is sent at all.
Initialise ==
  LET targets == Seen({"UNINIT"}) IN
  /\ Call /\ Preparation
  /\ Known = Seen({"UNINIT", "UNCONF"})
  /\ Room(targets)
  /\ batch' = targets /\ todo' = targets
  /\ rcpc' = "initialise"
  /\ UNCHANGED <<cur, listening, runN, addrs, view, conn, netVars, hvars, lis, link>>

\* Clients in other states are skipped, and so are their server addresses; those of
\* earlier calls are kept, unless the file was read again.
ConfigureWith(kept) ==
  LET targets == Seen({"UNCONF", "CONF", "STOPPED"}) IN
  /\ Call /\ Preparation
  /\ Room(targets)
  /\ addrs' = kept \cup (targets \cap Servers)
  /\ batch' = targets /\ todo' = targets \cap Servers
  /\ rcpc' = "configure"
  /\ UNCHANGED <<cur, listening, runN, view, conn, netVars, hvars, lis, link>>

Configure == \E kept \in {{}, addrs} : ConfigureWith(kept)

Reset ==
  /\ Call
  /\ Room(Known)
  /\ listening' = TRUE
  /\ SendCommand(Known, Cmd("RESET"))
  /\ UNCHANGED <<rcpc, batch, todo, cur, runN, addrs, view, conn, statq, hvars, lis, link>>

Terminate ==
  /\ Call
  /\ Room(Known)
  /\ rcpc' = "closed"
  /\ listening' = FALSE
  /\ SendCommand(Known, Cmd("TERMINATE"))
  /\ UNCHANGED <<batch, todo, cur, runN, addrs, view, conn, statq, hvars, lis, link>>

StartRun ==
  /\ Call
  /\ runN <= MaxRun
  /\ Room(Seen({"CONF", "STOPPED"}))
  /\ listening' = FALSE
  /\ batch' = Seen({"CONF", "STOPPED"})
  /\ rcpc' = "startOthers"
  /\ todo' = Seen({"CONF", "STOPPED"}) \cap Others
  /\ UNCHANGED <<cur, runN, addrs, view, conn, netVars, hvars, lis, link>>

\* The run number moves on before anything is stopped.
StopRun ==
  /\ Call
  /\ runN <= MaxRun
  /\ Room(Seen({"RUNNING"}))
  /\ listening' = TRUE
  /\ runN' = runN + 1
  /\ batch' = Seen({"RUNNING"})
  /\ rcpc' = "stopFirst"
  /\ todo' = Seen({"RUNNING"}) \cap {FirstStop}
  /\ SendCommand(Seen({"RUNNING"}) \cap {FirstStop}, Cmd("STOP"))
  /\ UNCHANGED <<cur, addrs, view, conn, statq, hvars, lis, link>>

UserCall ==
  \/ Initialise \/ Configure \/ Reset \/ Terminate \/ StartRun \/ StopRun

(***************************************************************************)
(* The bodies of Initialise and of Configure, where the status of a client *)
(* is looked at again.                                                     *)
(***************************************************************************)

\* A client that has left its place meanwhile is passed over.
InitialiseSingleConnection(c) ==
  /\ rcpc = "initialise"
  /\ c \in todo /\ view[c] # "none"
  /\ SendCommand({c} \cap Seen({"UNINIT", "UNCONF"}), Cmd("INIT"))
  /\ todo' = todo \ {c}
  /\ UNCHANGED <<rcpc, batch, cur, listening, runN, addrs, calls,
                 view, conn, statq, hvars, lis, link>>

InitialiseEnds ==
  /\ rcpc = "initialise" /\ todo = {}
  /\ rcpc' = "idle"
  /\ batch' = {}
  /\ UNCHANGED <<todo, cur, listening, runN, addrs, calls, view, conn, netVars, hvars, lis, link>>

\* The address of a server is in its status.
SeeAddress(c) ==
  /\ rcpc = "configure"
  /\ c \in todo /\ view[c] # "none"
  /\ todo' = todo \ {c}
  /\ UNCHANGED <<rcpc, batch, cur, listening, runN, addrs, calls,
                 view, conn, netVars, hvars, lis, link>>

SendConfig ==
  /\ rcpc = "configure" /\ todo = {}
  /\ rcpc' = "idle"
  /\ batch' = {}
  /\ SendCommand(batch, [Cmd("CONFIG") EXCEPT !.addr = addrs])
  /\ UNCHANGED <<todo, cur, listening, runN, addrs, calls, view, conn, statq, hvars, lis, link>>

(***************************************************************************)
(* The body of StartRun: monitors, collectors, producers, last producer.   *)
(***************************************************************************)

Start(r) == [Cmd("START") EXCEPT !.run = r]

\* Mutant: nobody is waited for, as with the producers.
StartServerOnly(c) ==
  /\ rcpc \in {"startOthers", "startCollectors"}
  /\ c \in todo
  /\ SendCommand({c}, Start(runN))
  /\ todo' = todo \ {c}
  /\ UNCHANGED <<rcpc, batch, cur, listening, runN, addrs, calls,
                 view, conn, statq, hvars, lis, link>>

\* START to one monitor or collector, whose RUNNING is then awaited.
StartServer(c) ==
  /\ rcpc \in {"startOthers", "startCollectors"}
  /\ cur = NoClient
  /\ c \in todo
  /\ SendCommand({c}, Start(runN))
  /\ cur' = c
  /\ todo' = todo \ {c}
  /\ UNCHANGED <<rcpc, batch, listening, runN, addrs, calls, view, conn, statq, hvars, lis, link>>

\* Mutant: the wait of the producers' loop, for anything but CONF.
SeeRunningOrStopped ==
  /\ cur # NoClient
  /\ view[cur] \notin {"CONF", "none"}
  /\ cur' = NoClient
  /\ UNCHANGED <<rcpc, batch, todo, listening, runN, addrs, calls,
                 view, conn, netVars, hvars, lis, link>>

SeeRunning ==
  /\ cur # NoClient
  /\ view[cur] = "RUNNING"
  /\ cur' = NoClient
  /\ UNCHANGED <<rcpc, batch, todo, listening, runN, addrs, calls,
                 view, conn, netVars, hvars, lis, link>>

OthersStarted ==
  /\ rcpc = "startOthers" /\ cur = NoClient /\ todo = {}
  /\ rcpc' = "startCollectors"
  /\ todo' = batch \cap Collectors
  /\ UNCHANGED <<batch, cur, listening, runN, addrs, calls, view, conn, netVars, hvars, lis, link>>

\* START to all producers but the last one; nobody is waited for in between.
CollectorsStarted ==
  /\ rcpc = "startCollectors" /\ cur = NoClient /\ todo = {}
  /\ rcpc' = "startProducers"
  /\ todo' = batch \ {LastStart}
  /\ SendCommand((batch \cap Producers) \ {LastStart}, Start(runN))
  /\ UNCHANGED <<batch, cur, listening, runN, addrs, calls, view, conn, statq, hvars, lis, link>>

\* Only CONF is waited on: STOPPED and ERROR pass.
SeeLeftConf(c) ==
  /\ rcpc = "startProducers"
  /\ c \in todo
  /\ view[c] \notin {"CONF", "none"}
  /\ todo' = todo \ {c}
  /\ UNCHANGED <<rcpc, batch, cur, listening, runN, addrs, calls,
                 view, conn, netVars, hvars, lis, link>>

StartLastProducer ==
  /\ rcpc = "startProducers" /\ todo = {}
  /\ rcpc' = "idle"
  /\ batch' = {}
  /\ SendCommand(batch \cap {LastStart}, Start(runN))
  /\ UNCHANGED <<todo, cur, listening, runN, addrs, calls, view, conn, statq, hvars, lis, link>>

(***************************************************************************)
(* The body of StopRun: first producer, producers, collectors, others.     *)
(***************************************************************************)

SeeStopped(c) ==
  /\ rcpc \in {"stopFirst", "stopProducers"}
  /\ c \in todo
  /\ view[c] \notin {"RUNNING", "none"}
  /\ todo' = todo \ {c}
  /\ UNCHANGED <<rcpc, batch, cur, listening, runN, addrs, calls,
                 view, conn, netVars, hvars, lis, link>>

StopProducers ==
  LET targets == (batch \cap Producers) \ {FirstStop} IN
  /\ rcpc = "stopFirst" /\ todo = {}
  /\ rcpc' = "stopProducers"
  /\ todo' = targets
  /\ SendCommand(targets, Cmd("STOP"))
  /\ UNCHANGED <<batch, cur, listening, runN, addrs, calls, view, conn, statq, hvars, lis, link>>

StopCollectors ==
  /\ rcpc = "stopProducers" /\ todo = {}
  /\ rcpc' = "stopOthers"
  /\ SendCommand(batch \cap Collectors, Cmd("STOP"))
  /\ UNCHANGED <<batch, todo, cur, listening, runN, addrs, calls,
                 view, conn, statq, hvars, lis, link>>

StopOthers ==
  /\ rcpc = "stopOthers"
  /\ rcpc' = "idle"
  /\ batch' = {}
  /\ SendCommand(batch \cap Others, Cmd("STOP"))
  /\ UNCHANGED <<todo, cur, listening, runN, addrs, calls, view, conn, statq, hvars, lis, link>>

\* GetConnectionStatus(conn)->GetState() on a connection that has left the map:
\* the null pointer is dereferenced and the program ends.
NullStatus(c) ==
  /\ rcpc \in {"initialise", "configure", "startProducers", "stopFirst", "stopProducers"}
  /\ c \in todo
  /\ view[c] = "none"
  /\ rcpc' = "segv"
  /\ UNCHANGED <<batch, todo, cur, listening, runN, addrs, calls,
                 view, conn, netVars, hvars, lis, link>>

CallStep ==
  \/ InitialiseEnds \/ SendConfig
  \/ SeeRunning \/ OthersStarted \/ CollectorsStarted \/ StartLastProducer
  \/ StopProducers \/ StopCollectors \/ StopOthers
  \/ \E c \in Clients : \/ InitialiseSingleConnection(c) \/ SeeAddress(c)
                         \/ StartServer(c) \/ SeeLeftConf(c) \/ SeeStopped(c) \/ NullStatus(c)

-----------------------------------------------------------------------------
(***************************************************************************)
(* RunControl's command thread and status thread.                          *)
(***************************************************************************)

RCAlive == rcpc \notin {"closed", "segv"}

\* CONNECT and the handshake of CommandReceiver::Connect, accepted or refused.
Connect(c) ==
  /\ RCAlive
  /\ conn[c] = "absent"
  /\ conn' = [conn EXCEPT ![c] = IF listening THEN "up" ELSE "gone"]
  /\ view' = [view EXCEPT ![c] = IF listening THEN "UNINIT" ELSE "none"]
  /\ UNCHANGED <<rcVars, netVars, hvars, lis, link>>

\* Mutant: a disconnected client stays in the map.
ReceiveAnything(c) ==
  /\ RCAlive
  /\ statq[c] # <<>>
  /\ view' = [view EXCEPT ![c] = Head(statq[c])]
  /\ statq' = [statq EXCEPT ![c] = Tail(@)]
  /\ UNCHANGED <<rcVars, conn, cmdq, hvars, lis, link>>

\* RECEIVE of a status, or DISCONNECT.
ReceiveStatus(c) ==
  /\ RCAlive
  /\ statq[c] # <<>>
  /\ view' = [view EXCEPT ![c] = IF Head(statq[c]) = "BYE" THEN "none"
                                                          ELSE Head(statq[c])]
  /\ statq' = [statq EXCEPT ![c] = Tail(@)]
  /\ UNCHANGED <<rcVars, conn, cmdq, hvars, lis, link>>

\* The poll of all clients, bounded to those with nothing under way whose answer
\* can be news, and to Polled: an answer that repeats the last status changes nothing.
PollStatus ==
  LET targets == {c \in Known : /\ cmdq[c] = <<>> /\ statq[c] = <<>>
                                /\ st[c] # view[c] \/ c \in Polled} IN
  /\ RCAlive
  /\ \E c \in targets : Reachable(c)
  /\ SendCommand(targets, Cmd("STATUS"))
  /\ UNCHANGED <<rcVars, view, conn, statq, hvars, lis, link>>

-----------------------------------------------------------------------------
(***************************************************************************)
(* A client: how a handler ends.                                           *)
(***************************************************************************)

\* SetStatus(s), then the SendStatus that ends every turn of AsyncForwarding.
Report(c, s) ==
  /\ st' = [st EXCEPT ![c] = s]
  /\ statq' = [statq EXCEPT ![c] = Append(@, s)]

Idle(c) == hpc' = [hpc EXCEPT ![c] = "idle"]

\* An exception: caught, it makes the status ERROR; not caught, it ends
\* the forwarding thread, and nothing is answered any more.
Throw(c, caught) ==
  \/ /\ caught
     /\ Report(c, "ERROR")
     /\ Idle(c)
  \/ /\ ~caught
     /\ hpc' = [hpc EXCEPT ![c] = "dead"]
     /\ UNCHANGED <<st, statq>>

\* Producers catch everything; the servers' handlers catch eudaq::Exception,
\* which an exception of user code may or may not be.
UserThrow(c) ==
  /\ c \in Faulty
  /\ \E caught \in BOOLEAN : (c \in Producers => caught) /\ Throw(c, caught)

\* What the end of a process or of a run takes away: the data server of c, the
\* connections to it and the connections from it.
NoServer(c) == lis' = [lis EXCEPT ![c] = FALSE]
Unlink(c) == link' = [x \in Clients |-> IF x = c THEN {} ELSE link[x] \ {c}]

\* Mutant: the disconnection overtakes the statuses sent before it.
LeaveAhead(c, q) ==
  /\ conn' = [conn EXCEPT ![c] = "gone"]
  /\ statq' = [statq EXCEPT ![c] = <<"BYE">> \o q]
  /\ cmdq' = [cmdq EXCEPT ![c] = <<>>]
  /\ st' = [st EXCEPT ![c] = "UNINIT"]
  /\ Idle(c)
  /\ loop' = [loop EXCEPT ![c] = "none"]
  /\ flag' = [flag EXCEPT ![c] = FALSE]
  /\ NoServer(c)
  /\ Unlink(c)

\* The process of c ends; q is what is on the way to RunControl by then.
Leave(c, q) ==
  /\ conn' = [conn EXCEPT ![c] = "gone"]
  /\ statq' = [statq EXCEPT ![c] = Append(q, "BYE")]
  /\ cmdq' = [cmdq EXCEPT ![c] = <<>>]
  /\ st' = [st EXCEPT ![c] = "UNINIT"]
  /\ Idle(c)
  /\ loop' = [loop EXCEPT ![c] = "none"]
  /\ flag' = [flag EXCEPT ![c] = FALSE]
  /\ NoServer(c)
  /\ Unlink(c)

\* The forwarding thread takes the command at the head of its queue.
Take(c, o) ==
  /\ Reachable(c)
  /\ hpc[c] = "idle"
  /\ cmdq[c] # <<>>
  /\ Head(cmdq[c]).op = o
  /\ Len(statq[c]) < MaxQ
  /\ cmdq' = [cmdq EXCEPT ![c] = Tail(@)]

-----------------------------------------------------------------------------
(***************************************************************************)
(* The handlers.                                                           *)
(***************************************************************************)

\* A producer must be UNINIT.  A server opens its data server to learn its
\* address, closes it, and sends a first status before DoInitialise; no state
\* is asked of it, but Listen throws while a run has the server open.
InitAllowed(c) == IF c \in Producers THEN st[c] = "UNINIT" ELSE ~lis[c]

OnInitialise(c) ==
  /\ InitAllowed(c)
  /\ Take(c, "INIT")
  /\ st' = [st EXCEPT ![c] = "UNCONF"]
  /\ statq' = [statq EXCEPT ![c] =
                 Append(IF c \in Servers THEN Append(@, st[c]) ELSE @, "UNCONF")]
  /\ UNCHANGED <<rcVars, view, conn, hpc, loop, flag, run, hasConf, conf, lis, link>>

OnInitialiseFails(c) ==
  /\ c \in Faulty \/ ~InitAllowed(c)
  /\ Take(c, "INIT")
  /\ c \in Producers \/ hasConf[c]
  /\ \/ ~InitAllowed(c) /\ Throw(c, TRUE)
     \/ InitAllowed(c) /\ UserThrow(c)
  /\ UNCHANGED <<rcVars, view, conn, loop, flag, run, hasConf, conf, lis, link>>

\* The error message of a server names m_conf, which is null before the first
\* CONFIG: the process ends.
OnInitialiseCrash(c) ==
  /\ c \in Servers /\ ~hasConf[c]
  /\ c \in Faulty \/ ~InitAllowed(c)
  /\ Reachable(c) /\ hpc[c] = "idle" /\ cmdq[c] # <<>> /\ Head(cmdq[c]).op = "INIT"
  /\ Len(statq[c]) < MaxQ
  /\ Leave(c, statq[c])
  /\ UNCHANGED <<rcVars, view, run, hasConf, conf>>

ConfigureAllowed(c) ==
  c \in Producers => st[c] \in {"UNCONF", "CONF", "STOPPED"}

OnConfigure(c) ==
  /\ Take(c, "CONFIG")
  /\ hasConf' = [hasConf EXCEPT ![c] = TRUE]
  /\ conf' = [conf EXCEPT ![c] = Head(cmdq[c]).addr]
  /\ \/ ConfigureAllowed(c) /\ Report(c, "CONF") /\ UNCHANGED hpc
     \/ ConfigureAllowed(c) /\ UserThrow(c)
     \/ ~ConfigureAllowed(c) /\ Throw(c, TRUE)
  /\ UNCHANGED <<rcVars, view, conn, loop, flag, run, lis, link>>

\* The servers the client opens data connections to when a run starts.
Sinks(c) ==
  IF c \in Producers THEN conf[c] \cap Collectors
  ELSE IF c \in Collectors THEN conf[c] \cap Others
  ELSE {}

\* A producer must be CONF or STOPPED; a server must not be listening already.
StartAllowed(c) ==
  /\ IF c \in Producers THEN st[c] \in {"CONF", "STOPPED"} ELSE ~lis[c]
  /\ \A s \in Sinks(c) : lis[s]

\* Up to the launch of the RunLoop thread.  Whatever fails, the run number has
\* been stored, a server has opened its socket, and connections made are kept.
OnStartRun(c) ==
  /\ Take(c, "START")
  /\ run' = [run EXCEPT ![c] = Head(cmdq[c]).run]
  /\ lis' = [lis EXCEPT ![c] = c \in Servers]
  /\ link' = [link EXCEPT ![c] = IF StartAllowed(c) THEN Sinks(c) ELSE @]
  /\ \/ /\ StartAllowed(c) /\ loop[c] = "none"
        /\ hpc' = [hpc EXCEPT ![c] = "starting"]
        /\ loop' = [loop EXCEPT ![c] = "alive"]
        /\ flag' = [flag EXCEPT ![c] = TRUE]
        /\ UNCHANGED <<st, statq>>
     \/ /\ StartAllowed(c) /\ UserThrow(c)
        /\ UNCHANGED <<loop, flag>>
     \/ /\ ~(StartAllowed(c) /\ loop[c] = "none") /\ Throw(c, TRUE)
        /\ UNCHANGED <<loop, flag>>
  /\ UNCHANGED <<rcVars, view, conn, hasConf, conf>>

\* RUNNING is set after the thread is launched, whatever the thread did since.
OnStartRunEnds(c) ==
  /\ conn[c] = "up" /\ hpc[c] = "starting"
  /\ Len(statq[c]) < MaxQ
  /\ Report(c, "RUNNING")
  /\ Idle(c)
  /\ UNCHANGED <<rcVars, view, conn, cmdq, loop, flag, run, hasConf, conf, lis, link>>

\* m_senders.clear(), and for a server StopListen, as far as c has got them.
LetGo(c) ==
  IF c \in Servers THEN NoServer(c) /\ Unlink(c) ELSE UNCHANGED <<lis, link>>

\* Mutant: m_is_runlooping is left set.
UnwindKeepsFlag(c, how, done) ==
  IF loop[c] = "none"
  THEN Report(c, done) /\ Idle(c) /\ NoServer(c) /\ Unlink(c) /\ UNCHANGED <<loop, flag>>
  ELSE /\ hpc' = [hpc EXCEPT ![c] = how]
       /\ LetGo(c)
       /\ UNCHANGED <<st, statq, loop, flag>>

\* The base class's part of STOP and RESET: the RunLoop thread, if there is
\* one, is told to end and waited for.
BeginUnwind(c, how, done) ==
  IF loop[c] = "none"
  THEN /\ Report(c, done)
       /\ Idle(c)
       /\ NoServer(c)
       /\ Unlink(c)
       /\ UNCHANGED <<loop, flag>>
  ELSE /\ flag' = [flag EXCEPT ![c] = FALSE]
       /\ hpc' = [hpc EXCEPT ![c] = how]
       /\ LetGo(c)
       /\ UNCHANGED <<st, statq, loop>>

StopAllowed(c) == c \in Producers => st[c] = "RUNNING"

OnStopRun(c) ==
  /\ Take(c, "STOP")
  /\ \/ StopAllowed(c) /\ BeginUnwind(c, "stopping", "STOPPED")
     \/ StopAllowed(c) /\ UserThrow(c) /\ UNCHANGED <<loop, flag, lis, link>>
     \/ ~StopAllowed(c) /\ Throw(c, TRUE) /\ UNCHANGED <<loop, flag, lis, link>>
  /\ UNCHANGED <<rcVars, view, conn, run, hasConf, conf>>

\* What becomes of an exception in OnReset: a collector throws it again.
ResetCaught(c) == c \notin Collectors

OnReset(c) ==
  /\ Take(c, "RESET")
  /\ \/ BeginUnwind(c, "resetting", "UNINIT")
     \/ c \in Faulty /\ Throw(c, ResetCaught(c)) /\ UNCHANGED <<loop, flag, lis, link>>
  /\ UNCHANGED <<rcVars, view, conn, run, hasConf, conf>>

\* The thread has returned; get() leaves no future behind.  The "Stopping ..."
\* statuses sent every second until then repeat the last one and are left out.
UnwindEnds(c) ==
  /\ conn[c] = "up" /\ hpc[c] \in {"stopping", "resetting"}
  /\ Len(statq[c]) < MaxQ
  /\ loop[c] = "ended"
  /\ loop' = [loop EXCEPT ![c] = "none"]
  /\ Report(c, IF hpc[c] = "stopping" THEN "STOPPED" ELSE "UNINIT")
  /\ Idle(c)
  /\ link' = [link EXCEPT ![c] = {}]
  /\ UNCHANGED <<rcVars, view, conn, cmdq, flag, run, hasConf, conf, lis>>

\* get() throws what the RunLoop threw, and the future is gone all the same.
UnwindRethrows(c) ==
  /\ conn[c] = "up" /\ hpc[c] \in {"stopping", "resetting"}
  /\ Len(statq[c]) < MaxQ
  /\ loop[c] = "failed"
  /\ loop' = [loop EXCEPT ![c] = "none"]
  /\ IF hpc[c] = "resetting" THEN Throw(c, ResetCaught(c)) ELSE UserThrow(c)
  /\ UNCHANGED <<rcVars, view, conn, cmdq, flag, run, hasConf, conf, lis, link>>

\* The RunLoop has not returned after 20 seconds: the future stays valid.
UnwindTimeout(c) ==
  /\ conn[c] = "up" /\ hpc[c] \in {"stopping", "resetting"}
  /\ Len(statq[c]) < MaxQ
  /\ c \in Faulty /\ loop[c] = "alive"
  /\ Throw(c, hpc[c] = "resetting" => ResetCaught(c))
  /\ UNCHANGED <<rcVars, view, conn, cmdq, loop, flag, run, hasConf, conf, lis, link>>

OnStatus(c) ==
  /\ Take(c, "STATUS")
  /\ \/ Report(c, st[c]) /\ UNCHANGED hpc
     \/ UserThrow(c)
  /\ UNCHANGED <<rcVars, view, conn, loop, flag, run, hasConf, conf, lis, link>>

\* OnTerminate, the last status, and the end of the process.
OnTerminate(c) ==
  /\ Reachable(c) /\ hpc[c] = "idle" /\ cmdq[c] # <<>> /\ Head(cmdq[c]).op = "TERMINATE"
  /\ Leave(c, Append(statq[c], "UNINIT"))
  /\ UNCHANGED <<rcVars, view, run, hasConf, conf>>

Handler(c) ==
  \/ OnInitialise(c) \/ OnInitialiseFails(c) \/ OnInitialiseCrash(c)
  \/ OnConfigure(c)
  \/ OnStartRun(c) \/ OnStartRunEnds(c)
  \/ OnStopRun(c) \/ OnReset(c)
  \/ UnwindEnds(c) \/ UnwindRethrows(c) \/ UnwindTimeout(c)
  \/ OnStatus(c) \/ OnTerminate(c)

-----------------------------------------------------------------------------
(***************************************************************************)
(* The RunLoop thread, and the end of a process.                           *)
(***************************************************************************)

\* It returns after m_is_runlooping is cleared: RunLooping waits for that.
LoopReturns(c) ==
  /\ loop[c] = "alive" /\ ~flag[c]
  /\ loop' = [loop EXCEPT ![c] = "ended"]
  /\ UNCHANGED <<rcVars, view, conn, netVars, st, hpc, flag, run, hasConf, conf, lis, link>>

\* It throws: the status becomes ERROR, and is sent with the next answer; or with the
\* last one, which is as good as not sent while nobody has read it: between SetStatus
\* and SendStatus, m_status may change.
LoopThrows(c) ==
  /\ c \in Faulty
  /\ loop[c] = "alive"
  /\ loop' = [loop EXCEPT ![c] = "failed"]
  /\ st' = [st EXCEPT ![c] = "ERROR"]
  /\ \/ UNCHANGED statq
     \/ /\ hpc[c] = "idle" /\ statq[c] # <<>>
        /\ statq' = [statq EXCEPT ![c] = [@ EXCEPT ![Len(@)] = "ERROR"]]
  /\ UNCHANGED <<rcVars, view, conn, cmdq, hpc, flag, run, hasConf, conf, lis, link>>

Crash(c) ==
  /\ c \in Faulty
  /\ conn[c] = "up"
  /\ Leave(c, statq[c])
  /\ UNCHANGED <<rcVars, view, run, hasConf, conf>>

-----------------------------------------------------------------------------

Internal ==
  \/ CallStep
  \/ PollStatus
  \/ \E c \in Clients :
       Connect(c) \/ ReceiveStatus(c) \/ Handler(c)
         \/ LoopReturns(c) \/ LoopThrows(c) \/ Crash(c)

Next == UserCall \/ Internal

Spec == Init /\ [][Next]_vars

\* Threads that can run do run.  The user, faults and new connections are not
\* scheduled by the program.
Fairness ==
  /\ WF_vars(CallStep)
  /\ \A c \in Clients :
       /\ WF_vars(ReceiveStatus(c))
       /\ WF_vars(Handler(c))
       /\ WF_vars(LoopReturns(c))

FairSpec == Spec /\ Fairness

-----------------------------------------------------------------------------
(***************************************************************************)
(* Properties.                                                             *)
(***************************************************************************)

\* The three ways a START is still on its way into a client.
StartPending(c) ==
  \/ \E i \in DOMAIN cmdq[c] : cmdq[c][i].op = "START"
  \/ hpc[c] = "starting"

\* When StartRun turns to the producers, every monitor and collector it chose
\* is in this very run: it has taken this run's START and has been RUNNING,
\* whatever statuses and commands of earlier calls were still under way
\* (RunControl.cc:217-252, the TODO of line 251).
ServersUpFirst ==
  rcpc = "startProducers" =>
    \A s \in batch \cap Servers :
      \/ conn[s] = "gone"
      \/ run[s] = runN /\ st[s] \in {"RUNNING", "ERROR"} /\ ~StartPending(s)

\* A monitor or collector that is RUNNING or about to be is known as such: the
\* choice of StopRun, made from statuses received earlier, never overlooks one
\* (RunControl.cc:310-320).
NoServerOverlooked ==
  \A s \in Servers :
    (conn[s] = "up" /\ s # cur /\ view[s] # "RUNNING") =>
      st[s] # "RUNNING" /\ ~StartPending(s)

\* A connection is on record from its acceptance to its last word: whatever
\* arrives finds its entry, so that m_conn_status.at does not throw in the command
\* thread (RunControl.cc:496), and a call that comes upon a null status has lost a
\* client that is gone for good, never one that is connected (RunControl.cc:270).
OnRecord ==
  \A c \in Clients :
    /\ statq[c] # <<>> => view[c] # "none"
    /\ c \in batch /\ view[c] = "none" => conn[c] = "gone"

\* The manual, Integration.tex:155: "RunControl will not send the StopRun
\* command to the DataCollector until all Producers have returned from the
\* DoStopRun function and feedback their status."
DocStopOrder ==
  rcpc = "stopOthers" =>
    \A p \in Producers : conn[p] = "up" => st[p] # "RUNNING" /\ ~StartPending(p)

\* Every call of the user's thread returns when no client fails.
CallsReturn == (rcpc # "idle") ~> (rcpc \in {"idle", "closed"})
=============================================================================
