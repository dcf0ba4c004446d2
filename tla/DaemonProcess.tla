---------------------------- MODULE DaemonProcess ----------------------------
(***************************************************************************)
(* The processes of mousekeys: runDaemon (daemon.go) with the configuration    *)
(* file that it makes when there is none (config.go), its claim on            *)
(* $XDG_RUNTIME_DIR/mousekeys.sock, its IPC server and its shutdown, and the   *)
(* clients of sendIPCCommand (ipc.go).  Every system call is a step of its    *)
(* own: daemons start, stop and are killed between any two.                  *)
(*                                                                         *)
(* The kernel and Go's net package are external: a Unix listener removes its  *)
(* path by name, once, when it is first closed.  What a request does to the   *)
(* overlay is in OverlayDriver; here it is shown or hidden.                  *)
(***************************************************************************)
EXTENDS Integers, FiniteSets

CONSTANTS Daemons, Clients,
          MaxInode,  \* sockets bound in all; unbounded in reality
          MaxCrash   \* daemons killed and files not written in all

ASSUME ProcessAssumption == MaxInode \in Nat /\ MaxCrash \in Nat

None == 0
Inodes == 1..MaxInode

VARIABLES
  path,     \* the socket file that has the name, or None
  inodes,   \* socket files made so far
  alive,    \* the socket files somebody listens on
  pc,       \* per daemon: where runDaemon is
  mine,     \* per daemon: the file its listener was bound to
  info,     \* per daemon: the file ipcSocketOwner.info describes
  signal,   \* the daemons whose context is done
  server,   \* per daemon: where Serve is
  overlay,  \* per daemon: what its overlay driver shows
  conn,     \* per client: where its connection is
  to,       \* per client: the file it dialled
  client,   \* per client: what sendIPCCommand knows
  config,   \* the configuration file: "absent", "empty", "part" or "default"
  crashes,  \* daemons killed, and files that could not be written, so far
  raced     \* history: some daemon was started while another one was starting

fileVars == <<path, inodes, alive, mine, info>>
serveVars == <<server, overlay>>
clientVars == <<conn, to, client>>
otherVars == <<config, crashes, raced>>
vars == <<fileVars, pc, signal, serveVars, clientVars, otherVars>>

Configuring == {"create", "write", "load"}
Starting == {"listen", "lstat", "probe", "remove", "relisten", "stat"}
Ending == {"close", "cleanup", "join", "shutdown", "closing", "cleaning"}
TypeOK ==
  /\ path \in Inodes \cup {None} /\ inodes \in 0..MaxInode /\ alive \subseteq Inodes
  /\ pc \in [Daemons -> {"down", "refused", "select"} \cup Configuring \cup Starting \cup Ending]
  /\ mine \in [Daemons -> Inodes \cup {None}] /\ info \in [Daemons -> Inodes \cup {None}]
  /\ signal \subseteq Daemons
  /\ server \in [Daemons -> {"none", "accept", "wait", "waitErr", "nil", "err"}]
  /\ overlay \in [Daemons -> {"none", "hidden", "shown", "closed"}]
  /\ conn \in [Clients -> {"none", "queued", "run", "reply", "over"}]
  /\ to \in [Clients -> Inodes \cup {None}]
  /\ client \in [Clients -> {"idle", "waits", "answered", "failed"}]
  /\ config \in {"absent", "empty", "part", "default"}
  /\ crashes \in 0..MaxCrash /\ raced \in BOOLEAN

Init ==
  /\ path = None /\ inodes = 0 /\ alive = {}
  /\ pc = [d \in Daemons |-> "down"]
  /\ mine = [d \in Daemons |-> None] /\ info = [d \in Daemons |-> None]
  /\ signal = {} /\ server = [d \in Daemons |-> "none"] /\ overlay = [d \in Daemons |-> "none"]
  /\ conn = [c \in Clients |-> "none"] /\ to = [c \in Clients |-> None]
  /\ client = [c \in Clients |-> "idle"]
  /\ config = "absent" /\ crashes = 0 /\ raced = FALSE

To(d, where) == pc' = [pc EXCEPT ![d] = where]

-----------------------------------------------------------------------------
(* runDaemon up to listenIPCSocket: LoadConfig.  The user leaves the file alone. *)

Start(d) ==
  /\ pc[d] \in {"down", "refused"}
  /\ To(d, "create")
  /\ UNCHANGED <<fileVars, signal, serveVars, clientVars, otherVars>>

\* createDefaultConfigIfMissing: O_EXCL makes one daemon the writer.
CreateConfig(d) ==
  /\ pc[d] = "create"
  /\ \/ config = "absent" /\ config' = "empty" /\ To(d, "write")
     \/ config # "absent" /\ To(d, "load") /\ UNCHANGED config
  /\ UNCHANGED <<fileVars, signal, serveVars, clientVars, crashes, raced>>

\* The write may fail in the middle, and the Sync after it.
WriteConfig(d) ==
  /\ pc[d] = "write"
  /\ \/ config' = "default" /\ To(d, "load") /\ UNCHANGED crashes
     \/ /\ crashes < MaxCrash /\ crashes' = crashes + 1
        /\ config' \in {"part", "default"} /\ To(d, "refused")
  /\ UNCHANGED <<fileVars, signal, serveVars, clientVars, raced>>

\* Faulty variant: every field has to be in the file.
ReadableWhole == config = "default"
\* LoadConfigFile decodes into DefaultConfig, so that an empty file is one.  The
\* first part of it may be one or not.
Readable == config # "absent"
Unreadable == config = "part"

LoadConfig(d) ==
  /\ pc[d] = "load"
  /\ \/ /\ Readable /\ To(d, "listen")
        /\ raced' = (raced \/ \E e \in Daemons : pc[e] \in Starting)
     \/ (Unreadable \/ ~Readable) /\ To(d, "refused") /\ UNCHANGED raced
  /\ UNCHANGED <<fileVars, signal, serveVars, clientVars, config, crashes>>

-----------------------------------------------------------------------------
(* listenIPCSocket *)

\* net.Listen binds the name, unless a file has it.
Bind(d) ==
  /\ path = None /\ inodes < MaxInode
  /\ inodes' = inodes + 1
  /\ path' = inodes'
  /\ alive' = alive \cup {inodes'}
  /\ mine' = [mine EXCEPT ![d] = inodes']
  /\ To(d, "stat")

Listen(d) ==
  /\ pc[d] = "listen"
  /\ \/ Bind(d)
     \/ /\ path # None
        /\ To(d, "lstat")
        /\ UNCHANGED <<path, inodes, alive, mine>>
  /\ UNCHANGED <<info, signal, serveVars, clientVars, otherVars>>

\* removeStaleSocketIfSafe: os.Lstat finds the socket, or nothing any more.
LstatOld(d) ==
  /\ pc[d] = "lstat"
  /\ To(d, IF path = None THEN "relisten" ELSE "probe")
  /\ UNCHANGED <<fileVars, signal, serveVars, clientVars, otherVars>>

\* Faulty variant: nobody is asked whether the socket is alive.
LiveNever == FALSE
\* liveUnixSocket: the dial reaches a listener under the name.
Live == path \in alive

Probe(d) ==
  /\ pc[d] = "probe"
  /\ To(d, IF Live THEN "refused" ELSE "remove")
  /\ UNCHANGED <<fileVars, signal, serveVars, clientVars, otherVars>>

\* os.Remove takes the name, whatever file has it by now.
RemoveStale(d) ==
  /\ pc[d] = "remove"
  /\ path' = None
  /\ To(d, "relisten")
  /\ UNCHANGED <<inodes, alive, mine, info, signal, serveVars, clientVars, otherVars>>

Relisten(d) ==
  /\ pc[d] = "relisten"
  /\ \/ Bind(d)
     \/ /\ path # None
        /\ To(d, "refused")
        /\ UNCHANGED <<path, inodes, alive, mine>>
  /\ UNCHANGED <<info, signal, serveVars, clientVars, otherVars>>

\* UnixListener.Close unlinks by name, whatever file has it.
Unlink == path' = None

\* The connections that nobody accepted end with the listener.
DropQueue(d) ==
  LET dropped == {c \in Clients : conn[c] = "queued" /\ to[c] = mine[d]}
  IN /\ conn' = [c \in Clients |-> IF c \in dropped THEN "over" ELSE conn[c]]
     /\ client' = [c \in Clients |-> IF c \in dropped THEN "failed" ELSE client[c]]
     /\ UNCHANGED to

Listening(d) == mine[d] \in alive

\* Faulty variant: a listener with SetUnlinkOnClose(false).
KeepsName(d) ==
  \/ Listening(d) /\ DropQueue(d) /\ alive' = alive \ {mine[d]} /\ UNCHANGED path
  \/ ~Listening(d) /\ UNCHANGED <<path, alive, clientVars>>
CloseListener(d) ==
  \/ Listening(d) /\ Unlink /\ DropQueue(d) /\ alive' = alive \ {mine[d]}
  \/ ~Listening(d) /\ UNCHANGED <<path, alive, clientVars>>

\* The Lstat after the bind describes the file that has the name by now.  Then
\* the overlay driver is made, or is not, and the server started.
StatNew(d) ==
  /\ pc[d] = "stat"
  /\ \/ /\ path # None
        /\ info' = [info EXCEPT ![d] = path]
        /\ \/ /\ To(d, "select")
              /\ server' = [server EXCEPT ![d] = "accept"]
              /\ overlay' = [overlay EXCEPT ![d] = "hidden"]
           \/ To(d, "closing") /\ UNCHANGED serveVars
        /\ UNCHANGED <<path, alive, mine, clientVars>>
     \/ /\ path = None
        /\ CloseListener(d)
        /\ To(d, "refused") /\ mine' = [mine EXCEPT ![d] = None]
        /\ UNCHANGED <<info, serveVars>>
  /\ UNCHANGED <<inodes, signal, otherVars>>

-----------------------------------------------------------------------------
(* ipcServer.Serve and its handlers. *)

\* The signal of the service manager, or of a terminal.
Signal(d) ==
  /\ pc[d] = "select" /\ d \notin signal
  /\ signal' = signal \cup {d}
  /\ UNCHANGED <<fileVars, pc, serveVars, clientVars, otherVars>>

\* The goroutine that waits for the context closes the listener.
ServeCancelled(d) ==
  /\ d \in signal /\ server[d] = "accept" /\ Listening(d)
  /\ CloseListener(d)
  /\ UNCHANGED <<inodes, mine, info, pc, signal, serveVars, otherVars>>

Handled(d) == {c \in Clients : conn[c] \in {"run", "reply"} /\ to[c] = mine[d]}

Accept(d, c) ==
  /\ server[d] = "accept" /\ Listening(d)
  /\ conn[c] = "queued" /\ to[c] = mine[d]
  /\ conn' = [conn EXCEPT ![c] = "run"]
  /\ UNCHANGED <<fileVars, pc, signal, serveVars, to, client, otherVars>>

\* Accept fails: because the listener is closed or the context done, or else.
AcceptFails(d) ==
  /\ server[d] = "accept"
  /\ server' = [server EXCEPT ![d] = IF ~Listening(d) \/ d \in signal THEN "wait" ELSE "waitErr"]
  /\ UNCHANGED <<fileVars, pc, signal, overlay, clientVars, otherVars>>

\* Faulty variant: Serve does not wait for its handlers.
WaitsForNone(d) == TRUE
WaitGroupEmpty(d) == Handled(d) = {}

\* wg.Wait, then the error goes to serverErr.
ServeReturns(d) ==
  /\ server[d] \in {"wait", "waitErr"} /\ WaitGroupEmpty(d)
  /\ server' = [server EXCEPT ![d] = IF server[d] = "wait" THEN "nil" ELSE "err"]
  /\ UNCHANGED <<fileVars, pc, signal, overlay, clientVars, otherVars>>

\* handleConnection: controller.Dispatch, or a request that cannot be read
\* because the client went away.
Dispatch(d, c) ==
  /\ c \in Handled(d) /\ conn[c] = "run"
  /\ \/ /\ \E shows \in {"shown", "hidden"} : overlay' = [overlay EXCEPT ![d] = shows]
        /\ conn' = [conn EXCEPT ![c] = "reply"]
     \/ /\ client[c] = "failed"
        /\ conn' = [conn EXCEPT ![c] = "over"] /\ UNCHANGED overlay
  /\ UNCHANGED <<fileVars, pc, signal, server, to, client, otherVars>>

Reply(d, c) ==
  /\ c \in Handled(d) /\ conn[c] = "reply"
  /\ conn' = [conn EXCEPT ![c] = "over"]
  /\ client' = [client EXCEPT ![c] = IF @ = "waits" THEN "answered" ELSE @]
  /\ UNCHANGED <<fileVars, pc, signal, serveVars, to, otherVars>>

-----------------------------------------------------------------------------
(* sendIPCCommand *)

Dial(c) ==
  /\ client[c] = "idle"
  /\ \/ /\ path \in alive
        /\ client' = [client EXCEPT ![c] = "waits"]
        /\ conn' = [conn EXCEPT ![c] = "queued"] /\ to' = [to EXCEPT ![c] = path]
     \/ /\ path \notin alive
        /\ client' = [client EXCEPT ![c] = "failed"]
        /\ UNCHANGED <<conn, to>>
  /\ UNCHANGED <<fileVars, pc, signal, serveVars, otherVars>>

\* ipcClientTimeout passes.  What was sent may still be accepted and done.
ClientTimeout(c) ==
  /\ client[c] = "waits"
  /\ client' = [client EXCEPT ![c] = "failed"]
  /\ UNCHANGED <<fileVars, pc, signal, serveVars, conn, to, otherVars>>

-----------------------------------------------------------------------------
(* The select of runDaemon and the ways out of it. *)

\* The context is done: the server is stopped, the socket closed, the server
\* waited for and the overlay shut down.
SelectSignal(d) ==
  /\ pc[d] = "select" /\ d \in signal
  /\ To(d, "close")
  /\ UNCHANGED <<fileVars, signal, serveVars, clientVars, otherVars>>

\* The server returned, perhaps because the context is done: only the deferred
\* ipcSocketOwner.Close is left, and the overlay is not shut down.
SelectServed(d) ==
  /\ pc[d] = "select" /\ server[d] \in {"nil", "err"}
  /\ To(d, "closing")
  /\ UNCHANGED <<fileVars, signal, serveVars, clientVars, otherVars>>

OwnerCloses(d) ==
  /\ pc[d] \in {"close", "closing"}
  /\ CloseListener(d)
  /\ To(d, IF pc[d] = "close" THEN "cleanup" ELSE "cleaning")
  /\ UNCHANGED <<inodes, mine, info, signal, serveVars, otherVars>>

\* The process is over, and with it what it had.
Exit(d) ==
  /\ To(d, "down")
  /\ signal' = signal \ {d}
  /\ mine' = [mine EXCEPT ![d] = None] /\ info' = [info EXCEPT ![d] = None]
  /\ server' = [server EXCEPT ![d] = "none"] /\ overlay' = [overlay EXCEPT ![d] = "none"]

SameFile(d) == path # None /\ path = info[d]

\* The listener took the name with it, or somebody else has it by now.
OwnerRemoves(d) ==
  /\ pc[d] \in {"cleanup", "cleaning"}
  /\ path' = IF SameFile(d) THEN None ELSE path
  /\ \/ pc[d] = "cleanup" /\ To(d, "join") /\ UNCHANGED <<mine, info, signal, serveVars>>
     \/ pc[d] = "cleaning" /\ Exit(d)
  /\ UNCHANGED <<inodes, alive, clientVars, otherVars>>

\* Faulty variant: the shutdown does not wait for the server.
JoinsAnyhow(d) == TRUE
Joined(d) == server[d] \in {"nil", "err"}

Join(d) ==
  /\ pc[d] = "join" /\ Joined(d)
  /\ To(d, "shutdown")
  /\ overlay' = [overlay EXCEPT ![d] = "closed"]
  /\ UNCHANGED <<fileVars, signal, server, clientVars, otherVars>>

ShutdownReturns(d) ==
  /\ pc[d] = "shutdown"
  /\ Exit(d)
  /\ UNCHANGED <<path, inodes, alive, clientVars, otherVars>>

\* A killed daemon leaves the file, and its clients read an end of file.
Crash(d) ==
  /\ crashes < MaxCrash /\ pc[d] \notin {"down", "refused"}
  /\ crashes' = crashes + 1
  /\ Exit(d)
  /\ LET cut == {c \in Clients : conn[c] \in {"queued", "run", "reply"} /\ to[c] = mine[d]}
     IN /\ conn' = [c \in Clients |-> IF c \in cut THEN "over" ELSE conn[c]]
        /\ client' = [c \in Clients |-> IF c \in cut THEN "failed" ELSE client[c]]
  /\ alive' = alive \ {mine[d]}
  /\ UNCHANGED <<path, inodes, to, config, raced>>

-----------------------------------------------------------------------------
StartStep(d) == CreateConfig(d) \/ WriteConfig(d) \/ LoadConfig(d)
                \/ Listen(d) \/ LstatOld(d) \/ Probe(d) \/ RemoveStale(d) \/ Relisten(d) \/ StatNew(d)
ServeStep(d) == ServeCancelled(d) \/ AcceptFails(d) \/ ServeReturns(d)
                \/ \E c \in Clients : Accept(d, c) \/ Dispatch(d, c) \/ Reply(d, c)
StopStep(d) == SelectSignal(d) \/ SelectServed(d) \/ OwnerCloses(d) \/ OwnerRemoves(d) \/ Join(d)
               \/ ShutdownReturns(d)

Next == \/ \E d \in Daemons : Start(d) \/ StartStep(d) \/ Signal(d) \/ ServeStep(d) \/ StopStep(d) \/ Crash(d)
        \/ \E c \in Clients : Dial(c) \/ ClientTimeout(c)

Spec == Init /\ [][Next]_vars

-----------------------------------------------------------------------------
\* A running daemon is the one that clients reach under the name, so that at
\* most one is up (the refusals of listenIPCSocket and removeStaleSocketIfSafe,
\* and the tests of them), as long as no two daemons were starting at a time:
\* after the probe os.Remove takes the name of whichever socket has it by then.
Reachable ==
  ~raced => \A d \in Daemons : pc[d] = "select" /\ d \notin signal => path = mine[d] /\ path \in alive

\* Only a killed daemon leaves a name that nobody answers under: every other
\* end of runDaemon takes the name away with the listener, or has lost it.
StaleOnlyByCrash == crashes = 0 => path \in alive \cup {None}

\* A daemon is refused only because another one runs or ends, or because the
\* configuration file could not be written: neither a stale socket nor a file
\* that another daemon has created and not written yet, or was killed over,
\* keeps it from starting, as long as no two were claiming the socket at a time.
RefusedForCause ==
  [][\A d \in Daemons :
       ~raced' /\ pc[d] \in Configuring \cup Starting /\ pc'[d] = "refused"
         => \/ config = "part" \/ crashes' # crashes
            \/ pc[d] \in Starting /\ \E e \in Daemons \ {d} : pc[e] # "down"]_vars

\* A daemon that ends without being killed has answered every request that it
\* accepted, whichever case its select takes (the wait group of Serve).
EndsAfterHandlers ==
  [][\A d \in Daemons : pc[d] # "down" /\ pc'[d] = "down" /\ crashes' = crashes => Handled(d) = {}]_vars

\* An overlay that was shut down is not shown again by a request that was still
\* on its way (the order of the ctx.Done case of runDaemon).
ShutDownForGood ==
  [][\A d \in Daemons : overlay[d] = "closed" => overlay'[d] \in {"closed", "none"}]_vars
=============================================================================
