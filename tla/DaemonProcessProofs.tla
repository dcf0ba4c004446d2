------------------------ MODULE DaemonProcessProofs ------------------------
(***************************************************************************)
(* Proofs about DaemonProcess, for any number of daemons, clients, sockets    *)
(* and crashes.  The invariant says who has which socket file at which place  *)
(* of runDaemon; what depends on no two daemons claiming the name at a time    *)
(* is a conjunct of its own, Alone.                                         *)
(***************************************************************************)
EXTENDS DaemonProcess, TLAPS

\* A socket file has a number once it was made.
Numbered ==
  /\ path <= inodes /\ alive \subseteq 1..inodes
  /\ \A d \in Daemons : mine[d] <= inodes
  /\ \A c \in Clients : to[c] <= inodes

\* A connection is to some file.
Connected == \A c \in Clients : conn[c] # "none" => to[c] # None

\* No two daemons have a listener for the same file.
Distinct == \A d, e \in Daemons : mine[d] = mine[e] /\ mine[d] # None => d = e

\* Before runDaemon has its socket there is no server and no file to describe.
Idle == {"down", "refused"} \cup Configuring \cup Starting
Unbound ==
  \A d \in Daemons : pc[d] \in Idle => /\ server[d] = "none" /\ info[d] = None
                                       /\ pc[d] # "stat" => mine[d] = None

\* Whoever listens is one of the daemons.
Owners == \A i \in alive : \E d \in Daemons : mine[d] = i

\* A listener is open from its bind to the cancellation of its daemon.
Opened ==
  \A d \in Daemons : pc[d] = "stat" \/ (pc[d] = "select" /\ d \notin signal) => mine[d] \in alive

\* After ipcSocketOwner.Close has closed the listener nobody opens it again.
Closed == \A d \in Daemons : pc[d] \in {"cleanup", "cleaning", "join", "shutdown"} => mine[d] \notin alive

\* Serve has returned, or was never called, before the deferred Close and
\* before the overlay is shut down.
Served ==
  \A d \in Daemons : /\ pc[d] \in {"closing", "cleaning"} => server[d] \in {"none", "nil", "err"}
                     /\ pc[d] = "shutdown" => server[d] \in {"nil", "err"}

\* Serve returns with no handler left, and accepts nothing more.
Waited == \A d \in Daemons : server[d] \notin {"accept", "wait", "waitErr"} => Handled(d) = {}

OverlayClosed == \A d \in Daemons : overlay[d] = "closed" => pc[d] = "shutdown"

\* LoadConfigFile finds a file.
Configured == \A d \in Daemons : pc[d] \in {"write", "load"} => config # "absent"

\* What a daemon that claims the name may rely on while it is the only one.
Alone ==
  ~raced =>
    /\ \A d, e \in Daemons : pc[d] \in Starting /\ pc[e] \in Starting => d = e
    /\ alive \subseteq {path}
    /\ \A d \in Daemons : /\ pc[d] = "remove" => path \notin alive
                          /\ pc[d] = "relisten" => path = None
                          /\ info[d] \in {None, mine[d]}

ProcessInv ==
  /\ TypeOK /\ Numbered /\ Connected /\ Distinct /\ Unbound /\ Owners /\ Opened /\ Closed
  /\ Served /\ Waited /\ OverlayClosed /\ Configured /\ Alone /\ StaleOnlyByCrash

-----------------------------------------------------------------------------
(* What the shared steps do. *)

\* The parts of the type that each group of steps changes.
LEMMA BindEffect ==
  ASSUME TypeOK, NEW d \in Daemons, Bind(d)
  PROVE  /\ inodes' \in 0..MaxInode /\ path' \in Inodes /\ alive' \subseteq Inodes
         /\ mine' \in [Daemons -> Inodes \cup {None}]
         /\ path = None /\ inodes' = inodes + 1 /\ path' = inodes' /\ alive' = alive \cup {inodes'}
         /\ mine'[d] = inodes' /\ \A e \in Daemons \ {d} : mine'[e] = mine[e]
         /\ pc' = [pc EXCEPT ![d] = "stat"]
<1>1. inodes' \in 0..MaxInode /\ inodes' \in Inodes
  BY ProcessAssumption DEF TypeOK, Bind, Inodes
<1> QED BY <1>1 DEF TypeOK, Bind, To

LEMMA CloseEffect ==
  ASSUME TypeOK, NEW d \in Daemons, CloseListener(d)
  PROVE  /\ alive' = alive \ {mine[d]}
         /\ (path' = path /\ alive' = alive) \/ (path' = None /\ mine[d] \in alive)
         /\ conn' \in [Clients -> {"none", "queued", "run", "reply", "over"}]
         /\ client' \in [Clients -> {"idle", "waits", "answered", "failed"}]
         /\ to' = to
         /\ \A c \in Clients : conn'[c] = conn[c] \/ (conn[c] = "queued" /\ conn'[c] = "over")
<1>1. CASE Listening(d)
  <2>1. /\ conn' \in [Clients -> {"none", "queued", "run", "reply", "over"}]
        /\ \A c \in Clients : conn'[c] = conn[c] \/ (conn[c] = "queued" /\ conn'[c] = "over")
    BY <1>1 DEF TypeOK, CloseListener, DropQueue
  <2>2. client' \in [Clients -> {"idle", "waits", "answered", "failed"}]
    BY <1>1 DEF TypeOK, CloseListener, DropQueue
  <2> QED BY <1>1, <2>1, <2>2 DEF CloseListener, DropQueue, Unlink, Listening
<1>2. CASE ~Listening(d)
  <2>1. UNCHANGED <<path, alive, clientVars>>
    BY <1>2 DEF CloseListener
  <2>2. alive' = alive \ {mine[d]}
    BY <1>2, <2>1 DEF Listening
  <2>3. UNCHANGED <<conn, to, client>>
    BY <2>1 DEF clientVars
  <2> QED BY <2>1, <2>2, <2>3 DEF TypeOK
<1> QED BY <1>1, <1>2

LEMMA ExitEffect ==
  ASSUME TypeOK, NEW d \in Daemons, Exit(d)
  PROVE  /\ pc' = [pc EXCEPT ![d] = "down"] /\ signal' \subseteq Daemons
         /\ mine' \in [Daemons -> Inodes \cup {None}] /\ info' \in [Daemons -> Inodes \cup {None}]
         /\ server' \in [Daemons -> {"none", "accept", "wait", "waitErr", "nil", "err"}]
         /\ overlay' \in [Daemons -> {"none", "hidden", "shown", "closed"}]
         /\ mine'[d] = None /\ info'[d] = None /\ server'[d] = "none" /\ overlay'[d] = "none"
         /\ \A e \in Daemons \ {d} : /\ mine'[e] = mine[e] /\ info'[e] = info[e]
                                     /\ server'[e] = server[e] /\ overlay'[e] = overlay[e]
                                     /\ e \in signal' <=> e \in signal
  BY DEF TypeOK, Exit, To

\* A place that a step leads to.
Places == {"down", "refused", "select"} \cup Configuring \cup Starting \cup Ending
LEMMA ToEffect ==
  ASSUME TypeOK, NEW d \in Daemons, NEW where \in Places, To(d, where)
  PROVE  /\ pc' \in [Daemons -> Places] /\ pc'[d] = where
         /\ \A e \in Daemons \ {d} : pc'[e] = pc[e]
  BY DEF TypeOK, To, Places

-----------------------------------------------------------------------------
(* Types, action by action. *)

LEMMA ConfigTypes ==
  ASSUME TypeOK, NEW d \in Daemons, Start(d) \/ CreateConfig(d) \/ WriteConfig(d) \/ LoadConfig(d)
  PROVE  TypeOK'
<1>1. PICK where \in Places : To(d, where)
  BY DEF Start, CreateConfig, WriteConfig, LoadConfig, Places, Configuring, Starting
<1>2. pc' \in [Daemons -> Places]
  BY <1>1, ToEffect
<1>3. /\ config' \in {"absent", "empty", "part", "default"} /\ crashes' \in 0..MaxCrash
      /\ UNCHANGED <<fileVars, signal, serveVars, clientVars>>
  BY ProcessAssumption DEF TypeOK, Start, CreateConfig, WriteConfig, LoadConfig, otherVars
<1>4. raced' \in BOOLEAN
  BY Zenon DEF TypeOK, Start, CreateConfig, WriteConfig, LoadConfig, otherVars
<1> QED BY <1>2, <1>3, <1>4 DEF TypeOK, Places, fileVars, serveVars, clientVars

LEMMA ClaimTypes ==
  ASSUME TypeOK, NEW d \in Daemons,
         Listen(d) \/ LstatOld(d) \/ Probe(d) \/ RemoveStale(d) \/ Relisten(d)
  PROVE  TypeOK'
<1>1. PICK where \in Places : To(d, where)
  BY DEF Listen, LstatOld, Probe, RemoveStale, Relisten, Bind, Places, Starting
<1>2. pc' \in [Daemons -> Places]
  BY <1>1, ToEffect
<1>3. /\ path' \in Inodes \cup {None} /\ inodes' \in 0..MaxInode /\ alive' \subseteq Inodes
      /\ mine' \in [Daemons -> Inodes \cup {None}]
  BY BindEffect DEF TypeOK, Listen, LstatOld, Probe, RemoveStale, Relisten, fileVars
<1>4. UNCHANGED <<info, signal, serveVars, clientVars, otherVars>>
  BY DEF Listen, LstatOld, Probe, RemoveStale, Relisten, fileVars
<1> QED BY <1>2, <1>3, <1>4 DEF TypeOK, Places, serveVars, clientVars, otherVars

LEMMA StatTypes ==
  ASSUME TypeOK, NEW d \in Daemons, StatNew(d)
  PROVE  TypeOK'
<1>1. PICK where \in Places : To(d, where)
  BY DEF StatNew, Places, Ending
<1>2. pc' \in [Daemons -> Places]
  BY <1>1, ToEffect
<1>3. UNCHANGED <<inodes, signal, otherVars>>
  BY DEF StatNew
<1>4. CASE path # None
  <2>1. /\ UNCHANGED <<path, alive, mine, clientVars>> /\ info' \in [Daemons -> Inodes \cup {None}]
        /\ server' \in [Daemons -> {"none", "accept", "wait", "waitErr", "nil", "err"}]
        /\ overlay' \in [Daemons -> {"none", "hidden", "shown", "closed"}]
    BY <1>4 DEF TypeOK, StatNew, serveVars
  <2> QED BY <1>2, <1>3, <2>1 DEF TypeOK, Places, clientVars, otherVars
<1>5. CASE path = None
  <2>1. CloseListener(d) /\ mine' = [mine EXCEPT ![d] = None] /\ UNCHANGED <<info, serveVars>>
    BY <1>5 DEF StatNew
  <2>2. mine' \in [Daemons -> Inodes \cup {None}] /\ path' \in Inodes \cup {None} /\ alive' \subseteq Inodes
    BY <2>1, CloseEffect DEF TypeOK
  <2> QED BY <1>2, <1>3, <2>1, <2>2, CloseEffect DEF TypeOK, Places, serveVars, otherVars
<1> QED BY <1>4, <1>5

LEMMA ServeTypes ==
  ASSUME TypeOK, NEW d \in Daemons, Signal(d) \/ ServeStep(d)
  PROVE  TypeOK'
<1>1. CASE Signal(d)
  BY <1>1 DEF TypeOK, Signal, fileVars, serveVars, clientVars, otherVars
<1>2. CASE ServeCancelled(d)
  BY <1>2, CloseEffect DEF TypeOK, ServeCancelled, serveVars, otherVars
<1>3. CASE AcceptFails(d) \/ ServeReturns(d)
  BY <1>3 DEF TypeOK, AcceptFails, ServeReturns, fileVars, clientVars, otherVars
<1>4. ASSUME NEW c \in Clients, Accept(d, c) \/ Dispatch(d, c) \/ Reply(d, c) PROVE TypeOK'
  BY <1>4 DEF TypeOK, Accept, Dispatch, Reply, fileVars, serveVars, otherVars
<1> QED BY <1>1, <1>2, <1>3, <1>4 DEF ServeStep

LEMMA StopTypes ==
  ASSUME TypeOK, NEW d \in Daemons, StopStep(d)
  PROVE  TypeOK'
<1>1. CASE SelectSignal(d) \/ SelectServed(d)
  BY <1>1 DEF TypeOK, SelectSignal, SelectServed, To, Ending, fileVars, serveVars, clientVars, otherVars
<1>2. CASE OwnerCloses(d)
  <2>1. pc' \in [Daemons -> Places]
    BY <1>2, ToEffect DEF OwnerCloses, Places, Ending
  <2> QED BY <1>2, <2>1, CloseEffect DEF TypeOK, OwnerCloses, Places, serveVars, otherVars
<1>3. CASE OwnerRemoves(d)
  <2>1. path' \in Inodes \cup {None} /\ UNCHANGED <<inodes, alive, clientVars, otherVars>>
    BY <1>3 DEF TypeOK, OwnerRemoves
  <2>2. CASE Exit(d)
    BY <2>1, <2>2, ExitEffect DEF TypeOK, clientVars, otherVars
  <2>3. CASE To(d, "join") /\ UNCHANGED <<mine, info, signal, serveVars>>
    BY <2>1, <2>3 DEF TypeOK, To, Ending, serveVars, clientVars, otherVars
  <2> QED BY <1>3, <2>2, <2>3 DEF OwnerRemoves
<1>4. CASE Join(d)
  BY <1>4 DEF TypeOK, Join, To, Ending, fileVars, clientVars, otherVars
<1>5. CASE ShutdownReturns(d)
  BY <1>5, ExitEffect DEF TypeOK, ShutdownReturns, clientVars, otherVars
<1> QED BY <1>1, <1>2, <1>3, <1>4, <1>5 DEF StopStep

LEMMA CrashTypes == ASSUME TypeOK, NEW d \in Daemons, Crash(d) PROVE TypeOK'
<1>1. crashes' \in 0..MaxCrash /\ alive' \subseteq Inodes /\ UNCHANGED <<path, inodes, to, config, raced>>
  BY ProcessAssumption DEF TypeOK, Crash
<1>2. conn' \in [Clients -> {"none", "queued", "run", "reply", "over"}]
  BY DEF TypeOK, Crash
<1>3. client' \in [Clients -> {"idle", "waits", "answered", "failed"}]
  BY DEF TypeOK, Crash
<1> QED BY <1>1, <1>2, <1>3, ExitEffect DEF TypeOK, Crash

LEMMA ClientTypes == ASSUME TypeOK, NEW c \in Clients, Dial(c) \/ ClientTimeout(c) PROVE TypeOK'
  BY DEF TypeOK, Dial, ClientTimeout, fileVars, serveVars, otherVars

LEMMA TypesKept == ASSUME TypeOK, [Next]_vars PROVE TypeOK'
<1>1. CASE UNCHANGED vars
  BY <1>1 DEF TypeOK, vars, fileVars, serveVars, clientVars, otherVars
<1> QED BY <1>1, ConfigTypes, ClaimTypes, StatTypes, ServeTypes, StopTypes, CrashTypes, ClientTypes DEF Next, StartStep

-----------------------------------------------------------------------------
(* Socket files are only made by Bind.  Every other step leaves them, the name  *)
(* and the listeners alone, or takes something away.                        *)

Binds(d) == pc[d] \in {"listen", "relisten"} /\ Bind(d) /\ UNCHANGED <<info, signal, serveVars, clientVars, otherVars>>
Shrinks ==
  /\ path' \in {path, None} /\ inodes' = inodes /\ alive' \subseteq alive
  /\ \A e \in Daemons : mine'[e] \in {mine[e], None}

LEMMA BindOrShrink ==
  ASSUME TypeOK, [Next]_vars
  PROVE  Shrinks \/ \E d \in Daemons : Binds(d)
<1>1. CASE UNCHANGED vars
  BY <1>1 DEF vars, Shrinks, fileVars
<1>2. ASSUME NEW d \in Daemons, Start(d) \/ StartStep(d) PROVE Shrinks \/ Binds(d)
  <2>1. CASE Start(d) \/ CreateConfig(d) \/ WriteConfig(d) \/ LoadConfig(d) \/ LstatOld(d) \/ Probe(d)
    BY <2>1 DEF Start, CreateConfig, WriteConfig, LoadConfig, LstatOld, Probe, Shrinks, fileVars
  <2>2. CASE Listen(d) \/ Relisten(d) \/ RemoveStale(d)
    BY <2>2 DEF Listen, Relisten, RemoveStale, Shrinks, Binds
  <2>3. CASE StatNew(d)
    <3>1. CASE UNCHANGED <<path, alive, mine>>
      BY <2>3, <3>1 DEF StatNew, Shrinks
    <3>2. CASE CloseListener(d) /\ mine' = [mine EXCEPT ![d] = None]
      BY <2>3, <3>2, CloseEffect DEF TypeOK, StatNew, Shrinks
    <3> QED BY <2>3, <3>1, <3>2 DEF StatNew
  <2> QED BY <1>2, <2>1, <2>2, <2>3 DEF StartStep
<1>3. ASSUME NEW d \in Daemons, Signal(d) \/ ServeStep(d) PROVE Shrinks
  <2>1. CASE ServeCancelled(d)
    BY <2>1, CloseEffect DEF ServeCancelled, Shrinks
  <2> QED BY <1>3, <2>1 DEF Signal, ServeStep, AcceptFails, ServeReturns, Accept, Dispatch, Reply, Shrinks, fileVars
<1>4. ASSUME NEW d \in Daemons, StopStep(d) PROVE Shrinks
  <2>1. CASE OwnerCloses(d)
    BY <2>1, CloseEffect DEF OwnerCloses, Shrinks
  <2>2. CASE SelectSignal(d) \/ SelectServed(d) \/ Join(d)
    BY <2>2 DEF SelectSignal, SelectServed, Join, Shrinks, fileVars
  <2>3. CASE OwnerRemoves(d) \/ ShutdownReturns(d)
    BY <2>3, ExitEffect DEF OwnerRemoves, ShutdownReturns, Shrinks
  <2> QED BY <1>4, <2>1, <2>2, <2>3 DEF StopStep
<1>5. ASSUME NEW d \in Daemons, Crash(d) PROVE Shrinks
  BY <1>5, ExitEffect DEF Crash, Shrinks
<1>6. ASSUME NEW c \in Clients, Dial(c) \/ ClientTimeout(c) PROVE Shrinks
  BY <1>6 DEF Dial, ClientTimeout, Shrinks, fileVars
<1> QED BY <1>1, <1>2, <1>3, <1>4, <1>5, <1>6 DEF Next

\* A connection is made by Dial, of a file that has a listener.  No other step
\* changes what a client dialled, and a connection that is handled was accepted.
DialStep(c) ==
  /\ path \in alive /\ conn' = [conn EXCEPT ![c] = "queued"] /\ to' = [to EXCEPT ![c] = path]
  /\ UNCHANGED <<fileVars, pc, signal, serveVars, otherVars>>
AcceptStep(c) ==
  \E d \in Daemons : /\ server[d] = "accept" /\ conn[c] = "queued" /\ to[c] = mine[d] /\ conn' = [conn EXCEPT ![c] = "run"]
                     /\ UNCHANGED <<fileVars, pc, signal, serveVars, to, otherVars>>
Handles(c) == conn[c] \in {"run", "reply"}
Quiet(c) == /\ conn'[c] = "none" <=> conn[c] = "none"
            /\ Handles(c)' => Handles(c)

LEMMA ConnSteps ==
  ASSUME TypeOK, [Next]_vars
  PROVE  \/ to' = to /\ \A c \in Clients : Quiet(c)
         \/ \E c \in Clients : DialStep(c) \/ AcceptStep(c)
<1> DEFINE Silent == to' = to /\ \A c \in Clients : Quiet(c)
<1>1. ASSUME UNCHANGED <<conn, to>> PROVE Silent
  BY <1>1 DEF Quiet, Handles
<1>2. ASSUME NEW d \in Daemons, CloseListener(d) PROVE Silent
  BY <1>2, CloseEffect DEF Quiet, Handles
<1>3. ASSUME NEW d \in Daemons, Crash(d) PROVE Silent
  BY <1>3 DEF TypeOK, Crash, Quiet, Handles
<1>4. ASSUME NEW d \in Daemons, NEW c \in Clients, Dispatch(d, c) \/ Reply(d, c) PROVE Silent
  BY <1>4 DEF TypeOK, Dispatch, Reply, Handled, Quiet, Handles
<1>5. ASSUME NEW d \in Daemons, NEW c \in Clients, Accept(d, c) PROVE AcceptStep(c)
  BY <1>5 DEF Accept, AcceptStep
<1>6. ASSUME NEW c \in Clients, Dial(c) PROVE DialStep(c) \/ UNCHANGED <<conn, to>>
  BY <1>6 DEF Dial, DialStep
<1>7. ASSUME NEW d \in Daemons, Start(d) \/ StartStep(d) PROVE Silent
  BY <1>1, <1>2, <1>7 DEF Start, StartStep, CreateConfig, WriteConfig, LoadConfig, Listen, LstatOld, Probe,
                          RemoveStale, Relisten, StatNew, clientVars
<1>8. ASSUME NEW d \in Daemons, ServeCancelled(d) \/ AcceptFails(d) \/ ServeReturns(d) \/ Signal(d) PROVE Silent
  BY <1>1, <1>2, <1>8 DEF ServeCancelled, AcceptFails, ServeReturns, Signal, clientVars
<1>9. ASSUME NEW d \in Daemons, StopStep(d) PROVE Silent
  BY <1>1, <1>2, <1>9 DEF StopStep, SelectSignal, SelectServed, OwnerCloses, OwnerRemoves, Join,
                          ShutdownReturns, clientVars
<1>10. CASE UNCHANGED vars \/ \E c \in Clients : ClientTimeout(c)
  BY <1>1, <1>10 DEF vars, ClientTimeout, clientVars
<1> QED BY <1>1, <1>3, <1>4, <1>5, <1>6, <1>7, <1>8, <1>9, <1>10 DEF Next, ServeStep, TypeOK

LEMMA NumberedKept == ASSUME ProcessInv, [Next]_vars PROVE Numbered' /\ Connected' /\ Distinct'
<1> USE DEF ProcessInv
<1>1. path \in Nat /\ inodes \in Nat /\ \A d \in Daemons : mine[d] \in Nat
  BY ProcessAssumption DEF TypeOK, Inodes, None
<1>2. path' <= inodes' /\ alive' \subseteq 1..inodes' /\ (\A d \in Daemons : mine'[d] <= inodes') /\ inodes <= inodes'
  <2>1. CASE Shrinks
    BY <1>1, <2>1 DEF Numbered, Shrinks, None
  <2>2. ASSUME NEW d \in Daemons, Binds(d)
        PROVE  path' <= inodes' /\ alive' \subseteq 1..inodes' /\ (\A e \in Daemons : mine'[e] <= inodes') /\ inodes <= inodes'
    <3>1. inodes' = inodes + 1 /\ path' = inodes' /\ alive' = alive \cup {inodes'} /\ mine'[d] = inodes'
      BY <2>2, BindEffect DEF Binds
    <3>2. \A e \in Daemons \ {d} : mine'[e] = mine[e]
      BY <2>2, BindEffect DEF Binds
    <3>3. \A i \in alive : i \in 1..inodes'
      BY <1>1, <3>1 DEF Numbered
    <3>4. alive' \subseteq 1..inodes'
      BY <1>1, <3>1, <3>3
    <3> QED BY <1>1, <3>1, <3>2, <3>4 DEF Numbered
  <2> QED BY <2>1, <2>2, BindOrShrink
<1>3. Distinct'
  <2>1. CASE Shrinks
    BY <2>1 DEF Distinct, Shrinks
  <2>2. ASSUME NEW d \in Daemons, Binds(d) PROVE Distinct'
    BY <1>1, <2>2, BindEffect DEF Distinct, Numbered, Binds
  <2> QED BY <2>1, <2>2, BindOrShrink
<1>4. \A c \in Clients : to'[c] <= inodes' /\ (conn'[c] # "none" => to'[c] # None)
  <2>1. inodes' \in Nat /\ \A c \in Clients : to[c] \in Nat
    BY TypesKept, ProcessAssumption DEF TypeOK, Inodes, None
  <2>2. CASE to' = to /\ \A c \in Clients : Quiet(c)
    BY <1>2, <2>1, <2>2, <1>1 DEF Numbered, Connected, Quiet
  <2>3. ASSUME NEW c \in Clients, DialStep(c)
        PROVE  \A b \in Clients : to'[b] <= inodes' /\ (conn'[b] # "none" => to'[b] # None)
    <3>1. path # None /\ path <= inodes'
      BY <1>1, <1>2, <2>1, <2>3 DEF TypeOK, DialStep, Numbered, Inodes, None, fileVars
    <3> QED BY <1>1, <1>2, <2>1, <2>3, <3>1 DEF TypeOK, DialStep, Numbered, Connected
  <2>4. ASSUME NEW c \in Clients, AcceptStep(c)
        PROVE  \A b \in Clients : to'[b] <= inodes' /\ (conn'[b] # "none" => to'[b] # None)
    <3>1. to' = to /\ inodes' = inodes
      BY <2>4 DEF AcceptStep, fileVars
    <3>2. to[c] # None
      BY <2>4 DEF AcceptStep, Connected
    <3> QED BY <2>4, <3>1, <3>2 DEF TypeOK, AcceptStep, Numbered, Connected
  <2> QED BY <2>2, <2>3, <2>4, ConnSteps
<1> QED BY <1>2, <1>3, <1>4 DEF Numbered, Connected

-----------------------------------------------------------------------------
(* Where a daemon is, and what it has there. *)

LEMMA UnboundKept == ASSUME ProcessInv, [Next]_vars PROVE Unbound'
<1> USE DEF ProcessInv
<1>1. CASE UNCHANGED <<mine, info, server>> /\ \A e \in Daemons : pc'[e] = pc[e] \/ pc'[e] \notin Idle
  BY <1>1 DEF Unbound
<1>2. ASSUME NEW d \in Daemons, UNCHANGED <<mine, info, server>>, pc[d] \in Idle \ {"stat"}, NEW where, To(d, where)
      PROVE  Unbound'
  BY <1>2 DEF TypeOK, Unbound, To
<1>3. ASSUME NEW d \in Daemons, Start(d) \/ StartStep(d) PROVE Unbound'
  <2>1. CASE Start(d) \/ CreateConfig(d) \/ WriteConfig(d) \/ LoadConfig(d) \/ LstatOld(d) \/ Probe(d) \/ RemoveStale(d)
    BY <1>2, <2>1 DEF Start, CreateConfig, WriteConfig, LoadConfig, LstatOld, Probe, RemoveStale,
                      Idle, Configuring, Starting, fileVars, serveVars
  <2>2. CASE Binds(d)
    BY <2>2, BindEffect DEF TypeOK, Unbound, Binds, Idle, Starting, serveVars
  <2>3. CASE Listen(d) \/ Relisten(d)
    BY <1>2, <2>2, <2>3 DEF Listen, Relisten, Binds, Idle, Starting, serveVars
  <2>4. CASE StatNew(d)
    <3>1. CASE path # None
      BY <2>4, <3>1 DEF TypeOK, Unbound, StatNew, To, Idle, Configuring, Starting, serveVars
    <3>2. CASE path = None
      <4>1. mine' = [mine EXCEPT ![d] = None] /\ To(d, "refused") /\ UNCHANGED <<info, server>> /\ pc[d] = "stat"
        BY <2>4, <3>2 DEF StatNew, serveVars
      <4> QED BY <4>1 DEF TypeOK, Unbound, To, Idle, Starting
    <3> QED BY <3>1, <3>2
  <2> QED BY <1>3, <2>1, <2>3, <2>4 DEF StartStep
<1>4. ASSUME NEW d \in Daemons, Signal(d) \/ ServeStep(d) PROVE Unbound'
  <2>1. CASE AcceptFails(d) \/ ServeReturns(d)
    <3>1. server[d] # "none" /\ UNCHANGED <<pc, mine, info>> /\ \A e \in Daemons \ {d} : server'[e] = server[e]
      BY <2>1 DEF TypeOK, AcceptFails, ServeReturns, fileVars
    <3> QED BY <3>1 DEF Unbound
  <2> QED BY <1>1, <1>4, <2>1 DEF Signal, ServeStep, ServeCancelled, Accept, Dispatch, Reply, fileVars, serveVars
<1>5. ASSUME NEW d \in Daemons, Exit(d) PROVE Unbound'
  BY <1>5, ExitEffect DEF TypeOK, Unbound
<1>6. ASSUME NEW d \in Daemons, NEW where \in Ending, UNCHANGED <<mine, info, server>>, To(d, where) PROVE Unbound'
  BY <1>1, <1>6 DEF TypeOK, To, Idle, Configuring, Starting, Ending
<1>7. ASSUME NEW d \in Daemons, StopStep(d) \/ Crash(d) PROVE Unbound'
  BY <1>5, <1>6, <1>7 DEF StopStep, SelectSignal, SelectServed, OwnerCloses, OwnerRemoves, Join, ShutdownReturns,
                          Crash, Ending, fileVars, serveVars
<1>8. CASE UNCHANGED vars \/ \E c \in Clients : Dial(c) \/ ClientTimeout(c)
  BY <1>1, <1>8 DEF vars, Dial, ClientTimeout, fileVars, serveVars
<1> QED BY <1>3, <1>4, <1>7, <1>8 DEF Next

LEMMA ServedKept == ASSUME ProcessInv, [Next]_vars PROVE Served'
<1> USE DEF ProcessInv
<1> DEFINE Late == {"closing", "cleaning", "shutdown"}
<1>1. CASE server' = server /\ \A e \in Daemons : pc'[e] = pc[e] \/ pc'[e] \notin Late
  BY <1>1 DEF Served
<1>2. ASSUME NEW d \in Daemons, Start(d) \/ StartStep(d) PROVE Served'
  <2>1. CASE StatNew(d) /\ To(d, "closing") /\ UNCHANGED serveVars
    <3>1. server[d] = "none" /\ server' = server
      BY <2>1 DEF StatNew, Unbound, Idle, Starting, serveVars
    <3> QED BY <2>1, <3>1 DEF TypeOK, Served, To
  <2>2. CASE StatNew(d) /\ To(d, "select") /\ server' = [server EXCEPT ![d] = "accept"]
    BY <2>2 DEF TypeOK, Served, To
  <2>3. CASE StatNew(d) /\ path = None
    BY <1>1, <2>3 DEF TypeOK, StatNew, To, serveVars
  <2>4. CASE ~StatNew(d)
    BY <1>1, <1>2, <2>4 DEF TypeOK, Start, StartStep, CreateConfig, WriteConfig, LoadConfig, Listen, LstatOld, Probe,
                            RemoveStale, Relisten, Bind, To, serveVars
  <2> QED BY <2>1, <2>2, <2>3, <2>4 DEF StatNew
<1>3. ASSUME NEW d \in Daemons, Signal(d) \/ ServeStep(d) PROVE Served'
  <2>1. CASE AcceptFails(d) \/ ServeReturns(d)
    <3>1. /\ server[d] \notin {"none", "nil", "err"} /\ pc' = pc
          /\ \A e \in Daemons \ {d} : server'[e] = server[e]
      BY <2>1 DEF TypeOK, AcceptFails, ServeReturns
    <3> QED BY <3>1 DEF Served
  <2> QED BY <1>1, <1>3, <2>1 DEF Signal, ServeStep, ServeCancelled, Accept, Dispatch, Reply, serveVars
<1>4. ASSUME NEW d \in Daemons, Exit(d) PROVE Served'
  BY <1>4, ExitEffect DEF TypeOK, Served
<1>5. ASSUME NEW d \in Daemons, StopStep(d) PROVE Served'
  <2>1. CASE SelectServed(d) \/ Join(d)
    BY <2>1 DEF TypeOK, Served, SelectServed, Join, Joined, To, serveVars
  <2>2. CASE OwnerCloses(d)
    BY <2>2 DEF TypeOK, Served, OwnerCloses, To, serveVars
  <2>3. CASE SelectSignal(d) \/ OwnerRemoves(d) \/ ShutdownReturns(d)
    BY <1>1, <1>4, <2>3 DEF TypeOK, SelectSignal, OwnerRemoves, ShutdownReturns, To, serveVars
  <2> QED BY <1>5, <2>1, <2>2, <2>3 DEF StopStep
<1>6. ASSUME NEW d \in Daemons, Crash(d) PROVE Served'
  BY <1>4, <1>6 DEF Crash
<1>7. CASE UNCHANGED vars \/ \E c \in Clients : Dial(c) \/ ClientTimeout(c)
  BY <1>1, <1>7 DEF vars, Dial, ClientTimeout, serveVars
<1> QED BY <1>2, <1>3, <1>5, <1>6, <1>7 DEF Next

\* What one daemon listens on is not what another one has.
LEMMA NotShared ==
  ASSUME ProcessInv, NEW d \in Daemons, NEW e \in Daemons \ {d}, mine[e] \in alive
  PROVE  mine[e] # mine[d]
  BY DEF ProcessInv, TypeOK, Distinct, Inodes, None

LEMMA OwnersKept == ASSUME ProcessInv, [Next]_vars PROVE Owners'
<1> USE DEF ProcessInv
<1>1. CASE mine' = mine /\ alive' \subseteq alive
  BY <1>1 DEF Owners
<1>2. ASSUME NEW d \in Daemons, mine[d] \notin alive', alive' \subseteq alive,
             \A e \in Daemons \ {d} : mine'[e] = mine[e]
      PROVE  Owners'
  BY <1>2 DEF Owners
<1>3. ASSUME NEW d \in Daemons, Binds(d) PROVE Owners'
  <2>1. mine[d] = None /\ None \notin alive
    BY <1>3 DEF Binds, Unbound, Idle, Starting, TypeOK, Inodes, None
  <2> QED BY <1>3, <2>1, BindEffect DEF Owners, Binds
<1>4. ASSUME NEW d \in Daemons, Start(d) \/ StartStep(d) PROVE Owners'
  <2>1. CASE StatNew(d) /\ path = None
    BY <1>2, <2>1, CloseEffect DEF TypeOK, StatNew
  <2>2. CASE StatNew(d) /\ path # None
    BY <1>1, <2>2 DEF StatNew
  <2> QED BY <1>1, <1>3, <1>4, <2>1, <2>2
          DEF Start, StartStep, CreateConfig, WriteConfig, LoadConfig, Listen, LstatOld, Probe, RemoveStale, Relisten,
              Binds, fileVars
<1>5. ASSUME NEW d \in Daemons, CloseListener(d), mine' = mine PROVE Owners'
  BY <1>1, <1>5, CloseEffect
<1>6. ASSUME NEW d \in Daemons, Exit(d), mine[d] \notin alive', alive' \subseteq alive PROVE Owners'
  BY <1>2, <1>6, ExitEffect
<1>7. ASSUME NEW d \in Daemons, OwnerRemoves(d) \/ ShutdownReturns(d) \/ Crash(d) PROVE Owners'
  BY <1>1, <1>6, <1>7 DEF OwnerRemoves, ShutdownReturns, Crash, Closed
<1>8. ASSUME NEW d \in Daemons, Signal(d) \/ ServeStep(d) \/ SelectSignal(d) \/ SelectServed(d) \/ OwnerCloses(d) \/ Join(d)
      PROVE  Owners'
  BY <1>1, <1>5, <1>8 DEF Signal, ServeStep, ServeCancelled, AcceptFails, ServeReturns, Accept, Dispatch, Reply,
                          SelectSignal, SelectServed, OwnerCloses, Join, fileVars
<1>9. CASE UNCHANGED vars \/ \E c \in Clients : Dial(c) \/ ClientTimeout(c)
  BY <1>1, <1>9 DEF vars, Dial, ClientTimeout, fileVars
<1> QED BY <1>4, <1>7, <1>8, <1>9 DEF Next, StopStep

LEMMA OpenedKept == ASSUME ProcessInv, [Next]_vars PROVE Opened'
<1> USE DEF ProcessInv
<1>1. CASE /\ alive' = alive /\ mine' = mine
           /\ \A e \in Daemons : \/ pc'[e] = pc[e] /\ (e \in signal => e \in signal')
                                 \/ pc'[e] \notin {"stat", "select"}
  BY <1>1 DEF Opened
<1>2. ASSUME NEW d \in Daemons, pc'[d] \notin {"stat", "select"}, alive \ {mine[d]} \subseteq alive',
             \A e \in Daemons \ {d} : pc'[e] = pc[e] /\ mine'[e] = mine[e] /\ (e \in signal => e \in signal')
      PROVE  Opened'
  <2>1. ASSUME NEW e \in Daemons \ {d}, mine[e] \in alive PROVE mine[e] \in alive'
    BY <1>2, <2>1, NotShared
  <2> QED BY <1>2, <2>1 DEF Opened
<1>3. ASSUME NEW d \in Daemons, Start(d) \/ StartStep(d) PROVE Opened'
  <2>1. CASE Start(d) \/ CreateConfig(d) \/ WriteConfig(d) \/ LoadConfig(d) \/ LstatOld(d) \/ Probe(d) \/ RemoveStale(d)
    BY <1>1, <2>1 DEF TypeOK, Start, CreateConfig, WriteConfig, LoadConfig, LstatOld, Probe, RemoveStale, To, fileVars
  <2>2. CASE Binds(d)
    BY <2>2, BindEffect DEF TypeOK, Opened, Binds
  <2>3. CASE Listen(d) \/ Relisten(d)
    BY <1>1, <2>2, <2>3 DEF TypeOK, Listen, Relisten, Binds, To
  <2>4. CASE StatNew(d) /\ path # None
    <3>1. mine[d] \in alive /\ UNCHANGED <<mine, alive, signal>> /\ \A e \in Daemons \ {d} : pc'[e] = pc[e]
      BY <2>4 DEF TypeOK, Opened, StatNew, To
    <3> QED BY <3>1 DEF Opened
  <2>5. CASE StatNew(d) /\ path = None
    BY <1>2, <2>5, CloseEffect DEF TypeOK, StatNew, To
  <2> QED BY <1>3, <2>1, <2>3, <2>4, <2>5 DEF StartStep
<1>4. ASSUME NEW d \in Daemons, Signal(d) \/ ServeStep(d) PROVE Opened'
  <2>1. CASE ServeCancelled(d)
    <3>1. d \in signal /\ pc[d] # "stat" /\ alive' = alive \ {mine[d]} /\ UNCHANGED <<pc, mine, signal>>
      BY <2>1, CloseEffect DEF ServeCancelled, Unbound, Idle, Starting
    <3>2. ASSUME NEW e \in Daemons \ {d}, mine[e] \in alive PROVE mine[e] \in alive'
      BY <3>1, <3>2, NotShared
    <3> QED BY <3>1, <3>2 DEF Opened
  <2> QED BY <1>1, <1>4, <2>1 DEF Signal, ServeStep, AcceptFails, ServeReturns, Accept, Dispatch, Reply, fileVars
<1>5. ASSUME NEW d \in Daemons, StopStep(d) \/ Crash(d) PROVE Opened'
  <2>1. CASE OwnerCloses(d)
    BY <1>2, <2>1, CloseEffect DEF TypeOK, OwnerCloses, To
  <2>2. CASE Exit(d) /\ alive \ {mine[d]} \subseteq alive'
    BY <1>2, <2>2, ExitEffect DEF TypeOK
  <2>3. CASE Crash(d) \/ ShutdownReturns(d) \/ OwnerRemoves(d)
    <3>1. CASE Exit(d)
      BY <2>2, <2>3, <3>1 DEF Crash, ShutdownReturns, OwnerRemoves
    <3>2. CASE To(d, "join") /\ UNCHANGED <<mine, signal, alive>>
      BY <1>1, <3>2 DEF TypeOK, To
    <3> QED BY <2>3, <3>1, <3>2 DEF Crash, ShutdownReturns, OwnerRemoves
  <2>4. CASE SelectSignal(d) \/ SelectServed(d) \/ Join(d)
    BY <1>1, <2>4 DEF TypeOK, SelectSignal, SelectServed, Join, To, fileVars
  <2> QED BY <1>5, <2>1, <2>3, <2>4 DEF StopStep
<1>6. CASE UNCHANGED vars \/ \E c \in Clients : Dial(c) \/ ClientTimeout(c)
  BY <1>1, <1>6 DEF vars, Dial, ClientTimeout, fileVars
<1> QED BY <1>3, <1>4, <1>5, <1>6 DEF Next

LEMMA ClosedKept == ASSUME ProcessInv, [Next]_vars PROVE Closed'
<1> USE DEF ProcessInv
<1> DEFINE Gone == {"cleanup", "cleaning", "join", "shutdown"}
<1>1. CASE Shrinks /\ \A e \in Daemons : pc'[e] \in Gone => pc[e] \in Gone \/ mine'[e] \notin alive'
  BY <1>1 DEF Closed, Shrinks, TypeOK, Inodes, None
<1>2. ASSUME NEW d \in Daemons, Binds(d) PROVE Closed'
  <2>1. \A e \in Daemons \ {d} : mine'[e] = mine[e] /\ pc'[e] = pc[e] /\ mine[e] # inodes'
    BY <1>2, BindEffect, ProcessAssumption DEF TypeOK, Numbered, Binds, Inodes, None
  <2>2. pc'[d] = "stat" /\ alive' = alive \cup {inodes'}
    BY <1>2, BindEffect DEF TypeOK, Binds
  <2> QED BY <2>1, <2>2 DEF Closed
<1>3. ASSUME NEW d \in Daemons, OwnerCloses(d) PROVE \A e \in Daemons : pc'[e] \in Gone => pc[e] \in Gone \/ mine'[e] \notin alive'
  BY <1>3, CloseEffect DEF TypeOK, OwnerCloses, To
<1>4. ASSUME NEW d \in Daemons, Start(d) \/ StartStep(d), ~Binds(d) PROVE \A e \in Daemons : pc'[e] \in Gone => pc[e] \in Gone
  BY <1>4 DEF TypeOK, Start, StartStep, CreateConfig, WriteConfig, LoadConfig, Listen, LstatOld, Probe,
              RemoveStale, Relisten, StatNew, Binds, To
<1>5. ASSUME NEW d \in Daemons, Signal(d) \/ ServeStep(d) PROVE pc' = pc
  BY <1>5 DEF Signal, ServeStep, ServeCancelled, AcceptFails, ServeReturns, Accept, Dispatch, Reply
<1>6. ASSUME NEW d \in Daemons, StopStep(d) \/ Crash(d), ~OwnerCloses(d) PROVE \A e \in Daemons : pc'[e] \in Gone => pc[e] \in Gone
  BY <1>6 DEF TypeOK, StopStep, SelectSignal, SelectServed, OwnerRemoves, Join, ShutdownReturns, Crash, Exit, To
<1>7. CASE UNCHANGED vars \/ \E c \in Clients : Dial(c) \/ ClientTimeout(c)
  BY <1>1, <1>2, <1>7, BindOrShrink DEF vars, Dial, ClientTimeout
<1>8. CASE Shrinks /\ \E d \in Daemons : Start(d) \/ StartStep(d) \/ Signal(d) \/ ServeStep(d) \/ StopStep(d) \/ Crash(d)
  <2>1. CASE \E d \in Daemons : Binds(d)
    BY <1>2, <2>1
  <2> QED BY <1>1, <1>3, <1>4, <1>5, <1>6, <1>8, <2>1
<1> QED BY <1>2, <1>7, <1>8, BindOrShrink DEF Next

\* Serve leaves no handler behind, unless its process is over.
LEMMA ServeEnds ==
  ASSUME TypeOK, [Next]_vars, NEW d \in Daemons,
         server[d] \in {"accept", "wait", "waitErr"}, server'[d] \notin {"accept", "wait", "waitErr"}
  PROVE  Handled(d) = {} \/ mine'[d] = None
<1>1. ASSUME NEW e \in Daemons, Start(e) \/ StartStep(e) PROVE FALSE
  BY <1>1 DEF TypeOK, Start, StartStep, CreateConfig, WriteConfig, LoadConfig, Listen, LstatOld, Probe,
              RemoveStale, Relisten, StatNew, serveVars
<1>2. ASSUME NEW e \in Daemons, Signal(e) \/ ServeStep(e) PROVE Handled(d) = {}
  BY <1>2 DEF TypeOK, Signal, ServeStep, ServeCancelled, AcceptFails, ServeReturns, Accept, Dispatch, Reply,
              WaitGroupEmpty, serveVars
<1>3. ASSUME NEW e \in Daemons, StopStep(e) \/ Crash(e) PROVE mine'[d] = None
  BY <1>3 DEF TypeOK, StopStep, SelectSignal, SelectServed, OwnerCloses, OwnerRemoves, Join, ShutdownReturns,
              Crash, Exit, serveVars
<1> QED BY <1>1, <1>2, <1>3 DEF Next, vars, Dial, ClientTimeout, serveVars

LEMMA WaitedKept == ASSUME ProcessInv, [Next]_vars PROVE Waited'
<1> USE DEF ProcessInv
<1> DEFINE Serving == {"accept", "wait", "waitErr"}
<1> SUFFICES ASSUME NEW d \in Daemons, server'[d] \notin Serving, NEW c \in Clients, Handles(c)', to'[c] = mine'[d]
             PROVE  FALSE
  BY DEF Waited, Handled, Handles
<1>1. CASE Handles(c) /\ to'[c] = to[c]
  <2>1. to[c] # None
    BY <1>1 DEF Connected, Handles
  <2>2. mine'[d] = mine[d]
    <3>1. CASE Shrinks
      BY <1>1, <2>1, <3>1 DEF Shrinks
    <3>2. ASSUME NEW e \in Daemons, Binds(e) PROVE mine'[d] = mine[d]
      <4>1. to[c] # inodes + 1
        BY ProcessAssumption DEF TypeOK, Numbered, Inodes, None
      <4> QED BY <1>1, <3>2, <4>1, BindEffect DEF Binds
    <3> QED BY <3>1, <3>2, BindOrShrink
  <2>3. c \in Handled(d)
    BY <1>1, <2>2 DEF Handled, Handles
  <2>4. server[d] \in Serving
    BY <2>3 DEF Waited
  <2> QED BY <1>1, <2>1, <2>3, <2>4, ServeEnds
<1>2. CASE \E b \in Clients : DialStep(b)
  BY <1>1, <1>2 DEF TypeOK, DialStep, Handles
<1>3. CASE \E b \in Clients : AcceptStep(b)
  <2>1. PICK b \in Clients, e \in Daemons :
             /\ server[e] = "accept" /\ conn[b] = "queued" /\ to[b] = mine[e] /\ conn' = [conn EXCEPT ![b] = "run"]
             /\ UNCHANGED <<mine, server, to>>
    BY <1>3 DEF AcceptStep, fileVars, serveVars
  <2>2. CASE c = b
    <3>1. to[b] # None /\ mine[d] = mine[e]
      BY <2>1, <2>2 DEF Connected
    <3> QED BY <2>1, <3>1 DEF Distinct
  <2>3. CASE c # b
    BY <1>1, <2>1, <2>3 DEF TypeOK, Handles
  <2> QED BY <2>2, <2>3
<1> QED BY <1>1, <1>2, <1>3, ConnSteps DEF Quiet

LEMMA OverlayKept == ASSUME ProcessInv, [Next]_vars PROVE OverlayClosed' /\ Configured'
<1> USE DEF ProcessInv
<1>1. ASSUME NEW d \in Daemons, Exit(d) PROVE OverlayClosed'
  BY <1>1, ExitEffect DEF TypeOK, OverlayClosed
<1>2. ASSUME NEW d \in Daemons, Start(d) \/ StartStep(d) PROVE OverlayClosed'
  BY <1>2 DEF TypeOK, OverlayClosed, Start, StartStep, CreateConfig, WriteConfig, LoadConfig, Listen, LstatOld, Probe,
              RemoveStale, Relisten, Bind, StatNew, To, serveVars
<1>3. ASSUME NEW d \in Daemons, Signal(d) \/ ServeStep(d) PROVE OverlayClosed'
  BY <1>3 DEF TypeOK, OverlayClosed, Signal, ServeStep, ServeCancelled, AcceptFails, ServeReturns, Accept, Dispatch,
              Reply, serveVars
<1>4. ASSUME NEW d \in Daemons, StopStep(d) \/ Crash(d) PROVE OverlayClosed'
  BY <1>1, <1>4 DEF TypeOK, OverlayClosed, StopStep, SelectSignal, SelectServed, OwnerCloses, OwnerRemoves, Join,
                    ShutdownReturns, Crash, To, serveVars
<1>5. CASE UNCHANGED vars \/ \E c \in Clients : Dial(c) \/ ClientTimeout(c)
  BY <1>5 DEF OverlayClosed, Configured, vars, Dial, ClientTimeout, serveVars, otherVars
<1>6. ASSUME NEW d \in Daemons, Start(d) \/ StartStep(d) PROVE Configured'
  BY <1>6 DEF TypeOK, Configured, Start, StartStep, CreateConfig, WriteConfig, LoadConfig, Listen, LstatOld, Probe,
              RemoveStale, Relisten, Bind, StatNew, To, otherVars
<1>7. ASSUME NEW d \in Daemons, Signal(d) \/ ServeStep(d) PROVE Configured'
  BY <1>7 DEF Configured, Signal, ServeStep, ServeCancelled, AcceptFails, ServeReturns, Accept, Dispatch, Reply, otherVars
<1>8. ASSUME NEW d \in Daemons, StopStep(d) \/ Crash(d) PROVE Configured'
  BY <1>8 DEF TypeOK, Configured, StopStep, SelectSignal, SelectServed, OwnerCloses, OwnerRemoves, Join,
              ShutdownReturns, Crash, Exit, To, otherVars
<1> QED BY <1>2, <1>3, <1>4, <1>5, <1>6, <1>7, <1>8 DEF Next

\* The name is only taken away together with its listener, or when nobody
\* listens under it: by a claim that is alone, or by its owner.
LEMMA AloneKept == ASSUME ProcessInv, [Next]_vars PROVE Alone'
<1> USE DEF ProcessInv
<1> DEFINE Claims(d) == /\ pc[d] = "remove" => path \notin alive
                        /\ pc[d] = "relisten" => path = None
                        /\ info[d] \in {None, mine[d]}
<1> SUFFICES ASSUME ~raced'
             PROVE  /\ \A d, e \in Daemons : pc'[d] \in Starting /\ pc'[e] \in Starting => d = e
                    /\ alive' \subseteq {path'}
                    /\ \A d \in Daemons : Claims(d)'
  BY DEF Alone
<1> DEFINE OneStarts == \A d, e \in Daemons : pc'[d] \in Starting /\ pc'[e] \in Starting => d = e
<1>1. ~raced
  BY DEF Next, vars, otherVars, Start, StartStep, CreateConfig, WriteConfig, LoadConfig, Listen, LstatOld, Probe,
         RemoveStale, Relisten, StatNew, Signal, ServeStep, ServeCancelled, AcceptFails, ServeReturns, Accept,
         Dispatch, Reply, StopStep, SelectSignal, SelectServed, OwnerCloses, OwnerRemoves, Join, ShutdownReturns,
         Crash, Dial, ClientTimeout
<1>2. /\ \A d, e \in Daemons : pc[d] \in Starting /\ pc[e] \in Starting => d = e
      /\ alive \subseteq {path} /\ None \notin alive
      /\ \A d \in Daemons : Claims(d)
  BY <1>1 DEF Alone, TypeOK, Inodes, None
<1>3. OneStarts
  <2>1. CASE \A d \in Daemons : pc'[d] \in Starting => pc[d] \in Starting
    BY <1>2, <2>1
  <2>2. ASSUME NEW d \in Daemons, Start(d) \/ StartStep(d) PROVE OneStarts
    <3>1. CASE LoadConfig(d) /\ To(d, "listen")
      <4>1. \A e \in Daemons : pc[e] \notin Starting
        <5>1. ~To(d, "refused")
          BY <3>1 DEF TypeOK, To
        <5> QED BY <3>1, <5>1, Zenon DEF LoadConfig
      <4> QED BY <3>1, <4>1 DEF TypeOK, To
    <3>2. CASE ~(LoadConfig(d) /\ To(d, "listen"))
      BY <2>1, <2>2, <3>2 DEF TypeOK, Start, StartStep, CreateConfig, WriteConfig, LoadConfig, Listen, LstatOld, Probe,
                              RemoveStale, Relisten, Bind, StatNew, To, Starting
    <3> QED BY <3>1, <3>2
  <2>3. ASSUME NEW d \in Daemons, Signal(d) \/ ServeStep(d) PROVE OneStarts
    BY <2>1, <2>3 DEF Signal, ServeStep, ServeCancelled, AcceptFails, ServeReturns, Accept, Dispatch, Reply
  <2>4. ASSUME NEW d \in Daemons, StopStep(d) \/ Crash(d) PROVE OneStarts
    BY <2>1, <2>4 DEF TypeOK, StopStep, SelectSignal, SelectServed, OwnerCloses, OwnerRemoves, Join,
                      ShutdownReturns, Crash, Exit, To, Starting
  <2> QED BY <2>1, <2>2, <2>3, <2>4 DEF Next, vars, Dial, ClientTimeout
<1> DEFINE Kept == alive' \subseteq {path'} /\ \A d \in Daemons : Claims(d)'
<1>4. ASSUME UNCHANGED <<path, alive, mine, info>>,
             \A d \in Daemons : pc'[d] \in {"remove", "relisten"} => pc'[d] = pc[d]
      PROVE  Kept
  BY <1>2, <1>4
<1>5. ASSUME NEW d \in Daemons, CloseListener(d), info' = info,
             \A e \in Daemons \ {d} : pc'[e] = pc[e] /\ mine'[e] = mine[e],
             pc'[d] \notin {"remove", "relisten"}, info[d] = None \/ mine'[d] = mine[d]
      PROVE  Kept
  <2>1. alive' = alive \ {mine[d]} /\ ((path' = path /\ alive' = alive) \/ (path' = None /\ mine[d] \in alive))
    BY <1>5, CloseEffect
  <2>2. CASE path' = path /\ alive' = alive
    BY <1>2, <1>5, <2>2
  <2>3. CASE path' = None /\ mine[d] \in alive
    <3>1. alive' = {}
      BY <1>2, <2>1, <2>3
    <3> QED BY <1>2, <1>5, <2>3, <3>1
  <2> QED BY <2>1, <2>2, <2>3
<1>6. ASSUME NEW d \in Daemons, Exit(d), path \notin alive \/ path' = path, path' \in {path, None},
             alive' \subseteq alive
      PROVE  Kept
  <2>1. alive' \subseteq {path'}
    BY <1>2, <1>6
  <2>2. \A e \in Daemons \ {d} : pc'[e] = pc[e] /\ mine'[e] = mine[e] /\ info'[e] = info[e]
    BY <1>6, ExitEffect DEF TypeOK
  <2>3. pc'[d] = "down" /\ info'[d] = None
    BY <1>6, ExitEffect DEF TypeOK
  <2> QED BY <1>2, <1>6, <2>1, <2>2, <2>3
<1>7. ASSUME NEW d \in Daemons, Start(d) \/ StartStep(d) PROVE Kept
  <2>1. CASE Start(d) \/ CreateConfig(d) \/ WriteConfig(d) \/ LoadConfig(d)
    BY <1>4, <2>1 DEF TypeOK, Start, CreateConfig, WriteConfig, LoadConfig, To, fileVars
  <2>2. CASE LstatOld(d) \/ Probe(d)
    <3>1. UNCHANGED <<path, alive, mine, info>> /\ \A e \in Daemons \ {d} : pc'[e] = pc[e]
      BY <2>2 DEF TypeOK, LstatOld, Probe, To, fileVars
    <3>2. (pc'[d] = "remove" => path \notin alive) /\ (pc'[d] = "relisten" => path = None)
      BY <2>2 DEF TypeOK, LstatOld, Probe, Live, To
    <3> QED BY <1>2, <3>1, <3>2
  <2>3. CASE RemoveStale(d)
    <3>1. path' = None /\ path \notin alive /\ pc'[d] = "relisten" /\ UNCHANGED <<alive, mine, info>>
          /\ \A e \in Daemons \ {d} : pc'[e] = pc[e]
      BY <1>2, <2>3 DEF TypeOK, RemoveStale, To
    <3>2. alive' = {}
      BY <1>2, <3>1
    <3> QED BY <1>2, <3>1, <3>2
  <2>4. CASE Binds(d)
    <3>1. alive = {} /\ info[d] = None /\ info' = info
      BY <1>2, <2>4 DEF Binds, Bind, Unbound, Idle, Starting
    <3>2. /\ alive' = {path'} /\ pc'[d] = "stat"
          /\ \A e \in Daemons \ {d} : pc'[e] = pc[e] /\ pc[e] \notin Starting /\ mine'[e] = mine[e]
      <4>1. pc[d] \in Starting /\ alive' = alive \cup {inodes'} /\ path' = inodes'
        BY <2>4, BindEffect DEF Binds, Starting
      <4> QED BY <1>2, <2>4, <3>1, <4>1, BindEffect DEF TypeOK, Binds
    <3> QED BY <1>2, <3>1, <3>2 DEF Starting
  <2>5. CASE Listen(d) \/ Relisten(d)
    BY <1>4, <2>4, <2>5 DEF TypeOK, Listen, Relisten, Binds, To
  <2>6. CASE StatNew(d) /\ path # None
    <3>1. mine[d] = path
      BY <1>2, <2>6 DEF StatNew, Opened
    <3>2. /\ UNCHANGED <<path, alive, mine>> /\ info'[d] = path /\ pc'[d] \notin {"remove", "relisten"}
          /\ \A e \in Daemons \ {d} : pc'[e] = pc[e] /\ info'[e] = info[e]
      BY <2>6 DEF TypeOK, StatNew, To
    <3> QED BY <1>2, <3>1, <3>2
  <2>7. CASE StatNew(d) /\ path = None
    BY <1>5, <2>7 DEF TypeOK, StatNew, To, Unbound, Idle, Starting
  <2> QED BY <1>7, <2>1, <2>2, <2>3, <2>5, <2>6, <2>7 DEF StartStep
<1>8. ASSUME NEW d \in Daemons, Signal(d) \/ ServeStep(d) PROVE Kept
  <2>1. CASE ServeCancelled(d)
    <3>1. pc[d] \notin Starting /\ UNCHANGED <<pc, mine, info>> /\ CloseListener(d)
      BY <2>1 DEF ServeCancelled, Unbound, Idle
    <3> QED BY <1>5, <3>1 DEF Starting
  <2> QED BY <1>4, <1>8, <2>1 DEF Signal, ServeStep, AcceptFails, ServeReturns, Accept, Dispatch, Reply, fileVars
<1>9. ASSUME NEW d \in Daemons, StopStep(d) \/ Crash(d) PROVE Kept
  <2>1. CASE SelectSignal(d) \/ SelectServed(d) \/ Join(d)
    BY <1>4, <2>1 DEF TypeOK, SelectSignal, SelectServed, Join, To, fileVars
  <2>2. CASE OwnerCloses(d)
    BY <1>5, <2>2 DEF TypeOK, OwnerCloses, To
  <2>3. CASE OwnerRemoves(d)
    <3>1. mine[d] \notin alive /\ alive' = alive /\ path' \in {path, None}
      BY <2>3 DEF OwnerRemoves, Closed
    <3>2. path' = path \/ path \notin alive
      <4>1. CASE SameFile(d)
        BY <1>2, <3>1, <4>1 DEF SameFile
      <4> QED BY <2>3, <4>1 DEF OwnerRemoves
    <3>3. CASE Exit(d)
      BY <1>6, <3>1, <3>2, <3>3
    <3>4. CASE To(d, "join") /\ UNCHANGED <<mine, info>>
      <4>1. alive' \subseteq {path'}
        BY <1>2, <3>1, <3>2
      <4> QED BY <1>2, <3>1, <3>2, <3>4, <4>1 DEF TypeOK, To
    <3> QED BY <2>3, <3>3, <3>4 DEF OwnerRemoves
  <2>4. CASE ShutdownReturns(d) \/ Crash(d)
    BY <1>6, <2>4 DEF ShutdownReturns, Crash
  <2> QED BY <1>9, <2>1, <2>2, <2>3, <2>4 DEF StopStep
<1> QED BY <1>3, <1>4, <1>7, <1>8, <1>9 DEF Next, vars, fileVars, Dial, ClientTimeout

LEMMA StaleKept == ASSUME ProcessInv, [Next]_vars PROVE StaleOnlyByCrash'
<1> USE DEF ProcessInv
<1> SUFFICES ASSUME crashes' = 0 PROVE path' \in alive' \cup {None}
  BY DEF StaleOnlyByCrash
<1>1. CASE crashes' = crashes /\ (path' = None \/ UNCHANGED <<path, alive>>)
  BY <1>1 DEF StaleOnlyByCrash
<1>2. ASSUME NEW d \in Daemons, CloseListener(d), crashes' = crashes PROVE path' \in alive' \cup {None}
  BY <1>1, <1>2, CloseEffect
<1>3. ASSUME NEW d \in Daemons, Bind(d) PROVE path' \in alive' \cup {None}
  BY <1>3 DEF Bind
<1>4. ASSUME NEW d \in Daemons, Start(d) \/ StartStep(d) PROVE path' \in alive' \cup {None}
  <2>1. CASE WriteConfig(d)
    <3>1. crashes' = crashes
      BY <2>1, ProcessAssumption DEF TypeOK, WriteConfig
    <3> QED BY <1>1, <2>1, <3>1 DEF WriteConfig, fileVars
  <2> QED BY <1>1, <1>2, <1>3, <1>4, <2>1 DEF Start, StartStep, CreateConfig, LoadConfig, Listen, LstatOld, Probe,
                                             RemoveStale, Relisten, StatNew, fileVars, otherVars
<1>5. ASSUME NEW d \in Daemons, Signal(d) \/ ServeStep(d) PROVE path' \in alive' \cup {None}
  BY <1>1, <1>2, <1>5 DEF Signal, ServeStep, ServeCancelled, AcceptFails, ServeReturns, Accept, Dispatch, Reply,
                          fileVars, otherVars
<1>6. ASSUME NEW d \in Daemons, StopStep(d) PROVE path' \in alive' \cup {None}
  BY <1>1, <1>2, <1>6 DEF StopStep, SelectSignal, SelectServed, OwnerCloses, OwnerRemoves, Join, ShutdownReturns,
                          fileVars, otherVars
<1>7. ASSUME NEW d \in Daemons, Crash(d) PROVE FALSE
  BY <1>7, ProcessAssumption DEF TypeOK, Crash
<1> QED BY <1>1, <1>4, <1>5, <1>6, <1>7 DEF Next, vars, fileVars, otherVars, Dial, ClientTimeout

-----------------------------------------------------------------------------
(* The results. *)

\* Every reachable state has its type and satisfies the invariant: who has
\* which socket file, wherever the daemons are and whoever of them is killed.
THEOREM ProcessInvariant == Spec => []ProcessInv
<1>1. ASSUME Init PROVE ProcessInv
  <2>1. TypeOK
    <3>1. raced \in BOOLEAN
      BY <1>1, Zenon DEF Init
    <3> QED BY <1>1, <3>1, ProcessAssumption DEF Init, TypeOK, None, Inodes
  <2>2. Numbered /\ Connected /\ Distinct /\ Unbound /\ Owners /\ Opened /\ Closed
    BY <1>1 DEF Init, Numbered, Connected, Distinct, Unbound, Owners, Opened, Closed, None
  <2>3. Served /\ Waited /\ OverlayClosed /\ Configured /\ Alone /\ StaleOnlyByCrash
    BY <1>1 DEF Init, Served, Waited, Handled, OverlayClosed, Configured, Alone, StaleOnlyByCrash, Starting
  <2> QED BY <2>1, <2>2, <2>3 DEF ProcessInv
<1>2. ProcessInv /\ [Next]_vars => ProcessInv'
  BY TypesKept, NumberedKept, UnboundKept, OwnersKept, OpenedKept, ClosedKept, ServedKept, WaitedKept,
     OverlayKept, AloneKept, StaleKept DEF ProcessInv
<1> QED BY <1>1, <1>2, PTL DEF Spec

\* A running daemon is the one that clients reach under the name, as long as no
\* two were claiming it at a time: its listener is the only one, and neither
\* the close of another listener nor ipcSocketOwner.Close takes its name.
THEOREM ReachableAlways == Spec => []Reachable
<1>1. ProcessInv => Reachable
  BY DEF ProcessInv, Reachable, Opened, Alone
<1> QED BY <1>1, ProcessInvariant, PTL

\* Only a killed daemon leaves a name that nobody answers under.
THEOREM StaleOnlyByCrashAlways == Spec => []StaleOnlyByCrash
<1>1. ProcessInv => StaleOnlyByCrash
  BY DEF ProcessInv
<1> QED BY <1>1, ProcessInvariant, PTL

\* A daemon that claims the name while no other one does is refused only by a
\* daemon that is up: not by a stale socket, not by a name that is gone.
LEMMA RefusedByClaim ==
  ASSUME ProcessInv, ~raced, NEW d \in Daemons, StartStep(d), pc[d] \in Starting, pc'[d] = "refused"
  PROVE  \E e \in Daemons \ {d} : pc[e] # "down"
<1> USE DEF ProcessInv
<1>1. alive \subseteq {path} /\ None \notin alive
  BY DEF Alone, TypeOK, Inodes, None
<1>2. CASE Probe(d)
  <2>1. path \in alive
    BY <1>2 DEF TypeOK, Probe, Live, To
  <2>2. PICK e \in Daemons : mine[e] = path
    BY <2>1 DEF Owners
  <2>3. mine[d] = None /\ path # None
    BY <1>2, <2>1 DEF Probe, TypeOK, Unbound, Idle, Starting, Inodes, None
  <2>4. e # d /\ pc[e] # "down"
    BY <2>2, <2>3 DEF Unbound, Idle
  <2> QED BY <2>4
<1>3. CASE StatNew(d)
  <2>1. path # None
    BY <1>1, <1>3 DEF StatNew, Opened
  <2> QED BY <1>3, <2>1 DEF TypeOK, StatNew, To
<1>4. CASE Relisten(d)
  BY <1>4 DEF TypeOK, Relisten, Bind, Alone, To
<1> QED BY <1>2, <1>3, <1>4
        DEF TypeOK, StartStep, CreateConfig, WriteConfig, LoadConfig, Listen, LstatOld, RemoveStale, Bind, To,
            Starting

\* A daemon is refused only for a cause: another daemon, or a file that could
\* not be written.
THEOREM RefusedForCauseAlways == Spec => RefusedForCause
<1> DEFINE Cause(d) == \/ config = "part" \/ crashes' # crashes
                       \/ pc[d] \in Starting /\ \E e \in Daemons \ {d} : pc[e] # "down"
<1>1. ASSUME ProcessInv, [Next]_vars, NEW d \in Daemons,
             ~raced', pc[d] \in Configuring \cup Starting, pc'[d] = "refused"
      PROVE  Cause(d)
  <2>1. StartStep(d)
    <3>1. ASSUME NEW e \in Daemons, Start(e) \/ StartStep(e), ~StartStep(d) PROVE FALSE
      BY <1>1, <3>1 DEF ProcessInv, TypeOK, Start, StartStep, CreateConfig, WriteConfig, LoadConfig, Listen, LstatOld,
                        Probe, RemoveStale, Relisten, StatNew, Bind, To, Configuring, Starting
    <3>2. ASSUME NEW e \in Daemons, Signal(e) \/ ServeStep(e) PROVE FALSE
      BY <1>1, <3>2 DEF Signal, ServeStep, ServeCancelled, AcceptFails, ServeReturns, Accept, Dispatch, Reply,
                        Configuring, Starting
    <3>3. ASSUME NEW e \in Daemons, StopStep(e) \/ Crash(e) PROVE FALSE
      BY <1>1, <3>3 DEF ProcessInv, TypeOK, StopStep, SelectSignal, SelectServed, OwnerCloses, OwnerRemoves, Join,
                        ShutdownReturns, Crash, Exit, To, Configuring, Starting
    <3> QED BY <1>1, <3>1, <3>2, <3>3 DEF Next, vars, Dial, ClientTimeout, Configuring, Starting
  <2>2. CASE pc[d] \in Starting
    <3>1. ~raced
      BY <1>1, <2>1, <2>2 DEF StartStep, CreateConfig, WriteConfig, LoadConfig, Listen, LstatOld, Probe, RemoveStale,
                              Relisten, StatNew, Starting, otherVars
    <3> QED BY <1>1, <2>1, <2>2, <3>1, RefusedByClaim
  <2>3. CASE pc[d] \in Configuring
    <3>1. CreateConfig(d) \/ WriteConfig(d) \/ LoadConfig(d)
      BY <2>1, <2>3 DEF StartStep, Listen, LstatOld, Probe, RemoveStale, Relisten, StatNew, Configuring
    <3>2. CASE WriteConfig(d)
      BY <1>1, <3>2, ProcessAssumption DEF ProcessInv, TypeOK, WriteConfig, To
    <3>3. CASE LoadConfig(d)
      BY <1>1, <3>3 DEF ProcessInv, TypeOK, Configured, LoadConfig, Readable, Unreadable, To
    <3> QED BY <1>1, <3>1, <3>2, <3>3 DEF ProcessInv, TypeOK, CreateConfig, To
  <2> QED BY <1>1, <2>2, <2>3
<1>2. ProcessInv /\ [Next]_vars
        => [\A d \in Daemons : ~raced' /\ pc[d] \in Configuring \cup Starting /\ pc'[d] = "refused" => Cause(d)]_vars
  BY <1>1
<1> QED BY <1>2, ProcessInvariant, PTL DEF Spec, RefusedForCause

\* A daemon that ends without being killed has answered what it accepted: both
\* ways out of the select lead past the return of Serve, or past a daemon that
\* never served.
THEOREM EndsAfterHandlersAlways == Spec => EndsAfterHandlers
<1>1. ASSUME ProcessInv, [Next]_vars, NEW d \in Daemons, pc[d] # "down", pc'[d] = "down", crashes' = crashes
      PROVE  Handled(d) = {}
  <2>1. ASSUME NEW e \in Daemons, Start(e) \/ StartStep(e) PROVE FALSE
    BY <1>1, <2>1 DEF ProcessInv, TypeOK, Start, StartStep, CreateConfig, WriteConfig, LoadConfig, Listen, LstatOld,
                      Probe, RemoveStale, Relisten, StatNew, Bind, To
  <2>2. ASSUME NEW e \in Daemons, StopStep(e) PROVE pc[d] \in {"cleaning", "shutdown"}
    BY <1>1, <2>2 DEF ProcessInv, TypeOK, StopStep, SelectSignal, SelectServed, OwnerCloses, OwnerRemoves, Join,
                      ShutdownReturns, Exit, To
  <2>3. ASSUME NEW e \in Daemons, Crash(e) PROVE FALSE
    BY <1>1, <2>3, ProcessAssumption DEF ProcessInv, TypeOK, Crash
  <2>4. pc[d] \in {"cleaning", "shutdown"}
    BY <1>1, <2>1, <2>2, <2>3 DEF Next, vars, Dial, ClientTimeout, Signal, ServeStep, ServeCancelled, AcceptFails,
                                  ServeReturns, Accept, Dispatch, Reply
  <2> QED BY <1>1, <2>4 DEF ProcessInv, Served, Waited
<1>2. ProcessInv /\ [Next]_vars
        => [\A d \in Daemons : pc[d] # "down" /\ pc'[d] = "down" /\ crashes' = crashes => Handled(d) = {}]_vars
  BY <1>1
<1> QED BY <1>2, ProcessInvariant, PTL DEF Spec, EndsAfterHandlers

\* An overlay that was shut down is not shown again: nobody is left to dispatch
\* a request when Shutdown is called.
THEOREM ShutDownForGoodAlways == Spec => ShutDownForGood
<1>1. ASSUME ProcessInv, [Next]_vars, NEW d \in Daemons, overlay[d] = "closed"
      PROVE  overlay'[d] \in {"closed", "none"}
  <2> USE <1>1 DEF ProcessInv
  <2>1. pc[d] = "shutdown" /\ Handled(d) = {}
    BY DEF OverlayClosed, Served, Waited
  <2>2. ASSUME NEW e \in Daemons, Start(e) \/ StartStep(e) PROVE overlay'[d] \in {"closed", "none"}
    BY <2>1, <2>2 DEF TypeOK, Start, StartStep, CreateConfig, WriteConfig, LoadConfig, Listen, LstatOld, Probe,
                      RemoveStale, Relisten, StatNew, serveVars
  <2>3. ASSUME NEW e \in Daemons, Signal(e) \/ ServeStep(e) PROVE overlay'[d] = "closed"
    BY <2>1, <2>3 DEF TypeOK, Signal, ServeStep, ServeCancelled, AcceptFails, ServeReturns, Accept, Dispatch, Reply,
                      serveVars
  <2>4. ASSUME NEW e \in Daemons, StopStep(e) \/ Crash(e) PROVE overlay'[d] \in {"closed", "none"}
    BY <2>4 DEF TypeOK, StopStep, SelectSignal, SelectServed, OwnerCloses, OwnerRemoves, Join, ShutdownReturns,
                Crash, Exit, serveVars
  <2> QED BY <2>2, <2>3, <2>4 DEF Next, vars, Dial, ClientTimeout, serveVars
<1>2. ProcessInv /\ [Next]_vars => [\A d \in Daemons : overlay[d] = "closed" => overlay'[d] \in {"closed", "none"}]_vars
  BY <1>1
<1> QED BY <1>2, ProcessInvariant, PTL DEF Spec, ShutDownForGood

=============================================================================
