-------------------------- MODULE QUICServerProofs --------------------------
(***************************************************************************)
(* Proofs about QUICServer, for any number of clients, datagrams and       *)
(* starts: the connection map is true, stop is thorough, and the server    *)
(* and its socket end together.                                            *)
(***************************************************************************)
EXTENDS QUICServer, TLAPS

\* A datagram makes at most one connection, and none before its tokens are checked.
Course == \A a \in Tasks : task[a] # "done" => conn[a] = "none"

\* The StartStop state decides on what the socket and the controllers do.
Registered ==
    /\ answering <=> server = "running"
    /\ server \in {"starting", "running"} =>
           controller = starts /\ starts > 0 /\ starts \notin aborted
    /\ \A n \in aborted : n <= starts
    /\ server = "stopping" <=> stage # "none"

\* The flags of TypeOK.
Booleans ==
    /\ isSocketShared \in BOOLEAN /\ startTimeout \in BOOLEAN /\ answering \in BOOLEAN
    /\ closed \in BOOLEAN /\ closedP \in BOOLEAN

\* What a stop awaits, and what it will leave.
Leaves ==
    /\ server \in {"stopped", "starting"} => mapped \subseteq late
    /\ server = "stopping" => mapped \subseteq targets \cup late
    /\ stage = "closedP" => targets \cap Alive = {}
    /\ \A a \in targets : conn[a] # "none"

\* Whatever answers in time listens to the controller of the present start.
Signals ==
    server = "running" =>
        \A a \in mapped \ late : conn[a] = "starting" => signal[a] = starts

\* The socket of a server, and its closedP: resolved only for the stop that awaits it.
Ends ==
    /\ server = "running" => socket # "stopped" /\ ~ closed
    /\ server = "starting" => ~ isSocketShared
    /\ server \in {"stopped", "starting"} /\ ~ isSocketShared => socket = "stopped"
    /\ closedP => /\ server = "stopping" /\ closed
                  /\ ~ isSocketShared => socket = "stopped"

IInv ==
    /\ TypeOK /\ Course /\ Registered /\ EntriesAlive /\ LostOnlyToRival /\ Ends
    /\ Leaves /\ Signals /\ ForcedStopAborts

-----------------------------------------------------------------------------

LEMMA InitIInv == Init => IInv
<1> SUFFICES ASSUME Init PROVE IInv
    OBVIOUS
<1> USE ServerAssumption DEF Init
<1>1. TypeOK
    <2>1. Booleans
        BY Zenon DEF Booleans
    <2> HIDE DEF Init
    <2>2. socket \in {"stopped", "running", "stopping"}
        BY Zenon DEF Init
    <2>3. /\ server = "stopped" /\ stage = "none" /\ controller = 0 /\ starts = 0
          /\ aborted = {} /\ mapped = {} /\ targets = {} /\ late = {}
          /\ task = [a \in Tasks |-> "idle"] /\ conn = [a \in Tasks |-> "none"]
          /\ signal = [a \in Tasks |-> 0]
        BY DEF Init
    <2> QED BY <2>1, <2>2, <2>3, SMT DEF TypeOK, Booleans
<1>2. Course /\ EntriesAlive /\ LostOnlyToRival
    BY DEF Course, EntriesAlive, LostOnlyToRival, Alive
<1>4. Registered
    BY DEF Registered
<1>3. Leaves /\ Signals /\ ForcedStopAborts /\ Ends
    BY DEF Leaves, Signals, ForcedStopAborts, Ends
<1> QED BY <1>1, <1>2, <1>3, <1>4 DEF IInv

\* mapped' after an entry is set or deleted.
LEMMA MapFacts ==
    ASSUME TypeOK, NEW a \in Tasks
    PROVE  /\ With(a) \in SUBSET Tasks /\ Without(Id(a)) \in SUBSET Tasks
           /\ a \in With(a) /\ a \notin Without(Id(a))
           /\ \A b \in Tasks : Id(b) # Id(a) =>
                  (b \in mapped <=> b \in With(a)) /\ (b \in mapped <=> b \in Without(Id(a)))
           /\ \A b \in With(a) : b = a \/ (b \in mapped /\ Id(b) # Id(a))
           /\ \A b \in Without(Id(a)) : b \in mapped /\ Id(b) # Id(a)
BY DEF TypeOK, With, Without

LEMMA TypeStep == TypeOK /\ Registered /\ [Next]_vars => TypeOK'
<1> SUFFICES ASSUME TypeOK, Registered, [Next]_vars PROVE TypeOK'
    OBVIOUS
<1> USE ServerAssumption DEF TypeOK, stopVars
<1>1. ASSUME NEW a \in Tasks,
             \/ Message(a) \/ Discard(a) \/ Accept(a) \/ StartCompletes(a)
             \/ StartFails(a) \/ (\E force \in BOOLEAN : ConnectionStops(a, force))
             \/ StreamsEnd(a) \/ ConnectionStopped(a) \/ StopTarget(a)
      PROVE  TypeOK'
    <2>1. CASE Message(a)
        BY <2>1 DEF Message
    <2>2. CASE Discard(a)
        BY <2>2 DEF Discard
    <2>3. CASE Accept(a)
        BY <2>3, MapFacts DEF Accept, SignalNow
    <2>4. CASE StartCompletes(a)
        BY <2>4 DEF StartCompletes
    <2>5. CASE StartFails(a)
        BY <2>5, MapFacts DEF StartFails
    <2>6. CASE (\E force \in BOOLEAN : ConnectionStops(a, force)) \/ StreamsEnd(a)
        <3>1. conn' \in [Tasks -> {"none", "starting", "running", "lingering", "stopping",
                                   "ended"}]
            <4>1. PICK s \in {"stopping", "lingering"} : conn' = [conn EXCEPT ![a] = s]
                BY <2>6 DEF ConnectionStops, StreamsEnd
            <4> QED BY <4>1
        <3>2. UNCHANGED <<stopVars, socket, task, mapped, signal, late>>
            BY <2>6 DEF ConnectionStops, StreamsEnd
        <3> QED BY <3>1, <3>2
    <2>7. CASE ConnectionStopped(a)
        BY <2>7, MapFacts DEF ConnectionStopped
    <2>8. CASE StopTarget(a)
        BY <2>8 DEF StopTarget
    <2> QED BY <1>1, <2>1, <2>2, <2>3, <2>4, <2>5, <2>6, <2>7, <2>8
<1>2. CASE Start \/ Started \/ StartThrows
    <2>1. Booleans'
        BY <1>2, Zenon DEF Start, Started, StartThrows, ResetClosed, Booleans
    <2>2. /\ server' \in {server, "starting", "running", "stopped"} /\ stage' = stage
          /\ socket' \in {socket, "running"}
          /\ UNCHANGED <<aborted, targets, task, conn, mapped, signal, late>>
        BY <1>2 DEF Start, Started, StartThrows
    <2>3. \/ starts' = starts + 1 /\ controller' = starts + 1 /\ starts < MaxStarts
          \/ UNCHANGED <<starts, controller>>
        BY <1>2 DEF Start, Started, StartThrows
    <2> QED BY <2>1, <2>2, <2>3 DEF Booleans
<1>3. ASSUME NEW force \in BOOLEAN, Stop(force) PROVE TypeOK'
    <2>1. controller \in 1 .. MaxStarts
        BY <1>3 DEF Stop, Registered
    <2>2. Booleans'
        BY <1>3, Zenon DEF Stop, BeginStop, Booleans
    <2>3. aborted' \in SUBSET (1 .. MaxStarts) /\ targets' = mapped
        BY <1>3, <2>1 DEF Stop, BeginStop, AbortedBy, Targets
    <2>4. /\ server' = "stopping" /\ stage' = "connections" /\ controller' = 0
          /\ UNCHANGED <<starts, socket, task, conn, mapped, signal, late>>
        BY <1>3 DEF Stop, BeginStop
    <2> QED BY <2>2, <2>3, <2>4 DEF Booleans
<1>4. ASSUME NEW force \in BOOLEAN, SocketStops(force) PROVE TypeOK'
    BY <1>4 DEF SocketStops
<1>5. CASE ConnectionsStopped
    BY <1>5 DEF ConnectionsStopped, Close
<1>6. CASE StopEnds
    <2>1. Booleans'
        BY <1>6, Zenon DEF StopEnds, RenewClosedP, Booleans
    <2> QED BY <1>6, <2>1 DEF StopEnds, Booleans
<1>7. CASE SocketStarts
    BY <1>7 DEF SocketStarts
<1>8. CASE SocketStopped
    <2>1. CASE server = "running"
        <3>1. controller \in 1 .. MaxStarts
            BY <2>1 DEF Registered
        <3>2. BeginStop(TRUE) /\ Close
              /\ socket' = "stopped"
              /\ UNCHANGED <<isSocketShared, startTimeout, starts, task, conn, mapped, signal,
                             late>>
            BY <1>8, <2>1 DEF SocketStopped
        <3>3. Booleans'
            BY <3>2, Zenon DEF BeginStop, Close, Booleans
        <3>4. aborted' \in SUBSET (1 .. MaxStarts) /\ targets' = mapped
            BY <3>1, <3>2 DEF BeginStop, AbortedBy, Targets
        <3>5. server' = "stopping" /\ stage' = "connections" /\ controller' = 0
            BY <3>2 DEF BeginStop
        <3> QED BY <3>2, <3>3, <3>4, <3>5 DEF Booleans
    <2>2. CASE server # "running"
        <3>1. Booleans'
            BY <1>8, <2>2, Zenon DEF SocketStopped, Close, Booleans
        <3>2. /\ socket' = "stopped"
              /\ UNCHANGED <<server, stage, controller, aborted, targets, starts,
                             task, conn, mapped, signal, late>>
            BY <1>8, <2>2 DEF SocketStopped
        <3> QED BY <3>1, <3>2 DEF Booleans
    <2> QED BY <2>1, <2>2
<1>9. CASE UNCHANGED vars
    BY <1>9 DEF vars
<1> QED BY <1>1, <1>2, <1>3, <1>4, <1>5, <1>6, <1>7, <1>8, <1>9 DEF Next

(***************************************************************************)
(* What a step of one connection does, and what any other step leaves.     *)
(***************************************************************************)

\* The steps of one datagram and its connection.
ConnectionStep(a) ==
    \/ Message(a) \/ Discard(a) \/ Accept(a) \/ StartCompletes(a)
    \/ StartFails(a) \/ (\E force \in BOOLEAN : ConnectionStops(a, force))
    \/ StreamsEnd(a) \/ ConnectionStopped(a) \/ StopTarget(a)

\* The steps of the server and of the socket.
ServerStep ==
    \/ Start \/ Started \/ StartThrows \/ ConnectionsStopped \/ StopEnds \/ SocketStarts \/ SocketStopped
    \/ \E force \in BOOLEAN : Stop(force) \/ SocketStops(force)

LEMMA Cases ==
    ASSUME [Next]_vars
    PROVE  ServerStep \/ UNCHANGED vars \/ \E a \in Tasks : ConnectionStep(a)
BY DEF Next, ServerStep, ConnectionStep

\* A connection that is alive is another's business; only its own steps move it.
LEMMA ConnectionFields ==
    ASSUME TypeOK, Course, NEW a \in Tasks, ConnectionStep(a)
    PROVE  /\ UNCHANGED stopVars
           /\ \A b \in Tasks \ {a} : conn'[b] = conn[b] /\ signal'[b] = signal[b]
           /\ conn[a] # "none" => conn'[a] # "none" /\ late' = late
           /\ conn[a] = "ended" => conn'[a] = "ended"
           /\ conn[a] # "none" /\ conn'[a] = "starting" =>
                  conn[a] = "starting" /\ signal'[a] = signal[a]
           /\ task'[a] # "done" => conn'[a] = "none"
           /\ \A b \in Tasks \ {a} : task'[b] = task[b]
           /\ \/ mapped' = mapped /\ (a \in Alive <=> a \in Alive')
              \/ mapped' = Without(Id(a)) /\ a \notin Alive' /\ conn'[a] # "none"
              \/ /\ mapped' = With(a) /\ conn'[a] = "starting" /\ conn[a] = "none"
                 /\ signal'[a] = controller
                 /\ late' = IF answering THEN late ELSE late \cup {a}
           /\ late \subseteq late'
<1> USE DEF TypeOK, Alive, Course
<1>1. CASE Message(a)
    BY <1>1 DEF Message
<1>2. CASE Discard(a)
    BY <1>2 DEF Discard
<1>3. CASE Accept(a)
    BY <1>3 DEF Accept, SignalNow
<1>4. CASE StartCompletes(a)
    BY <1>4 DEF StartCompletes
<1>5. CASE StartFails(a)
    BY <1>5 DEF StartFails
<1>6. CASE (\E force \in BOOLEAN : ConnectionStops(a, force)) \/ StreamsEnd(a)
    BY <1>6 DEF ConnectionStops, StreamsEnd
<1>7. CASE ConnectionStopped(a)
    BY <1>7 DEF ConnectionStopped
<1>8. CASE StopTarget(a)
    BY <1>8 DEF StopTarget, stopVars
<1> QED BY <1>1, <1>2, <1>3, <1>4, <1>5, <1>6, <1>7, <1>8 DEF ConnectionStep

LEMMA ServerFields ==
    ASSUME ServerStep \/ UNCHANGED vars
    PROVE  UNCHANGED <<task, conn, mapped, signal, late>>
<1>1. ASSUME NEW force \in BOOLEAN, Stop(force) \/ SocketStops(force)
      PROVE  UNCHANGED <<task, conn, mapped, signal, late>>
    BY <1>1 DEF Stop, SocketStops
<1>2. ASSUME \/ Start \/ Started \/ StartThrows
             \/ ConnectionsStopped \/ StopEnds \/ SocketStarts \/ SocketStopped
      PROVE  UNCHANGED <<task, conn, mapped, signal, late>>
    BY <1>2 DEF Start, Started, StartThrows, ConnectionsStopped, StopEnds, SocketStarts, SocketStopped
<1>3. CASE UNCHANGED vars
    BY <1>3 DEF vars
<1> QED BY <1>1, <1>2, <1>3 DEF ServerStep

-----------------------------------------------------------------------------
(***************************************************************************)
(* One lemma per part of the invariant.                                    *)
(***************************************************************************)

LEMMA CourseStep == TypeOK /\ Course /\ [Next]_vars => Course'
<1> SUFFICES ASSUME TypeOK, Course, [Next]_vars PROVE Course'
    OBVIOUS
<1>1. CASE ServerStep \/ UNCHANGED vars
    BY <1>1, ServerFields DEF Course
<1>2. ASSUME NEW a \in Tasks, ConnectionStep(a) PROVE Course'
    BY <1>2, ConnectionFields DEF Course
<1> QED BY <1>1, <1>2, Cases

\* The map, its entries and those that lost theirs.
LEMMA MapStep ==
    TypeOK /\ Course /\ EntriesAlive /\ LostOnlyToRival /\ [Next]_vars
        => EntriesAlive' /\ LostOnlyToRival'
<1> SUFFICES ASSUME TypeOK, Course, EntriesAlive, LostOnlyToRival, [Next]_vars
             PROVE  EntriesAlive' /\ LostOnlyToRival'
    OBVIOUS
<1>1. CASE ServerStep \/ UNCHANGED vars
    BY <1>1, ServerFields DEF EntriesAlive, LostOnlyToRival, Alive
<1>2. ASSUME NEW a \in Tasks, ConnectionStep(a)
      PROVE  EntriesAlive' /\ LostOnlyToRival'
    <2>1. \A b \in Tasks \ {a} : b \in Alive <=> b \in Alive'
        BY <1>2, ConnectionFields DEF Alive
    <2>2. \A b \in Tasks : conn[b] # "none" => conn'[b] # "none"
        BY <1>2, ConnectionFields
    <2>3. CASE mapped' = mapped /\ (a \in Alive <=> a \in Alive')
        BY <2>1, <2>2, <2>3 DEF EntriesAlive, LostOnlyToRival, TypeOK, Alive
    <2>4. CASE mapped' = Without(Id(a)) /\ a \notin Alive' /\ conn'[a] # "none"
        <3>1. EntriesAlive'
            BY <2>1, <2>4, MapFacts DEF EntriesAlive, TypeOK
        <3>2. ASSUME NEW c \in Alive' \ mapped'
              PROVE  \E b \in Tasks \ {c} : Id(b) = Id(c) /\ conn'[b] # "none"
            <4>1. c \in Tasks \ {a} /\ c \in Alive
                BY <2>1, <2>4, <3>2 DEF Alive
            <4>2. CASE Id(c) = Id(a)
                BY <2>4, <4>1, <4>2
            <4>3. CASE Id(c) # Id(a)
                BY <2>2, <2>4, <3>2, <4>1, <4>3, MapFacts DEF LostOnlyToRival
            <4> QED BY <4>2, <4>3
        <3> QED BY <3>1, <3>2 DEF LostOnlyToRival
    <2>5. CASE mapped' = With(a) /\ conn'[a] = "starting"
        <3>0. a \in Alive'
            BY <2>5 DEF Alive
        <3>1. EntriesAlive'
            BY <2>1, <2>5, <3>0, MapFacts DEF EntriesAlive, TypeOK
        <3>2. ASSUME NEW c \in Alive' \ mapped'
              PROVE  \E b \in Tasks \ {c} : Id(b) = Id(c) /\ conn'[b] # "none"
            <4>1. c \in Tasks \ {a} /\ c \in Alive
                BY <2>1, <2>5, <3>2, MapFacts DEF Alive
            <4>2. CASE Id(c) = Id(a)
                BY <2>5, <4>1, <4>2
            <4>3. CASE Id(c) # Id(a)
                BY <2>2, <2>5, <3>2, <4>1, <4>3, MapFacts DEF LostOnlyToRival
            <4> QED BY <4>2, <4>3
        <3> QED BY <3>1, <3>2 DEF LostOnlyToRival
    <2> QED BY <1>2, <2>3, <2>4, <2>5, ConnectionFields
<1> QED BY <1>1, <1>2, Cases

\* BeginStop is the only step that makes a server stop, from running.
LEMMA ServerCases ==
    ASSUME TypeOK, Registered, ServerStep \/ UNCHANGED vars
    PROVE  \/ UNCHANGED <<server, stage, answering, controller, aborted, starts, targets>>
           \/ Start \/ Started \/ StartThrows
           \/ \E force \in BOOLEAN : server = "running" /\ BeginStop(force) /\ starts' = starts
           \/ ConnectionsStopped
           \/ StopEnds
<1>1. ASSUME NEW force \in BOOLEAN, Stop(force)
      PROVE  server = "running" /\ BeginStop(force) /\ starts' = starts
    BY <1>1 DEF Stop
<1>2. ASSUME NEW force \in BOOLEAN, SocketStops(force)
      PROVE  UNCHANGED stopVars
    BY <1>2 DEF SocketStops
<1>3. CASE SocketStarts
    BY <1>3 DEF SocketStarts, stopVars
<1>4. CASE SocketStopped /\ server = "running"
    <2>1. BeginStop(TRUE) /\ starts' = starts
        BY <1>4 DEF SocketStopped
    <2> QED BY <1>4, <2>1
<1>5. CASE SocketStopped /\ server # "running"
    BY <1>5 DEF SocketStopped
<1>6. CASE UNCHANGED vars
    BY <1>6 DEF vars, stopVars
<1> QED BY <1>1, <1>2, <1>3, <1>4, <1>5, <1>6 DEF ServerStep, stopVars

LEMMA RegisteredStep == TypeOK /\ Registered /\ Course /\ [Next]_vars => Registered'
<1> SUFFICES ASSUME TypeOK, Registered, Course, [Next]_vars PROVE Registered'
    OBVIOUS
<1> USE DEF Registered
<1>1. CASE UNCHANGED <<server, stage, answering, controller, aborted, starts, targets>>
    BY <1>1
<1>2. CASE Start \/ Started \/ StartThrows
    <2>1. CASE Start
        <3>1. /\ starts' = starts + 1 /\ controller' = starts + 1 /\ UNCHANGED <<aborted, stage>>
              /\ server = "stopped"
              /\ \/ server' = "running" /\ answering' = TRUE
                 \/ server' \in {"stopped", "starting"} /\ answering' = answering
            BY <2>1 DEF Start
        <3> QED BY <3>1 DEF TypeOK
    <2>2. CASE Started
        BY <2>2 DEF Started
    <2>3. CASE StartThrows
        BY <2>3 DEF StartThrows
    <2> QED BY <1>2, <2>1, <2>2, <2>3
<1>3. ASSUME NEW force \in BOOLEAN, server = "running", BeginStop(force), starts' = starts
      PROVE  Registered'
    <2>1. /\ answering' = FALSE /\ server' = "stopping" /\ controller' = 0
          /\ stage' = "connections" /\ aborted' \subseteq aborted \cup {starts}
        BY <1>3 DEF BeginStop, AbortedBy
    <2> QED BY <1>3, <2>1 DEF TypeOK
<1>4. CASE ConnectionsStopped
    BY <1>4 DEF ConnectionsStopped
<1>5. CASE StopEnds
    BY <1>5 DEF StopEnds
<1>6. ASSUME NEW a \in Tasks, ConnectionStep(a)
      PROVE  Registered'
    BY <1>1, <1>6, ConnectionFields DEF stopVars
<1> QED BY <1>1, <1>2, <1>3, <1>4, <1>5, <1>6, Cases, ServerCases

LEMMA LeavesStep ==
    TypeOK /\ Course /\ Registered /\ EntriesAlive /\ Leaves /\ [Next]_vars => Leaves'
<1> SUFFICES ASSUME TypeOK, Course, Registered, EntriesAlive, Leaves, [Next]_vars
             PROVE  Leaves'
    OBVIOUS
<1> USE DEF Leaves
<1>1. ASSUME ServerStep \/ UNCHANGED vars PROVE Leaves'
    <2>1. UNCHANGED <<conn, mapped, late>> /\ Alive' = Alive
        BY <1>1, ServerFields DEF Alive
    <2>2. CASE UNCHANGED <<server, stage, answering, controller, aborted, starts, targets>>
        BY <2>1, <2>2
    <2>3. CASE Start \/ Started \/ StartThrows
        <3>1. /\ server \in {"stopped", "starting"} /\ server' # "stopping"
              /\ UNCHANGED <<stage, targets>>
            BY <2>3 DEF Start, Started, StartThrows
        <3> QED BY <2>1, <3>1
    <2>4. ASSUME NEW force \in BOOLEAN, server = "running", BeginStop(force)
          PROVE  Leaves'
        <3>1. server' = "stopping" /\ stage' = "connections" /\ targets' = mapped
            BY <2>4 DEF BeginStop, Targets
        <3>2. \A a \in mapped : conn[a] # "none"
            BY DEF EntriesAlive, Alive
        <3> QED BY <2>1, <3>1, <3>2
    <2>5. CASE ConnectionsStopped
        BY <2>1, <2>5 DEF ConnectionsStopped
    <2>6. CASE StopEnds
        <3>1. server = "stopping" /\ stage = "closedP" /\ stage' = "none" /\ server' = "stopped"
              /\ targets' = {}
            BY <2>6 DEF StopEnds, Registered
        <3> QED BY <2>1, <3>1 DEF EntriesAlive
    <2> QED BY <1>1, <2>2, <2>3, <2>4, <2>5, <2>6, ServerCases
<1>2. ASSUME NEW a \in Tasks, ConnectionStep(a) PROVE Leaves'
    <2>0. UNCHANGED <<server, stage, answering, controller, targets>>
        BY <1>2, ConnectionFields DEF stopVars
    <2>1. \A b \in Tasks : conn[b] # "none" => conn'[b] # "none"
        BY <1>2, ConnectionFields
    <2>2. targets \cap Alive' \subseteq targets \cap Alive
        <3> SUFFICES ASSUME NEW b \in targets, b \in Alive' PROVE b \in Alive
            OBVIOUS
        <3>1. b \in Tasks /\ conn[b] # "none"
            BY DEF TypeOK
        <3> QED BY <1>2, <3>1, ConnectionFields DEF Alive, TypeOK
    <2>3. CASE mapped' = mapped
        <3>1. late \subseteq late'
            BY <1>2, ConnectionFields
        <3> QED BY <2>0, <2>1, <2>2, <2>3, <3>1 DEF TypeOK
    <2>4. CASE mapped' = Without(Id(a))
        <3>1. mapped' \subseteq mapped /\ late \subseteq late'
            BY <1>2, <2>4, MapFacts, ConnectionFields
        <3> QED BY <2>0, <2>1, <2>2, <3>1 DEF TypeOK
    <2>5. CASE mapped' = With(a) /\ late' = IF answering THEN late ELSE late \cup {a}
        <3>1. mapped' \subseteq mapped \cup {a}
            BY <2>5, MapFacts
        <3>2. server # "running" => a \in late'
            BY <2>5 DEF Registered
        <3>3. late \subseteq late'
            BY <2>5
        <3> QED BY <2>0, <2>1, <2>2, <3>1, <3>2, <3>3 DEF TypeOK
    <2> QED BY <1>2, <2>3, <2>4, <2>5, ConnectionFields
<1> QED BY <1>1, <1>2, Cases

LEMMA SignalsStep ==
    TypeOK /\ Course /\ Registered /\ EntriesAlive /\ Leaves /\ Signals /\ [Next]_vars
        => Signals'
<1> SUFFICES ASSUME TypeOK, Course, Registered, EntriesAlive, Leaves, Signals, [Next]_vars
             PROVE  Signals'
    OBVIOUS
<1> USE DEF Signals
<1>1. ASSUME ServerStep \/ UNCHANGED vars PROVE Signals'
    <2>1. UNCHANGED <<mapped, late, signal, conn>>
        BY <1>1, ServerFields
    <2>2. CASE UNCHANGED <<server, stage, answering, controller, aborted, starts, targets>>
        BY <2>1, <2>2
    <2>3. CASE Start \/ Started \/ StartThrows
        BY <2>1, <2>3 DEF Start, Started, StartThrows, Leaves
    <2>4. ASSUME NEW force \in BOOLEAN, BeginStop(force)
          PROVE  Signals'
        BY <2>4 DEF BeginStop
    <2>5. CASE ConnectionsStopped
        BY <2>1, <2>5 DEF ConnectionsStopped
    <2>6. CASE StopEnds
        BY <2>6 DEF StopEnds
    <2> QED BY <1>1, <2>2, <2>3, <2>4, <2>5, <2>6, ServerCases
<1>2. ASSUME NEW a \in Tasks, ConnectionStep(a), server = "running" PROVE Signals'
    <2>0. UNCHANGED <<server, starts, controller>> /\ controller = starts
        BY <1>2, ConnectionFields DEF stopVars, Registered
    <2>1. ASSUME NEW b \in mapped, conn'[b] = "starting"
          PROVE  conn[b] = "starting" /\ signal'[b] = signal[b]
        <3>1. b \in Tasks /\ conn[b] # "none"
            BY DEF EntriesAlive, Alive
        <3> QED BY <1>2, <2>1, <3>1, ConnectionFields
    <2>2. late \subseteq late'
        BY <1>2, ConnectionFields
    <2>3. CASE mapped' \subseteq mapped
        BY <1>2, <2>0, <2>1, <2>2, <2>3
    <2>4. CASE mapped' = With(a) /\ signal'[a] = controller
        <3>1. mapped' \subseteq mapped \cup {a}
            BY <2>4, MapFacts
        <3> QED BY <1>2, <2>0, <2>1, <2>2, <2>4, <3>1
    <2>5. Without(Id(a)) \subseteq mapped
        BY MapFacts
    <2> QED BY <1>2, <2>3, <2>4, <2>5, ConnectionFields
<1>3. ASSUME NEW a \in Tasks, ConnectionStep(a), server # "running" PROVE Signals'
    <2>1. server' = server
        BY <1>3, ConnectionFields DEF stopVars
    <2> QED BY <1>3, <2>1
<1> QED BY <1>1, <1>2, <1>3, Cases

LEMMA AbortsStep ==
    TypeOK /\ Course /\ Registered /\ Leaves /\ Signals /\ ForcedStopAborts /\ [Next]_vars
        => ForcedStopAborts'
<1> SUFFICES ASSUME TypeOK, Course, Registered, Leaves, Signals, ForcedStopAborts, [Next]_vars
             PROVE  ForcedStopAborts'
    OBVIOUS
<1> USE DEF ForcedStopAborts, Forced
<1>1. ASSUME ServerStep \/ UNCHANGED vars PROVE ForcedStopAborts'
    <2>1. UNCHANGED <<conn, mapped, late, signal>>
        BY <1>1, ServerFields
    <2>2. CASE UNCHANGED <<server, stage, answering, controller, aborted, starts, targets>>
        BY <2>1, <2>2
    <2>3. CASE Start \/ Started \/ StartThrows
        BY <2>3 DEF Start, Started, StartThrows
    <2>4. ASSUME NEW force \in BOOLEAN, server = "running", BeginStop(force), starts' = starts
          PROVE  ForcedStopAborts'
        <3>1. targets' = mapped /\ aborted' = AbortedBy(force)
            BY <2>4 DEF BeginStop, Targets
        <3>2. CASE force
            BY <2>1, <2>4, <3>1, <3>2 DEF AbortedBy, Registered, Signals
        <3>3. CASE ~ force
            BY <2>4, <3>1, <3>3 DEF AbortedBy, Registered
        <3> QED BY <3>2, <3>3
    <2>5. CASE ConnectionsStopped
        BY <2>1, <2>5 DEF ConnectionsStopped
    <2>6. CASE StopEnds
        BY <2>6 DEF StopEnds
    <2> QED BY <1>1, <2>2, <2>3, <2>4, <2>5, <2>6, ServerCases
<1>2. ASSUME NEW a \in Tasks, ConnectionStep(a) PROVE ForcedStopAborts'
    <2>0. UNCHANGED <<server, starts, aborted, targets>> /\ late \subseteq late'
        BY <1>2, ConnectionFields DEF stopVars
    <2>1. ASSUME NEW b \in targets, conn'[b] = "starting"
          PROVE  conn[b] = "starting" /\ signal'[b] = signal[b]
        <3>1. b \in Tasks /\ conn[b] # "none"
            BY DEF Leaves, TypeOK
        <3> QED BY <1>2, <2>1, <3>1, ConnectionFields DEF TypeOK
    <2> QED BY <2>0, <2>1
<1> QED BY <1>1, <1>2, Cases

\* Whichever of the two ends first, the other follows.
LEMMA EndsStep == TypeOK /\ Course /\ Registered /\ Ends /\ [Next]_vars => Ends'
<1> SUFFICES ASSUME TypeOK, Course, Registered, Ends, [Next]_vars PROVE Ends'
    OBVIOUS
<1> USE DEF Ends
<1>1. ASSUME NEW a \in Tasks, ConnectionStep(a) PROVE Ends'
    <2>1. UNCHANGED stopVars /\ socket' = socket
        BY <1>1, ConnectionFields
        DEF ConnectionStep, Message, Discard, Accept, StartCompletes, StartFails,
            ConnectionStops, StreamsEnd, ConnectionStopped, StopTarget
    <2> QED BY <2>1 DEF stopVars
<1>2. CASE Start \/ Started \/ StartThrows
    BY <1>2 DEF Start, Started, StartThrows, ResetClosed
<1>3. ASSUME NEW force \in BOOLEAN, Stop(force) PROVE Ends'
    BY <1>3 DEF Stop, BeginStop
<1>4. ASSUME NEW force \in BOOLEAN, SocketStops(force) PROVE Ends'
    BY <1>4 DEF SocketStops, stopVars
<1>5. CASE ConnectionsStopped
    <2>1. server = "stopping" /\ UNCHANGED <<server, isSocketShared>>
        BY <1>5 DEF ConnectionsStopped, Registered
    <2>2. CASE closed /\ UNCHANGED <<closed, closedP, socket>>
        BY <2>1, <2>2
    <2>3. CASE ~ closed /\ isSocketShared /\ Close /\ UNCHANGED socket
        <3>1. closed' /\ isSocketShared'
            BY <2>1, <2>3, Zenon DEF Close
        <3> QED BY <2>1, <3>1
    <2>4. CASE ~ closed /\ socket' = "stopping" /\ UNCHANGED <<closed, closedP>>
        <3>1. ~ closedP'
            BY <2>4, Zenon
        <3> QED BY <2>1, <3>1
    <2> QED BY <1>5, <2>2, <2>3, <2>4 DEF ConnectionsStopped
<1>6. CASE StopEnds
    BY <1>6 DEF StopEnds, RenewClosedP
<1>7. CASE SocketStarts
    BY <1>7 DEF SocketStarts, stopVars
<1>8. CASE SocketStopped
    <2>1. socket = "stopping" /\ socket' = "stopped" /\ isSocketShared' = isSocketShared
        BY <1>8 DEF SocketStopped
    <2>2. CASE server = "running"
        BY <1>8, <2>1, <2>2 DEF SocketStopped, BeginStop, Close
    <2>3. CASE server # "running"
        BY <1>8, <2>1, <2>3 DEF SocketStopped, Close, TypeOK
    <2> QED BY <2>2, <2>3
<1>9. CASE UNCHANGED vars
    BY <1>9 DEF vars, stopVars
<1> QED BY <1>1, <1>2, <1>3, <1>4, <1>5, <1>6, <1>7, <1>8, <1>9, Cases DEF ServerStep

-----------------------------------------------------------------------------

\* The inductive invariant of every run of a server.
THEOREM Inductive == Spec => []IInv
<1>1. IInv /\ [Next]_vars => IInv'
    BY TypeStep, CourseStep, RegisteredStep, MapStep, LeavesStep, SignalsStep, AbortsStep,
       EndsStep
    DEF IInv
<1> QED BY <1>1, InitIInv, PTL DEF Spec

\* Every variable has its type: only controllers that a start made are aborted.
THEOREM TypeCorrect == Spec => []TypeOK
<1>1. IInv => TypeOK
    BY DEF IInv
<1> QED BY <1>1, Inductive, PTL

\* The connection map names only connections that live, and a live one loses
\* its entry to nobody but a rival of the same id, however many datagrams are
\* validated at once and whenever the server or the socket stops.
THEOREM MapTheorem == Spec => []MapIsTrue
<1>1. IInv => MapIsTrue
    BY DEF IInv, MapIsTrue
<1> QED BY <1>1, Inductive, PTL

\* A server that runs has a socket that runs or is about to stop it, and a
\* closedP that is pending; a stopped one has stopped the socket it made.
THEOREM EndsTheorem == Spec => []EndsWithSocket
<1>1. IInv => EndsWithSocket
    BY DEF IInv, Ends, EndsWithSocket
<1> QED BY <1>1, Inductive, PTL

\* A stop of the server leaves no connection in the map but those accepted when
\* it no longer answered, and a forced one has aborted each start it awaits
\* with the controller of its own start, over any number of restarts.
THEOREM StopTheorem == Spec => []StopIsThorough
<1>1. IInv => StopIsThorough
    BY DEF IInv, Leaves, StopLeavesOnlyLate, StopIsThorough
<1> QED BY <1>1, Inductive, PTL

=============================================================================
