------------------------- MODULE Supervisor_proofs -------------------------
(***************************************************************************)
(* What holds of Supervisor for every choice of the paths an outside       *)
(* program may occupy. The invariant says, for each stretch of             *)
(* supervisor::run, what is known of the two children, of the socket files *)
(* and of the error that run() will return.                                *)
(***************************************************************************)
EXTENDS Supervisor, TLAPS

\* Stretches of run(): before each child is spawned, while the handler may
\* live, and after its owner is through with it.
BeforeRunner == {"prepare", "start_runner"}
BeforeHandler == BeforeRunner \cup {"await_runner", "start_handler"}
WithHandler == {"await_handler", "bind_control", "serving", "stop_handler",
                "wait_handler", "drop_handler"}
AfterHandler == {"stop_runner", "wait_runner", "drop_runner", "ended"}

\* A file of this server has an owner that created it: a child that got as far
\* as serving, or the supervisor while it serves; after that the control socket file
\* is there only if it could not be removed. The runner's path is private.
FilesHaveOwners ==
  /\ file["runner"] # "foreign"
  /\ \A c \in Children : child[c] \in {"absent", "loading"} => file[c] # "own"
  /\ main = "serving" => file["control"] = "own"
  /\ main \notin {"serving", "killed"} /\ file["control"] = "own" => "control" \in stuck

\* The children are spawned in order.
StartedInOrder ==
  /\ main \in BeforeRunner => child["runner"] = "absent"
  /\ main \in BeforeHandler => child["handler"] = "absent"
  /\ main \in WithHandler => child["handler"] # "absent"

\* What an owner that is through with its child leaves behind.
Gone(c) == ~Alive(c) /\ (file[c] = "own" => c \in stuck /\ failed)

\* The children go in the reverse order, and an exit without success is not
\* forgotten.
StoppedInOrder ==
  /\ main \in AfterHandler => Gone("handler")
  /\ main = "ended" => Gone("runner")
  /\ main \in {"drop_handler", "drop_runner"} => failed
  /\ main \in AfterHandler /\ ~failed => child["handler"] = "ok"
  /\ main = "ended" /\ ~failed => child["runner"] = "ok"

IInv == SupervisorTypeOK /\ FilesHaveOwners /\ StartedInOrder /\ StoppedInOrder

USE DEF Children, Sockets, Starting, Stopping, Over, Alive, BeforeRunner,
        BeforeHandler, WithHandler, AfterHandler, Gone

LEMMA InitInvariant == Init => IInv
<1> SUFFICES ASSUME Init PROVE IInv
  OBVIOUS
<1>1. PICK present \in SUBSET PublicSockets :
        file = [s \in Sockets |-> IF s \in present THEN "foreign" ELSE "absent"]
  BY DEF Init
<1>2. "runner" \notin present
  BY <1>1, PathsAssumption
<1>3. /\ file \in [Sockets -> {"absent", "own", "foreign"}]
      /\ file["runner"] = "absent"
      /\ \A s \in Sockets : file[s] # "own"
  BY <1>1, <1>2
<1>4. QED
  BY <1>3 DEF Init, IInv, SupervisorTypeOK, FilesHaveOwners, StartedInOrder,
     StoppedInOrder

LEMMA StepInvariant == IInv /\ [Next]_vars => IInv'
<1> SUFFICES ASSUME IInv, [Next]_vars PROVE IInv'
  OBVIOUS
<1> USE DEF IInv, SupervisorTypeOK, FilesHaveOwners, StartedInOrder, StoppedInOrder
<1>1. CASE Prepare  BY <1>1 DEF Prepare
<1>2. CASE StartRunner  BY <1>2 DEF StartRunner, Spawn, Available
<1>3. CASE RunnerIsReady  BY <1>3 DEF RunnerIsReady, Connected, Connectable, ChildExited
<1>4. CASE RunnerIsNotReady  BY <1>4 DEF RunnerIsNotReady, StopAndRemove, Killed, Removed
<1>5. CASE StartHandler  BY <1>5 DEF StartHandler, Spawn, Available
<1>6. CASE HandlerIsReady  BY <1>6 DEF HandlerIsReady, Connected, Connectable, ChildExited
<1>7. CASE HandlerIsNotReady  BY <1>7 DEF HandlerIsNotReady, StopAndRemove, Killed, Removed
<1>8. CASE BindControl  BY <1>8 DEF BindControl, Available
<1>9. CASE InstallHandler  BY <1>9 DEF InstallHandler
<1>10. CASE StopServing  BY <1>10 DEF StopServing, Removed
<1>11. ASSUME NEW c \in Children, ShutdownAccepted(c) PROVE IInv'
  BY <1>11 DEF ShutdownAccepted, Stop, Wait
<1>12. CASE ShutdownMisdirected  BY <1>12 DEF ShutdownMisdirected
<1>13. ASSUME NEW c \in Children, ShutdownRefused(c) PROVE IInv'
  BY <1>13 DEF ShutdownRefused, StopAndRemove, Killed, Removed, Stop, After
<1>14. ASSUME NEW c \in Children, Reap(c) PROVE IInv'
  BY <1>14 DEF Reap, Removed, RemoveFails, Wait, After
<1>15. ASSUME NEW c \in Children, DropOwner(c) PROVE IInv'
  BY <1>15 DEF DropOwner, StopAndRemove, Killed, Removed, Drop
<1>16. CASE RunnerServes  BY <1>16 DEF RunnerServes
<1>17. CASE HandlerServes  BY <1>17 DEF HandlerServes
<1>18. CASE HandlerBindFails  BY <1>18 DEF HandlerBindFails
<1>19. ASSUME NEW c \in Children, ChildCrashes(c) PROVE IInv'
  BY <1>19 DEF ChildCrashes
<1>20. ASSUME NEW c \in Children, ChildDrains(c) PROVE IInv'
  BY <1>20 DEF ChildDrains
<1>21. CASE ClientStopsHandler  BY <1>21 DEF ClientStopsHandler
<1>22. CASE OpenStream \/ CloseStream  BY <1>22 DEF OpenStream, CloseStream
<1>23. CASE Interrupt  BY <1>23 DEF Interrupt
<1>24. ASSUME NEW s \in Sockets, Intrude(s) PROVE IInv'
  BY <1>24, PathsAssumption DEF Intrude
<1>25. CASE UNCHANGED vars  BY <1>25 DEF vars
<1> HIDE DEF IInv
<1>26. QED
  BY <1>1, <1>2, <1>3, <1>4, <1>5, <1>6, <1>7, <1>8, <1>9, <1>10, <1>11, <1>12,
     <1>13, <1>14, <1>15, <1>16, <1>17, <1>18, <1>19, <1>20, <1>21, <1>22, <1>23,
     <1>24, <1>25 DEF Next, MainStep, Await

LEMMA InvariantHolds == Spec => []IInv
  BY InitInvariant, StepInvariant, PTL DEF Spec

-----------------------------------------------------------------------------

\* The supervisor's state stays well typed: each child and each path is in one
\* of the states that ChildProcess and domain_socket distinguish.
THEOREM SupervisorTypeCorrect == Spec => []SupervisorTypeOK
<1>1. IInv => SupervisorTypeOK
  BY DEF IInv
<1>2. QED
  BY <1>1, InvariantHolds, PTL

\* However startup or shutdown failed, a supervisor::run that has returned left
\* no child and no file of its own that could be removed, and reported success
\* only for two successful exits whose socket files are gone.
THEOREM EveryReturnIsClean == Spec => []ReturnIsClean
<1>1. ASSUME IInv PROVE ReturnIsClean
  <2> USE DEF IInv
  <2>1. ASSUME main = "ended", NEW s \in Sockets, file[s] = "own"
        PROVE s \in stuck
    BY <1>1, <2>1 DEF FilesHaveOwners, StoppedInOrder
  <2>2. ASSUME main = "ended", NEW c \in Children
        PROVE ~Alive(c) /\ (~failed => child[c] = "ok" /\ file[c] # "own")
    BY <1>1, <2>2 DEF StoppedInOrder
  <2>3. QED
    BY <1>1, <2>1, <2>2 DEF ReturnIsClean
<1>2. QED
  BY <1>1, InvariantHolds, PTL

\* On every path of run() the model runner is stopped, or asked to, only when
\* no request handler runs.
THEOREM HandlerAlwaysGoesFirst == Spec => HandlerGoesFirst
<1>1. ASSUME IInv, [Next]_vars
      PROVE [main' # main /\ Alive("runner") /\ child'["runner"] # child["runner"]
               => ~Alive("handler")]_vars
  <2> SUFFICES ASSUME Next, main' # main, Alive("runner"),
                      child'["runner"] # child["runner"]
               PROVE ~Alive("handler")
    BY <1>1
  <2> USE <1>1 DEF IInv, SupervisorTypeOK, StartedInOrder, StoppedInOrder
  <2>1. CASE Prepare \/ InstallHandler \/ StopServing \/ BindControl
    BY <2>1 DEF Prepare, InstallHandler, StopServing, BindControl
  <2>2. CASE StartRunner \/ StartHandler
    BY <2>2 DEF StartRunner, StartHandler, Spawn
  <2>3. CASE Await
    BY <2>3 DEF Await, RunnerIsReady, RunnerIsNotReady, HandlerIsReady,
       HandlerIsNotReady, StopAndRemove
  <2>4. ASSUME NEW c \in Children, ShutdownAccepted(c) \/ ShutdownRefused(c)
        PROVE ~Alive("handler")
    BY <2>4 DEF ShutdownAccepted, ShutdownRefused, StopAndRemove, Stop
  <2>5. ASSUME NEW c \in Children, Reap(c) \/ DropOwner(c)
        PROVE ~Alive("handler")
    BY <2>5 DEF Reap, DropOwner, StopAndRemove, Drop
  <2>6. CASE ShutdownMisdirected  BY <2>6 DEF ShutdownMisdirected
  <2>7. CASE RunnerServes \/ HandlerServes \/ HandlerBindFails
    BY <2>7 DEF RunnerServes, HandlerServes, HandlerBindFails
  <2>8. ASSUME NEW c \in Children, ChildCrashes(c) \/ ChildDrains(c)
        PROVE ~Alive("handler")
    BY <2>8 DEF ChildCrashes, ChildDrains
  <2>9. CASE ClientStopsHandler \/ OpenStream \/ CloseStream \/ Interrupt
    BY <2>9 DEF ClientStopsHandler, OpenStream, CloseStream, Interrupt
  <2>10. ASSUME NEW s \in Sockets, Intrude(s) PROVE ~Alive("handler")
    BY <2>10 DEF Intrude
  <2> HIDE DEF IInv
  <2>11. QED
    BY <2>1, <2>2, <2>3, <2>4, <2>5, <2>6, <2>7, <2>8, <2>9, <2>10
       DEF Next, MainStep
<1>2. QED
  BY <1>1, InvariantHolds, PTL DEF Spec, HandlerGoesFirst

\* A file of another program at a public path survives the server, unless it
\* appeared at the handler's path after the handler had been spawned.
THEOREM ForeignFilesAreAlwaysKept == Spec => ForeignFilesAreKept
<1> DEFINE Kept == \A s \in Sockets :
       file[s] = "foreign" /\ (s = "handler" => child["handler"] = "absent")
         => file'[s] = "foreign"
<1>1. ASSUME IInv, [Next]_vars PROVE [Kept]_vars
  <2> SUFFICES ASSUME Next, NEW s \in Sockets, file[s] = "foreign",
                      s = "handler" => child["handler"] = "absent"
               PROVE file'[s] = "foreign"
    BY <1>1
  <2> USE <1>1 DEF IInv, SupervisorTypeOK, FilesHaveOwners, StartedInOrder
  <2>1. CASE Prepare \/ StartRunner \/ StartHandler \/ InstallHandler
    BY <2>1 DEF Prepare, StartRunner, StartHandler, InstallHandler
  <2>2. CASE Await
    BY <2>2 DEF Await, RunnerIsReady, RunnerIsNotReady, HandlerIsReady,
       HandlerIsNotReady, StopAndRemove, Removed
  <2>3. CASE BindControl  BY <2>3 DEF BindControl, Available
  <2>4. CASE StopServing  BY <2>4 DEF StopServing, Removed
  <2>5. ASSUME NEW c \in Children, ShutdownAccepted(c) \/ ShutdownRefused(c)
        PROVE file'[s] = "foreign"
    BY <2>5 DEF ShutdownAccepted, ShutdownRefused, StopAndRemove, Removed, Stop
  <2>6. ASSUME NEW c \in Children, Reap(c) \/ DropOwner(c)
        PROVE file'[s] = "foreign"
    BY <2>6 DEF Reap, DropOwner, StopAndRemove, Removed, Wait, Drop
  <2>7. CASE ShutdownMisdirected  BY <2>7 DEF ShutdownMisdirected
  <2>8. CASE RunnerServes \/ HandlerServes \/ HandlerBindFails
    BY <2>8 DEF RunnerServes, HandlerServes, HandlerBindFails
  <2>9. ASSUME NEW c \in Children, ChildCrashes(c) \/ ChildDrains(c)
        PROVE file'[s] = "foreign"
    BY <2>9 DEF ChildCrashes, ChildDrains
  <2>10. CASE ClientStopsHandler \/ OpenStream \/ CloseStream \/ Interrupt
    BY <2>10 DEF ClientStopsHandler, OpenStream, CloseStream, Interrupt
  <2>11. ASSUME NEW t \in Sockets, Intrude(t) PROVE file'[s] = "foreign"
    BY <2>11 DEF Intrude
  <2> HIDE DEF IInv
  <2>12. QED
    BY <2>1, <2>2, <2>3, <2>4, <2>5, <2>6, <2>7, <2>8, <2>9, <2>10, <2>11
       DEF Next, MainStep
<1>2. QED
  BY <1>1, InvariantHolds, PTL DEF Spec, ForeignFilesAreKept

=============================================================================
