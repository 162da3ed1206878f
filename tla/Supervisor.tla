----------------------------- MODULE Supervisor -----------------------------
(***************************************************************************)
(* The process tree of one server: the main process starts the model       *)
(* runner, then the request handler, binds the control socket, serves      *)
(* until it is told to stop, and takes everything down in the reverse      *)
(* order (supervisor.rs, main_process/server.rs, the two client.rs,        *)
(* utils/child_process.rs, utils/domain_socket.rs, utils/rpc_shutdown.rs). *)
(*                                                                         *)
(* Everything that can go wrong underneath is a choice: a child that fails *)
(* or never gets ready, a socket file that cannot be removed, an RPC that  *)
(* fails, a Ctrl-C at any moment, and a program outside this server that   *)
(* creates a file at one of the public socket paths.                       *)
(***************************************************************************)
EXTENDS Naturals

CONSTANTS
  PublicSockets,   \* paths where an outside program's file may lie at the start
  Intruded         \* paths where it may also appear later

Children == {"runner", "handler"}
Sockets == Children \cup {"control"}

ASSUME PathsAssumption == Intruded \subseteq Sockets \ {"runner"}
                          /\ PublicSockets \subseteq Sockets \ {"runner"}

VARIABLES
  main,      \* where the supervisor is in run()
  installed, \* TRUE once tokio's Ctrl-C handler is in place
  failed,    \* TRUE once an error is to be returned
  child,     \* the state of each child process
  armed,     \* the children whose RpcShutdown still holds its sender
  file,      \* what lies at each socket path
  stuck,     \* the socket files the system refuses to remove
  channel,   \* whom the owner's RPC client of each child talks to
  streams    \* TRUE while a client's generation stream is open

vars == <<main, installed, failed, child, armed, file, stuck, channel, streams>>

Starting == {"prepare", "start_runner", "await_runner", "start_handler",
             "await_handler", "bind_control"}
Stopping == {"stop_handler", "wait_handler", "stop_runner", "wait_runner",
             "drop_handler", "drop_runner"}
Over == {"ended", "killed"}

Stop(c) == IF c = "handler" THEN "stop_handler" ELSE "stop_runner"
Wait(c) == IF c = "handler" THEN "wait_handler" ELSE "wait_runner"
Drop(c) == IF c = "handler" THEN "drop_handler" ELSE "drop_runner"

Alive(c) == child[c] \in {"loading", "serving", "draining"}

SupervisorTypeOK ==
  /\ main \in Starting \cup {"serving"} \cup Stopping \cup Over
  /\ installed \in BOOLEAN /\ failed \in BOOLEAN
  /\ child \in [Children -> {"absent", "loading", "serving", "draining", "ok", "crashed"}]
  /\ armed \subseteq Children
  /\ file \in [Sockets -> {"absent", "own", "foreign"}]
  /\ stuck \subseteq Sockets
  /\ channel \in [Children -> {"none", "own", "foreign"}]
  /\ streams \in BOOLEAN

Init ==
  /\ main = "prepare"
  /\ installed = FALSE /\ failed = FALSE
  /\ child = [c \in Children |-> "absent"]
  /\ armed = {}
  /\ file \in {[s \in Sockets |-> IF s \in present THEN "foreign" ELSE "absent"] :
                 present \in SUBSET PublicSockets}
  /\ stuck \in SUBSET Sockets
  /\ channel = [c \in Children |-> "none"]
  /\ streams = FALSE

-----------------------------------------------------------------------------
(* What the owner of a child can do with it. *)

\* ChildProcess::stop: kill and reap a child that still runs; one that has
\* exited keeps its status. A stream ends with either process.
Killed(c) == IF Alive(c) THEN "crashed" ELSE child[c]

\* domain_socket::remove: whatever file is there goes, unless the system
\* refuses; a missing file is no error.
Removed(s) == IF s \in stuck THEN file[s] ELSE "absent"
RemoveFails(s) == s \in stuck /\ file[s] # "absent"

\* domain_socket::ensure_available
Available(s) == file[s] = "absent"

\* spawn: the executable again, in a process group of its own, so that the
\* terminal's Ctrl-C reaches the main process only.
Spawn(c) == child' = [child EXCEPT ![c] = "loading"]

\* Kill the child and remove its file: the clean-up of a failed start, of a
\* failed shutdown RPC and of Drop.
StopAndRemove(c) ==
  /\ child' = [child EXCEPT ![c] = Killed(c)]
  /\ armed' = armed \ {c}
  /\ file' = [file EXCEPT ![c] = Removed(c)]
  /\ streams' = (streams /\ ~Alive(c))

\* domain_socket::connect: somebody listens at the path.
Connectable(c) == file[c] = "foreign" \/ (file[c] = "own" /\ child[c] = "serving")

\* One round of domain_socket::wait_for_server, ended by a child that exited,
\* by a connection, or by the timeout.
ChildExited(c) == ~Alive(c)
Connected(c) ==
  /\ ~ChildExited(c)
  /\ Connectable(c)
  /\ channel' = [channel EXCEPT ![c] = file[c]]

-----------------------------------------------------------------------------
(* supervisor::run, up to the point where it serves. *)

\* Validation, the downloads and the runtime directory, any of which may fail.
Prepare ==
  /\ main = "prepare"
  /\ \/ main' = "start_runner" /\ failed' = FALSE
     \/ main' = "ended" /\ failed' = TRUE
  /\ UNCHANGED <<installed, child, armed, file, stuck, channel, streams>>

\* ModelRunnerProcess::start as far as spawn; the path lies in the fresh
\* runtime directory.
StartRunner ==
  /\ main = "start_runner"
  /\ \/ Available("runner") /\ Spawn("runner") /\ main' = "await_runner" /\ failed' = failed
     \/ main' = "ended" /\ failed' = TRUE /\ child' = child
  /\ UNCHANGED <<installed, armed, file, stuck, channel, streams>>

\* The rest of ModelRunnerProcess::start.
RunnerIsReady ==
  /\ main = "await_runner"
  /\ Connected("runner")
  /\ main' = "start_handler"
  /\ UNCHANGED <<installed, failed, child, armed, file, stuck, streams>>

\* The child exited, or the wait timed out, which it may do at any round.
RunnerIsNotReady ==
  /\ main = "await_runner"
  /\ StopAndRemove("runner")
  /\ main' = "ended" /\ failed' = TRUE
  /\ UNCHANGED <<installed, stuck, channel>>

\* RequestHandlerProcess::start as far as spawn. An error sends the supervisor
\* to the shutdown of the runner.
StartHandler ==
  /\ main = "start_handler"
  /\ \/ Available("handler") /\ Spawn("handler") /\ main' = "await_handler" /\ failed' = failed
     \/ main' = "stop_runner" /\ failed' = TRUE /\ child' = child
  /\ UNCHANGED <<installed, armed, file, stuck, channel, streams>>

HandlerIsReady ==
  /\ main = "await_handler"
  /\ Connected("handler")
  /\ main' = "bind_control"
  /\ UNCHANGED <<installed, failed, child, armed, file, stuck, streams>>

\* Mutant: the wait polls until the child has exited, without a timeout.
HandlerExitedEarly ==
  /\ main = "await_handler"
  /\ ChildExited("handler")
  /\ StopAndRemove("handler")
  /\ main' = "stop_runner" /\ failed' = TRUE
  /\ UNCHANGED <<installed, stuck, channel>>

\* The file at the public path goes with the child, whoever created it.
HandlerIsNotReady ==
  /\ main = "await_handler"
  /\ StopAndRemove("handler")
  /\ main' = "stop_runner" /\ failed' = TRUE
  /\ UNCHANGED <<installed, stuck, channel>>

\* Mutant: bind replaces a stale file instead of refusing to start.
BindControlAnyway ==
  /\ main = "bind_control"
  /\ file' = [file EXCEPT !["control"] = "own"]
  /\ main' = "serving"
  /\ UNCHANGED <<installed, failed, child, armed, stuck, channel, streams>>

\* ControlServer::bind. A file at the path, or a failing bind, returns from
\* run at once, which drops the two process owners.
BindControl ==
  /\ main = "bind_control"
  /\ \/ /\ Available("control")
        /\ file' = [file EXCEPT !["control"] = "own"]
        /\ main' = "serving" /\ failed' = failed
     \/ main' = "drop_handler" /\ failed' = TRUE /\ file' = file
  /\ UNCHANGED <<installed, child, armed, stuck, channel, streams>>

\* The select is polled for the first time: ctrl_c() installs its handler,
\* which stays for good.
InstallHandler ==
  /\ main = "serving" /\ ~installed
  /\ installed' = TRUE
  /\ UNCHANGED <<main, failed, child, armed, file, stuck, channel, streams>>

\* The select: Ctrl-C, the control RPC, or an error of either. The control server
\* is dropped with its future and removes its file; if that fails, ControlServer::drop
\* only logs it, and run() goes on as if the file were gone.
StopServing ==
  /\ main = "serving" /\ installed
  /\ main' = "stop_handler"
  /\ failed' \in {failed, TRUE}
  /\ file' = [file EXCEPT !["control"] = Removed("control")]
  /\ UNCHANGED <<installed, child, armed, stuck, channel, streams>>

-----------------------------------------------------------------------------
(* Taking down: shutdown() of each owner, then the drops. *)

\* Where run() goes once it is done with child c.
After(c) == IF c = "handler" THEN "stop_runner" ELSE "ended"

\* The shutdown RPC is accepted: RpcShutdown::trigger takes the sender once.
ShutdownAccepted(c) ==
  /\ main = Stop(c)
  /\ channel[c] = "own" /\ child[c] = "serving" /\ c \in armed
  /\ child' = [child EXCEPT ![c] = "draining"]
  /\ armed' = armed \ {c}
  /\ main' = Wait(c)
  /\ UNCHANGED <<installed, failed, file, stuck, channel, streams>>

\* Another server took the call, as it answers at the child's path.
ShutdownMisdirected ==
  /\ main = "stop_handler"
  /\ channel["handler"] = "foreign"
  /\ main' = "wait_handler"
  /\ UNCHANGED <<installed, failed, child, armed, file, stuck, channel, streams>>

\* The RPC fails: no server, no longer armed, or a broken transport. The child
\* is stopped by force and the error is what run() will return.
ShutdownRefused(c) ==
  /\ main = Stop(c)
  /\ StopAndRemove(c)
  /\ failed' = TRUE
  /\ main' = After(c)
  /\ UNCHANGED <<installed, stuck, channel>>

\* Mutant: the result of the wait is dropped once the file is removed.
ReapIgnoringStatus(c) ==
  /\ main = Wait(c)
  /\ ~Alive(c)
  /\ file' = [file EXCEPT ![c] = Removed(c)]
  /\ failed' = (failed \/ RemoveFails(c))
  /\ main' = After(c)
  /\ UNCHANGED <<installed, child, armed, stuck, channel, streams>>

\* ChildProcess::wait, then the removal. An unsuccessful exit or a failed
\* removal is an error, but neither keeps the other from being tried. The drop
\* of the owner repeats both at once, on an exited child and a removed file.
Reap(c) ==
  /\ main = Wait(c)
  /\ ~Alive(c)
  /\ file' = [file EXCEPT ![c] = Removed(c)]
  /\ failed' = (failed \/ child[c] # "ok" \/ RemoveFails(c))
  /\ main' = After(c)
  /\ UNCHANGED <<installed, child, armed, stuck, channel, streams>>

\* Mutant: the owners are dropped in the order of their declaration.
DropOwnerFirstDeclared(c) ==
  /\ main = Drop(IF c = "handler" THEN "runner" ELSE "handler")
  /\ StopAndRemove(c)
  /\ main' = IF c = "runner" THEN "drop_runner" ELSE "ended"
  /\ UNCHANGED <<installed, failed, stuck, channel>>

\* Drop of the two owners when run() returns early, last declared first.
DropOwner(c) ==
  /\ main = Drop(c)
  /\ StopAndRemove(c)
  /\ main' = IF c = "handler" THEN "drop_runner" ELSE "ended"
  /\ UNCHANGED <<installed, failed, stuck, channel>>

-----------------------------------------------------------------------------
(* The children, the clients and the world around them. *)

\* The runner binds its socket once every backend is loaded.
RunnerServes ==
  /\ child["runner"] = "loading" /\ file["runner"] = "absent"
  /\ child' = [child EXCEPT !["runner"] = "serving"]
  /\ armed' = armed \cup {"runner"}
  /\ file' = [file EXCEPT !["runner"] = "own"]
  /\ UNCHANGED <<installed, main, failed, stuck, channel, streams>>

\* The handler connects to the runner first, then binds its public path.
HandlerServes ==
  /\ child["handler"] = "loading" /\ child["runner"] = "serving"
  /\ file["handler"] = "absent"
  /\ child' = [child EXCEPT !["handler"] = "serving"]
  /\ armed' = armed \cup {"handler"}
  /\ file' = [file EXCEPT !["handler"] = "own"]
  /\ UNCHANGED <<installed, main, failed, stuck, channel, streams>>

\* The bind of the handler fails on a file that lies at its path.
HandlerBindFails ==
  /\ child["handler"] = "loading" /\ file["handler"] # "absent"
  /\ child' = [child EXCEPT !["handler"] = "crashed"]
  /\ UNCHANGED <<installed, main, failed, armed, file, stuck, channel, streams>>

\* A child's initialization fails, or it dies while it runs. Its socket file
\* stays behind.
ChildCrashes(c) ==
  /\ Alive(c)
  /\ child' = [child EXCEPT ![c] = "crashed"]
  /\ armed' = armed \ {c}
  /\ streams' = FALSE
  /\ UNCHANGED <<installed, main, failed, file, stuck, channel>>

\* A graceful server future ends once its streams have; then the process
\* exits, and again the file stays.
ChildDrains(c) ==
  /\ child[c] = "draining" /\ ~streams
  /\ child' = [child EXCEPT ![c] = "ok"]
  /\ UNCHANGED <<installed, main, failed, armed, file, stuck, channel, streams>>

\* The handler's Shutdown is a public RPC: any client may call it.
ClientStopsHandler ==
  /\ child["handler"] = "serving" /\ "handler" \in armed
  /\ file["handler"] = "own"
  /\ child' = [child EXCEPT !["handler"] = "draining"]
  /\ armed' = armed \ {"handler"}
  /\ UNCHANGED <<installed, main, failed, file, stuck, channel, streams>>

OpenStream ==
  /\ child["handler"] = "serving" /\ child["runner"] = "serving"
  /\ ~streams /\ streams' = TRUE
  /\ UNCHANGED <<installed, main, failed, child, armed, file, stuck, channel>>

CloseStream ==
  /\ streams /\ streams' = FALSE
  /\ UNCHANGED <<installed, main, failed, child, armed, file, stuck, channel>>

\* Before the select installs tokio's handler, SIGINT ends the process on the
\* spot and nothing is dropped. Later ones reach the select or are ignored.
Interrupt ==
  /\ main \notin Over /\ ~installed
  /\ main' = "killed"
  /\ UNCHANGED <<installed, failed, child, armed, file, stuck, channel, streams>>

\* Another program, say a second server, creates a file at a public path.
Intrude(s) ==
  /\ s \in Intruded /\ file[s] = "absent"
  /\ file' = [file EXCEPT ![s] = "foreign"]
  /\ UNCHANGED <<installed, main, failed, child, armed, stuck, channel, streams>>

-----------------------------------------------------------------------------

Await == RunnerIsReady \/ RunnerIsNotReady \/ HandlerIsReady \/ HandlerIsNotReady

MainStep == \/ Prepare \/ StartRunner \/ StartHandler \/ Await \/ BindControl
            \/ InstallHandler
            \/ \E c \in Children : \/ ShutdownAccepted(c) \/ ShutdownRefused(c)
                                  \/ Reap(c) \/ DropOwner(c)
            \/ ShutdownMisdirected

Next ==
  \/ MainStep
  \/ StopServing
  \/ RunnerServes \/ HandlerServes \/ HandlerBindFails
  \/ \E c \in Children : ChildCrashes(c) \/ ChildDrains(c)
  \/ ClientStopsHandler
  \/ OpenStream \/ CloseStream
  \/ Interrupt
  \/ \E s \in Sockets : Intrude(s)

\* The supervisor runs, a draining child exits when it can, and clients finish
\* reading their streams. Nothing makes a child ready, or ends the serving.
Fairness ==
  /\ WF_vars(MainStep)
  /\ WF_vars(ChildDrains("runner")) /\ WF_vars(ChildDrains("handler"))
  /\ WF_vars(HandlerBindFails)
  /\ WF_vars(CloseStream)

Spec == Init /\ [][Next]_vars /\ Fairness

-----------------------------------------------------------------------------
(* Properties *)

\* A supervisor that returns leaves nothing behind, whichever way startup or
\* shutdown failed: no child runs, and no socket file of its own remains but
\* one the system refuses to remove ("Process owners also forcibly stop their
\* child and remove its socket when graceful cleanup cannot complete"). It
\* reports success only when both children exited with success and their socket
\* files are gone. Of the control socket file success says nothing: a failed
\* removal of that one is only logged.
ReturnIsClean ==
  /\ SupervisorTypeOK
  /\ main = "ended" =>
       /\ \A c \in Children : ~Alive(c)
       /\ \A s \in Sockets : file[s] = "own" => s \in stuck
       /\ ~failed => \A c \in Children : child[c] = "ok" /\ file[c] # "own"

\* The reverse dependency order: the supervisor touches a running model runner
\* only when no request handler runs, on every path.
HandlerGoesFirst ==
  [][main' # main /\ Alive("runner") /\ child'["runner"] # child["runner"]
       => ~Alive("handler")]_vars

\* What somebody else put at a public path stays: a file that lies there when
\* the server looks makes the server give up, not the file. Only a file that
\* appears after the handler was spawned is taken for the handler's.
ForeignFilesAreKept ==
  [][\A s \in Sockets :
       file[s] = "foreign" /\ (s = "handler" => child["handler"] = "absent")
         => file'[s] = "foreign"]_vars

\* Startup ends, ready or not, and a shutdown once begun comes to its end,
\* provided the clients finish their streams: neither waits for ever on a
\* child that crashed, hangs while loading, or refuses the call.
SupervisorTerminates ==
  /\ main \in Starting ~> main \notin Starting
  /\ main \in Stopping ~> main \in Over

\* "Process owners also forcibly stop their child and remove its socket": the
\* file an owner removes was bound by its own child.
OnlyOwnSocketsRemoved ==
  [][\A s \in Sockets : file[s] = "foreign" => file'[s] = "foreign"]_vars

\* "Ctrl-C initiates the same cleanup directly": no child outlives the main
\* process, however it ended.
NoOrphans == main \in Over => \A c \in Children : ~Alive(c)

=============================================================================
