----------------------------- MODULE Lifecycle -----------------------------
(***************************************************************************)
(* Processes of bprd on one machine, from start to end: becoming a daemon,*)
(* the pidfile, the order in which main() brings up its threads, SIGTERM, *)
(* fatal errors, and what they leave behind: the pidfile and the          *)
(* interface's forwarding flag.                                           *)
(*                                                                         *)
(* Two threads of a process stand for those a signal may interrupt: main, *)
(* and the router, which logs in every round.  A signal is handled by a   *)
(* thread that is not handling one already; while it runs the handler the *)
(* thread does nothing else, and keeps the logger's mutex if it had it.   *)
(* All are started in the directory that holds the pidfile.  What the     *)
(* threads do once all is up is the subject of Daemon.                    *)
(***************************************************************************)
EXTENDS Integers, FiniteSets

CONSTANTS
  Procs,        \* processes; each is started at most once
  NONE,         \* no process
  OrigFwd,      \* the forwarding flag before bprd was first started
  MaxSignals,   \* bound on the SIGTERMs a process is sent
  MayFail,      \* whether system calls fail and processes are killed
  Relative      \* processes given a relative pidfile path (-p bprd.pid)

ASSUME LifecycleAssumption ==
  /\ NONE \notin Procs
  /\ OrigFwd \in {"0", "1"}
  /\ MaxSignals \in Nat
  /\ MayFail \in BOOLEAN
  /\ Relative \subseteq Procs

VARIABLES
  main,      \* main[p]: how far main() has come
  daemon,    \* daemon[p]: p was started with -d
  backlogger,\* backlogger[p]: "none", "init", "rules" or "recv"
  router,    \* router[p]: "none", "init", "update", "log"
  handler,   \* handler[p][t]: what thread t does in the SIGTERM handler
  logger,    \* logger[p]: the thread that holds logger_mutex, or "free"
  signals,   \* SIGTERMs sent to each process
  origfwd,   \* origfwd[p]: router_origfwd
  ending,    \* history: how a process ended
  pidfile,   \* the process whose id the pidfile holds, or NONE
  fwd        \* the interface's forwarding flag

files   == <<pidfile, fwd>>
threads == <<backlogger, router, handler, logger>>
vars    == <<main, daemon, threads, signals, origfwd, ending, files>>

Threads == {"main", "router"}
Stages  == <<"off", "init", "pidfile", "sigaction", "chdir", "socket", "backlogger",
             "sleep", "threads", "loop">>
Alive(p) == main[p] \notin {"off", "dead"}

Init ==
  /\ main = [p \in Procs |-> "off"]
  /\ daemon = [p \in Procs |-> FALSE]
  /\ backlogger = [p \in Procs |-> "none"]
  /\ router = [p \in Procs |-> "none"]
  /\ handler = [p \in Procs |-> [t \in Threads |-> "no"]]
  /\ logger = [p \in Procs |-> "free"]
  /\ signals = [p \in Procs |-> 0]
  /\ origfwd = [p \in Procs |-> "?"]
  /\ ending = [p \in Procs |-> "no"]
  /\ pidfile = NONE
  /\ fwd = OrigFwd

(* The process ends: exit() and signals end all its threads.  Nothing is    *)
(* cleaned up.                                                              *)
End(p, how) ==
  /\ main' = [main EXCEPT ![p] = "dead"]
  /\ backlogger' = [backlogger EXCEPT ![p] = "none"]
  /\ router' = [router EXCEPT ![p] = "none"]
  /\ handler' = [handler EXCEPT ![p] = [t \in Threads |-> "no"]]
  /\ logger' = [logger EXCEPT ![p] = "free"]
  /\ ending' = [ending EXCEPT ![p] = how]
  /\ UNCHANGED <<daemon, signals, origfwd>>

(* main() of p, between two stages: nothing but the stage changes, and what *)
(* the action adds.                                                         *)
At(p, stage) == main[p] = stage /\ handler[p]["main"] = "no"
Goto(p, stage) == main' = [main EXCEPT ![p] = stage]

-----------------------------------------------------------------------------
(* logger_init(), bprd_init(): with or without -d. *)
Start(p, d) ==
  /\ main[p] = "off"
  /\ Goto(p, "init")
  /\ daemon' = [daemon EXCEPT ![p] = d]
  /\ UNCHANGED <<threads, signals, origfwd, ending, files>>

(* daemon_create(): fork twice; only the grandchild goes on. *)
Fork(p) ==
  /\ At(p, "init")
  /\ Goto(p, IF daemon[p] THEN "pidfile" ELSE "socket")
  /\ UNCHANGED <<daemon, threads, signals, origfwd, ending, files>>

(* Mutant: the pidfile is opened without O_EXCL. *)
pidfile_create_shared(p) ==
  /\ At(p, "pidfile")
  /\ pidfile' = p
  /\ Goto(p, "sigaction")
  /\ UNCHANGED <<daemon, threads, signals, origfwd, ending, fwd>>

(* pidfile_create(): exclusive; if the file is there, a fatal error. *)
pidfile_create(p) ==
  /\ At(p, "pidfile")
  /\ IF pidfile = NONE
       THEN /\ pidfile' = p
            /\ Goto(p, "sigaction")
            /\ UNCHANGED <<daemon, threads, signals, origfwd, ending>>
       ELSE End(p, "fatal") /\ UNCHANGED pidfile
  /\ UNCHANGED fwd

(* The handler is installed only now. *)
Sigaction(p) ==
  /\ At(p, "sigaction")
  /\ Goto(p, "chdir")
  /\ UNCHANGED <<daemon, threads, signals, origfwd, ending, files>>

(* chdir("/"): from here on a relative path names another file. *)
Chdir(p) ==
  /\ At(p, "chdir")
  /\ Goto(p, "socket")
  /\ UNCHANGED <<daemon, threads, signals, origfwd, ending, files>>

(* Processes that have the hello socket: main is past socket_init(). *)
HasSocket(p) == main[p] \in {"backlogger", "sleep", "threads", "loop"}

(* socket_init(): bind() fails while another process has the port. *)
socket_init(p) ==
  /\ At(p, "socket")
  /\ IF \E q \in Procs : HasSocket(q)
       THEN End(p, "fatal")
       ELSE /\ Goto(p, "backlogger")
            /\ UNCHANGED <<daemon, threads, signals, origfwd, ending>>
  /\ UNCHANGED files

backlogger_thread_create(p) ==
  /\ At(p, "backlogger")
  /\ backlogger' = [backlogger EXCEPT ![p] = "init"]
  /\ Goto(p, "sleep")
  /\ UNCHANGED <<daemon, router, handler, logger, signals, origfwd, ending, files>>

(* sleep(1): nothing makes it last until the queues exist. *)
Sleep(p) ==
  /\ At(p, "sleep")
  /\ Goto(p, "threads")
  /\ UNCHANGED <<daemon, threads, signals, origfwd, ending, files>>

(* The hello threads and the router are created; then main releases packets.*)
router_thread_create(p) ==
  /\ At(p, "threads")
  /\ router' = [router EXCEPT ![p] = "init"]
  /\ Goto(p, "loop")
  /\ UNCHANGED <<daemon, backlogger, handler, logger, signals, origfwd, ending,
                 files>>

-----------------------------------------------------------------------------
(* backlogger_init(): allocate and bind the queues; then the iptables rules.*)
Queues(p) ==
  /\ backlogger[p] = "init"
  /\ backlogger' = [backlogger EXCEPT ![p] = "rules"]
  /\ UNCHANGED <<main, daemon, router, handler, logger, signals, origfwd, ending,
                 files>>

Rules(p) ==
  /\ backlogger[p] = "rules"
  /\ backlogger' = [backlogger EXCEPT ![p] = "recv"]
  /\ UNCHANGED <<main, daemon, router, handler, logger, signals, origfwd, ending,
                 files>>

(* router_init(): procfile_write() saves the flag and sets it. *)
router_init(p) ==
  /\ router[p] = "init" /\ handler[p]["router"] = "no"
  /\ origfwd' = [origfwd EXCEPT ![p] = fwd]
  /\ fwd' = "1"
  /\ router' = [router EXCEPT ![p] = "update"]
  /\ UNCHANGED <<main, daemon, backlogger, handler, logger, signals, ending,
                 pidfile>>

(* router_update(): fifo_length(c->queue) follows the pointer unchecked,    *)
RouterLength(p) ==
  /\ router[p] = "update" /\ handler[p]["router"] = "no"
  /\ IF backlogger[p] = "init"
       THEN End(p, "null")
       ELSE /\ logger[p] = "free"
            /\ logger' = [logger EXCEPT ![p] = "router"]
            /\ router' = [router EXCEPT ![p] = "log"]
            /\ UNCHANGED <<main, daemon, backlogger, handler, signals, origfwd,
                           ending>>
  /\ UNCHANGED files

(* and logs the backlog: logger_log() holds logger_mutex. *)
RouterLogged(p) ==
  /\ router[p] = "log" /\ handler[p]["router"] = "no"
  /\ logger' = [logger EXCEPT ![p] = "free"]
  /\ router' = [router EXCEPT ![p] = "update"]
  /\ UNCHANGED <<main, daemon, backlogger, handler, signals, origfwd, ending, files>>

-----------------------------------------------------------------------------
(* SIGTERM: the default action, until the handler is installed (never in    *)
(* the foreground); then some thread that is not in the handler runs it.    *)
Signal(p) ==
  /\ Alive(p) /\ signals[p] < MaxSignals
  /\ IF daemon[p] /\ main[p] \notin {"init", "pidfile", "sigaction"}
       THEN /\ \E t \in Threads :
                 /\ t = "router" => router[p] # "none"
                 /\ handler[p][t] = "no"
                 /\ handler' = [handler EXCEPT ![p][t] = "unlink"]
            /\ signals' = [signals EXCEPT ![p] = @ + 1]
            /\ UNCHANGED <<main, daemon, backlogger, router, logger, origfwd, ending>>
       ELSE End(p, "killed")
  /\ UNCHANGED files

(* Mutant: the handler writes a log message before it removes the file. *)
pidfile_destroy_logged(p, t) ==
  /\ handler[p][t] = "unlink"
  /\ logger[p] = "free"
  /\ pidfile' = NONE
  /\ handler' = [handler EXCEPT ![p][t] = "exit"]
  /\ UNCHANGED <<main, daemon, backlogger, router, logger, signals, origfwd, ending,
                 fwd>>

(* pidfile_destroy(): unlink whatever file has that name. *)
pidfile_destroy(p, t) ==
  /\ handler[p][t] = "unlink"
  /\ LET found == pidfile # NONE /\ (p \in Relative => main[p] = "chdir") IN
     /\ pidfile' = IF found THEN NONE ELSE pidfile
     /\ handler' = [handler EXCEPT ![p][t] = IF found THEN "exit" ELSE "log"]
  /\ UNCHANGED <<main, daemon, backlogger, router, logger, signals, origfwd, ending,
                 fwd>>

(* "Unable to destroy pidfile": logger_log() takes its mutex, and exits. *)
HandlerLog(p, t) ==
  /\ handler[p][t] = "log"
  /\ logger[p] = "free"
  /\ End(p, "unlink")
  /\ UNCHANGED files

(* Mutant: the handler also restores the flag, which may not be saved yet. *)
HandlerExit_restores(p, t) ==
  /\ handler[p][t] = "exit"
  /\ End(p, "term")
  /\ fwd' = origfwd[p]
  /\ UNCHANGED pidfile

HandlerExit(p, t) ==
  /\ handler[p][t] = "exit"
  /\ End(p, "term")
  /\ UNCHANGED files

(* A system call fails (BPRD_LOG_ERR exits), or the process is killed. *)
Fatal(p) ==
  /\ MayFail
  /\ Alive(p)
  /\ End(p, "fatal")
  /\ UNCHANGED files

-----------------------------------------------------------------------------
Main(p) == \/ Fork(p) \/ pidfile_create(p) \/ Sigaction(p) \/ Chdir(p)
           \/ socket_init(p) \/ backlogger_thread_create(p) \/ Sleep(p)
           \/ router_thread_create(p)
Backlogger(p) == Queues(p) \/ Rules(p)
Router(p) == router_init(p) \/ RouterLength(p) \/ RouterLogged(p)
Handler(p, t) == pidfile_destroy(p, t) \/ HandlerLog(p, t) \/ HandlerExit(p, t)

Next == \E p \in Procs :
          \/ \E d \in BOOLEAN : Start(p, d)
          \/ Main(p) \/ Backlogger(p) \/ Router(p)
          \/ \E t \in Threads : Handler(p, t)
          \/ Signal(p) \/ Fatal(p)

Spec == Init /\ [][Next]_vars

(* The scheduler runs every thread. *)
Fairness == \A p \in Procs :
              /\ WF_vars(Main(p)) /\ WF_vars(Backlogger(p)) /\ WF_vars(Router(p))
              /\ \A t \in Threads : SF_vars(Handler(p, t))
FairSpec == Spec /\ Fairness

-----------------------------------------------------------------------------
(* The stages of main(), the states of the threads and of the files. *)
TypeOK ==
  /\ main \in [Procs -> {Stages[i] : i \in DOMAIN Stages} \cup {"dead"}]
  /\ daemon \in [Procs -> BOOLEAN]
  /\ backlogger \in [Procs -> {"none", "init", "rules", "recv"}]
  /\ router \in [Procs -> {"none", "init", "update", "log"}]
  /\ handler \in [Procs -> [Threads -> {"no", "unlink", "log", "exit"}]]
  /\ logger \in [Procs -> {"free", "router"}]
  /\ signals \in [Procs -> 0..MaxSignals]
  /\ origfwd \in [Procs -> {"?", "0", "1"}]
  /\ ending \in [Procs -> {"no", "fatal", "null", "killed", "unlink", "term"}]
  /\ pidfile \in Procs \cup {NONE}
  /\ fwd \in {"0", "1"}

(* p is a daemon that is up and not about to end. *)
Serving(p) == /\ daemon[p] /\ Alive(p) /\ main[p] \notin {"init", "pidfile"}
              /\ \A t \in Threads : handler[p][t] = "no"

(* "creating and destroying a PID file associated with the running process" *)
(* (pidfile.c:14): while a daemon runs the pidfile holds its id, so that no *)
(* second one can start, and when its SIGTERM handler has ended it the file *)
(* is not left behind, whatever other processes are started, fail and end   *)
(* meanwhile.  Two cases of SIGTERM do leave it and are excepted: before    *)
(* sigaction() the default action ends the process (ending "killed"), and   *)
(* with a relative path unlink() fails after chdir("/") (ending "unlink").  *)
PidfileFollowsDaemon ==
  \A p \in Procs :
    /\ Serving(p) => pidfile = p
    /\ \/ ending[p] = "term"
       \/ ending[p] = "unlink" /\ p \notin Relative
       => pidfile # p

(* The handler runs on a thread that may have been interrupted anywhere, in *)
(* logger_log() too: a daemon that has received SIGTERM ends all the same,  *)
(* and does not wait for a mutex its own thread holds.  (With a relative    *)
(* path it may: unlink() fails after chdir("/"), and the handler logs.)     *)
TerminationCompletes ==
  \A p \in Procs \ Relative, t \in Threads :
    (handler[p][t] # "no") ~> (main[p] = "dead")
=============================================================================
