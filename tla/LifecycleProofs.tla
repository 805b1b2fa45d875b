-------------------------- MODULE LifecycleProofs --------------------------
(***************************************************************************)
(* Proofs about Lifecycle, for any number of processes, started, failing, *)
(* killed and terminated in any order, whoever has a relative path.       *)
(*                                                                         *)
(* The types hold without further assumptions.  The pidfile follows the   *)
(* daemon until some process is sent a second SIGTERM: two threads of a   *)
(* process that are both in the handler each unlink whatever file has     *)
(* that name, and the second may remove that of the next daemon.          *)
(***************************************************************************)
EXTENDS Lifecycle, TLAPS

(* So far no process has been sent a second SIGTERM. *)
SingleSignals == \A p \in Procs : signals[p] <= 1

(* The stages of main() by name. *)
StageNames == {"off", "init", "pidfile", "sigaction", "chdir", "socket",
               "backlogger", "sleep", "threads", "loop"}

(* The sequence of the stages names exactly these. *)
LEMMA StagesNamed == {Stages[i] : i \in DOMAIN Stages} = StageNames
  <1>1. DOMAIN Stages = 1..10
    BY DEF Stages
  <1>2. 1..10 = {1, 2, 3, 4, 5, 6, 7, 8, 9, 10}
    OBVIOUS
  <1>3. /\ Stages[1] = "off" /\ Stages[2] = "init" /\ Stages[3] = "pidfile"
        /\ Stages[4] = "sigaction" /\ Stages[5] = "chdir" /\ Stages[6] = "socket"
        /\ Stages[7] = "backlogger" /\ Stages[8] = "sleep"
        /\ Stages[9] = "threads" /\ Stages[10] = "loop"
    BY DEF Stages
  <1> QED
    BY <1>1, <1>2, <1>3 DEF StageNames

(* The types by named parts. *)
ProcTypes ==
  /\ main \in [Procs -> StageNames \cup {"dead"}]
  /\ daemon \in [Procs -> BOOLEAN]
  /\ handler \in [Procs -> [Threads -> {"no", "unlink", "log", "exit"}]]
  /\ signals \in [Procs -> 0..MaxSignals]
  /\ ending \in [Procs -> {"no", "fatal", "null", "killed", "unlink", "term"}]
ThreadTypes ==
  /\ backlogger \in [Procs -> {"none", "init", "rules", "recv"}]
  /\ router \in [Procs -> {"none", "init", "update", "log"}]
  /\ logger \in [Procs -> {"free", "router"}]
FileTypes ==
  /\ origfwd \in [Procs -> {"?", "0", "1"}]
  /\ pidfile \in Procs \cup {NONE}
  /\ fwd \in {"0", "1"}
Types == ProcTypes /\ ThreadTypes /\ FileTypes

(* Together the parts are the type invariant. *)
LEMMA TypesOK == TypeOK <=> Types
  BY StagesNamed DEF TypeOK, Types, ProcTypes, ThreadTypes, FileTypes

(* The end of a process. *)
LEMMA EndTypes ==
  ASSUME Types, NEW p \in Procs, NEW how \in {"fatal", "null", "killed", "unlink", "term"},
         End(p, how), UNCHANGED files
  PROVE  Types'
  <1>1. ProcTypes'
    <2>1. [t \in Threads |-> "no"] \in [Threads -> {"no", "unlink", "log", "exit"}]
      OBVIOUS
    <2> QED
      BY <2>1 DEF Types, ProcTypes, End
  <1>2. ThreadTypes'
    BY DEF Types, ThreadTypes, End
  <1>3. FileTypes'
    BY DEF Types, FileTypes, End, files
  <1> QED
    BY <1>1, <1>2, <1>3 DEF Types

(* A step of main() to another stage. *)
LEMMA GotoTypes ==
  ASSUME Types, NEW p \in Procs, NEW s \in StageNames, Goto(p, s),
         UNCHANGED <<daemon, handler, signals, ending>>
  PROVE  ProcTypes'
  BY DEF Types, ProcTypes, Goto

(* Every step keeps the types. *)
LEMMA NextTypes ==
  ASSUME Types, [Next]_vars
  PROVE  Types'
  <1> USE LifecycleAssumption
  <1>1. ASSUME NEW p \in Procs, NEW d \in BOOLEAN, Start(p, d)
        PROVE  Types'
    <2>1. ProcTypes'
      BY <1>1 DEF Start, Goto, Types, ProcTypes, StageNames, threads
    <2> QED
      BY <1>1, <2>1 DEF Start, Types, ThreadTypes, FileTypes, threads, files
  <1>2. ASSUME NEW p \in Procs, Main(p)
        PROVE  Types'
    <2>1. CASE Fork(p) \/ Sigaction(p) \/ Chdir(p) \/ Sleep(p)
      <3>1. /\ UNCHANGED <<daemon, threads, signals, origfwd, ending, files>>
            /\ \E s \in StageNames : Goto(p, s)
        BY <2>1 DEF Fork, Sigaction, Chdir, Sleep, StageNames
      <3>2. ProcTypes'
        BY <3>1, GotoTypes DEF threads
      <3> QED
        BY <3>1, <3>2 DEF Types, ThreadTypes, FileTypes, threads, files
    <2>2. CASE pidfile_create(p)
      <3>1. CASE End(p, "fatal") /\ UNCHANGED files
        BY <3>1, EndTypes
      <3>2. CASE /\ pidfile' = p /\ Goto(p, "sigaction") /\ UNCHANGED fwd
                 /\ UNCHANGED <<daemon, threads, signals, origfwd, ending>>
        <4>1. ProcTypes'
          BY <3>2, GotoTypes DEF threads, StageNames
        <4> QED
          BY <3>2, <4>1 DEF Types, ThreadTypes, FileTypes, threads
      <3> QED
        BY <2>2, <3>1, <3>2 DEF pidfile_create, files
    <2>3. CASE socket_init(p)
      <3>1. CASE End(p, "fatal") /\ UNCHANGED files
        BY <3>1, EndTypes
      <3>2. CASE /\ Goto(p, "backlogger")
                 /\ UNCHANGED <<daemon, threads, signals, origfwd, ending, files>>
        <4>1. ProcTypes'
          BY <3>2, GotoTypes DEF threads, StageNames
        <4> QED
          BY <3>2, <4>1 DEF Types, ThreadTypes, FileTypes, threads, files
      <3> QED
        BY <2>3, <3>1, <3>2 DEF socket_init, files
    <2>4. CASE backlogger_thread_create(p)
      <3>1. ProcTypes'
        BY <2>4, GotoTypes DEF backlogger_thread_create, StageNames
      <3> QED
        BY <2>4, <3>1
        DEF backlogger_thread_create, Types, ThreadTypes, FileTypes, files
    <2>5. CASE router_thread_create(p)
      <3>1. ProcTypes'
        BY <2>5, GotoTypes DEF router_thread_create, StageNames
      <3> QED
        BY <2>5, <3>1 DEF router_thread_create, Types, ThreadTypes, FileTypes, files
    <2> QED
      BY <1>2, <2>1, <2>2, <2>3, <2>4, <2>5 DEF Main
  <1>3. ASSUME NEW p \in Procs, Backlogger(p)
        PROVE  Types'
    BY <1>3 DEF Backlogger, Queues, Rules, Types, ProcTypes, ThreadTypes, FileTypes,
                files
  <1>4. ASSUME NEW p \in Procs, Router(p)
        PROVE  Types'
    <2>1. CASE router_init(p)
      <3>1. ProcTypes'
        BY <2>1 DEF router_init, Types, ProcTypes
      <3> QED
        BY <2>1, <3>1 DEF router_init, Types, ThreadTypes, FileTypes
    <2>2. CASE End(p, "null") /\ UNCHANGED files
      BY <2>2, EndTypes
    <2>3. CASE (RouterLength(p) /\ ~End(p, "null")) \/ RouterLogged(p)
      <3>1. UNCHANGED <<main, daemon, backlogger, handler, signals, origfwd, ending,
                        files>>
        BY <2>3 DEF RouterLength, RouterLogged
      <3>2. ThreadTypes'
        BY <2>3, <3>1 DEF RouterLength, RouterLogged, Types, ThreadTypes
      <3> QED
        BY <3>1, <3>2 DEF Types, ProcTypes, FileTypes, files
    <2> QED
      BY <1>4, <2>1, <2>2, <2>3 DEF Router, RouterLength, files
  <1>5. ASSUME NEW p \in Procs, NEW t \in Threads, Handler(p, t)
        PROVE  Types'
    <2>1. CASE pidfile_destroy(p, t)
      <3>1. \E h \in {"exit", "log"} : handler' = [handler EXCEPT ![p][t] = h]
        BY <2>1 DEF pidfile_destroy
      <3>2. ProcTypes'
        BY <2>1, <3>1 DEF pidfile_destroy, Types, ProcTypes
      <3> QED
        BY <2>1, <3>2 DEF pidfile_destroy, Types, ThreadTypes, FileTypes
    <2> QED
      BY <1>5, <2>1, EndTypes DEF Handler, HandlerLog, HandlerExit
  <1>6. ASSUME NEW p \in Procs, Signal(p)
        PROVE  Types'
    <2>1. CASE End(p, "killed") /\ UNCHANGED files
      BY <2>1, EndTypes
    <2>2. CASE ~End(p, "killed")
      <3>1. /\ UNCHANGED <<main, daemon, backlogger, router, logger, origfwd, ending,
                           files>>
            /\ signals[p] < MaxSignals
            /\ signals' = [signals EXCEPT ![p] = @ + 1]
            /\ \E t \in Threads : handler' = [handler EXCEPT ![p][t] = "unlink"]
        BY <1>6, <2>2 DEF Signal
      <3>2. ProcTypes'
        BY <3>1 DEF Types, ProcTypes
      <3> QED
        BY <3>1, <3>2 DEF Types, ThreadTypes, FileTypes, files
    <2> QED
      BY <1>6, <2>1, <2>2 DEF Signal
  <1>7. ASSUME NEW p \in Procs, Fatal(p)
        PROVE  Types'
    BY <1>7, EndTypes DEF Fatal
  <1>8. CASE UNCHANGED vars
    BY <1>8 DEF vars, threads, files, Types, ProcTypes, ThreadTypes, FileTypes
  <1> QED
    BY <1>1, <1>2, <1>3, <1>4, <1>5, <1>6, <1>7, <1>8 DEF Next

(* The stages of main(), the states of the threads and of the files keep    *)
(* their types, whatever the processes do.                                  *)
THEOREM TypeCorrect == Spec => []TypeOK
  <1>1. Init => Types
    BY LifecycleAssumption
    DEF Init, Types, ProcTypes, ThreadTypes, FileTypes, StageNames
  <1>2. Types /\ [Next]_vars => Types'
    BY NextTypes
  <1>3. Types => TypeOK
    BY TypesOK
  <1> QED
    BY <1>1, <1>2, <1>3, PTL DEF Spec

-----------------------------------------------------------------------------
(* p has created the pidfile, and has not ended. *)
Up(p) == daemon[p] /\ main[p] \notin {"off", "init", "pidfile", "dead"}

(* Only a daemon whose handler is installed runs it, in one thread; until   *)
(* that thread has unlinked the file, it is p's, and from then on it is     *)
(* not, because p never creates it again.  It finds the file unless p has a *)
(* relative path.                                                           *)
PidInv(p) ==
  /\ \A t \in Threads : handler[p][t] # "no" =>
       /\ Up(p) /\ main[p] # "sigaction"
       /\ signals[p] > 0
       /\ \A u \in Threads : handler[p][u] # "no" => u = t
  /\ Up(p) /\ (\A t \in Threads : handler[p][t] # "exit") => pidfile = p
  /\ (\E t \in Threads : handler[p][t] = "exit") => pidfile # p
  /\ (\E t \in Threads : handler[p][t] = "log") => p \in Relative
  /\ ending[p] = "term" => main[p] = "dead" /\ pidfile # p
  /\ ending[p] = "unlink" => p \in Relative

PidfileInv == \A p \in Procs : PidInv(p)

(* What PidInv(q) is about, when another process acts. *)
Untouched(q) ==
  /\ main'[q] = main[q] /\ daemon'[q] = daemon[q] /\ handler'[q] = handler[q]
  /\ signals'[q] = signals[q] /\ ending'[q] = ending[q]

(* A step of p that leaves the pidfile alone concerns no other process. *)
LEMMA OthersStay ==
  ASSUME PidfileInv, NEW p \in Procs, PidInv(p)', UNCHANGED pidfile,
         \A q \in Procs \ {p} : Untouched(q)
  PROVE  PidfileInv'
  <1> SUFFICES ASSUME NEW q \in Procs \ {p}
               PROVE  PidInv(q)'
    BY DEF PidfileInv
  <1> QED
    BY DEF PidfileInv, PidInv, Untouched, Up

(* A process that ends leaves the file; if the handler's exit() ended it,   *)
(* the file was gone.                                                       *)
LEMMA EndPid ==
  ASSUME Types, PidfileInv, NEW p \in Procs, NEW how, End(p, how),
         UNCHANGED pidfile, how = "term" => pidfile # p,
         how = "unlink" => p \in Relative
  PROVE  PidfileInv'
  <1>1. \A q \in Procs \ {p} : Untouched(q)
    BY DEF End, Untouched, Types, ProcTypes
  <1>2. /\ main'[p] = "dead" /\ ending'[p] = how
        /\ \A t \in Threads : handler'[p][t] = "no"
    BY DEF End, Types, ProcTypes
  <1>3. PidInv(p)'
    BY <1>2 DEF PidInv, Up
  <1> QED
    BY <1>1, <1>3, OthersStay

(* A step of main() that neither makes p a daemon with a pidfile nor takes  *)
(* it back before the handler is installed.                                 *)
LEMMA StagePid ==
  ASSUME Types, PidfileInv, NEW p \in Procs, NEW s, Goto(p, s),
         UNCHANGED <<daemon, handler, signals, ending, pidfile>>,
         main[p] # "dead", s # "dead",
         Up(p) <=> (daemon[p] /\ s \notin {"off", "init", "pidfile"}),
         Up(p) => s # "sigaction"
  PROVE  PidfileInv'
  <1>1. \A q \in Procs \ {p} : Untouched(q)
    BY DEF Goto, Untouched, Types, ProcTypes
  <1>2. main'[p] = s
    BY DEF Goto, Types, ProcTypes
  <1>3. Up(p)' <=> Up(p)
    BY <1>2 DEF Up
  <1>4. PidInv(p)
    BY DEF PidfileInv
  <1>5. PidInv(p)'
    BY <1>2, <1>3, <1>4 DEF PidInv
  <1> QED
    BY <1>1, <1>5, OthersStay

(* A step that changes nothing of this. *)
LEMMA QuietPid ==
  ASSUME PidfileInv, UNCHANGED <<main, daemon, handler, signals, ending, pidfile>>
  PROVE  PidfileInv'
  BY DEF PidfileInv, PidInv, Up

(* The steps of main(): with O_EXCL the file is created only where no       *)
(* daemon is up.                                                            *)
LEMMA MainPid ==
  ASSUME Types, PidfileInv, NEW p \in Procs, Main(p)
  PROVE  PidfileInv'
  <1> USE LifecycleAssumption
  <1>1. CASE Fork(p)
    <2>1. main[p] = "init" /\ UNCHANGED <<daemon, handler, signals, ending, pidfile>>
      BY <1>1 DEF Fork, At, threads, files
    <2>2. CASE daemon[p]
      BY <1>1, <2>1, <2>2, StagePid DEF Fork, Up
    <2>3. CASE ~daemon[p]
      BY <1>1, <2>1, <2>3, StagePid DEF Fork, Up
    <2> QED
      BY <2>2, <2>3
  <1>2. CASE pidfile_create(p)
    <2>1. CASE pidfile = NONE
      <3>1. /\ main[p] = "pidfile" /\ pidfile' = p /\ Goto(p, "sigaction")
            /\ UNCHANGED <<daemon, handler, signals, ending>>
        BY <1>2, <2>1 DEF pidfile_create, At, threads
      <3>2. /\ \A q \in Procs \ {p} : Untouched(q)
            /\ main'[p] = "sigaction"
        BY <3>1 DEF Goto, Untouched, Types, ProcTypes
      <3>3. ASSUME NEW q \in Procs \ {p}
            PROVE  PidInv(q)'
        <4>1. PidInv(q) /\ pidfile # q
          BY <2>1 DEF PidfileInv
        <4> QED
          BY <3>1, <3>2, <4>1 DEF PidInv, Up, Untouched
      <3>4. PidInv(p) /\ \A t \in Threads : handler[p][t] = "no"
        BY <3>1 DEF PidfileInv, PidInv, Up
      <3>5. PidInv(p)'
        BY <3>1, <3>2, <3>4 DEF PidInv, Up
      <3> QED
        BY <3>3, <3>5 DEF PidfileInv
    <2>2. CASE pidfile # NONE
      BY <1>2, <2>2, EndPid DEF pidfile_create
    <2> QED
      BY <2>1, <2>2
  <1>3. CASE Sigaction(p) \/ Chdir(p) \/ Sleep(p)
    <2>1. /\ UNCHANGED <<daemon, handler, signals, ending, pidfile>>
          /\ main[p] \in {"sigaction", "chdir", "sleep"}
          /\ \E s \in {"chdir", "socket", "threads"} : Goto(p, s)
      BY <1>3 DEF Sigaction, Chdir, Sleep, At, threads, files
    <2> QED
      BY <2>1, StagePid DEF Up
  <1>4. CASE socket_init(p)
    <2>1. CASE End(p, "fatal") /\ UNCHANGED files
      BY <2>1, EndPid DEF files
    <2>2. CASE ~End(p, "fatal")
      <3>1. /\ UNCHANGED <<daemon, handler, signals, ending, pidfile>>
            /\ main[p] = "socket" /\ Goto(p, "backlogger")
        BY <1>4, <2>2 DEF socket_init, At, threads, files
      <3> QED
        BY <3>1, StagePid DEF Up
    <2> QED
      BY <1>4, <2>1, <2>2 DEF socket_init
  <1>5. CASE backlogger_thread_create(p) \/ router_thread_create(p)
    <2>1. /\ UNCHANGED <<daemon, handler, signals, ending, pidfile>>
          /\ main[p] \in {"backlogger", "threads"}
          /\ \E s \in {"sleep", "loop"} : Goto(p, s)
      BY <1>5 DEF backlogger_thread_create, router_thread_create, At, files
    <2> QED
      BY <2>1, StagePid DEF Up
  <1> QED
    BY <1>1, <1>2, <1>3, <1>4, <1>5 DEF Main

(* The signal handler: the file it unlinks is the process's own. *)
LEMMA HandlerPid ==
  ASSUME Types, PidfileInv, NEW p \in Procs, NEW t \in Threads, Handler(p, t)
  PROVE  PidfileInv'
  <1> USE LifecycleAssumption
  <1>0. PidInv(p)
    BY DEF PidfileInv
  <1>1. CASE pidfile_destroy(p, t)
    <2>1. /\ Up(p) /\ main[p] # "sigaction" /\ signals[p] > 0
          /\ \A u \in Threads : u # t => handler[p][u] = "no"
          /\ handler[p][t] = "unlink"
          /\ UNCHANGED <<main, daemon, signals, ending>>
      BY <1>0, <1>1 DEF pidfile_destroy, PidInv
    <2>2. pidfile = p
      BY <1>0, <2>1 DEF PidInv
    <2>3. ending[p] # "term"
      BY <1>0, <2>2 DEF PidInv
    <2>4. PICK h \in {"exit", "log"} :
            /\ handler' = [handler EXCEPT ![p][t] = h]
            /\ pidfile' = IF h = "exit" THEN NONE ELSE pidfile
            /\ h = "log" => p \in Relative
      BY <1>1, <2>2 DEF pidfile_destroy
    <2>5. /\ \A q \in Procs \ {p} : Untouched(q)
          /\ handler'[p][t] = h
          /\ \A u \in Threads : u # t => handler'[p][u] = "no"
      BY <2>1, <2>4 DEF Untouched, Types, ProcTypes
    <2>6. PidInv(p)'
      BY <1>0, <2>1, <2>2, <2>3, <2>4, <2>5 DEF PidInv, Up
    <2>7. ASSUME NEW q \in Procs \ {p}
          PROVE  PidInv(q)'
      <3>1. PidInv(q) /\ pidfile # q /\ pidfile' # q
        BY <2>2, <2>4 DEF PidfileInv
      <3> QED
        BY <2>5, <3>1 DEF PidInv, Up, Untouched
    <2> QED
      BY <2>6, <2>7 DEF PidfileInv
  <1>2. CASE HandlerLog(p, t)
    <2>1. p \in Relative
      BY <1>0, <1>2 DEF HandlerLog, PidInv
    <2> QED
      BY <1>2, <2>1, EndPid DEF HandlerLog, files
  <1>3. CASE HandlerExit(p, t)
    <2>1. pidfile # p
      BY <1>0, <1>3 DEF HandlerExit, PidInv
    <2> QED
      BY <1>3, <2>1, EndPid DEF HandlerExit, files
  <1> QED
    BY <1>1, <1>2, <1>3 DEF Handler

(* A first SIGTERM finds no thread in the handler. *)
LEMMA SignalPid ==
  ASSUME SingleSignals', Types, PidfileInv, NEW p \in Procs, Signal(p)
  PROVE  PidfileInv'
  <1>1. CASE End(p, "killed") /\ UNCHANGED files
    BY <1>1, EndPid DEF files
  <1>2. CASE ~End(p, "killed")
    <2>1. /\ UNCHANGED <<main, daemon, ending, pidfile>>
          /\ Up(p) /\ main[p] # "sigaction"
          /\ signals[p] < MaxSignals
          /\ signals' = [signals EXCEPT ![p] = @ + 1]
      BY <1>2 DEF Signal, Alive, Up, files
    <2>2. PICK t \in Threads : handler' = [handler EXCEPT ![p][t] = "unlink"]
      BY <1>2 DEF Signal
    <2>3. signals[p] = 0 /\ signals'[p] = 1
      <3>1. signals \in [Procs -> 0..MaxSignals]
        BY DEF Types, ProcTypes
      <3>2. signals[p] \in 0..MaxSignals
        BY <3>1
      <3>3. signals'[p] = signals[p] + 1
        BY <2>1, <3>1
      <3>4. signals[p] = 0
        BY <3>2, <3>3, LifecycleAssumption DEF SingleSignals
      <3> QED
        BY <3>3, <3>4
    <2>4. PidInv(p) /\ \A u \in Threads : handler[p][u] = "no"
      BY <2>3 DEF PidfileInv, PidInv
    <2>5. pidfile = p /\ ending[p] # "term"
      BY <2>1, <2>4 DEF PidInv
    <2>6. /\ \A q \in Procs \ {p} : Untouched(q)
          /\ handler'[p][t] = "unlink"
          /\ \A u \in Threads : u # t => handler'[p][u] = "no"
      BY <2>1, <2>2, <2>4 DEF Untouched, Types, ProcTypes
    <2>7. PidInv(p)'
      BY <2>1, <2>3, <2>4, <2>5, <2>6 DEF PidInv, Up
    <2> QED
      BY <2>1, <2>6, <2>7, OthersStay
  <1> QED
    BY <1>1, <1>2 DEF Signal

(* Every step of every process keeps the pidfile with its daemon. *)
LEMMA NextPid ==
  ASSUME SingleSignals', Types, PidfileInv, [Next]_vars
  PROVE  PidfileInv'
  <1>1. ASSUME NEW p \in Procs, NEW d \in BOOLEAN, Start(p, d)
        PROVE  PidfileInv'
    <2>1. /\ main[p] = "off" /\ main'[p] = "init"
          /\ UNCHANGED <<handler, signals, ending, pidfile>>
          /\ \A q \in Procs \ {p} : Untouched(q)
      BY <1>1 DEF Start, Goto, Untouched, Types, ProcTypes, threads, files
    <2>2. PidInv(p)'
      BY <2>1 DEF PidfileInv, PidInv, Up
    <2> QED
      BY <2>1, <2>2, OthersStay
  <1>2. ASSUME NEW p \in Procs, Backlogger(p)
        PROVE  PidfileInv'
    BY <1>2, QuietPid DEF Backlogger, Queues, Rules, files
  <1>3. ASSUME NEW p \in Procs, Router(p)
        PROVE  PidfileInv'
    <2>1. CASE End(p, "null") /\ UNCHANGED files
      BY <2>1, EndPid DEF files
    <2>2. CASE UNCHANGED <<main, daemon, handler, signals, ending, pidfile>>
      BY <2>2, QuietPid
    <2> QED
      BY <1>3, <2>1, <2>2 DEF Router, router_init, RouterLength, RouterLogged, files
  <1>4. ASSUME NEW p \in Procs, Fatal(p)
        PROVE  PidfileInv'
    BY <1>4, EndPid DEF Fatal, files
  <1>5. CASE UNCHANGED vars
    BY <1>5, QuietPid DEF vars, threads, files
  <1> QED
    BY <1>1, <1>2, <1>3, <1>4, <1>5, MainPid, HandlerPid, SignalPid DEF Next

(* The count of signals only grows. *)
LEMMA SignalsGrow ==
  ASSUME Types, [Next]_vars, SingleSignals'
  PROVE  SingleSignals
  <1>1. \/ UNCHANGED signals
        \/ \E p \in Procs : signals' = [signals EXCEPT ![p] = @ + 1]
    BY DEF Next, Start, Main, Fork, pidfile_create, Sigaction, Chdir, socket_init,
           backlogger_thread_create, Sleep, router_thread_create, Backlogger, Queues,
           Rules, Router, router_init, RouterLength, RouterLogged, Handler,
           pidfile_destroy, HandlerLog, HandlerExit, Signal, Fatal, End, vars
  <1>2. \A q \in Procs : signals[q] \in Nat
    BY LifecycleAssumption DEF Types, ProcTypes
  <1>3. \A q \in Procs : signals'[q] = signals[q] \/ signals'[q] = signals[q] + 1
    BY <1>1 DEF Types, ProcTypes
  <1> QED
    BY <1>2, <1>3 DEF SingleSignals

(* "creating and destroying a PID file associated with the running process" *)
(* (pidfile.c:14) for any number of processes: until one of them is sent a  *)
(* second SIGTERM, a daemon that is up owns the pidfile, and one that was   *)
(* ended by its SIGTERM handler has not left it behind, unless its path was *)
(* relative and unlink() failed.  (SIGTERM before sigaction() is not        *)
(* handled, and does leave the file.)                                       *)
THEOREM PidfileUntilSecondSignal ==
  Spec => [](SingleSignals => PidfileFollowsDaemon)
  <1> DEFINE Inv == Types /\ (SingleSignals => PidfileInv)
  <1>1. Init => Inv
    BY LifecycleAssumption
    DEF Init, Types, ProcTypes, ThreadTypes, FileTypes, StageNames, PidfileInv,
        PidInv, Up
  <1>2. Inv /\ [Next]_vars => Inv'
    BY NextTypes, NextPid, SignalsGrow
  <1>3. Inv => (SingleSignals => PidfileFollowsDaemon)
    BY DEF PidfileInv, PidInv, Up, PidfileFollowsDaemon, Serving, Alive
  <1> QED
    BY <1>1, <1>2, <1>3, PTL DEF Spec

(* In particular the pidfile follows the daemon for ever where processes    *)
(* are sent SIGTERM at most once, as in the run.                            *)
THEOREM PidfileFollows ==
  ASSUME MaxSignals <= 1
  PROVE  Spec => []PidfileFollowsDaemon
  <1>1. TypeOK => SingleSignals
    <2> SUFFICES ASSUME TypeOK, NEW p \in Procs
                 PROVE  signals[p] <= 1
      BY DEF SingleSignals
    <2>1. signals[p] \in 0..MaxSignals
      BY DEF TypeOK
    <2> QED
      BY <2>1, LifecycleAssumption
  <1> QED
    BY <1>1, TypeCorrect, PidfileUntilSecondSignal, PTL
=============================================================================
