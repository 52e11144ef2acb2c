---------------------------- MODULE Coordinator ----------------------------
(***************************************************************************)
(* The real-server side of role coordination (cmd/ravel realserver):      *)
(* watchForMaster() dials the director's coordination port once a second   *)
(* and sends the result on an unbuffered channel; blockForever() receives  *)
(* it and starts or stops the real-server worker with hysteresis: the      *)
(* worker is stopped on the first successful dial after a failure, and     *)
(* started once the dial has failed often enough.  The director process   *)
(* (cmd IPVSMASTER) is modelled by its RunE: setup steps that may return an *)
(* error, the coordination listener started part way through, and the      *)
(* final loop on ctx.Done(); the pod may be killed or restarted.           *)
(***************************************************************************)
EXTENDS Naturals

CONSTANTS
    MaxTries,      \* the failover threshold (config.FailoverTimeout)
    MaxFlips       \* bound on director boots and kills

ASSUME MaxTriesAssumption == MaxTries \in Nat \ {0}
ASSUME MaxFlipsAssumption == MaxFlips \in Nat

VARIABLES
    director,          \* the director process: "down", "booting", "listening",
                       \* "started" or "spinning"
    sent,              \* watchForMaster is blocked sending a dial result on controlChan
    probe,             \* that dial result
    tries,             \* blockForever's tries
    lastMasterStatus,  \* blockForever's lastMasterStatus
    worker,            \* "running" or "stopped"
    state,             \* "setup" in RunE, "loop" in blockForever, "exited" once returned
    downRun,           \* history: consecutive failed dials received (capped)
    flips              \* counter for the bound

vars == <<director, sent, probe, tries, lastMasterStatus, worker, state, downRun, flips>>

(* The director's listenController goroutines accept connections.         *)
DirectorUp == director \in {"listening", "started", "spinning"}

Init ==
    /\ director \in {"down", "started"}
    /\ sent = FALSE
    /\ probe = FALSE
    /\ tries = MaxTries
    /\ lastMasterStatus = TRUE
    /\ worker = "stopped"
    /\ state = "setup"
    /\ downRun = 0
    /\ flips = 0

(* The director pod is (re)started: RunE begins.                           *)
DirectorBoot ==
    /\ director = "down"
    /\ flips < MaxFlips
    /\ director' = "booting"
    /\ flips' = flips + 1
    /\ UNCHANGED <<sent, probe, tries, lastMasterStatus, worker, state, downRun>>

(* RunE up to `go listenController`: config validation, sysctls, watcher,  *)
(* stats and BPF capture each return on error, ending the process.          *)
DirectorListen ==
    /\ director = "booting"
    /\ director' \in {"listening", "down"}
    /\ UNCHANGED <<sent, probe, tries, lastMasterStatus, worker, state, downRun, flips>>

(* RunE after the listeners: ipvs, loopback ARP, ip, iptables helpers,    *)
(* NewDirector and worker.Start; any error returns and the listeners die   *)
(* with the process.                                                       *)
DirectorStart ==
    /\ director = "listening"
    /\ director' \in {"started", "down"}
    /\ UNCHANGED <<sent, probe, tries, lastMasterStatus, worker, state, downRun, flips>>

(* ctx.Done() in the final for/select: the case body is empty (the return *)
(* was removed), so the loop spins and RunE never returns.                 *)
DirectorCancel ==
    /\ director = "started"
    /\ director' = "spinning"
    /\ UNCHANGED <<sent, probe, tries, lastMasterStatus, worker, state, downRun, flips>>

(* The pod is killed or crashes at any point after it booted.              *)
DirectorKill ==
    /\ director # "down"
    /\ flips < MaxFlips
    /\ director' = "down"
    /\ flips' = flips + 1
    /\ UNCHANGED <<sent, probe, tries, lastMasterStatus, worker, state, downRun>>

(* Real-server RunE before blockForever: config validation and the         *)
(* watcher, stats, ip, iptables, ipvs, haproxy and realserver constructors *)
(* each return on error.                                                   *)
Setup ==
    /\ state = "setup"
    /\ state' \in {"loop", "exited"}
    /\ UNCHANGED <<director, sent, probe, tries, lastMasterStatus, worker, downRun, flips>>

(* connectToMaster(): the dial to 127.0.0.1:port succeeds iff the         *)
(* director listens.                                                       *)
ConnectToMasterInverted == ~DirectorUp
ConnectToMaster == DirectorUp

(* watchForMaster(): dial, then block sending the result on controlChan    *)
(* until blockForever takes it.                                            *)
WatchForMaster ==
    /\ state # "setup"
    /\ ~sent
    /\ sent' = TRUE
    /\ probe' = ConnectToMaster
    /\ UNCHANGED <<director, tries, lastMasterStatus, worker, state, downRun, flips>>

(* The decision taken on dial result m: remember it, reset tries.         *)
DecideOffByOne(m) == lastMasterStatus' = m /\ tries' = 0
Decide(m) == lastMasterStatus' = m /\ tries' = 1

(* blockForever returns the error of a failing worker.Start/worker.Stop.  *)
Exit ==
    /\ state' = "exited"
    /\ UNCHANGED <<worker, lastMasterStatus, tries>>

(* Director back: worker.Stop().                                           *)
StopWorker(m) ==
    \/ /\ worker' = "stopped"
       /\ Decide(m)
       /\ UNCHANGED state
    \/ Exit

(* Director down long enough: worker.Start().                              *)
StartWorker(m) ==
    \/ /\ worker' = "running"
       /\ Decide(m)
       /\ UNCHANGED state
    \/ Exit

(* Director down, threshold not reached: count it and continue, leaving    *)
(* lastMasterStatus as it was.                                             *)
CountFailureNoContinue(m) == Decide(m) /\ UNCHANGED <<worker, state>>
CountFailureNoIncrement(m) == UNCHANGED <<tries, worker, lastMasterStatus, state>>
CountFailure(m) ==
    /\ tries' = tries + 1
    /\ UNCHANGED <<worker, lastMasterStatus, state>>

(* blockForever(), one received dial result m.  The if/else-if chain of   *)
(* the code: a first branch not taken means m is FALSE in the later ones.  *)
Receive ==
    /\ state = "loop"
    /\ sent
    /\ LET m == probe IN
       /\ sent' = FALSE
       /\ downRun' = IF m THEN 0 ELSE IF downRun < MaxTries THEN downRun + 1 ELSE downRun
       /\ \/ m /\ m # lastMasterStatus /\ StopWorker(m)
          \/ ~m /\ m # lastMasterStatus /\ tries >= MaxTries /\ StartWorker(m)
          \/ ~m /\ m # lastMasterStatus /\ tries < MaxTries /\ CountFailure(m)
          \/ m = lastMasterStatus /\ Decide(m) /\ UNCHANGED <<worker, state>>
    /\ UNCHANGED <<director, probe, flips>>

(* ctx.Done(): blockForever returns worker.Stop(), running or not; the     *)
(* Stop may fail and leave the worker as it was.                           *)
Cancel ==
    /\ state = "loop"
    /\ state' = "exited"
    /\ worker' \in {"stopped", worker}
    /\ UNCHANGED <<director, sent, probe, tries, lastMasterStatus, downRun, flips>>

Director ==
    DirectorBoot \/ DirectorListen \/ DirectorStart \/ DirectorCancel \/ DirectorKill

Next == Director \/ Setup \/ WatchForMaster \/ Receive \/ Cancel

(* Both processes keep running their own code: RunE's setup steps and the  *)
(* two goroutines of the real server are weakly fair.  Pod boots and kills *)
(* and the cancellation are the environment's.                             *)
Spec ==
    /\ Init /\ [][Next]_vars
    /\ WF_vars(Setup) /\ WF_vars(WatchForMaster) /\ WF_vars(Receive)
    /\ WF_vars(DirectorListen) /\ WF_vars(DirectorStart)

-----------------------------------------------------------------------------
TypeOK ==
    /\ director \in {"down", "booting", "listening", "started", "spinning"}
    /\ sent \in BOOLEAN
    /\ probe \in BOOLEAN
    /\ tries \in 1..MaxTries
    /\ lastMasterStatus \in BOOLEAN
    /\ worker \in {"running", "stopped"}
    /\ state \in {"setup", "loop", "exited"}
    /\ downRun \in 0..MaxTries
    /\ flips \in 0..MaxFlips

(* blockForever's lastMasterStatus says what it did to the worker: until  *)
(* blockForever returns, the worker runs exactly when the last decision    *)
(* taken was on a failed dial.  A counted failure must not move            *)
(* lastMasterStatus (the continue).                                        *)
RunningMatchesStatus ==
    state # "exited" => (worker = "running" <=> ~lastMasterStatus)

(* Failover: if the director stays down, the worker is eventually started *)
(* (unless blockForever has returned).                                     *)
FailoverEventually ==
    <>[]~DirectorUp => <>[](worker = "running" \/ state = "exited")

(* Yield: if the director stays up, the worker is eventually stopped      *)
(* (unless blockForever has returned).                                     *)
YieldEventually ==
    <>[]DirectorUp => <>[](worker = "stopped" \/ state = "exited")

(* Spec 8.6: the worker is started only after MaxTries consecutive failed *)
(* dials; a single failed dial followed by successes never starts it.      *)
StartNeedsSustainedOutage ==
    [][(worker = "stopped" /\ worker' = "running") => downRun' >= MaxTries]_vars

(* A cancelled director terminates: once RunE's ctx is done the process   *)
(* eventually stops.  The empty ctx.Done() case body keeps it spinning.     *)
DirectorExitsOnCancel == (director = "spinning") ~> (director = "down")

=============================================================================
