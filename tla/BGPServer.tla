----------------------------- MODULE BGPServer -----------------------------
(***************************************************************************)
(* The reconciliation engine of the BGP worker (package bgp, type          *)
(* bgpserver): the watches() goroutine that stores the latest nodes list   *)
(* and cluster config, and the periodic() goroutine whose 2 s parity tick  *)
(* (performReconfigure) and 30 s forced tick run configure() and           *)
(* configure6(), which program the loopback addresses, the BGP             *)
(* announcements and the IPVS table.                                       *)
(*                                                                         *)
(* Data is abstracted: a cluster config is the pair of its v4 and v6 VIP   *)
(* sets, a nodes list is a model value (semantically equal lists are the   *)
(* same value), and an IPVS virtual service records the nodes list its     *)
(* destinations were computed from.  periodic() reads b.config and b.nodes *)
(* without the lock, once per kernel call, and only then writes the       *)
(* kernel: each call is a read step that keeps what it read in a local     *)
(* (snap, snapNodes, rem, add) and a write step that applies it, so that   *)
(* watches() can replace b.config between the two, as it can in the code.  *)
(*                                                                         *)
(* The lifecycle: Stop() cancels the watch context and waits for periodic  *)
(* on doneChan or a 5 s timer, then cleanup() tears the loopback VIPs      *)
(* down; the parent context may be cancelled as well.                      *)
(***************************************************************************)
EXTENDS Naturals, FiniteSets

CONSTANTS
    VIP4,          \* v4 VIPs that a config may name
    VIP6,          \* v6 VIPs that a config may name
    Configs,       \* the cluster configs the configmap watch may deliver
    NodeLists,     \* semantically distinct node lists the nodes watch may deliver
    InitNodes,     \* b.nodes before the first delivery (the empty list)
    NoConfig,      \* b.config before the first delivery (a nil pointer)
    NoService,     \* no IPVS virtual service for a VIP
    TicksAwaitConfig, \* timing assumption: the configmap is delivered before the first tick
    MaxUpdates,    \* bound on watch deliveries
    MaxFailures,   \* bound on failing kernel or BGP calls
    MaxDrift,      \* bound on external removals of a loopback address
    StopCalled,    \* the owner of the worker calls Stop()
    ParentCancels  \* the phases of Stop() (values of life) in which the
                   \* parent context b.ctx may be cancelled ({}: never)

VIP == VIP4 \cup VIP6
Family == {"v4", "v6"}
VIPsOf(f) == IF f = "v4" THEN VIP4 ELSE VIP6

ASSUME ConstantsAssumption ==
    /\ VIP4 \cap VIP6 = {}
    /\ Configs \subseteq [v4 : SUBSET VIP4, v6 : SUBSET VIP6]
    /\ InitNodes \in NodeLists
    /\ NoConfig \notin Configs
    /\ NoService \notin NodeLists
    /\ TicksAwaitConfig \in BOOLEAN
    /\ MaxUpdates \in Nat /\ MaxFailures \in Nat /\ MaxDrift \in Nat
    /\ StopCalled \in BOOLEAN
    /\ ParentCancels \subseteq {"running", "waiting", "cleanup", "stopped"}

VARIABLES
    config,        \* b.config
    nodes,         \* b.nodes
    newConfig,     \* b.newConfig
    updatePending, \* ~noUpdatesReady(): lastInboundUpdate is not before lastReconfigure
    lo,            \* VIPs present on the loopback device (kernel)
    bgp,           \* VIPs announced by the BGP speaker
    ipvs,          \* IPVS virtual service per VIP: the nodes list of its destinations
    pc,            \* where periodic() is: "idle", a step of configure, "panic",
                   \* "sendDone" (blocked on doneChan) or "exited"
    snap,          \* the b.config the kernel call in flight read (NoConfig: none yet)
    snapNodes,     \* the b.nodes the last SetIPVS call read
    rem, add,      \* setAddresses' removals and additions, computed before the writes
    fam,           \* configure() ("v4") or configure6() ("v6")
    mode,          \* the tick that started the run: "fast" or "forced"
    disturbed,     \* history: the running reconcile saw an update, drift or failure
    life,          \* the Stop() caller: "running", "waiting", "cleanup",
                   \* "stopped" (Stop returned) or "panic"
    ctxDone,       \* b.ctx is cancelled
    watchDone,     \* b.ctxWatch is cancelled
    watching,      \* the watches() goroutine has not returned
    updates, failures, drifts  \* counters for the bounds

vars == <<config, nodes, newConfig, updatePending, lo, bgp, ipvs, pc, snap,
          snapNodes, rem, add, fam, mode, disturbed, life, ctxDone, watchDone,
          watching, updates, failures, drifts>>
locals == <<snap, snapNodes, rem, add>>
lifecycle == <<life, ctxDone, watchDone, watching>>
kernel == <<lo, bgp, ipvs>>

-----------------------------------------------------------------------------
(* What a config asks of the kernel (spec 4.3: a virtual service for every *)
(* VIP of the config, destinations from the nodes list).                   *)
ConfigVIPs(c) == c.v4 \cup c.v6

DesiredIPVSAll(n, c) == [v \in VIP |-> n]
DesiredIPVS(n, c) == [v \in VIP |-> IF v \in ConfigVIPs(c) THEN n ELSE NoService]

(* ipvs.CheckConfigParity (spec 4.4): FALSE when a new config is flagged,  *)
(* else whether addresses and the IPVS table both match the config.        *)
CheckConfigParity(n, c, addresses, isNew) ==
    /\ ~isNew
    /\ addresses = ConfigVIPs(c)
    /\ ipvs = DesiredIPVS(n, c)

(* The kernel fully reflects config c and nodes list n.                    *)
InSync(c, n) ==
    /\ lo = ConfigVIPs(c)
    /\ ipvs = DesiredIPVS(n, c)
    /\ ConfigVIPs(c) \subseteq bgp

-----------------------------------------------------------------------------
(* Under TicksAwaitConfig the behaviour starts after watches() stored the  *)
(* first config; otherwise b.config is still nil.                          *)
Init ==
    /\ config \in IF TicksAwaitConfig THEN Configs ELSE {NoConfig}
    /\ nodes = InitNodes
    /\ newConfig = TicksAwaitConfig
    /\ updatePending = TRUE      \* both timestamps are the zero time
    /\ lo = {}
    /\ bgp = {}
    /\ ipvs = [v \in VIP |-> NoService]
    /\ pc = "idle"
    /\ snap = NoConfig /\ snapNodes = InitNodes /\ rem = {} /\ add = {}
    /\ fam = "v4"
    /\ mode = "fast"
    /\ disturbed = FALSE
    /\ life = "running" /\ ctxDone = FALSE /\ watchDone = FALSE /\ watching = TRUE
    /\ updates = 0 /\ failures = 0 /\ drifts = 0

(* watches(): a nodes list equal to b.nodes is dropped (NodesEqual).       *)
NodesNoop(n) ==
    /\ updates < MaxUpdates
    /\ n = nodes
    /\ updates' = updates + 1
    /\ UNCHANGED <<locals, config, lifecycle, nodes, newConfig, updatePending, kernel, pc, fam,
                   mode, disturbed, failures, drifts>>

(* watches(): a different nodes list replaces b.nodes and stamps           *)
(* lastInboundUpdate.                                                      *)
NodesUpdate(n) ==
    /\ updates < MaxUpdates
    /\ n # nodes
    /\ nodes' = n
    /\ updatePending' = TRUE
    /\ disturbed' = TRUE
    /\ updates' = updates + 1
    /\ UNCHANGED <<locals, config, lifecycle, newConfig, kernel, pc, fam, mode, failures, drifts>>

(* watches(): every delivered config replaces b.config, sets newConfig and *)
(* stamps lastInboundUpdate.                                               *)
ConfigUpdate(c) ==
    /\ updates < MaxUpdates
    /\ config' = c
    /\ newConfig' = TRUE
    /\ updatePending' = TRUE
    /\ disturbed' = TRUE
    /\ updates' = updates + 1
    /\ UNCHANGED <<locals, nodes, lifecycle, kernel, pc, fam, mode, failures, drifts>>

(* Something outside the worker deletes a VIP from the loopback (S4).      *)
ExternalDrift ==
    /\ drifts < MaxDrift
    /\ \E v \in lo : lo' = lo \ {v}
    /\ disturbed' = TRUE
    /\ drifts' = drifts + 1
    /\ UNCHANGED <<locals, config, lifecycle, nodes, newConfig, updatePending, bgp, ipvs, pc, fam,
                   mode, updates, failures>>

-----------------------------------------------------------------------------
(* noUpdatesReady(): lastReconfigure is after lastInboundUpdate.          *)
NoUpdatesReady == ~updatePending

(* A tick of periodic() is taken only while it is idle in its select.      *)
TickReady == pc = "idle"

StartConfigure(m) ==
    /\ pc' = "addr"
    /\ fam' = "v4"
    /\ mode' = m
    /\ disturbed' = FALSE

(* The 30 s ticker: configure() then configure6(), without a parity check. *)
ForcedReconfigureIfUpdates ==
    /\ TickReady
    /\ IF updatePending THEN StartConfigure("forced")
                        ELSE UNCHANGED <<pc, fam, mode, disturbed>>
    /\ UNCHANGED <<locals, config, lifecycle, nodes, newConfig, updatePending, kernel, updates,
                   failures, drifts>>

ForcedReconfigure ==
    /\ TickReady
    /\ StartConfigure("forced")
    /\ UNCHANGED <<locals, config, lifecycle, nodes, newConfig, updatePending, kernel, updates,
                   failures, drifts>>

(* The 2 s ticker, performReconfigure(): when no update is ready it returns *)
(* at once (a stuttering step); otherwise it fetches the addresses (an     *)
(* error returns) and calls CheckConfigParity, whose arguments consume     *)
(* newConfig (configReady); an error of the check returns with the flag   *)
(* consumed, else it reconfigures when they differ.  With a nil config the *)
(* parity outcome is unknown.                                              *)
PerformReconfigure ==
    /\ TickReady
    /\ ~NoUpdatesReady
    /\ \/ /\ failures < MaxFailures
          /\ failures' = failures + 1
          /\ UNCHANGED <<newConfig, pc, fam, mode, disturbed>>
       \/ /\ newConfig' = FALSE
          /\ \/ /\ failures < MaxFailures
                /\ failures' = failures + 1
                /\ UNCHANGED <<pc, fam, mode, disturbed>>
             \/ /\ \E same \in IF config = NoConfig THEN BOOLEAN
                               ELSE {CheckConfigParity(nodes, config, lo, newConfig)} :
                      IF same THEN UNCHANGED <<pc, fam, mode, disturbed>>
                              ELSE StartConfigure("fast")
                /\ UNCHANGED failures
    /\ UNCHANGED <<locals, config, lifecycle, nodes, updatePending, kernel, updates,
                   drifts>>

-----------------------------------------------------------------------------
(* A step of configure() or configure6() that returns an error: the fast   *)
(* path returns from performReconfigure, the forced path goes on to        *)
(* configure6() after a configure() error.  The call's locals are gone.    *)
Fail ==
    /\ failures < MaxFailures
    /\ failures' = failures + 1
    /\ disturbed' = TRUE
    /\ snap' = NoConfig /\ rem' = {} /\ add' = {}
    /\ IF fam = "v4" /\ mode = "forced"
          THEN pc' = "addr" /\ fam' = "v6"
          ELSE pc' = "idle" /\ UNCHANGED fam

(* The loopback after deleting the devices in removals and adding those  *)
(* in additions.                                                           *)
ApplyAddressesAddOnly(removals, additions) == lo \cup additions
ApplyAddresses(removals, additions) == (lo \ removals) \cup additions

(* setAddresses() / setAddresses6(), up to the writes: ipDevices.Get lists *)
(* the family's loopback devices (an error returns), then the unlocked     *)
(* read of b.config gives the desired VIPs (nil panics), and Compare4      *)
(* splits them into removals and additions.                                *)
ReadAddresses ==
    /\ pc = "addr"
    /\ \/ /\ Fail
          /\ UNCHANGED lo
       \/ /\ config = NoConfig
          /\ pc' = "panic"
          /\ UNCHANGED <<fam, disturbed, failures, snap, rem, add>>
       \/ /\ config # NoConfig
          /\ LET have == lo \cap VIPsOf(fam)
             IN /\ rem' = have \ config[fam]
                /\ add' = config[fam] \ have
          /\ snap' = config
          /\ pc' = "addrW"
          /\ UNCHANGED <<fam, disturbed, failures>>
    /\ UNCHANGED <<config, lifecycle, nodes, newConfig, updatePending, lo, bgp, ipvs,
                   snapNodes, updates, drifts, mode>>

(* The rest of setAddresses(): Del every removal, then Add every addition, *)
(* then SetMTU.  An error stops at the failing call: some removals done    *)
(* and no addition, or all removals and some additions, or all of them     *)
(* (SetMTU failed).                                                        *)
SetAddresses ==
    /\ pc = "addrW"
    /\ \/ /\ lo' = ApplyAddresses(rem, add)
          /\ pc' = "bgp"
          /\ snap' = NoConfig /\ rem' = {} /\ add' = {}
          /\ UNCHANGED <<fam, disturbed, failures>>
       \/ /\ \E r \in SUBSET rem, a \in SUBSET add :
               /\ a # {} => r = rem
               /\ lo' = ApplyAddresses(r, a)
          /\ Fail
    /\ UNCHANGED <<config, lifecycle, nodes, newConfig, updatePending, bgp, ipvs,
                   snapNodes, updates, drifts, mode>>

(* configure(): bgp.Get (an error returns), then the unlocked read of the  *)
(* v4 VIPs of b.config; configure6() reads its v6 VIPs without a Get.      *)
ReadAnnounce ==
    /\ pc = "bgp"
    /\ \/ /\ fam = "v4"
          /\ Fail
       \/ /\ snap' = config
          /\ pc' = "bgpW"
          /\ UNCHANGED <<fam, disturbed, failures, rem, add>>
    /\ UNCHANGED <<config, lifecycle, nodes, newConfig, updatePending, kernel,
                   snapNodes, updates, drifts, mode>>

(* bgp.Set / bgp.SetV6 with the VIPs read: announcements are only added.   *)
BGPAnnounce ==
    /\ pc = "bgpW"
    /\ \/ /\ bgp' = bgp \cup snap[fam]
          /\ pc' = "ipvs"
          /\ snap' = NoConfig
          /\ UNCHANGED <<fam, disturbed, failures, rem, add>>
       \/ /\ UNCHANGED bgp
          /\ Fail
    /\ UNCHANGED <<config, lifecycle, nodes, newConfig, updatePending, lo, ipvs,
                   snapNodes, updates, drifts, mode>>

(* ipvs.SetIPVS(b.nodes, b.config) / SetIPVS6: the arguments are read      *)
(* without the lock when the call is made.                                 *)
ReadIPVS ==
    /\ pc = "ipvs"
    /\ snap' = config
    /\ snapNodes' = nodes
    /\ pc' = "ipvsW"
    /\ UNCHANGED <<config, lifecycle, nodes, newConfig, updatePending, kernel, rem,
                   add, fam, mode, disturbed, updates, failures, drifts>>

(* SetIPVS / SetIPVS6 make the family's virtual services match the table   *)
(* its arguments call for; an error leaves any subset of them done (no     *)
(* rollback).                                                              *)
SetIPVS ==
    /\ pc = "ipvsW"
    /\ LET target == DesiredIPVS(snapNodes, snap)
           Apply(s) == [v \in VIP |-> IF v \in s THEN target[v] ELSE ipvs[v]]
       IN \/ /\ ipvs' = Apply(VIPsOf(fam))
             /\ pc' = IF fam = "v4" THEN "stamp" ELSE "idle"
             /\ snap' = NoConfig
             /\ UNCHANGED <<fam, disturbed, failures, rem, add>>
          \/ /\ \E s \in SUBSET VIPsOf(fam) : ipvs' = Apply(s)
             /\ Fail
    /\ UNCHANGED <<config, lifecycle, nodes, newConfig, updatePending, lo, bgp,
                   snapNodes, updates, drifts, mode>>

(* configure() ends with b.lastReconfigure = time.Now(); configure6() is   *)
(* called next by both ticks.                                              *)
StampReconfigure ==
    /\ pc = "stamp"
    /\ updatePending' = FALSE
    /\ pc' = "addr"
    /\ fam' = "v6"
    /\ UNCHANGED <<locals, config, lifecycle, nodes, newConfig, kernel, mode, disturbed, updates,
                   failures, drifts>>

-----------------------------------------------------------------------------
(* The lifecycle.  The parent context is cancelled, in a phase of Stop()  *)
(* the owner of the worker allows; ctxWatch, its child, is cancelled with  *)
(* it.                                                                     *)
ParentCancel ==
    /\ life \in ParentCancels
    /\ ~ctxDone
    /\ ctxDone' = TRUE
    /\ watchDone' = TRUE
    /\ UNCHANGED <<locals, config, nodes, newConfig, updatePending, kernel, pc, fam,
                   mode, disturbed, life, watching, updates, failures, drifts>>

(* watches(): the ctx.Done() and ctxWatch.Done() cases return.            *)
WatchesExit ==
    /\ watching
    /\ watchDone
    /\ watching' = FALSE
    /\ UNCHANGED <<locals, config, nodes, newConfig, updatePending, kernel, pc, fam,
                   mode, disturbed, life, ctxDone, watchDone, updates, failures,
                   drifts>>

(* periodic(), case <-b.ctx.Done(): send on the unbuffered doneChan, then  *)
(* return; the send blocks until Stop() receives it.                       *)
PeriodicCtxDone ==
    /\ pc = "idle"
    /\ ctxDone
    /\ pc' = "sendDone"
    /\ UNCHANGED <<locals, config, nodes, newConfig, updatePending, kernel, fam, mode,
                   disturbed, lifecycle, updates, failures, drifts>>

(* periodic(), case <-b.ctxWatch.Done(): return without a word.            *)
PeriodicWatchDoneSignals ==
    /\ pc = "idle"
    /\ watchDone
    /\ pc' = "sendDone"
    /\ UNCHANGED <<locals, config, nodes, newConfig, updatePending, kernel, fam, mode,
                   disturbed, lifecycle, updates, failures, drifts>>

PeriodicWatchDone ==
    /\ pc = "idle"
    /\ watchDone
    /\ pc' = "exited"
    /\ UNCHANGED <<locals, config, nodes, newConfig, updatePending, kernel, fam, mode,
                   disturbed, lifecycle, updates, failures, drifts>>

(* Stop(): b.cxlWatch(), then block on doneChan or the 5 s timer.          *)
Stop ==
    /\ StopCalled
    /\ life = "running"
    /\ pc # "panic"
    /\ life' = "waiting"
    /\ watchDone' = TRUE
    /\ UNCHANGED <<locals, config, nodes, newConfig, updatePending, kernel, pc, fam,
                   mode, disturbed, ctxDone, watching, updates, failures, drifts>>

(* Stop() receives periodic's doneChan send; periodic then returns.       *)
StopAcknowledged ==
    /\ life = "waiting"
    /\ pc = "sendDone"
    /\ life' = "cleanup"
    /\ pc' = "exited"
    /\ UNCHANGED <<locals, config, nodes, newConfig, updatePending, kernel, fam, mode,
                   disturbed, ctxDone, watchDone, watching, updates, failures,
                   drifts>>

(* Stop()'s 5 s timer fires.  Timing: a periodic idle at its select with a *)
(* Done case ready, or blocked on the send Stop is waiting for, answers    *)
(* long before; the timer wins only against a reconcile in flight or a     *)
(* periodic that returned without a word.                                  *)
StopTimeout ==
    /\ life = "waiting"
    /\ pc \notin {"idle", "sendDone", "panic"}
    /\ life' = "cleanup"
    /\ UNCHANGED <<locals, config, nodes, newConfig, updatePending, kernel, pc, fam,
                   mode, disturbed, ctxDone, watchDone, watching, updates,
                   failures, drifts>>

(* cleanup(): ipDevices.Teardown with b.config's VIPs removes the managed  *)
(* loopback VIPs, best effort: an error leaves any of them.  A nil         *)
(* b.config panics.                                                        *)
Cleanup ==
    /\ life = "cleanup"
    /\ IF config = NoConfig
          THEN life' = "panic" /\ UNCHANGED lo
          ELSE life' = "stopped" /\ lo' \in SUBSET lo
    /\ disturbed' = TRUE
    /\ UNCHANGED <<locals, config, nodes, newConfig, updatePending, bgp, ipvs, pc, fam,
                   mode, ctxDone, watchDone, watching, updates, failures, drifts>>

Lifecycle ==
    \/ ParentCancel \/ WatchesExit \/ PeriodicCtxDone \/ PeriodicWatchDone
    \/ Stop \/ StopAcknowledged \/ StopTimeout \/ Cleanup

-----------------------------------------------------------------------------
Watches ==
    /\ watching
    /\ \/ \E n \in NodeLists : NodesNoop(n) \/ NodesUpdate(n)
       \/ \E c \in Configs : ConfigUpdate(c)

Periodic ==
    \/ ForcedReconfigure
    \/ PerformReconfigure
    \/ ReadAddresses
    \/ SetAddresses
    \/ ReadAnnounce
    \/ BGPAnnounce
    \/ ReadIPVS
    \/ SetIPVS
    \/ StampReconfigure

Next == Watches \/ Periodic \/ Lifecycle \/ ExternalDrift

(* The periodic goroutine keeps running its steps, and the forced ticker   *)
(* is chosen by its select with probability one; so is a Done case that    *)
(* stays ready while tickers compete with it (strong fairness).  Stop's    *)
(* timer fires and cleanup runs.  Watch deliveries, drift, the parent      *)
(* cancellation and the call of Stop are the environment's.                *)
Fairness ==
    /\ WF_vars(ForcedReconfigure)
    /\ WF_vars(ReadAddresses) /\ WF_vars(SetAddresses)
    /\ WF_vars(ReadAnnounce) /\ WF_vars(BGPAnnounce)
    /\ WF_vars(ReadIPVS) /\ WF_vars(SetIPVS)
    /\ WF_vars(StampReconfigure)
    /\ SF_vars(PeriodicWatchDone) /\ SF_vars(PeriodicCtxDone)
    /\ WF_vars(WatchesExit)
    /\ WF_vars(StopAcknowledged) /\ WF_vars(StopTimeout) /\ WF_vars(Cleanup)

Spec == Init /\ [][Next]_vars
FairSpec == Spec /\ Fairness

-----------------------------------------------------------------------------
(* Refinement mapping to the abstract reconciler: the wanted VIPs are those *)
(* of b.config (none while it is nil), the destinations those of b.nodes;  *)
(* what the kernel call in flight read is its local snap (none: NoConfig)  *)
(* and the nodes list the last SetIPVS call read.                          *)
WantedOf(c) == IF c = NoConfig THEN {} ELSE ConfigVIPs(c)
Wanted == WantedOf(config)

Abstract == INSTANCE KernelReconciler
                WITH want <- Wanted, dest <- nodes, took <- WantedOf(snap),
                     tookDest <- snapNodes

-----------------------------------------------------------------------------
TypeOK ==
    /\ config \in Configs \cup {NoConfig}
    /\ nodes \in NodeLists
    /\ newConfig \in BOOLEAN
    /\ updatePending \in BOOLEAN
    /\ lo \subseteq VIP
    /\ bgp \subseteq VIP
    /\ ipvs \in [VIP -> NodeLists \cup {NoService}]
    /\ pc \in {"idle", "addr", "addrW", "bgp", "bgpW", "ipvs", "ipvsW", "stamp", "panic",
              "sendDone", "exited"}
    /\ snap \in Configs \cup {NoConfig}
    /\ snapNodes \in NodeLists
    /\ rem \subseteq VIP /\ add \subseteq VIP
    /\ fam \in Family
    /\ mode \in {"fast", "forced"}
    /\ disturbed \in BOOLEAN
    /\ life \in {"running", "waiting", "cleanup", "stopped", "panic"}
    /\ ctxDone \in BOOLEAN /\ watchDone \in BOOLEAN /\ watching \in BOOLEAN
    /\ updates \in 0..MaxUpdates
    /\ failures \in 0..MaxFailures
    /\ drifts \in 0..MaxDrift

-----------------------------------------------------------------------------
(* Family f of the kernel reflects b.config and b.nodes: its loopback     *)
(* VIPs, its announcements and its IPVS services.                          *)
LoSynced(f)   == lo \cap VIPsOf(f) = config[f]
BgpSynced(f)  == config[f] \subseteq bgp
IpvsSynced(f) == \A v \in VIPsOf(f) : ipvs[v] = DesiredIPVS(nodes, config)[v]
FamilySynced(f) == LoSynced(f) /\ BgpSynced(f) /\ IpvsSynced(f)

(* While a reconcile runs undisturbed (no watch event, drift, failure or   *)
(* teardown since its tick), every kernel call configure() and            *)
(* configure6() have completed so far still holds, and what the call in   *)
(* flight read is still current: setAddresses synced the family's         *)
(* loopback before bgp.Set, bgp.Set its announcements before SetIPVS, and  *)
(* configure() all of v4 before configure6() began.                       *)
ReconcileProgress ==
    (~disturbed /\ pc \in {"addr", "addrW", "bgp", "bgpW", "ipvs", "ipvsW", "stamp"}) =>
        /\ (pc # "addr" \/ fam = "v6") => config # NoConfig
        /\ pc \in {"addrW", "bgpW", "ipvsW"} => snap = config
        /\ pc = "ipvsW" => snapNodes = nodes
        /\ pc = "addrW" => /\ rem = (lo \cap VIPsOf(fam)) \ config[fam]
                           /\ add = config[fam] \ (lo \cap VIPsOf(fam))
        /\ pc = "stamp" => fam = "v4" /\ FamilySynced("v4")
        /\ fam = "v6" => FamilySynced("v4")
        /\ pc \in {"bgp", "bgpW", "ipvs", "ipvsW"} => LoSynced(fam)
        /\ pc \in {"ipvs", "ipvsW"} => BgpSynced(fam)

(* Spec 8.2 (parity after reconcile): when configure() and configure6()   *)
(* both succeed and no watch event, drift or failure interleaves with      *)
(* them, the loopback, the IPVS table and the announcements reflect the    *)
(* config and nodes list afterwards.                                       *)
ReconcileEstablishesParity ==
    [][(pc = "ipvsW" /\ fam = "v6" /\ pc' = "idle" /\ ~disturbed')
         => InSync(config, nodes)']_vars

(* Self-healing (spec 1(d)): once deliveries, drift and failures stop,    *)
(* the forced tick brings the kernel in line with the config for good,     *)
(* whatever the fast path missed.                                          *)
Convergence == <>[](config # NoConfig => InSync(config, nodes))

(* Spec 4.5: the fast tick skips the parity check only when no update      *)
(* arrived since the last reconfigure, i.e. when the IPVS table already    *)
(* reflects the current config and nodes (S3: an IPVS change is applied    *)
(* within one fast tick).                                                  *)
FastPathSkipSound ==
    (pc = "idle" /\ NoUpdatesReady) => ipvs = DesiredIPVS(nodes, config)

(* Spec 4.5 / S3: a VIP dropped from the config is withdrawn from BGP by   *)
(* the forced reconcile; eventually the announced set is the config's.     *)
BGPConverges == <>[](config # NoConfig => bgp = ConfigVIPs(config))

(* Spec 5: IPVS changes precede BGP updates, so a VIP is first announced   *)
(* only once its IPVS virtual service exists.                              *)
AnnounceAfterBind ==
    [][\A v \in VIP : (v \notin bgp /\ v \in bgp') => ipvs'[v] # NoService]_vars

(* Nothing dereferences the nil b.config held before the first configmap   *)
(* delivery: neither a tick (setAddresses reads b.config.Config) nor a     *)
(* Stop() (cleanup passes b.config.Config to Teardown).                    *)
NoNilConfigDereference == pc # "panic" /\ life # "panic"

(* Spec 5 (cancellation): once Stop() is called, Stop returns after        *)
(* cleanup and the periodic goroutine returns; none of the worker's        *)
(* goroutines is left blocked.                                             *)
ShutdownCompletes ==
    (life # "running") ~> (life = "stopped" /\ pc = "exited")

(* Stop() waits for periodic before cleanup() ("blocking until periodic    *)
(* tasks complete"): once Stop has returned, no step of the worker adds a  *)
(* VIP back to the loopback.                                               *)
CleanupIsFinal == [][life = "stopped" => lo' \subseteq lo]_vars

(* Every kernel write of the worker -- setAddresses' deletions and        *)
(* additions, bgp.Set, SetIPVS, whole or cut short by an error -- moves    *)
(* what it touches to what the config and nodes list its own call read     *)
(* want, a snapshot that watches() may have replaced since the unlocked    *)
(* read; only the teardown and external deletes remove addresses otherwise.*)
RefinesKernelReconciler == Abstract!Spec

=============================================================================
