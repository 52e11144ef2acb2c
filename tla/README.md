# Verification of Ravel's BGP worker and role coordination

This directory holds TLA+ models of the concurrent parts of the Ravel sources
under `src/`. It also holds the TLC configurations that check them and the
TLAPS proofs about them.

## The system

The sources are:

- `src/unnamed/part_001` is Go package `bgp` (type `bgpserver`). It is the BGP
  worker. Three parts share its state under one mutex:
  - `watches()` receives node lists and configmaps from the Kubernetes watcher.
    It stores them in `b.nodes` and `b.config` and stamps `lastInboundUpdate`.
  - `periodic()` is the reconcile loop. It has two tickers:
    - a forced 30 s tick, which runs `configure()` and then `configure6()`;
    - a 2 s tick, `performReconfigure()`. It returns early when
      `noUpdatesReady()` holds. Otherwise it reads the loopback addresses and
      asks `CheckConfigParity`, and reconfigures only if they differ.
  - `configure()` calls, in order:
    1. `setAddresses()` (loopback removals, then additions, then MTU);
    2. `bgp.Get`;
    3. `bgp.Set`;
    4. `ipvs.SetIPVS`;
    5. the stamp `lastReconfigure = time.Now()`.

    `configure6()` does the same for v6, without the stamp.
  - `Stop()` cancels `ctxWatch`, then waits for either a send on the unbuffered
    `doneChan` or a 5 s timer. It then runs `cleanup()`, which tears down the
    loopback VIPs of `b.config`. `periodic()` sends on `doneChan` only in its
    `ctx.Done` case; its `ctxWatch.Done` case returns without a word.
- `src/cmd/ravel/ipvsbackend_realserver.go` is the real-server command.
  - `watchForMaster` dials the director's coordination port once a second. It
    sends each result on an unbuffered channel.
  - `blockForever` receives each result and starts or stops the real-server
    worker with hysteresis.
  - `RunE` builds its helpers, returns on the first error, and then calls
    `blockForever`.
  - The director command `IPVSMASTER` is concatenated to the same file. Its
    `RunE` runs setup steps, starts the coordination listeners that these dials
    probe, runs more setup steps up to `worker.Start`, and ends in a
    `for { select { case <-ctx.Done(): } }` whose case body is empty.
- `src/unnamed/part_000` is a shell fixture.
- `src/load-test/ab.yaml` is a load-test Job.

Neither of the last two has behaviour to model.

The IPVS manager, the BGP controller, the IP helpers and `CheckConfigParity`
are not under `src/`. They are modelled from `spec.md` by their effect on three
kernel-side sets:
- the loopback VIPs;
- the announced VIPs;
- the IPVS table.

## Modules

| Module | Models |
|---|---|
| `BGPServer` | The BGP worker (watches, periodic, performReconfigure, configure, configure6, setAddresses[6], Stop, cleanup). |
| `KernelReconciler` | Abstract spec: what the worker promises about the kernel. |
| `MCBGPServer` | TLC instance: VIPs a1 a2 (v4) and b1 (v6), node lists n1 n2, three configs. |
| `BGPServerProofs` | TLAPS: type invariant of BGPServer. |
| `BGPServerRefinement` | TLAPS: BGPServer implements KernelReconciler. |
| `BGPServerParity` | TLAPS: an undisturbed reconcile establishes parity (`ReconcileEstablishesParity`), through the inductive invariant `ReconcileProgress`. |
| `Coordinator` | Real-server RunE, blockForever, watchForMaster and connectToMaster, plus the director's RunE. |
| `CoordinatorProofs` | TLAPS: type invariant and RunningMatchesStatus. |

### BGPServer

State:
- `config` is `b.config`, a record of v4 and v6 VIP sets, or `NoConfig` while it
  is still nil.
- `nodes` is `b.nodes`, a model value.
- `newConfig` is `b.newConfig`.
- `updatePending` is `lastInboundUpdate >= lastReconfigure`, which is
  `~noUpdatesReady()`.
- `lo`, `bgp` and `ipvs` are the kernel state.
- `pc` and `fam` give the position of the periodic goroutine in
  configure/configure6. `mode` says which ticker started it.

periodic() reads `b.config` and `b.nodes` without the lock, once for each
kernel call. Each call is therefore two steps: a read step that keeps what the
call read in per-call locals, and a write step that applies them. A
`watches()` delivery can fall between any two steps, so a write may apply a
config that has been replaced since its read. The locals are:
- `snap`, the config the call read (`NoConfig` between calls);
- `snapNodes`, the nodes list SetIPVS read;
- `rem` and `add`, the removals and additions setAddresses computed.

The steps, in order, are:
- `ReadAddresses`: ipDevices.Get, the read of `b.config.Config`, Compare4.
  Its alternatives are a Get error, the nil-config panic, or the read.
- `SetAddresses`: the Del and Add loops and SetMTU.
- `ReadAnnounce`: bgp.Get (only in configure(); an error returns) and the
  read of the family's VIPs.
- `BGPAnnounce`: bgp.Set / SetV6.
- `ReadIPVS`: the reads of the SetIPVS arguments.
- `SetIPVS`.
- `StampReconfigure`.

Every error return is `Fail`, which also drops the call's locals. The fast
path then returns from performReconfigure, while the forced path goes on to
configure6 (part_001:319-329). `PerformReconfigure` also models the error
return of ipDevices.Get and of CheckConfigParity (part_001:597-615).

SetV6 is not under `src/`. Its adapter is modelled as add-only like `set`,
which is what configure() does for v4 and what the spec's additive-only policy
(4.5) describes. The model does not rely on any other SetV6 behaviour.

A failing call leaves a prefix of its work done:
- setAddresses leaves some removals done, or all removals and some additions;
- SetIPVS leaves any subset of the family's services done.

`ExternalDrift` removes a loopback VIP (spec S4). Updates, failures and drifts
are bounded by `MaxUpdates`, `MaxFailures` and `MaxDrift`.

`TicksAwaitConfig` chooses the initial state:
- TRUE: the first configmap was delivered before the first tick.
- FALSE: `b.config` is still nil. The forced tick then reaches setAddresses,
  which panics (`pc = "panic"`).

`disturbed` is a history variable. It records that the running reconcile was
interleaved with an update, a drift, a failure or the teardown. A tick that
starts a new pass (`StartConfigure`, forced or fast) resets it to FALSE.

Lifecycle. `life` is Stop's position: running, waiting in its select, cleanup,
stopped, or panic (a nil `b.config` in `cleanup`). `ctxDone` and `watchDone` are
the two contexts. `watching` says whether `watches()` still runs. `pc` gains
`sendDone` (periodic blocked on `doneChan`) and `exited`. The actions are:
- `ParentCancel` (the parent cancels `b.ctx`, and with it `ctxWatch`);
- `WatchesExit`;
- `PeriodicCtxDone` and `PeriodicWatchDone`, the two Done cases;
- `Stop`;
- `StopAcknowledged` (Stop receives on `doneChan`);
- `StopTimeout`;
- `Cleanup` (best effort: any subset of the loopback VIPs remains).

`StopCalled` and `ParentCancels` switch the two ways to end the worker on and
off.

Timing. The 5 s timer is abstracted, not counted. It wins only against a
reconcile in flight or a periodic that already returned. A periodic idle in its
select with a Done case ready, or blocked on the send Stop is waiting for,
answers long before 5 s, so `StopTimeout` is not enabled then.

### KernelReconciler and the refinement

`KernelReconciler` has the wanted VIP set `want`, the nodes list `dest`, the
snapshot of the kernel call in flight (`took`, the VIPs wanted when it read,
and `tookDest`, the nodes list it read) and the same three kernel sets. Its
steps are:
- `Deliver` (a new config or nodes list);
- `Read` (a call takes its snapshot, of the nodes list too for IPVS);
- `Program(s)` (the VIPs in `s` become present on the loopback exactly when
  the snapshot wants them);
- `Announce(a)` (announce VIPs of the snapshot only);
- `Bind(t)` (the VIPs in `t` get the service the snapshot calls for);
- `Remove` (loopback VIPs disappear).
Each write releases the snapshot.

`BGPServer` maps onto it by `want <- Wanted` (the VIPs of `b.config`, none
while it is nil), `dest <- nodes`, `took <- WantedOf(snap)` and
`tookDest <- snapNodes`:
- the three read steps are `Read`; a read cut short by an error is
  `Program({})`, and the nil-config panic stutters;
- a complete setAddresses is `Program(rem \cup add)`, and one cut short after
  removals `r` and additions `a` is `Program(r \cup a)`;
- bgp.Set is `Announce(snap[fam])`, and its error `Announce({})`;
- SetIPVS is `Bind` of the family's VIPs, or of the subset done before an
  error;
- watch deliveries are `Deliver`;
- drift and the teardown are `Remove`;
- everything else stutters.

So the refinement says what the code guarantees and no more. Each write
applies exactly what its own call read. That read may be stale: the spec
(5) says readers work on a snapshot. The abstract spec lets a write leave
entries alone and lets any VIP disappear, so it does not catch lost work. It
catches a write that puts into the kernel something its call's snapshot does
not ask for, such as IPVS services for VIPs the config does not name
(mutant `DesiredIPVSAll`), or a loopback write of the wrong VIPs.

### Coordinator

State:
- `tries` and `lastMasterStatus` are blockForever's locals.
- `sent` and `probe` are the result waiting on the unbuffered `controlChan`.
- `worker` is running or stopped. `state` becomes exited when blockForever
  returns.
- `state` starts in `setup`, the real-server RunE before blockForever.
  `Setup` either reaches the loop or returns an error.
- `director` is the director process:
  - `DirectorBoot` (down to booting);
  - `DirectorListen` (setup up to `go listenController` succeeds, so it is
    listening, or it fails, so it is down);
  - `DirectorStart` (setup after the listener up to `worker.Start`);
  - `DirectorCancel` (ctx.Done; the loop spins);
  - `DirectorKill` (the pod dies).

  Boots and kills are bounded by `MaxFlips`. A dial succeeds while the
  director listens (`DirectorUp`).
- `downRun` is a history variable that counts consecutive failed dials.

`Receive` is the if / else-if chain of the select case. Its disjuncts are:
- stop;
- start;
- count a failure and `continue`;
- the fall-through that sets `lastMasterStatus` and `tries = 1`.

A worker error ends the loop (`Exit`). `Cancel` is the ctx.Done case.

## Runs

| Run | Cfg | Expect | Shows |
|---|---|---|---|
| bgp_safety | MCBGPServer_safety.cfg | pass | A reconcile that finished undisturbed leaves loopback, IPVS and BGP matching the config (`ReconcileEstablishesParity`). Every read and write, with Stop and a parent cancel in any phase too, is a step of KernelReconciler (`RefinesKernelReconciler`). 1.8 M states, about 1 min. |
| bgp_liveness | MCBGPServer_liveness.cfg | pass | Under fairness, the kernel eventually matches the config for good (`Convergence`). |
| coordinator | MCCoordinator.cfg | pass | See below. |
| bgp_lostupdate | MCBGPServer_lostupdate.cfg | violation | A nodes update between SetIPVS's read and the stamp is hidden by the stamp; the fast path skips while IPVS is stale (`FastPathSkipSound`). |
| bgp_nilconfig | MCBGPServer_nilconfig.cfg | violation | Before the first configmap, nil `b.config` is dereferenced (`NoNilConfigDereference`). A tick does it in setAddresses, and that is the trace TLC reports. Stop does it in cleanup. |
| bgp_order | MCBGPServer_order.cfg | violation | BGP announces a VIP before SetIPVS creates its service (`AnnounceAfterBind`). The spec disagrees with itself here: 4.5 lists BGP before IPVS, as the code does, while 5 orders IPVS before BGP. The property follows 5, which gives the reason (a VIP must exist before it is bound, and announcements may follow the binding). |
| bgp_withdraw | MCBGPServer_withdraw.cfg | violation | A VIP removed from the config is never withdrawn (`BGPConverges`). |
| bgp_shutdown | MCBGPServer_shutdown.cfg | pass | When only Stop ends the worker, Stop and cleanup complete and periodic returns, whatever is in flight (`ShutdownCompletes`). |
| bgp_shutdownleak | MCBGPServer_shutdownleak.cfg | violation | Stop's 5 s timer fires on a configure in flight, then the parent context is cancelled (`ParentCancels` = cleanup or stopped phase). periodic finishes the configure, takes ctx.Done and blocks on the unbuffered doneChan forever (`ShutdownCompletes`). |
| bgp_cleanuprace | MCBGPServer_cleanuprace.cfg | violation | A configure still running when the timer fires re-adds VIPs after cleanup (`CleanupIsFinal`). |
| coordinator_directorcancel | MCCoordinator_directorcancel.cfg | violation | The director's RunE never returns after cancellation (`DirectorExitsOnCancel`). |
| coordinator_hysteresis | MCCoordinator_hysteresis.cfg | violation | The first failed dial at startup starts the worker: `tries` starts at `maxTries` (`StartNeedsSustainedOutage`). |

The coordinator run checks:
- `TypeOK`;
- `RunningMatchesStatus`: the worker runs iff the last decision was on a failed
  dial;
- `FailoverEventually`: a director that stays down gets the worker started;
- `YieldEventually`: a director that stays up gets the worker stopped.

These hold across director boots, setup failures after the listener started,
kills, and the spinning loop.

`bgp_safety`, `bgp_nilconfig` and the lifecycle runs set `CHECK_DEADLOCK FALSE`. After Stop the
worker really stops. Its runs start without a config and
may end in the panic state, where the process really stops. The coordinator
may really stop too, after blockForever returns.

Bounds. The smallest instance where each interesting case happens:
- Two v4 VIPs and configs {a1}, {a2}, so that one configure both removes and
  adds.
- One v6 VIP, added and dropped.
- Two node lists.
- bgp_safety: 2 updates (one can land between a call's read and its write,
  another after the pass), 2 failures (both families, or two calls of one),
  1 drift, Stop, and a parent cancel in any phase. It starts without a config,
  so the nil panic and the first delivery are both covered.
- bgp_liveness: 2 updates, 1 failure, 1 drift.
- bgp_shutdown: 2 updates and 1 failure with Stop, no drift. Drift only
  removes loopback VIPs, which no shutdown step depends on; dropping it keeps
  the liveness run under 3 minutes. This is enough for Stop to land in every
  read and write step, including the error paths.
- The runs that find a violation need only 1 update, except the ones that
  need an update inside a pass (3).
- For the coordinator, `MaxTries = 3`, which makes the counting branch reachable
  twice, and 4 director flips (up, down, up, down).

Each property of a passing run has a mutant in PROJECT.json that TLC catches.

## Fairness

`FairSpec` makes the steps of the periodic goroutine weakly fair. These are
`ForcedReconfigure`, the three read steps, `SetAddresses`, `BGPAnnounce`,
`SetIPVS` and `StampReconfigure`. The goroutine is started by `Start()` and blocks on nothing
but its select and the kernel calls. When idle, the 30 s ticker is always ready,
and Go's select picks a ready case uniformly at random.

Both Done cases of periodic are strongly fair. Once a context is cancelled its
case stays ready, but it competes with the tickers, and the tickers can take
periodic away from `idle` again. Go's uniform choice among ready cases picks it
eventually with probability one. `WatchesExit`, `StopAcknowledged`,
`StopTimeout` and `Cleanup` are weakly fair: each is a goroutine that is not
blocked on anything else.

Watch deliveries, drift, the parent cancel and the call of Stop belong to the
environment and are not fair. The
coordinator's `Setup`, `WatchForMaster` and `Receive`, and the director's
`DirectorListen` and `DirectorStart` (setup running to completion or error), are
weakly fair. A kill is not fair.

## Proofs (TLAPS)

`CoordinatorProofs`:
- `TypeCorrect`: `Spec => []TypeOK`.
- `StatusCorrect`: `Spec => []RunningMatchesStatus`. It is inductive once the
  types are known, because only a Start or a Stop moves the worker and each one
  also sets `lastMasterStatus`. The counted-failure branch moves neither. The
  proof rests on `MaxTriesAssumption` (`MaxTries \in Nat \ {0}`).

`BGPServerProofs`:
- `TypeInvariant`: `Spec => [](TypeOK /\ ConfigPresent)`.
  `TypeOK` alone is not inductive, because `BGPAnnounce` reads `snap[fam]`
  and `ReadAnnounce` copies `config` into `snap`. `ConfigPresent` says a
  config is present from setAddresses' write on, and that `snap` holds one at
  every write step. It holds because those steps are reached only through a
  setAddresses read that found a config, a config once delivered is never nil
  again, and each read step copies that config into `snap`.
- `TypeCorrect`: follows from `TypeInvariant`.

`BGPServerRefinement`:
- `Refinement`: `Spec => RefinesKernelReconciler`, i.e. BGPServer implements
  KernelReconciler.
  - `InitRefined`: initial states map to initial states.
  - Each kind of step has a lemma: `ReadRefined`, `SetAddressesRefined`,
    `BGPAnnounceRefined`, `SetIPVSRefined`, `DeliverRefined`,
    `RemoveRefined`, and `QuietStep` for stutters.
  - The key fact is `FamilyWanted`. For a delivered config, the wanted VIPs
    of a family are exactly the config's entry for that family, because v4 and
    v6 VIPs are disjoint.
  - The write of setAddresses no longer sees the config it was computed
    from, so the proof needs the invariant `CallLocals`: at the write, the
    removals are VIPs of the family that `snap` does not want and the
    additions VIPs it does (`CallLocalsStep`, `RInvariant`). With
    `FamilyWanted`, a setAddresses cut short after removals `r` and additions
    `a` equals `Program(r \cup a)` for the snapshot.
  - The step proof also needs `TypeInvariant`: every write step holds a
    config in `snap`.

`BGPServerParity`:
- `ParityEstablished`: `Spec => ReconcileEstablishesParity`, for every set of
  VIPs, configs, node lists and bounds. A configure/configure6 pass that ends
  with `disturbed` still FALSE leaves loopback, BGP and IPVS in sync.
- The property is about one step (the last SetIPVS of the v6 half), so it
  needs to know what the earlier calls of the pass did. That is the inductive
  invariant `ReconcileProgress` (in `BGPServer`, defined per family by
  `LoSynced`, `BgpSynced` and `IpvsSynced`). While the pass is undisturbed:
  - at a write step, what the call read (`snap`, `snapNodes`, and for
    setAddresses `rem` and `add`) is still current;
  - past setAddresses of a family, its loopback matches the config;
  - past bgp.Set, its VIPs are announced;
  - when v6 starts, all of v4 is in sync.
  The first item is why the invariant talks about the locals: it is what lets
  each write's effect be stated in terms of `config` and `nodes`.
- `ProgressInvariant` proves `Spec => [](TypeInv /\ ReconcileProgress)`, one
  CASE per action, with a lemma per read and write step. An update, drift,
  failure or the teardown sets `disturbed` and makes the invariant vacuous
  (`ProgressVacuous`). A new pass resets `disturbed` but starts at the v4
  setAddresses read, where the invariant asks nothing. Steps that leave the
  kernel, `pc` and the locals alone keep it (`ProgressFrame`).
- The set lemma `DeleteThenAdd` is the heart of setAddresses. Removing
  `have \ W` and adding `W \ have` leaves exactly `W` inside the family and
  leaves the other family alone. `ConfigFamilies` splits a config's VIPs into
  its v4 and v6 entries.
- `TypeInv` is needed because the step cases read `config[fam]`.
- TLC also checked `ReconcileProgress` as an invariant of the bgp_safety
  instance (1.8 M states) before the proof.

All of these rest on `ConstantsAssumption`.

Only TLC checks these:
- the liveness properties (`Convergence`, `ShutdownCompletes`,
  `FailoverEventually`, `YieldEventually`). They rest on fairness and on
  ENABLED, which the installed provers cannot reason about.

The code violates `FastPathSkipSound`, `AnnounceAfterBind`, `BGPConverges`,
`CleanupIsFinal`, `NoNilConfigDereference` and the coordinator's hysteresis and
cancel properties, so there is nothing to prove about them.

## Findings

| Run | Where | What |
|---|---|---|
| bgp_lostupdate | part_001:249 | An update during configure is stamped as applied. |
| bgp_nilconfig | part_001:436 | A tick before the first configmap panics. |
| bgp_order | part_001:233 | The VIP is announced before its IPVS service exists. |
| bgp_withdraw | part_001:233 | A removed VIP is never withdrawn. |
| bgp_cleanuprace | part_001:103 | A configure outliving the timer re-adds VIPs after cleanup. |
| bgp_shutdownleak | part_001:341 | After Stop's timer fired, a parent cancel leaves periodic blocked forever on doneChan. |
| bgp_nilconfig | part_001:120 | Stop before the first configmap panics in cleanup. |
| coordinator_hysteresis | go:120 | The first failed dial starts the worker. |
| coordinator_directorcancel | go:319 | The director's RunE spins after cancel. |

Seen with TLC and kept out of the run list: periodic's ctxWatch.Done case
(part_001:343) returns without sending on `doneChan`. Stop therefore always
waits out its 5 s timer, which costs a delay but breaks no property.

## Not modelled

- `watchServiceUpdates()` and `getClusterAddr()`, which are never started or
  used by the reconcile.
- MTUs, ports and services inside a config.
- Metrics and logging.
- The helpers the two RunE functions build. Setup is one step that succeeds or
  fails.
- The director worker (`pkg/director`), which is not under `src/`.
- The shell fixture and the load-test Job.
- Real time. The 5 s and 1 s timers and the tickers are abstracted as described
  under Timing.

## Plan

1. Compose the coordinator with the BGP worker's lifecycle: a director that
   crashes while real servers stop their worker.
