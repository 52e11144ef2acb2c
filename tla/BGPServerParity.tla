-------------------------- MODULE BGPServerParity ---------------------------
(***************************************************************************)
(* Proof of ReconcileEstablishesParity: a configure()/configure6() pass    *)
(* that ran undisturbed leaves the kernel in sync with the config and the *)
(* nodes list.  The action property follows from the inductive invariant  *)
(* ReconcileProgress, which records which kernel calls of the running     *)
(* pass have completed; it needs TypeInv (types, and a config present at  *)
(* the announce and IPVS steps).                                           *)
(***************************************************************************)
EXTENDS BGPServerProofs

IInv == TypeInv /\ ReconcileProgress

-----------------------------------------------------------------------------
(* A delivered config keeps each family's VIPs within that family, and    *)
(* its VIPs are the union of the two families' entries.                    *)
LEMMA ConfigFamilies ==
    ASSUME NEW c \in Configs
    PROVE  /\ c["v4"] \subseteq VIP4
           /\ c["v6"] \subseteq VIP6
           /\ ConfigVIPs(c) = c["v4"] \cup c["v6"]
<1>1. c \in [v4 : SUBSET VIP4, v6 : SUBSET VIP6]
  BY ConstantsAssumption
<1>2. QED
  BY <1>1 DEF ConfigVIPs

(* A step that leaves the reconcile's position, the call's reads and      *)
(* everything the invariant reads alone preserves it.                      *)
LEMMA ProgressFrame ==
    ASSUME ReconcileProgress,
           UNCHANGED <<config, nodes, lo, bgp, ipvs, pc, fam, disturbed, snap, snapNodes,
                       rem, add>>
    PROVE  ReconcileProgress'
BY DEF ReconcileProgress, FamilySynced, LoSynced, BgpSynced, IpvsSynced

(* A step after which no undisturbed reconcile is at a kernel call         *)
(* satisfies the invariant vacuously.                                      *)
LEMMA ProgressVacuous ==
    ASSUME \/ disturbed' = TRUE
           \/ pc' \notin {"addr", "addrW", "bgp", "bgpW", "ipvs", "ipvsW", "stamp"}
           \/ pc' = "addr" /\ fam' = "v4"
    PROVE  ReconcileProgress'
BY DEF ReconcileProgress

(* A read step of a call leaves the kernel, the config and the nodes list  *)
(* alone, so what the pass completed before it still holds.                *)
LEMMA ReadCarries ==
    ASSUME UNCHANGED <<config, nodes, lo, bgp, ipvs, fam>>
    PROVE  /\ FamilySynced("v4")' = FamilySynced("v4")
           /\ LoSynced(fam)' = LoSynced(fam)
           /\ BgpSynced(fam)' = BgpSynced(fam)
BY DEF FamilySynced, LoSynced, BgpSynced, IpvsSynced

-----------------------------------------------------------------------------
(* The delete-then-add of setAddresses over a family's VIPs F, with the  *)
(* wanted set W of that family: afterwards the loopback holds exactly W    *)
(* of F, and VIPs outside F are untouched.                                 *)
LEMMA DeleteThenAdd ==
    ASSUME NEW L, NEW F, NEW W, W \subseteq F, NEW G, G \cap F = {}
    PROVE  LET have == L \cap F
               L2   == (L \ (have \ W)) \cup (W \ have)
           IN  /\ L2 \cap F = W
               /\ L2 \cap G = L \cap G
OBVIOUS

(* The other family of the reconcile.                                     *)
LEMMA OtherFamily ==
    ASSUME NEW f \in Family
    PROVE  /\ VIPsOf(f) \cap VIPsOf(IF f = "v4" THEN "v6" ELSE "v4") = {}
           /\ f = "v6" => VIPsOf(IF f = "v4" THEN "v6" ELSE "v4") = VIP4
BY ConstantsAssumption DEF VIPsOf, Family

(* setAddresses' read: Get lists the loopback and the removals and         *)
(* additions are computed from the config read, which is current.          *)
LEMMA ReadAddressesProgress ==
    ASSUME IInv, ReadAddresses
    PROVE  ReconcileProgress'
<1> USE DEF IInv, TypeInv
<1>1. CASE Fail
  BY <1>1, ProgressVacuous DEF Fail
<1>2. CASE config = NoConfig /\ pc' = "panic"
  BY <1>2, ProgressVacuous
<1>3. CASE /\ config # NoConfig
           /\ rem' = (lo \cap VIPsOf(fam)) \ config[fam]
           /\ add' = config[fam] \ (lo \cap VIPsOf(fam))
           /\ snap' = config
           /\ pc' = "addrW"
           /\ UNCHANGED <<fam, disturbed>>
  <2>1. UNCHANGED <<config, nodes, lo, bgp, ipvs, fam>> /\ disturbed \in BOOLEAN
    BY <1>3 DEF ReadAddresses, TypeOK
  <2>2. CASE disturbed
    BY <1>3, <2>2, ProgressVacuous
  <2>3. CASE ~disturbed
    <3>1. fam = "v6" => FamilySynced("v4")
      BY <2>3 DEF ReadAddresses, ReconcileProgress
    <3>2. FamilySynced("v4")' = FamilySynced("v4")
      BY <2>1, ReadCarries
    <3>3. QED
      BY <1>3, <2>1, <2>3, <3>1, <3>2 DEF ReconcileProgress
  <2>4. QED
    BY <2>1, <2>2, <2>3
<1>4. QED
  BY <1>1, <1>2, <1>3 DEF ReadAddresses

(* setAddresses' writes, on an undisturbed pass, apply the delete-then-add *)
(* computed from the current loopback: the running family's loopback is    *)
(* synced and v4's sync is kept.                                           *)
LEMMA SetAddressesProgress ==
    ASSUME IInv, SetAddresses
    PROVE  ReconcileProgress'
<1> USE DEF IInv, TypeInv
<1>1. CASE disturbed' = TRUE
  BY <1>1, ProgressVacuous
<1>2. CASE /\ lo' = ApplyAddresses(rem, add)
           /\ pc' = "bgp"
           /\ UNCHANGED <<fam, disturbed>>
           /\ ~disturbed
  <2> DEFINE have == lo \cap VIPsOf(fam)
             wnt  == config[fam]
             oth  == IF fam = "v4" THEN "v6" ELSE "v4"
  <2>1. /\ config # NoConfig
        /\ rem = have \ wnt /\ add = wnt \ have
        /\ fam = "v6" => FamilySynced("v4")
    BY <1>2 DEF SetAddresses, ReconcileProgress
  <2>2. config \in Configs /\ fam \in Family
    BY <2>1 DEF TypeOK
  <2>3. wnt \subseteq VIPsOf(fam) /\ VIPsOf(oth) \cap VIPsOf(fam) = {}
    BY <2>2, ConfigFamilies, OtherFamily DEF VIPsOf, Family
  <2>4. UNCHANGED <<config, nodes, bgp, ipvs>>
    BY DEF SetAddresses
  <2>5. /\ lo' \cap VIPsOf(fam) = wnt
        /\ lo' \cap VIPsOf(oth) = lo \cap VIPsOf(oth)
    BY <1>2, <2>1, <2>3, DeleteThenAdd DEF ApplyAddresses
  <2>6. LoSynced(fam)'
    BY <1>2, <2>4, <2>5 DEF LoSynced
  <2>7. fam' = "v6" => FamilySynced("v4")'
    <3> SUFFICES ASSUME fam = "v6" PROVE FamilySynced("v4")'
      BY <1>2
    <3>1. VIPsOf(oth) = VIP4 /\ VIPsOf("v4") = VIP4
      BY <2>2, OtherFamily DEF VIPsOf
    <3>2. QED
      BY <2>1, <2>4, <2>5, <3>1 DEF FamilySynced, LoSynced, BgpSynced, IpvsSynced
  <2>8. QED
    BY <1>2, <2>1, <2>4, <2>6, <2>7 DEF ReconcileProgress
<1>3. CASE /\ pc' = "bgp"
           /\ UNCHANGED <<fam, disturbed>>
           /\ disturbed
  BY <1>3, ProgressVacuous
<1>4. QED
  BY <1>1, <1>2, <1>3 DEF SetAddresses, Fail, TypeOK

(* bgp.Get and the read of the family's VIPs: the config read is current. *)
LEMMA ReadAnnounceProgress ==
    ASSUME IInv, ReadAnnounce
    PROVE  ReconcileProgress'
<1> USE DEF IInv, TypeInv
<1>1. CASE Fail
  BY <1>1, ProgressVacuous DEF Fail
<1>2. CASE snap' = config /\ pc' = "bgpW" /\ UNCHANGED <<fam, disturbed>>
  <2>1. UNCHANGED <<config, nodes, lo, bgp, ipvs, fam>> /\ disturbed \in BOOLEAN
    BY <1>2 DEF ReadAnnounce, kernel, TypeOK
  <2>2. CASE disturbed
    BY <1>2, <2>2, ProgressVacuous
  <2>3. CASE ~disturbed
    <3>1. /\ config # NoConfig
          /\ LoSynced(fam)
          /\ fam = "v6" => FamilySynced("v4")
      BY <2>3 DEF ReadAnnounce, ReconcileProgress
    <3>2. QED
      BY <1>2, <2>1, <2>3, <3>1, ReadCarries DEF ReconcileProgress
  <2>4. QED
    BY <2>1, <2>2, <2>3
<1>3. QED
  BY <1>1, <1>2 DEF ReadAnnounce

(* bgp.Set adds the running family's config VIPs to the announcements.   *)
LEMMA BGPAnnounceProgress ==
    ASSUME IInv, BGPAnnounce
    PROVE  ReconcileProgress'
<1> USE DEF IInv, TypeInv
<1>1. CASE Fail
  BY <1>1, ProgressVacuous DEF Fail
<1>2. CASE /\ bgp' = bgp \cup snap[fam]
           /\ pc' = "ipvs"
           /\ UNCHANGED <<fam, disturbed>>
  <2>1. UNCHANGED <<config, nodes, lo, ipvs>> /\ disturbed \in BOOLEAN
    BY DEF BGPAnnounce, kernel, TypeOK
  <2>2. CASE disturbed
    BY <1>2, <2>2, ProgressVacuous
  <2>3. CASE ~disturbed
    <3>1. /\ config # NoConfig
          /\ snap = config
          /\ LoSynced(fam)
          /\ fam = "v6" => FamilySynced("v4")
      BY <2>3 DEF BGPAnnounce, ReconcileProgress
    <3>2. BgpSynced(fam)' /\ LoSynced(fam)'
      BY <1>2, <2>1, <3>1 DEF BgpSynced, LoSynced
    <3>3. fam = "v6" => FamilySynced("v4")'
      BY <1>2, <2>1, <3>1 DEF FamilySynced, LoSynced, BgpSynced, IpvsSynced
    <3>4. QED
      BY <1>2, <2>1, <2>3, <3>1, <3>2, <3>3 DEF ReconcileProgress
  <2>4. QED
    BY <2>1, <2>2, <2>3
<1>3. QED
  BY <1>1, <1>2 DEF BGPAnnounce

(* The read of b.nodes and b.config for SetIPVS: both are current.        *)
LEMMA ReadIPVSProgress ==
    ASSUME IInv, ReadIPVS
    PROVE  ReconcileProgress'
<1> USE DEF IInv, TypeInv
<1>1. UNCHANGED <<config, nodes, lo, bgp, ipvs, fam, disturbed>> /\ disturbed \in BOOLEAN
      /\ snap' = config /\ snapNodes' = nodes /\ pc' = "ipvsW"
  BY DEF ReadIPVS, kernel, TypeOK
<1>2. CASE disturbed
  BY <1>1, <1>2, ProgressVacuous
<1>3. CASE ~disturbed
  <2>1. /\ config # NoConfig
        /\ LoSynced(fam) /\ BgpSynced(fam)
        /\ fam = "v6" => FamilySynced("v4")
    BY <1>3 DEF ReadIPVS, ReconcileProgress
  <2>2. QED
    BY <1>1, <1>3, <2>1, ReadCarries DEF ReconcileProgress
<1>4. QED
  BY <1>1, <1>2, <1>3

(* SetIPVS gives the running family's VIPs their desired services; after  *)
(* v4 the whole family is in sync when the stamp is reached.               *)
LEMMA SetIPVSProgress ==
    ASSUME IInv, SetIPVS
    PROVE  ReconcileProgress'
<1> USE DEF IInv, TypeInv
<1> DEFINE target == DesiredIPVS(snapNodes, snap)
           Apply(x) == [v \in VIP |-> IF v \in x THEN target[v] ELSE ipvs[v]]
<1>1. CASE (\E x \in SUBSET VIPsOf(fam) : ipvs' = Apply(x)) /\ Fail
  BY <1>1, ProgressVacuous DEF Fail
<1>2. CASE /\ ipvs' = Apply(VIPsOf(fam))
           /\ pc' = IF fam = "v4" THEN "stamp" ELSE "idle"
           /\ UNCHANGED <<fam, disturbed>>
  <2>1. UNCHANGED <<config, nodes, lo, bgp>> /\ disturbed \in BOOLEAN
        /\ fam \in Family
    BY DEF SetIPVS, kernel, TypeOK
  <2>2. CASE fam = "v6"
    BY <1>2, <2>2, ProgressVacuous
  <2>3. CASE fam = "v4" /\ disturbed
    BY <1>2, <2>1, <2>3, ProgressVacuous
  <2>4. CASE fam = "v4" /\ ~disturbed
    <3>1. /\ config # NoConfig
          /\ snap = config /\ snapNodes = nodes
          /\ LoSynced("v4")
          /\ BgpSynced("v4")
      BY <2>4 DEF SetIPVS, ReconcileProgress
    <3>2. VIPsOf("v4") \subseteq VIP
      BY DEF VIPsOf, VIP
    <3>3. IpvsSynced("v4")'
      BY <1>2, <2>1, <2>4, <3>1, <3>2 DEF IpvsSynced
    <3>4. FamilySynced("v4")'
      BY <2>1, <3>1, <3>3 DEF FamilySynced, LoSynced, BgpSynced
    <3>5. QED
      BY <1>2, <2>1, <2>4, <3>1, <3>4 DEF ReconcileProgress
  <2>5. QED
    BY <2>1, <2>2, <2>3, <2>4 DEF Family
<1>3. QED
  BY <1>1, <1>2 DEF SetIPVS

(* The stamp moves the pass on to configure6() with v4 in sync.           *)
LEMMA StampProgress ==
    ASSUME IInv, StampReconfigure
    PROVE  ReconcileProgress'
<1> USE DEF IInv, TypeInv
<1>1. UNCHANGED <<config, nodes, lo, bgp, ipvs, disturbed>> /\ disturbed \in BOOLEAN
      /\ pc' = "addr" /\ fam' = "v6"
  BY DEF StampReconfigure, kernel, TypeOK
<1>2. CASE disturbed
  BY <1>1, <1>2, ProgressVacuous
<1>3. CASE ~disturbed
  <2>1. config # NoConfig /\ FamilySynced("v4")
    BY <1>3 DEF StampReconfigure, ReconcileProgress
  <2>2. FamilySynced("v4")'
    BY <1>1, <2>1 DEF FamilySynced, LoSynced, BgpSynced, IpvsSynced
  <2>3. QED
    BY <1>1, <1>3, <2>1, <2>2 DEF ReconcileProgress
<1>4. QED
  BY <1>1, <1>2, <1>3

-----------------------------------------------------------------------------
(* While a reconcile runs undisturbed, every kernel call it completed     *)
(* still holds: ReconcileProgress is an invariant of the worker, for every *)
(* set of VIPs, configs, node lists and bounds.                            *)
THEOREM ProgressInvariant == Spec => []IInv
<1>1. Init => ReconcileProgress
  BY DEF Init, ReconcileProgress
<1>2. IInv /\ [Next]_vars => ReconcileProgress'
  <2> SUFFICES ASSUME IInv, [Next]_vars PROVE ReconcileProgress'
    OBVIOUS
  <2>1. CASE \E n \in NodeLists : NodesNoop(n)
    BY <2>1, ProgressFrame DEF IInv, NodesNoop, kernel, locals
  <2>2. CASE \/ \E n \in NodeLists : NodesUpdate(n)
             \/ \E c \in Configs : ConfigUpdate(c)
             \/ ExternalDrift \/ Cleanup
    BY <2>2, ProgressVacuous DEF NodesUpdate, ConfigUpdate, ExternalDrift, Cleanup
  <2>3. CASE ForcedReconfigure
    BY <2>3, ProgressVacuous DEF ForcedReconfigure, StartConfigure
  <2>4. CASE PerformReconfigure
    <3>1. UNCHANGED <<config, nodes, kernel, locals>>
      BY <2>4 DEF PerformReconfigure
    <3>2. CASE UNCHANGED <<pc, fam, mode, disturbed>>
      BY <3>1, <3>2, ProgressFrame DEF IInv, kernel, locals
    <3>3. CASE StartConfigure("fast")
      BY <3>3, ProgressVacuous DEF StartConfigure
    <3>4. QED
      BY <2>4, <3>2, <3>3 DEF PerformReconfigure
  <2>5. CASE SetAddresses \/ ReadAddresses \/ ReadAnnounce \/ ReadIPVS
    BY <2>5, SetAddressesProgress, ReadAddressesProgress, ReadAnnounceProgress,
       ReadIPVSProgress
  <2>6. CASE BGPAnnounce
    BY <2>6, BGPAnnounceProgress
  <2>7. CASE SetIPVS
    BY <2>7, SetIPVSProgress
  <2>8. CASE StampReconfigure
    BY <2>8, StampProgress
  <2>9. CASE ParentCancel \/ WatchesExit \/ Stop \/ StopTimeout
    BY <2>9, ProgressFrame DEF IInv, ParentCancel, WatchesExit, Stop, StopTimeout,
                               kernel, locals
  <2>10. CASE PeriodicCtxDone \/ PeriodicWatchDone \/ StopAcknowledged
    BY <2>10, ProgressVacuous DEF PeriodicCtxDone, PeriodicWatchDone, StopAcknowledged
  <2>11. CASE UNCHANGED vars
    BY <2>11, ProgressFrame DEF IInv, vars
  <2>12. QED
    BY <2>1, <2>2, <2>3, <2>4, <2>5, <2>6, <2>7, <2>8, <2>9, <2>10, <2>11
       DEF Next, Watches, Periodic, Lifecycle
<1>3. QED
  BY <1>1, <1>2, TypeInvariant, PTL DEF Spec, IInv

(* The invariant the safety run checks, for every value of the constants. *)
THEOREM ProgressHolds == Spec => []ReconcileProgress
BY ProgressInvariant, PTL DEF IInv

(* The last call of an undisturbed pass, SetIPVS6, completes the sync: v4 *)
(* was synced by configure(), v6's loopback and announcements by the first *)
(* two calls of configure6(), and SetIPVS6 gives v6 its services.          *)
LEMMA LastCallSyncs ==
    ASSUME IInv, [Next]_vars,
           pc = "ipvsW", fam = "v6", pc' = "idle", ~disturbed'
    PROVE  InSync(config, nodes)'
<1> USE DEF IInv, TypeInv
<1> DEFINE target == DesiredIPVS(nodes, config)
<1>0. /\ SetIPVS
      /\ ipvs' = [v \in VIP |-> IF v \in VIP6 THEN DesiredIPVS(snapNodes, snap)[v]
                                ELSE ipvs[v]]
      /\ UNCHANGED <<config, nodes, lo, bgp, disturbed>>
  <2>1. ~Fail
    BY DEF Fail
  <2>2. SetIPVS
    <3>1. ~\E n \in NodeLists : NodesUpdate(n)
      BY DEF NodesUpdate
    <3>2. ~\E c \in Configs : ConfigUpdate(c)
      BY DEF ConfigUpdate
    <3>3. QED
      BY <3>1, <3>2 DEF Next, Watches, NodesNoop, Periodic, ForcedReconfigure,
                        PerformReconfigure, TickReady, ReadAddresses, SetAddresses,
                        ReadAnnounce, BGPAnnounce, ReadIPVS,
                        StampReconfigure, Lifecycle, ParentCancel, WatchesExit,
                        PeriodicCtxDone, PeriodicWatchDone, Stop,
                        StopAcknowledged, StopTimeout, Cleanup, ExternalDrift, vars
  <2>3. QED
    BY <2>1, <2>2 DEF SetIPVS, VIPsOf, kernel
<1>1. ~disturbed
  BY <1>0
<1>2. /\ config \in Configs
      /\ snap = config /\ snapNodes = nodes
      /\ FamilySynced("v4") /\ LoSynced("v6") /\ BgpSynced("v6")
  BY <1>1 DEF ReconcileProgress, TypeOK, ConfigPresent
<1>3. /\ ipvs' = [v \in VIP |-> IF v \in VIP6 THEN target[v] ELSE ipvs[v]]
      /\ UNCHANGED <<config, nodes, lo, bgp, disturbed>>
  BY <1>0, <1>2
<1>4. lo' = ConfigVIPs(config)'
  <2>1. lo \subseteq VIP4 \cup VIP6
    BY DEF TypeOK, VIP
  <2>2. QED
    BY <1>3, <1>2, <2>1, ConfigFamilies DEF FamilySynced, LoSynced, VIPsOf
<1>5. ipvs' = DesiredIPVS(nodes, config)'
  <2>1. \A v \in VIP4 : ipvs[v] = target[v]
    BY <1>2 DEF FamilySynced, IpvsSynced, VIPsOf
  <2>2. QED
    BY <1>3, <2>1 DEF DesiredIPVS, VIP
<1>6. ConfigVIPs(config)' \subseteq bgp'
  BY <1>3, <1>2, ConfigFamilies DEF FamilySynced, BgpSynced
<1>7. QED
  BY <1>4, <1>5, <1>6 DEF InSync

(* Spec 8.2: a configure()/configure6() pass that completed without a      *)
(* watch event, drift, failure or teardown in between leaves loopback,     *)
(* IPVS and announcements in sync with b.config and b.nodes, for every set *)
(* of VIPs, configs, node lists and bounds.                                *)
THEOREM ParityEstablished == Spec => ReconcileEstablishesParity
<1>1. IInv /\ [Next]_vars =>
        [(pc = "ipvsW" /\ fam = "v6" /\ pc' = "idle" /\ ~disturbed')
           => InSync(config, nodes)']_vars
  BY LastCallSyncs
<1>2. QED
  BY <1>1, ProgressInvariant, PTL DEF Spec, ReconcileEstablishesParity

=============================================================================
