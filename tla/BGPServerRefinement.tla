------------------------ MODULE BGPServerRefinement ------------------------
(***************************************************************************)
(* Proof that the BGP worker implements the abstract kernel reconciler    *)
(* under the mapping want <- Wanted, dest <- nodes, took <- what the call  *)
(* in flight read (WantedOf(snap)), tookDest <- snapNodes: the unlocked    *)
(* reads of b.config and b.nodes are Read steps; every kernel write of     *)
(* setAddresses, bgp.Set and SetIPVS, complete or cut short by an error,  *)
(* is a Program, Announce or Bind step for what its call read; watch       *)
(* deliveries are Deliver steps; drift and the teardown are Remove steps;  *)
(* all else stutters.                                                      *)
(***************************************************************************)
EXTENDS BGPServerProofs

(* What setAddresses computed before its writes: the removals are VIPs of *)
(* the family the config it read does not want, the additions VIPs it     *)
(* wants.  It holds whatever watches() and drift did since the read.      *)
CallLocals ==
    pc = "addrW" => /\ rem \subseteq VIPsOf(fam) \ snap[fam]
                    /\ add \subseteq snap[fam]

RInv == TypeInv /\ CallLocals

(* A delivered config wants, of one family's VIPs, exactly that family's  *)
(* entry: v4 and v6 VIPs are disjoint and a config keeps them apart.       *)
LEMMA FamilyWanted ==
    ASSUME NEW c \in Configs, NEW f \in Family
    PROVE  /\ ConfigVIPs(c) \cap VIPsOf(f) = c[f]
           /\ c[f] \subseteq VIPsOf(f)
           /\ ConfigVIPs(c) \subseteq VIP
           /\ WantedOf(c) = ConfigVIPs(c)
<1>1. c \in [v4 : SUBSET VIP4, v6 : SUBSET VIP6] /\ VIP4 \cap VIP6 = {} /\ c # NoConfig
  BY ConstantsAssumption
<1>2. QED
  BY <1>1 DEF ConfigVIPs, VIPsOf, Family, VIP, WantedOf

(* A kernel call that holds no config maps to an empty snapshot.          *)
LEMMA NothingTaken == WantedOf(NoConfig) = {}
BY DEF WantedOf

(* A step that leaves config, nodes, the call's reads and the kernel      *)
(* alone maps to a stutter.                                                *)
LEMMA QuietStep ==
    ASSUME UNCHANGED <<config, nodes, snap, snapNodes, lo, bgp, ipvs>>
    PROVE  UNCHANGED Abstract!vars
BY DEF Abstract!vars, Wanted

(* CallLocals survives every step: only setAddresses' read enters addrW,  *)
(* and it computes the removals and additions from the config it copies   *)
(* into snap; every other step either leaves pc, fam, snap, rem and add   *)
(* alone or moves pc off addrW.                                            *)
LEMMA CallLocalsStep ==
    ASSUME TypeInv, CallLocals, [Next]_vars
    PROVE  CallLocals'
<1>1. CASE UNCHANGED <<pc, fam, snap, rem, add>>
  BY <1>1 DEF CallLocals
<1>2. CASE ReadAddresses
  <2>1. CASE pc' = "addrW"
    <3>1. /\ rem' = (lo \cap VIPsOf(fam)) \ config[fam]
          /\ add' = config[fam] \ (lo \cap VIPsOf(fam))
          /\ snap' = config /\ fam' = fam
      BY <1>2, <2>1 DEF ReadAddresses, Fail
    <3>2. QED
      BY <3>1 DEF CallLocals
  <2>2. CASE pc' # "addrW"
    BY <2>2 DEF CallLocals
  <2>3. QED
    BY <2>1, <2>2
<1>3. CASE SetAddresses \/ ReadAnnounce \/ BGPAnnounce \/ ReadIPVS \/ SetIPVS
           \/ ForcedReconfigure \/ PerformReconfigure \/ StampReconfigure
  <2>1. pc' \in {"addr", "idle", "bgp", "bgpW", "ipvs", "ipvsW", "stamp"}
        \/ UNCHANGED <<pc, fam, snap, rem, add>>
    <3>1. CASE SetAddresses \/ ReadAnnounce \/ BGPAnnounce \/ ReadIPVS \/ SetIPVS
      BY <3>1 DEF SetAddresses, ReadAnnounce, BGPAnnounce, ReadIPVS, SetIPVS, Fail
    <3>2. CASE ForcedReconfigure \/ StampReconfigure
      BY <3>2 DEF ForcedReconfigure, StampReconfigure, StartConfigure, locals
    <3>3. CASE PerformReconfigure
      <4>1. UNCHANGED <<snap, rem, add>>
        BY <3>3 DEF PerformReconfigure, locals
      <4>2. UNCHANGED <<pc, fam>> \/ pc' = "addr"
        BY <3>3 DEF PerformReconfigure, StartConfigure
      <4>3. QED
        BY <4>1, <4>2
    <3>4. QED
      BY <1>3, <3>1, <3>2, <3>3
  <2>2. QED
    BY <1>1, <2>1 DEF CallLocals
<1>4. CASE Watches \/ Lifecycle \/ ExternalDrift
  <2>1. UNCHANGED <<pc, fam, snap, rem, add>> \/ pc' \in {"sendDone", "exited"}
    BY <1>4 DEF Watches, NodesNoop, NodesUpdate, ConfigUpdate, Lifecycle, ParentCancel,
                WatchesExit, PeriodicCtxDone, PeriodicWatchDone, Stop, StopAcknowledged,
                StopTimeout, Cleanup, ExternalDrift, locals
  <2>2. QED
    BY <1>1, <2>1 DEF CallLocals
<1>5. QED
  BY <1>1, <1>2, <1>3, <1>4 DEF Next, Periodic, vars, locals

(* The refinement's invariant holds in every reachable state.              *)
LEMMA RInvariant == Spec => []RInv
<1>1. Init => CallLocals
  BY DEF Init, CallLocals
<1>2. TypeInv /\ CallLocals /\ [Next]_vars => CallLocals'
  BY CallLocalsStep
<1>3. QED
  BY <1>1, <1>2, TypeInvariant, PTL DEF Spec, RInv

(* The initial states map to initial states of the abstract reconciler.    *)
LEMMA InitRefined == Init => Abstract!Init
<1> SUFFICES ASSUME Init PROVE Abstract!Init
  OBVIOUS
<1>1. Wanted \in SUBSET VIP
  <2>1. CASE TicksAwaitConfig
    <3>1. config \in Configs
      BY <2>1, ConstantsAssumption DEF Init
    <3>2. QED
      BY <3>1, FamilyWanted DEF Family, Wanted
  <2>2. CASE ~TicksAwaitConfig
    BY <2>2 DEF Init, Wanted, WantedOf
  <2>3. QED
    BY <2>1, <2>2
<1>2. WantedOf(snap) = {} /\ snapNodes \in NodeLists
  BY NothingTaken, ConstantsAssumption DEF Init
<1>3. QED
  BY <1>1, <1>2, ConstantsAssumption DEF Init, Abstract!Init

(* A read of b.config (and of b.nodes for SetIPVS) is a Read step; a read *)
(* cut short by an error drops nothing from the kernel, and a panic on the *)
(* nil config stutters.                                                    *)
LEMMA ReadRefined ==
    ASSUME TypeInv, ReadAddresses \/ ReadAnnounce \/ ReadIPVS
    PROVE  [Abstract!Next]_(Abstract!vars)
<1>1. UNCHANGED <<config, nodes, lo, bgp, ipvs>>
  BY DEF ReadAddresses, ReadAnnounce, ReadIPVS, kernel
<1>2. CASE Fail
  <2>1. snap' = NoConfig /\ UNCHANGED snapNodes
    BY <1>2 DEF Fail, ReadAddresses, ReadAnnounce, ReadIPVS
  <2>2. Abstract!Program({})
    BY <1>1, <2>1, NothingTaken DEF Abstract!Program, Wanted
  <2>3. QED
    BY <2>2 DEF Abstract!Next
<1>3. CASE UNCHANGED <<snap, snapNodes>>
  BY <1>1, <1>3, QuietStep
<1>4. CASE snap' = config /\ config # NoConfig /\ snapNodes' \in {snapNodes, nodes}
  <2>1. config \in Configs
    BY <1>4 DEF TypeInv, TypeOK
  <2>2. WantedOf(snap') = Wanted
    BY <1>4, <2>1 DEF Wanted
  <2>3. Abstract!Read
    BY <1>1, <1>4, <2>1, ConstantsAssumption DEF Abstract!Read, Wanted, WantedOf
  <2>4. QED
    BY <2>3 DEF Abstract!Next
<1>5. QED
  <2>1. CASE ReadAddresses
    BY <2>1, <1>2, <1>3, <1>4 DEF ReadAddresses
  <2>2. CASE ReadAnnounce
    <3>1. config # NoConfig
      BY <2>2 DEF ReadAnnounce, TypeInv, ConfigPresent
    <3>2. QED
      BY <2>2, <3>1, <1>2, <1>4 DEF ReadAnnounce
  <2>3. CASE ReadIPVS
    <3>1. config # NoConfig
      BY <2>3 DEF ReadIPVS, TypeInv, ConfigPresent
    <3>2. QED
      BY <2>3, <3>1, <1>4 DEF ReadIPVS
  <2>4. QED
    BY <2>1, <2>2, <2>3

(* setAddresses[6]'s writes, complete or cut short, are a loopback write  *)
(* of the VIPs they touched, for the config the call read.                 *)
LEMMA SetAddressesRefined ==
    ASSUME RInv, SetAddresses
    PROVE  [Abstract!Next]_(Abstract!vars)
<1>1. snap \in Configs /\ fam \in Family
  BY DEF SetAddresses, RInv, TypeInv, TypeOK, ConfigPresent
<1>2. /\ rem \subseteq VIPsOf(fam) \ snap[fam]
      /\ add \subseteq snap[fam]
  BY DEF SetAddresses, RInv, CallLocals
<1>3. /\ WantedOf(snap) \cap VIPsOf(fam) = snap[fam]
      /\ snap[fam] \subseteq VIPsOf(fam)
      /\ VIPsOf(fam) \subseteq VIP
  BY <1>1, FamilyWanted, FamilyInVIP
<1>4. UNCHANGED <<config, nodes, snapNodes, bgp, ipvs>> /\ snap' = NoConfig
  BY DEF SetAddresses, Fail
<1>5. ASSUME NEW r \in SUBSET rem, NEW a \in SUBSET add,
             lo' = ApplyAddresses(r, a)
      PROVE  [Abstract!Next]_(Abstract!vars)
  <2>1. lo' = (lo \ (r \cup a)) \cup ((r \cup a) \cap WantedOf(snap))
    BY <1>2, <1>3, <1>5 DEF ApplyAddresses
  <2>2. Abstract!Program(r \cup a)
    BY <1>4, <2>1, NothingTaken DEF Abstract!Program, Wanted
  <2>3. r \cup a \in SUBSET VIP
    BY <1>2, <1>3
  <2>4. QED
    BY <2>2, <2>3 DEF Abstract!Next
<1>6. QED
  BY <1>5 DEF SetAddresses

(* bgp.Set of the VIPs read announces wanted VIPs only; its error path    *)
(* announces nothing.                                                      *)
LEMMA BGPAnnounceRefined ==
    ASSUME TypeInv, BGPAnnounce
    PROVE  [Abstract!Next]_(Abstract!vars)
<1>1. snap \in Configs /\ fam \in Family
  BY DEF BGPAnnounce, TypeInv, TypeOK, ConfigPresent
<1>2. snap[fam] \subseteq WantedOf(snap) /\ snap[fam] \in SUBSET VIP
  BY <1>1, FamilyWanted, FamilyInVIP
<1>3. UNCHANGED <<config, nodes, snapNodes, lo, ipvs>> /\ snap' = NoConfig
  BY DEF BGPAnnounce, Fail
<1>4. ASSUME NEW a \in SUBSET snap[fam], bgp' = bgp \cup a
      PROVE  [Abstract!Next]_(Abstract!vars)
  <2>1. Abstract!Announce(a)
    BY <1>2, <1>3, <1>4, NothingTaken DEF Abstract!Announce, Wanted
  <2>2. QED
    BY <1>2, <2>1 DEF Abstract!Next
<1>5. CASE bgp' = bgp \cup snap[fam]
  <2>1. snap[fam] \in SUBSET snap[fam]
    OBVIOUS
  <2>2. QED
    BY <1>5, <2>1, <1>4
<1>6. CASE UNCHANGED bgp
  <2>1. {} \in SUBSET snap[fam] /\ bgp' = bgp \cup {}
    BY <1>6
  <2>2. QED
    BY <2>1, <1>4
<1>7. QED
  BY <1>5, <1>6 DEF BGPAnnounce

(* SetIPVS[6], complete or cut short, gives the services it wrote the     *)
(* destinations the config and nodes list it read call for.                *)
LEMMA SetIPVSRefined ==
    ASSUME TypeInv, SetIPVS
    PROVE  [Abstract!Next]_(Abstract!vars)
<1> DEFINE Apply(x) == [v \in VIP |-> IF v \in x THEN DesiredIPVS(snapNodes, snap)[v]
                                               ELSE ipvs[v]]
<1>1. snap \in Configs
  BY DEF SetIPVS, TypeInv, TypeOK, ConfigPresent
<1>2. \A v \in VIP : DesiredIPVS(snapNodes, snap)[v]
                        = IF v \in WantedOf(snap) THEN snapNodes ELSE NoService
  BY <1>1, FamilyWanted DEF DesiredIPVS, Family
<1>3. UNCHANGED <<config, nodes, snapNodes, lo, bgp>> /\ snap' = NoConfig
  BY DEF SetIPVS, Fail
<1>4. ASSUME NEW x \in SUBSET VIP, ipvs' = Apply(x)
      PROVE  [Abstract!Next]_(Abstract!vars)
  <2>1. Abstract!Bind(x)
    BY <1>2, <1>3, <1>4, NothingTaken DEF Abstract!Bind, Abstract!Service, Wanted
  <2>2. QED
    BY <2>1 DEF Abstract!Next
<1>5. VIPsOf(fam) \in SUBSET VIP
  BY DEF VIPsOf, VIP
<1>6. CASE ipvs' = Apply(VIPsOf(fam))
  BY <1>4, <1>5, <1>6
<1>7. CASE \E x \in SUBSET VIPsOf(fam) : ipvs' = Apply(x)
  BY <1>4, <1>5, <1>7
<1>8. QED
  BY <1>6, <1>7 DEF SetIPVS

(* A watch delivery of a config or of a nodes list is a Deliver step.      *)
LEMMA DeliverRefined ==
    ASSUME TypeInv, TypeInv',
           \/ \E n \in NodeLists : NodesUpdate(n)
           \/ \E c \in Configs : ConfigUpdate(c)
    PROVE  [Abstract!Next]_(Abstract!vars)
<1>1. Wanted' \in SUBSET VIP /\ nodes' \in NodeLists
  <2>1. CASE config' = NoConfig
    BY <2>1 DEF TypeInv, TypeOK, Wanted, WantedOf
  <2>2. CASE config' # NoConfig
    <3>1. config' \in Configs
      BY <2>2 DEF TypeInv, TypeOK
    <3>2. QED
      BY <3>1, FamilyWanted DEF Family, Wanted, TypeInv, TypeOK
  <2>3. QED
    BY <2>1, <2>2
<1>2. UNCHANGED <<lo, bgp, ipvs, snap, snapNodes>>
  BY DEF NodesUpdate, ConfigUpdate, kernel, locals
<1>3. QED
  BY <1>1, <1>2 DEF Abstract!Next, Abstract!Deliver

(* External drift and the teardown only remove loopback VIPs.              *)
LEMMA RemoveRefined ==
    ASSUME ExternalDrift \/ Cleanup
    PROVE  [Abstract!Next]_(Abstract!vars)
<1>1. lo' \subseteq lo /\ UNCHANGED <<config, nodes, bgp, ipvs, snap, snapNodes>>
  BY DEF ExternalDrift, Cleanup, locals
<1>2. QED
  BY <1>1 DEF Abstract!Next, Abstract!Remove, Wanted

(* The BGP worker implements the abstract kernel reconciler: whatever the *)
(* interleaving of watches(), periodic(), Stop(), cleanup() and drift, a  *)
(* loopback, BGP or IPVS write of configure()/configure6(), whole or cut  *)
(* short, puts into the kernel only what the config and nodes list its    *)
(* call read ask for: a config that watches() may have replaced since the *)
(* unlocked read.  Only drift and the teardown remove VIPs otherwise.      *)
THEOREM Refinement == Spec => RefinesKernelReconciler
<1>1. Init => Abstract!Init
  BY InitRefined
<1>2. RInv /\ RInv' /\ [Next]_vars => [Abstract!Next]_(Abstract!vars)
  <2> SUFFICES ASSUME RInv, RInv', [Next]_vars
               PROVE  [Abstract!Next]_(Abstract!vars)
    OBVIOUS
  <2>0. TypeInv /\ TypeInv'
    BY DEF RInv
  <2>1. CASE Watches
    <3>1. CASE \E n \in NodeLists : NodesNoop(n)
      BY <3>1, QuietStep DEF NodesNoop, kernel, locals
    <3>2. QED
      BY <2>0, <2>1, <3>1, DeliverRefined DEF Watches
  <2>2. CASE ForcedReconfigure \/ PerformReconfigure \/ StampReconfigure
    <3>1. UNCHANGED <<config, nodes, snap, snapNodes, lo, bgp, ipvs>>
      BY <2>2 DEF ForcedReconfigure, PerformReconfigure, StampReconfigure, kernel, locals
    <3>2. QED
      BY <3>1, QuietStep
  <2>3. CASE ReadAddresses \/ ReadAnnounce \/ ReadIPVS
    BY <2>0, <2>3, ReadRefined
  <2>4. CASE SetAddresses
    BY <2>4, SetAddressesRefined
  <2>5. CASE BGPAnnounce
    BY <2>0, <2>5, BGPAnnounceRefined
  <2>6. CASE SetIPVS
    BY <2>0, <2>6, SetIPVSRefined
  <2>7. CASE Lifecycle /\ ~Cleanup
    <3>1. UNCHANGED <<config, nodes, snap, snapNodes, lo, bgp, ipvs>>
      BY <2>7 DEF Lifecycle, ParentCancel, WatchesExit, PeriodicCtxDone,
                  PeriodicWatchDone, Stop, StopAcknowledged, StopTimeout, kernel, locals
    <3>2. QED
      BY <3>1, QuietStep
  <2>8. CASE ExternalDrift \/ Cleanup
    BY <2>8, RemoveRefined
  <2>9. CASE UNCHANGED vars
    BY <2>9, QuietStep DEF vars
  <2>10. QED
    BY <2>1, <2>2, <2>3, <2>4, <2>5, <2>6, <2>7, <2>8, <2>9 DEF Next, Periodic
<1>3. QED
  BY <1>1, <1>2, RInvariant, PTL DEF Spec, RefinesKernelReconciler, Abstract!Spec

=============================================================================
