-------------------------- MODULE BGPServerProofs --------------------------
(***************************************************************************)
(* Proofs about the BGP worker's reconciliation engine, for every choice  *)
(* of VIPs, configs, node lists and bounds allowed by ConstantsAssumption. *)
(***************************************************************************)
EXTENDS BGPServer, TLAPS

(* TypeOK alone is not inductive: the write steps use snap[fam], which is *)
(* a VIP set only when the read before them found a config.  The steps    *)
(* past setAddresses' read are reached only through a read that found     *)
(* one, a config once delivered is never nil again, and each later read   *)
(* copies b.config into snap.                                              *)
ConfigPresent ==
    /\ pc \in {"addrW", "bgp", "bgpW", "ipvs", "ipvsW"} => config # NoConfig
    /\ pc \in {"addrW", "bgpW", "ipvsW"} => snap # NoConfig

TypeInv == TypeOK /\ ConfigPresent

(* A delivered config names VIPs of the family it is read for.             *)
LEMMA FamilyVIPs ==
    ASSUME NEW c \in Configs, NEW f \in Family
    PROVE  c[f] \subseteq VIPsOf(f)
<1>1. c \in [v4 : SUBSET VIP4, v6 : SUBSET VIP6]
  BY ConstantsAssumption
<1>2. QED
  BY <1>1 DEF Family, VIPsOf

(* A family's VIPs are VIPs.                                               *)
LEMMA FamilyInVIP ==
    ASSUME NEW f \in Family
    PROVE  VIPsOf(f) \subseteq VIP
BY DEF VIPsOf, VIP

(* The error path of a configure step keeps the types, drops the call's  *)
(* locals and leaves pc off the steps that need a config.                  *)
LEMMA FailType ==
    ASSUME TypeOK, Fail
    PROVE  /\ failures' \in 0..MaxFailures
           /\ pc' \in {"addr", "idle"}
           /\ fam' \in Family
           /\ disturbed' \in BOOLEAN
           /\ snap' = NoConfig /\ rem' = {} /\ add' = {}
<1>1. failures' \in 0..MaxFailures
  BY ConstantsAssumption DEF Fail, TypeOK
<1>2. QED
  BY <1>1, Zenon DEF Fail, TypeOK, Family

(* What every step of the model leaves alone keeps its type.               *)
LEMMA FrameType ==
    ASSUME TypeOK,
           UNCHANGED <<config, nodes, newConfig, updatePending, life, ctxDone,
                       watchDone, watching, updates, drifts, mode, snapNodes>>
    PROVE  /\ config' \in Configs \cup {NoConfig}
           /\ nodes' \in NodeLists
           /\ newConfig' \in BOOLEAN /\ updatePending' \in BOOLEAN
           /\ life' \in {"running", "waiting", "cleanup", "stopped", "panic"}
           /\ ctxDone' \in BOOLEAN /\ watchDone' \in BOOLEAN /\ watching' \in BOOLEAN
           /\ updates' \in 0..MaxUpdates /\ drifts' \in 0..MaxDrift
           /\ mode' \in {"fast", "forced"}
           /\ snapNodes' \in NodeLists
BY Zenon DEF TypeOK

(* A step of configure() or configure6(): the reads and the writes.       *)
LEMMA ConfigureStepType ==
    ASSUME TypeInv,
           ReadAddresses \/ SetAddresses \/ ReadAnnounce \/ BGPAnnounce
               \/ ReadIPVS \/ SetIPVS
    PROVE  TypeInv'
<1> USE DEF lifecycle, kernel
<1>1. UNCHANGED <<config, nodes, newConfig, updatePending, life, ctxDone,
                  watchDone, watching, updates, drifts, mode>>
  BY DEF ReadAddresses, SetAddresses, ReadAnnounce, BGPAnnounce, ReadIPVS, SetIPVS
<1>2. fam \in Family /\ config \in Configs \cup {NoConfig} /\ snap \in Configs \cup {NoConfig}
  BY DEF TypeInv, TypeOK
<1>3. CASE ReadAddresses
  <2>1. CASE Fail /\ UNCHANGED lo
    <3>1. failures' \in 0..MaxFailures /\ pc' \in {"addr", "idle"} /\ fam' \in Family
          /\ disturbed' \in BOOLEAN /\ snap' = NoConfig /\ rem' = {} /\ add' = {}
      BY <2>1, FailType DEF TypeInv
    <3>2. QED
      BY <1>1, <1>3, <2>1, <3>1, FrameType DEF ReadAddresses, TypeInv, TypeOK, ConfigPresent
  <2>2. CASE config = NoConfig /\ pc' = "panic"
             /\ UNCHANGED <<fam, disturbed, failures, snap, rem, add>>
    BY <1>1, <1>3, <2>2, FrameType DEF ReadAddresses, TypeInv, TypeOK, ConfigPresent
  <2>3. CASE /\ config # NoConfig
             /\ rem' = (lo \cap VIPsOf(fam)) \ config[fam]
             /\ add' = config[fam] \ (lo \cap VIPsOf(fam))
             /\ snap' = config /\ pc' = "addrW"
             /\ UNCHANGED <<fam, disturbed, failures>>
    <3>1. config[fam] \subseteq VIP
      BY <1>2, <2>3, FamilyVIPs, FamilyInVIP
    <3>2. rem' \subseteq VIP /\ add' \subseteq VIP
      BY <2>3, <3>1 DEF TypeInv, TypeOK
    <3>3. QED
      BY <1>1, <1>2, <1>3, <2>3, <3>2, FrameType
         DEF ReadAddresses, TypeInv, TypeOK, ConfigPresent
  <2>4. QED
    BY <1>3, <2>1, <2>2, <2>3 DEF ReadAddresses
<1>4. CASE SetAddresses
  <2>1. CASE /\ lo' = ApplyAddresses(rem, add) /\ pc' = "bgp"
             /\ snap' = NoConfig /\ rem' = {} /\ add' = {}
             /\ UNCHANGED <<fam, disturbed, failures>>
    <3>1. config # NoConfig
      BY <1>4 DEF SetAddresses, TypeInv, ConfigPresent
    <3>2. QED
      BY <1>1, <1>4, <2>1, <3>1, FrameType
         DEF SetAddresses, ApplyAddresses, TypeInv, TypeOK, ConfigPresent
  <2>2. CASE /\ \E r \in SUBSET rem, a \in SUBSET add : lo' = ApplyAddresses(r, a)
             /\ Fail
    <3>1. failures' \in 0..MaxFailures /\ pc' \in {"addr", "idle"} /\ fam' \in Family
          /\ disturbed' \in BOOLEAN /\ snap' = NoConfig /\ rem' = {} /\ add' = {}
      BY <2>2, FailType DEF TypeInv
    <3>2. lo' \subseteq VIP
      BY <2>2 DEF ApplyAddresses, TypeInv, TypeOK
    <3>3. QED
      BY <1>1, <1>4, <2>2, <3>1, <3>2, FrameType DEF SetAddresses, TypeInv, TypeOK, ConfigPresent
  <2>3. QED
    BY <1>4, <2>1, <2>2 DEF SetAddresses
<1>5. CASE ReadAnnounce
  <2>1. CASE Fail
    <3>1. failures' \in 0..MaxFailures /\ pc' \in {"addr", "idle"} /\ fam' \in Family
          /\ disturbed' \in BOOLEAN /\ snap' = NoConfig /\ rem' = {} /\ add' = {}
      BY <2>1, FailType DEF TypeInv
    <3>2. QED
      BY <1>1, <1>5, <2>1, <3>1, FrameType DEF ReadAnnounce, TypeInv, TypeOK, ConfigPresent
  <2>2. CASE snap' = config /\ pc' = "bgpW" /\ UNCHANGED <<fam, disturbed, failures, rem, add>>
    <3>1. config # NoConfig
      BY <1>5 DEF ReadAnnounce, TypeInv, ConfigPresent
    <3>2. QED
      BY <1>1, <1>5, <2>2, <3>1, FrameType DEF ReadAnnounce, TypeInv, TypeOK, ConfigPresent
  <2>3. QED
    BY <1>5, <2>1, <2>2 DEF ReadAnnounce
<1>6. CASE BGPAnnounce
  <2>1. snap \in Configs /\ config # NoConfig
    BY <1>2, <1>6 DEF BGPAnnounce, TypeInv, ConfigPresent
  <2>2. snap[fam] \subseteq VIP
    BY <1>2, <2>1, FamilyVIPs, FamilyInVIP
  <2>3. CASE bgp' = bgp \cup snap[fam] /\ pc' = "ipvs" /\ snap' = NoConfig
             /\ UNCHANGED <<fam, disturbed, failures, rem, add>>
    BY <1>1, <1>6, <2>1, <2>2, <2>3, FrameType DEF BGPAnnounce, TypeInv, TypeOK, ConfigPresent
  <2>4. CASE UNCHANGED bgp /\ Fail
    <3>1. failures' \in 0..MaxFailures /\ pc' \in {"addr", "idle"} /\ fam' \in Family
          /\ disturbed' \in BOOLEAN /\ snap' = NoConfig /\ rem' = {} /\ add' = {}
      BY <2>4, FailType DEF TypeInv
    <3>2. QED
      BY <1>1, <1>6, <2>4, <3>1, FrameType DEF BGPAnnounce, TypeInv, TypeOK, ConfigPresent
  <2>5. QED
    BY <1>6, <2>3, <2>4 DEF BGPAnnounce
<1>7. CASE ReadIPVS
  <2>1. config # NoConfig
    BY <1>7 DEF ReadIPVS, TypeInv, ConfigPresent
  <2>2. QED
    BY <1>1, <1>7, <2>1, FrameType DEF ReadIPVS, TypeInv, TypeOK, ConfigPresent
<1>8. CASE SetIPVS
  <2> DEFINE Apply(x) == [v \in VIP |-> IF v \in x THEN DesiredIPVS(snapNodes, snap)[v]
                                                 ELSE ipvs[v]]
  <2>1. \A x \in SUBSET VIP : Apply(x) \in [VIP -> NodeLists \cup {NoService}]
    BY DEF DesiredIPVS, TypeInv, TypeOK
  <2>2. VIPsOf(fam) \subseteq VIP
    BY <1>2, FamilyInVIP
  <2>3. config # NoConfig
    BY <1>8 DEF SetIPVS, TypeInv, ConfigPresent
  <2>4. CASE /\ ipvs' = Apply(VIPsOf(fam))
             /\ pc' = IF fam = "v4" THEN "stamp" ELSE "idle"
             /\ snap' = NoConfig
             /\ UNCHANGED <<fam, disturbed, failures, rem, add>>
    <3>1. ipvs' \in [VIP -> NodeLists \cup {NoService}]
      BY <2>1, <2>2, <2>4
    <3>2. pc' \in {"stamp", "idle"}
      BY <2>4
    <3>3. QED
      BY <1>1, <1>8, <2>4, <3>1, <3>2, FrameType DEF SetIPVS, TypeInv, TypeOK, ConfigPresent
  <2>5. CASE (\E x \in SUBSET VIPsOf(fam) : ipvs' = Apply(x)) /\ Fail
    <3>1. failures' \in 0..MaxFailures /\ pc' \in {"addr", "idle"} /\ fam' \in Family
          /\ disturbed' \in BOOLEAN /\ snap' = NoConfig /\ rem' = {} /\ add' = {}
      BY <2>5, FailType DEF TypeInv
    <3>2. ipvs' \in [VIP -> NodeLists \cup {NoService}]
      BY <2>1, <2>2, <2>5
    <3>3. QED
      BY <1>1, <1>8, <2>5, <3>1, <3>2, FrameType DEF SetIPVS, TypeInv, TypeOK, ConfigPresent
  <2>6. QED
    BY <1>8, <2>4, <2>5 DEF SetIPVS
<1>9. QED
  BY <1>3, <1>4, <1>5, <1>6, <1>7, <1>8

(* Every step keeps the variables in their types.                          *)
THEOREM TypeInvariant == Spec => []TypeInv
<1>1. Init => TypeInv
  <2> SUFFICES ASSUME Init PROVE TypeInv
    OBVIOUS
  <2>1. config \in Configs \cup {NoConfig}
    BY ConstantsAssumption DEF Init
  <2>2. updates \in 0..MaxUpdates /\ failures \in 0..MaxFailures /\ drifts \in 0..MaxDrift
    BY ConstantsAssumption DEF Init
  <2>3. ipvs \in [VIP -> NodeLists \cup {NoService}] /\ snapNodes \in NodeLists
    BY ConstantsAssumption DEF Init
  <2>4. QED
    BY <2>1, <2>2, <2>3, ConstantsAssumption, Zenon
       DEF Init, TypeInv, TypeOK, ConfigPresent, Family
<1>2. TypeInv /\ [Next]_vars => TypeInv'
  <2> SUFFICES ASSUME TypeInv, [Next]_vars PROVE TypeInv'
    OBVIOUS
  <2> USE DEF TypeInv, lifecycle, locals
  <2>1. ASSUME NEW n \in NodeLists, NodesNoop(n) PROVE TypeInv'
    BY <2>1, ConstantsAssumption DEF NodesNoop, TypeOK, ConfigPresent, kernel
  <2>2. ASSUME NEW n \in NodeLists, NodesUpdate(n) PROVE TypeInv'
    BY <2>2, ConstantsAssumption DEF NodesUpdate, TypeOK, ConfigPresent, kernel
  <2>3. ASSUME NEW c \in Configs, ConfigUpdate(c) PROVE TypeInv'
    BY <2>3, ConstantsAssumption DEF ConfigUpdate, TypeOK, ConfigPresent, kernel
  <2>4. CASE ExternalDrift
    BY <2>4, ConstantsAssumption DEF ExternalDrift, TypeOK, ConfigPresent
  <2>5. CASE ForcedReconfigure
    BY <2>5 DEF ForcedReconfigure, TickReady, StartConfigure, TypeOK, Family,
                ConfigPresent, kernel
  <2>6. CASE PerformReconfigure
    <3>1. UNCHANGED <<config, nodes, updatePending, life, ctxDone, watchDone, watching,
                      updates, drifts, lo, bgp, ipvs, snap, snapNodes, rem, add>>
      BY <2>6 DEF PerformReconfigure, kernel
    <3>2. /\ newConfig' \in BOOLEAN
          /\ failures' \in 0..MaxFailures
          /\ \/ UNCHANGED <<pc, fam, mode, disturbed>>
             \/ StartConfigure("fast")
      <4>1. failures' \in 0..MaxFailures
        BY <2>6, ConstantsAssumption DEF PerformReconfigure, TypeOK
      <4>2. newConfig' \in BOOLEAN
        BY <2>6, Zenon DEF PerformReconfigure, TypeOK
      <4>3. UNCHANGED <<pc, fam, mode, disturbed>> \/ StartConfigure("fast")
        BY <2>6, Zenon DEF PerformReconfigure
      <4>4. QED
        BY <4>1, <4>2, <4>3
    <3>3. CASE UNCHANGED <<pc, fam, mode, disturbed>>
      <4>1. disturbed' \in BOOLEAN /\ pc' = pc /\ fam' \in Family /\ mode' = mode
        BY <3>3, Zenon DEF TypeOK
      <4>2. QED
        BY <3>1, <3>2, <4>1 DEF TypeOK, ConfigPresent
    <3>4. CASE StartConfigure("fast")
      <4>1. pc' = "addr" /\ fam' \in Family /\ mode' = "fast" /\ disturbed' = FALSE
        BY <3>4 DEF StartConfigure, Family
      <4>2. QED
        BY <3>1, <3>2, <4>1 DEF TypeOK, ConfigPresent
    <3>5. QED
      BY <3>2, <3>3, <3>4
  <2>7. CASE ReadAddresses \/ SetAddresses \/ ReadAnnounce \/ BGPAnnounce
               \/ ReadIPVS \/ SetIPVS
    BY <2>7, ConfigureStepType
  <2>10. CASE StampReconfigure
    BY <2>10 DEF StampReconfigure, TypeOK, ConfigPresent, Family, kernel
  <2>11. CASE ParentCancel \/ WatchesExit \/ Stop
    <3>1. CASE ParentCancel
      BY <3>1 DEF ParentCancel, TypeOK, ConfigPresent, kernel
    <3>2. CASE WatchesExit
      <4>1. watching' \in BOOLEAN
        BY <3>2, Zenon DEF WatchesExit
      <4>2. QED
        BY <3>2, <4>1 DEF WatchesExit, TypeOK, ConfigPresent, kernel
    <3>3. CASE Stop
      BY <3>3 DEF Stop, TypeOK, ConfigPresent, kernel
    <3>4. QED
      BY <2>11, <3>1, <3>2, <3>3
  <2>12. CASE PeriodicCtxDone \/ PeriodicWatchDone \/ StopAcknowledged \/ StopTimeout
    <3>1. CASE PeriodicCtxDone
      BY <3>1 DEF PeriodicCtxDone, TypeOK, ConfigPresent, kernel
    <3>2. CASE PeriodicWatchDone
      BY <3>2 DEF PeriodicWatchDone, TypeOK, ConfigPresent, kernel
    <3>3. CASE StopAcknowledged
      BY <3>3 DEF StopAcknowledged, TypeOK, ConfigPresent, kernel
    <3>4. CASE StopTimeout
      BY <3>4 DEF StopTimeout, TypeOK, ConfigPresent, kernel
    <3>5. QED
      BY <2>12, <3>1, <3>2, <3>3, <3>4
  <2>13. CASE Cleanup
    <3>1. lo' \subseteq VIP
      BY <2>13 DEF Cleanup, TypeOK
    <3>2. life' \in {"panic", "stopped"} /\ disturbed' = TRUE
      BY <2>13 DEF Cleanup
    <3>3. UNCHANGED <<config, nodes, newConfig, updatePending, bgp, ipvs, pc, fam, mode,
                      ctxDone, watchDone, watching, updates, failures, drifts, snap,
                      snapNodes, rem, add>>
      BY <2>13 DEF Cleanup
    <3>4. QED
      BY <3>1, <3>2, <3>3 DEF TypeOK, ConfigPresent
  <2>14. CASE UNCHANGED vars
    BY <2>14 DEF vars, TypeOK, ConfigPresent
  <2>15. QED
    BY <2>1, <2>2, <2>3, <2>4, <2>5, <2>6, <2>7, <2>10, <2>11,
       <2>12, <2>13, <2>14
       DEF Next, Watches, Periodic, Lifecycle
<1>3. QED
  BY <1>1, <1>2, PTL DEF Spec

(* The type invariant of the model, for every value of the constants.     *)
THEOREM TypeCorrect == Spec => []TypeOK
BY TypeInvariant, PTL DEF TypeInv

=============================================================================
