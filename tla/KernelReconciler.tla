-------------------------- MODULE KernelReconciler --------------------------
(***************************************************************************)
(* What the BGP worker promises about the kernel state it manages, without *)
(* ticks, address families, parity checks or failures.  The cluster        *)
(* delivers a wanted VIP set and a nodes list.  A kernel call of the       *)
(* worker first reads them (Read), and may be overtaken by a later         *)
(* delivery; its write then moves the entries it touches to what was       *)
(* wanted when it read, and releases what it read:                         *)
(*   - a loopback write makes some VIPs present or absent as wanted;       *)
(*   - an announcement adds wanted VIPs only;                              *)
(*   - an IPVS write gives some VIPs the service the wanted set and the    *)
(*     nodes list call for.                                                *)
(* Loopback addresses may also disappear (an external delete, or the       *)
(* teardown on shutdown).                                                  *)
(***************************************************************************)
CONSTANTS
    VIP,           \* every VIP a config may name
    NodeLists,     \* the node lists the cluster may deliver
    NoService      \* no IPVS virtual service for a VIP

VARIABLES
    want,          \* the VIPs the current cluster config asks for
    dest,          \* the current nodes list
    took,          \* the VIPs wanted when the call in flight read (none: {})
    tookDest,      \* the nodes list the last IPVS call read
    lo,            \* VIPs present on the loopback
    bgp,           \* VIPs announced
    ipvs           \* IPVS virtual service per VIP

vars == <<want, dest, took, tookDest, lo, bgp, ipvs>>

(* The IPVS service the read config and nodes list want for v.             *)
Service(v) == IF v \in took THEN tookDest ELSE NoService

Init ==
    /\ want \in SUBSET VIP
    /\ dest \in NodeLists
    /\ took = {}
    /\ tookDest \in NodeLists
    /\ lo = {}
    /\ bgp = {}
    /\ ipvs = [v \in VIP |-> NoService]

(* The cluster delivers a config or a nodes list.                          *)
Deliver ==
    /\ want' \in SUBSET VIP
    /\ dest' \in NodeLists
    /\ UNCHANGED <<took, tookDest, lo, bgp, ipvs>>

(* A kernel call reads the wanted VIPs, and the nodes list as well when it *)
(* is an IPVS call.                                                        *)
Read ==
    /\ took' = want
    /\ tookDest' \in {tookDest, dest}
    /\ UNCHANGED <<want, dest, lo, bgp, ipvs>>

(* A loopback write: the VIPs in s become present exactly when wanted.     *)
Program(s) ==
    /\ lo' = (lo \ s) \cup (s \cap took)
    /\ took' = {}
    /\ UNCHANGED <<want, dest, tookDest, bgp, ipvs>>

(* An announcement: some wanted VIPs are added, none is withdrawn.         *)
Announce(a) ==
    /\ a \subseteq took
    /\ bgp' = bgp \cup a
    /\ took' = {}
    /\ UNCHANGED <<want, dest, tookDest, lo, ipvs>>

(* An IPVS write: the VIPs in t get the wanted service.                    *)
Bind(t) ==
    /\ ipvs' = [v \in VIP |-> IF v \in t THEN Service(v) ELSE ipvs[v]]
    /\ took' = {}
    /\ UNCHANGED <<want, dest, tookDest, lo, bgp>>

(* Loopback VIPs disappear.                                                *)
Remove ==
    /\ lo' \subseteq lo
    /\ UNCHANGED <<want, dest, took, tookDest, bgp, ipvs>>

Next ==
    \/ Deliver
    \/ Read
    \/ \E s \in SUBSET VIP : Program(s)
    \/ \E a \in SUBSET VIP : Announce(a)
    \/ \E t \in SUBSET VIP : Bind(t)
    \/ Remove

Spec == Init /\ [][Next]_vars

=============================================================================
