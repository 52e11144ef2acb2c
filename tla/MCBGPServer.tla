---------------------------- MODULE MCBGPServer ----------------------------
(* Model-checking instance of BGPServer: two v4 VIPs (so one configure()   *)
(* both removes and adds), one v6 VIP, two node lists.                     *)
EXTENDS BGPServer

CONSTANTS a1, a2, b1, n1, n2

MCVIP4 == {a1, a2}
MCVIP6 == {b1}
MCNodeLists == {n1, n2}

(* Configs moving a VIP between addresses, adding and dropping the v6 VIP, *)
(* and the empty config.                                                   *)
MCConfigs ==
    { [v4 |-> {a1},     v6 |-> {}],
      [v4 |-> {a2},     v6 |-> {b1}],
      [v4 |-> {},       v6 |-> {}] }

(* When the parent context may be cancelled: never; in any phase of Stop(); *)
(* or only once Stop() has stopped waiting for periodic (its owner cancels *)
(* the root context after Stop returned or gave up).                       *)
MCCancelNever == {}
MCCancelAnytime == {"running", "waiting", "cleanup", "stopped"}
MCCancelAfterStopWait == {"cleanup", "stopped"}
=============================================================================
