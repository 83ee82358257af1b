---------------------------- MODULE MCSysctlApply ----------------------------
(***************************************************************************)
(* Values for TLC: per-interface and plain keys, a placeholder before and  *)
(* after an entry for the same key, a value of two words, a VLAN.          *)
(***************************************************************************)
EXTENDS SysctlApply, TLC

CONSTANTS w1, w2

Entry(base, iface, value) == [base |-> base, iface |-> iface, value |-> value]

One == <<"1">>
Pair == <<"1", "2">>
Zero == <<"0">>

AllValues == {Zero, One, Pair}

SomeFiles ==
    {<<Entry("rp_filter", "{iface}", One), Entry("rmem", "none", One)>>,
     <<Entry("rp_filter", "{iface}", Zero), Entry("rp_filter", "eth0", One)>>,
     <<Entry("rmem", "none", Pair), Entry("rp_filter", "all", One)>>}

WorkerSymmetry == Permutations(Workers)
=============================================================================
