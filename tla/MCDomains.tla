----------------------------- MODULE MCDomains -----------------------------
(* Instances of Domains for TLC.                                           *)
EXTENDS Domains

CONSTANTS a, b, bad

D(i, m, c) == [id |-> i, mode |-> m, kind |-> "site", config |-> c]

(* Two ids: kept, changed, added, removed, in another mode, of a kind      *)
(* nobody registered a factory for, and once they exchange their           *)
(* configurations.  One lists an id twice: of the two launches of the boot *)
(* either may fail.                                                        *)
MCFiles == {<<D(a, "inproc", 1), D(b, "inproc", 2)>>,
            <<D(b, "inproc", 1), D(a, "inproc", 2)>>,
            <<D(a, "inproc", 1), D(a, "inproc", 2)>>,
            <<D(a, "process", 1),
              [id |-> b, mode |-> "remote", kind |-> "gateway", config |-> 1]>>,
            bad}
=============================================================================
