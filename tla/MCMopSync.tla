----------------------------- MODULE MCMopSync -----------------------------
(* An instance of MopSync: two offers, with a rebate each; MOP knows one.  *)
EXTENDS MopSync

CONSTANTS r1, r2, o1, o2, s1, s2

MCRebates == {r1, r2}
MCOffers == {o1, o2}
MCOfferOf == [r \in MCRebates |-> IF r = r2 THEN o2 ELSE o1]

MCMopOffers == {o1}

TwoSyncs == {s1, s2}
=============================================================================
