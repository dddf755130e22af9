----------------------------- MODULE MCGroupSession -----------------------------
(* Small instances of GroupSession. *)
EXTENDS GroupSession

CONSTANTS ann, bob, p1, p2, j1, j2, u1, u2, host, hostAgain, scheduled

OnePerson == {ann}
TwoPeople == {ann, bob}
TwoRows == {p1, p2}
TwoJobs == {j1, j2}
TwoCalls == {u1, u2}
HostAndScheduler == {host, scheduled}
HostTwiceAndScheduler == {host, hostAgain, scheduled}
=================================================================================
