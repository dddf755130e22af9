------------------------------- MODULE MCPayouts -------------------------------
(* Small instances of Payouts. *)
EXTENDS Payouts

CONSTANTS tick, owner

OneTick == {tick}
OneOwner == {owner}
Both == {tick, owner}
Nobody == {}

NoErrors == {}
EveryError == {"rejected", "timeout"}
Rejected == {"rejected"}
===============================================================================
