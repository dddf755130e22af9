------------------------------- MODULE MCPaidJob -------------------------------
(* Small instances of PaidJob, with model values for its sets. *)
EXTENDS PaidJob, TLC

CONSTANTS s1, s2, d1, d2

OneShop == {s1}
TwoShops == {s1, s2}
OneDelivery == {d1}
TwoDeliveries == {d1, d2}

Symmetric == Permutations(Deliveries) \cup Permutations(Shops \ {Home})

OnlyWorker == {"worker"}
OnlyRenderWorker == {"render-worker"}
Both == OnlyWorker \cup OnlyRenderWorker

NoFaults == {}
MoneyAndQueueFaults == {"payment", "ledger", "window", "queue"}
RenderFaults == {"render", "callback"}
===============================================================================
