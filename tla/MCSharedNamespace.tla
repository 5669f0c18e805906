------------------------- MODULE MCSharedNamespace -------------------------
(***************************************************************************)
(* Instances of SharedNamespace for TLC.                                   *)
(***************************************************************************)
EXTENDS SharedNamespace

Slot(name, ns, target) ==
    [name |-> name, namespace |-> ns, targetNamespace |-> target,
     source |-> "payment", destination |-> "ledger"]

\* Two experiments on one edge of one namespace, and their successors.
SharedSlots == {Slot("x", "A", NoNs), Slot("y", "A", "A")}

\* The same name in two namespaces, both injecting into one of them.
CrossSlots == {Slot("x", "A", NoNs), Slot("x", "B", "A")}

\* A user's VirtualService for the experiments' own destination, which carries the
\* label of experiment x; and one for another service.
Own == [name |-> "route", ns |-> "A", host |-> <<"ledger", "A">>, managed |-> FALSE,
        label |-> "x", uid |-> NoUid]
OneUserVs == {Own}
OtherUserVs == {[Own EXCEPT !.host = <<"cart", "A">>, !.label = "none"]}
NoUserVs == {}

UniqueName == <<"chaos-edge-1", "chaos-edge-2", "chaos-edge-3">>

Metric(source, ns, rps) ==
    [source |-> source, destination |-> "ledger", ns |-> ns, rps |-> rps]
Services == {<<"payment", "A">>, <<"payment", "B">>}

\* The edge is observed, to two workloads; the one that is listed first has too
\* little traffic; it is observed in the other namespace only; the service is missing.
Observed == [services |-> Services,
             metrics |-> <<Metric("payment", "A", 2), Metric("payment", "A", 1)>>]
ThinFirst == [Observed EXCEPT !.metrics = <<Metric("payment", "A", 0), Metric("payment", "A", 2)>>]
Elsewhere == [Observed EXCEPT !.metrics = <<Metric("web", "A", 2), Metric("payment", "B", 2)>>]
Missing == [Observed EXCEPT !.services = {<<"payment", "B">>}]

AllWorlds == {Observed, ThinFirst, Elsewhere, Missing}
OneWorld == {Observed}
=============================================================================
