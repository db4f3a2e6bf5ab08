---------------------------- MODULE MCCoordinator ----------------------------
(* Instances of Coordinator for TLC.                                       *)
EXTENDS Coordinator, TLC

CONSTANTS e1, e2, r1, r2, p1, p2

(* One exporter with two resources; and two exporters with one each.       *)
OneExporter == r1 :> e1 @@ r2 :> e1
TwoExporters == r1 :> e1 @@ r2 :> e2

(* No group is a number; or the group of r1 is called like p1.             *)
NoDefaults == r1 :> None @@ r2 :> None
DefaultP1 == r1 :> p1 @@ r2 :> None

=============================================================================
