---------------------------- MODULE MCArtifactPublish ----------------------------
(* A small instance: three runs, two of them for the same pull request. *)
EXTENDS ArtifactPublish, TLC

CONSTANTS p1, p2, r1, r2, r3

MCPrOf == r1 :> p1 @@ r2 :> p1 @@ r3 :> p2
AllOrNone == {{}, {"network", "declined", "crash"}}
================================================================================
