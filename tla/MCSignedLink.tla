---------------------------- MODULE MCSignedLink ----------------------------
(***************************************************************************)
(* Two nodes that share a key and send to each other, one of them on two   *)
(* streams, and one node that has another key.                             *)
(***************************************************************************)
EXTENDS SignedLink

CONSTANTS gcs, vehicle, stranger

MCNodes == {gcs, vehicle, stranger}
MCSecret == [n \in MCNodes |-> IF n = stranger THEN 2 ELSE 1]

MCStreams == {"gcs", "gimbal", "vehicle", "stranger"}
MCOwner ==
  [s \in MCStreams |-> CASE s = "gcs" -> gcs [] s = "stranger" -> stranger
                         [] s \in {"gimbal", "vehicle"} -> vehicle]
MCMaxSends == [s \in MCStreams |-> IF s = "gcs" THEN 2 ELSE 1]

\* Without the third.
MCPair == {gcs, vehicle}
MCPairSecret == [n \in MCPair |-> 1]
MCPairStreams == {"gcs", "vehicle"}
MCPairOwner == [s \in MCPairStreams |-> IF s = "vehicle" THEN vehicle ELSE gcs]
MCPairMaxSends == [s \in MCPairStreams |-> 2]
=============================================================================
