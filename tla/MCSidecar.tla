----------------------------- MODULE MCSidecar -----------------------------
(* Instances of Sidecar for TLC. *)
EXTENDS Sidecar

M(kind, payload) == [kind |-> kind, payload |-> payload]

(* Batches that mix what the adapters take and what they refuse. *)
MCBatches ==
  { <<>>, <<M("schematic", "valid"), M("pcb", "invalid")>>,
    <<M("solid", "valid"), M("constraint", "invalid")>>,
    <<M("pcb", "valid"), M("solid", "valid")>> }

=============================================================================
