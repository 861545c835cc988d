------------------------------ MODULE MCVirtio ------------------------------
(* Virtio with small sets of processes and descriptors: MCVirtio.cfg.       *)
EXTENDS Virtio
=============================================================================
