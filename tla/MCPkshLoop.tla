----------------------------- MODULE MCPkshLoop -----------------------------
(* Small instances of PkshLoop for TLC. *)
EXTENDS PkshLoop, TLC

Symmetry == Permutations(Tools)

\* Without execee, which alone reads state, no step depends on what is left
\* out here, and no property about the descriptors does.
DescriptorView ==
    <<tab, watch, readset, doloop, i, pc, resume, pko_srv_fd, ps2_netfs_fd,
      logs, renewed, astray, tools, inputs>>

=============================================================================
