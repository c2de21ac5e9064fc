------------------------- MODULE MCReleasePipeline --------------------------
(* Values for ReleasePipeline: one workload root with its kernel, and one     *)
(* stage-0 alias of the builder kernel.                                       *)
EXTENDS ReleasePipeline

CONSTANTS rootfs, vmlinux, stage0, builder_vmlinux, image_set, probe_cpio,
          good, better, plain, root_member, kernel_member, stage0_member

AllFiles    == {rootfs, vmlinux, stage0, builder_vmlinux, image_set, probe_cpio}
AllMembers  == {root_member, kernel_member, stage0_member}
MembersOf   == [m \in AllMembers |-> CASE m = root_member -> {rootfs}
                                       [] m = kernel_member -> {vmlinux}
                                       [] m = stage0_member -> {stage0}]
AliasSource == [d \in {stage0} |-> builder_vmlinux]
Markers     == [b \in {good, better, plain} |-> IF b = plain THEN None ELSE Contract]
Worsening   == {<<good, better>>, <<better, plain>>, <<good, plain>>}
Role        == [m \in AllMembers |-> CASE m = root_member -> "workload_rootfs"
                                        [] m = kernel_member -> "workload_kernel"
                                        [] m = stage0_member -> "other"]
Key         == [m \in AllMembers |-> "default_tenant"]
MainFile    == [m \in AllMembers |-> CHOOSE f \in MembersOf[m] : TRUE]
Probe       == [k \in {"default_tenant"} |-> probe_cpio]

\* At the start one file at most is missing or not good.
MCInit ==
    /\ PipelineInit
    /\ \E f \in Files : \A g \in Files \ {f, image_set} : assets[g] = good

MCSpec == MCInit /\ [][PipelineNext]_pipelineVars
=============================================================================
