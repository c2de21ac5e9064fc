\* A release from the recipe on, run twice, while others change the root and its kernel.
SPECIFICATION MCSpec
CONSTANTS
    rootfs = rootfs
    vmlinux = vmlinux
    stage0 = stage0
    builder_vmlinux = builder_vmlinux
    image_set = image_set
    probe_cpio = probe_cpio
    good = good
    better = better
    plain = plain
    root_member = root_member
    kernel_member = kernel_member
    stage0_member = stage0_member
    None = None
    Contract = 1
    Files <- AllFiles
    Members <- AllMembers
    Of <- MembersOf
    Roots = {rootfs}
    Aliases = {stage0}
    SourceOf <- AliasSource
    ImageSet = image_set
    Bytes = {good, better, plain}
    Fresh = good
    Mutable = {rootfs, vmlinux}
    Mutations <- Worsening
    MarkerOf <- Markers
    RoleOf <- Role
    KeyOf <- Key
    Direct = {kernel_member}
    FileOf <- MainFile
    ProbeOf <- Probe
    Suits = {good}
    MaxMain = 1
    MaxAttempts = 2
INVARIANTS
    JobTypeOK
    RecordedRootsAreInspected
    EveryUseAgrees
    PublishedIsAttested
    PublishedRootsAreWitnessed
    PublishedIsOfMain
CHECK_DEADLOCK FALSE
