\* A candidate set or a build, booted while every file it uses may change.
SPECIFICATION MCSpec
CONSTANTS
    root = root
    verity = verity
    dev_root = dev_root
    kernel = kernel
    dev_kernel = dev_kernel
    other_kernel = other_kernel
    probe_cpio = probe_cpio
    image_set = image_set
    b1 = b1
    b2 = b2
    b3 = b3
    None = None
    Files = {root, verity, dev_root, kernel, dev_kernel, other_kernel, probe_cpio, image_set}
    ImageSet = image_set
    Members <- AllMembers
    Of <- ArtifactsOf
    RoleOf <- Role
    KeyOf <- Key
    Direct = {"kernel", "dev_kernel"}
    FileOf <- MainFile
    ProbeOf <- Probe
    Lists <- SomeLists
    Canonical <- Build
    Bytes = {b1, b2, b3}
    Mutable = {root, kernel, probe_cpio, image_set}
    Mutations <- Once
    Bootable = {b1, b2}
    Suits = {b1, b2}
INVARIANTS
    TypeOK
    WitnessIsOfTheCandidate
    NoStaleEvidence
CHECK_DEADLOCK FALSE
