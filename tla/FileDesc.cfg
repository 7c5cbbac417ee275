\* Two devices, a filesystem whose files may fail to open, and standard
\* streams that are a device, a file and nothing at all.
SPECIFICATION Spec
CONSTANTS
    null = null
    uart = uart
    fs = fs
    nodev = nodev
    ALT_MAX_FD = 6
    Devices = {null, uart}
    Null = null
    Filesystems = {fs}
    NoDev = nodev
    Names <- AllNames
    Lookup <- NameLookup
    Stdio <- MixedStdio
    MayFail = {fs}
INVARIANTS NoLeak HighWater OneLockHolder
PROPERTIES LockedShutsOut
