\* The image, and what the comment on the exclusive lock says.
SPECIFICATION Spec
CONSTANTS
    null = null
    uart = uart
    fs = fs
    nodev = nodev
    ALT_MAX_FD = 6
    Devices = {null, uart}
    Null = null
    Filesystems = {fs}
    NoDev = nodev
    Names <- AllNames
    Lookup <- NameLookup
    Stdio <- ImageStdio
    MayFail = {}
PROPERTIES LockGrantedAlone
