------------------------------ MODULE FileDesc ------------------------------
(***************************************************************************)
(* The HAL's file descriptor pool: open, close, fcntl and the two ioctl    *)
(* requests that lock a device for exclusive access, with the redirection  *)
(* of the standard descriptors that runs before main.                      *)
(*                                                                         *)
(* The firmware has one thread and alt_fd_list_lock is compiled to         *)
(* nothing, so each call is one step.  What a driver's or a filesystem's   *)
(* own open, close and ioctl callbacks answer is chosen freely where they  *)
(* may fail.                                                               *)
(***************************************************************************)
EXTENDS Integers

CONSTANTS
    ALT_MAX_FD,   \* descriptors in the pool
    Devices,      \* registered devices, "/dev/null" among them
    Null,         \* alt_dev_null
    Filesystems,  \* registered filesystems
    Names,        \* names a program may open
    NoDev,        \* the null pointer in a free descriptor
    Lookup,       \* the device or filesystem a name leads to, or NoDev
    Stdio,        \* names of stdout, stdin and stderr, in that order
    MayFail       \* devices and filesystems whose open callback may fail

ASSUME FileDescAssumption ==
    /\ ALT_MAX_FD \in Nat /\ ALT_MAX_FD > 3
    /\ Null \in Devices /\ NoDev \notin Devices \union Filesystems
    /\ Devices \cap Filesystems = {}
    /\ Lookup \in [Names -> Devices \union Filesystems \union {NoDev}]
    /\ Stdio \in [1..3 -> Names]
    /\ MayFail \subseteq Devices \union Filesystems

VARIABLES
    fds,      \* alt_fd_list: device and flags of each descriptor
    max_fd,   \* alt_max_fd, the highest descriptor ever allocated
    boot,     \* standard descriptors redirected so far
    held      \* history: descriptors open() returned and nobody closed

vars == <<fds, max_fd, boot, held>>

Fds == 0..(ALT_MAX_FD - 1)
Standard == 0..2

Flags == {"NONBLOCK", "EXCL", "DEV"}
ALT_FD_FLAGS_MASK == {"EXCL", "DEV"}
ALT_FCNTL_FLAGS_MASK == {"NONBLOCK"}

Free == [dev |-> NoDev, flags |-> {}]

Init ==
    /\ fds = [f \in Fds |-> IF f \in Standard
                            THEN [dev |-> Null, flags |-> {}] ELSE Free]
    /\ max_fd = -1
    /\ boot = 0
    /\ held = {}

-----------------------------------------------------------------------------
(* open                                                                    *)

FreeFds == {f \in Fds : fds[f].dev = NoDev}

\* alt_get_fd: the first free descriptor; it raises the high water mark.
FirstFree(f) == f \in FreeFds /\ \A g \in FreeFds : f <= g

RaiseNot(f) == max_fd
Raise(f) == IF f > max_fd THEN f ELSE max_fd

\* alt_file_locked: another descriptor up to the mark holds the device.
\* m is the mark, already raised for f.
LockedNever(d, f, m) == FALSE
Locked(d, f, m) ==
    \E g \in Fds : /\ g <= m /\ g # f
                   /\ fds[g].dev = d /\ "EXCL" \in fds[g].flags

\* What the caller asks for, the flags of the descriptor itself left out.
KeptAll(flags) == flags
Kept(flags) == flags \ ALT_FD_FLAGS_MASK

\* Whether an open that got descriptor f of d fails after all.
OpenFails(d, f, failed) ==
    \/ d \in Devices /\ Locked(d, f, Raise(f))
    \/ failed

\* The descriptor a successful open of d leaves behind.
Opened(d, flags) ==
    [dev |-> d,
     flags |-> Kept(flags) \union (IF d \in Devices THEN {"DEV"} ELSE {})]

\* alt_release_fd: a standard descriptor is never given back.
ReleaseForgotten(f) == fds[f]
Release(f) == IF f \in Standard THEN fds[f] ELSE Free

OpenAs(name, flags, failed) ==
    LET d == Lookup[name] IN
    /\ boot = 3
    /\ failed => d \in MayFail
    /\ IF d = NoDev \/ FreeFds = {}
       THEN UNCHANGED <<fds, max_fd, held>>
       ELSE \E f \in FreeFds :
              /\ FirstFree(f)
              /\ max_fd' = Raise(f)
              /\ IF OpenFails(d, f, failed)
                 THEN fds' = [fds EXCEPT ![f] = Release(f)] /\ held' = held
                 ELSE /\ fds' = [fds EXCEPT ![f] = Opened(d, flags)]
                      /\ held' = held \union {f}
    /\ UNCHANGED boot

Open == \E name \in Names, flags \in SUBSET Flags, failed \in BOOLEAN :
    OpenAs(name, flags, failed)

-----------------------------------------------------------------------------
(* Calls on a descriptor that is open.                                     *)

InUse(f) == fds[f].dev # NoDev

SetFlags(f, flags) ==
    /\ fds' = [fds EXCEPT ![f].flags = flags]
    /\ UNCHANGED <<max_fd, boot, held>>

\* close: whatever the driver's callback answers, the descriptor is free.
Close == \E f \in Fds :
    /\ boot = 3 /\ InUse(f)
    /\ fds' = [fds EXCEPT ![f] = Release(f)]
    /\ held' = held \ {f}
    /\ UNCHANGED <<max_fd, boot>>

\* fcntl(F_SETFL), which does not ask whether the descriptor is open.
Fcntl == \E f \in Fds, flags \in SUBSET Flags :
    /\ boot = 3
    /\ SetFlags(f, (fds[f].flags \ ALT_FCNTL_FLAGS_MASK)
                     \union (flags \cap ALT_FCNTL_FLAGS_MASK))

\* alt_fd_lock looks for other descriptors of the device below the mark.
Shared(f) == \E g \in Fds : g < max_fd /\ g # f /\ fds[g].dev = fds[f].dev

\* ioctl(TIOCEXCL) on a device.
Lock == \E f \in Fds :
    /\ boot = 3 /\ InUse(f) /\ "DEV" \in fds[f].flags
    /\ ~Shared(f)
    /\ SetFlags(f, fds[f].flags \union {"EXCL"})

\* ioctl(TIOCNXCL) on a device.
Unlock == \E f \in Fds :
    /\ boot = 3 /\ InUse(f) /\ "DEV" \in fds[f].flags
    /\ SetFlags(f, fds[f].flags \ {"EXCL"})

\* alt_open_fd, before main: open the name, copy the descriptor it got over
\* the standard one and give it back; if that fails nothing is redirected.
Target == <<1, 0, 2>>

Redirect == \E failed \in BOOLEAN :
    LET d == Lookup[Stdio[boot + 1]] IN
    /\ boot < 3
    /\ failed => d \in MayFail
    /\ boot' = boot + 1
    /\ IF d = NoDev
       THEN UNCHANGED <<fds, max_fd>>
       ELSE \E f \in FreeFds :
              /\ FirstFree(f)
              /\ max_fd' = Raise(f)
              /\ IF OpenFails(d, f, failed)
                 THEN UNCHANGED fds
                 ELSE fds' = [fds EXCEPT ![Target[boot + 1]] = Opened(d, {})]
    /\ UNCHANGED held

Next == Redirect \/ Open \/ Close \/ Fcntl \/ Lock \/ Unlock

Spec == Init /\ [][Next]_vars

-----------------------------------------------------------------------------
(* Correctness.                                                            *)

\* Descriptors refer to devices or filesystems and carry known flags.
TypeOK ==
    /\ fds \in [Fds -> [dev : Devices \union Filesystems \union {NoDev},
                        flags : SUBSET Flags]]
    /\ max_fd \in -1..(ALT_MAX_FD - 1)
    /\ boot \in 0..3
    /\ held \subseteq Fds

\* No failed open and no close leaks a descriptor or frees somebody else's:
\* besides the standard ones exactly those are in use that open returned and
\* nobody closed (alt_open.c:161-166, alt_close.c:84-88).
NoLeak == {f \in Fds \ Standard : InUse(f)} = held

\* The scan for a lock stops at the high water mark, so every descriptor
\* that can hold one lies at or below it (alt_get_fd.c:82, alt_open.c:79).
HighWater ==
    /\ \A f \in Fds \ Standard : InUse(f) => f <= max_fd
    /\ \A f \in Fds : "DEV" \in fds[f].flags => max_fd > 2

\* A device has at most one holder of its exclusive lock, although a lock
\* may be granted while the highest descriptor shares the device and only
\* open masks the flag a caller passes (alt_fd_lock.c:61, alt_open.c:139).
OneLockHolder ==
    \A f, g \in Fds :
        /\ "EXCL" \in fds[f].flags /\ "EXCL" \in fds[g].flags
        /\ fds[f].dev = fds[g].dev
        => f = g

\* While a device is locked no further descriptor comes to refer to it
\* (alt_fd_lock.c:44, alt_open.c:79-87).
LockedShutsOut ==
    [][\A f, g \in Fds :
          "EXCL" \in fds[g].flags /\ fds[f].dev # fds[g].dev
              => fds'[f].dev # fds[g].dev]_vars

\* alt_fd_lock.c:43: the lock is granted only "if there are no other open
\* file descriptors which reference the same device".
LockGrantedAlone ==
    [][\A f, g \in Fds :
          /\ "EXCL" \notin fds[f].flags /\ "EXCL" \in fds'[f].flags
          /\ f # g
          => fds[g].dev # fds[f].dev]_vars

-----------------------------------------------------------------------------
(* The inductive invariant: who shares a locked device was the highest     *)
(* descriptor when the lock was granted.                                   *)

LockOrder ==
    \A f, g \in Fds :
        /\ "EXCL" \in fds[f].flags
        /\ f # g /\ fds[g].dev = fds[f].dev
        => f < g /\ "EXCL" \notin fds[g].flags

LockedDevice ==
    \A f \in Fds :
        /\ "EXCL" \in fds[f].flags => "DEV" \in fds[f].flags
        /\ "DEV" \in fds[f].flags => fds[f].dev \in Devices
        /\ f \in Standard => InUse(f)

BootInv ==
    boot < 3 => /\ held = {}
                /\ \A f \in Fds : "EXCL" \notin fds[f].flags

IInv == TypeOK /\ NoLeak /\ HighWater /\ LockOrder /\ LockedDevice /\ BootInv
=============================================================================
