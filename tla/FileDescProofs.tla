--------------------------- MODULE FileDescProofs ---------------------------
(***************************************************************************)
(* Proofs about the file descriptor pool, for every size of the pool and   *)
(* every set of devices, filesystems and names.                            *)
(*                                                                         *)
(* OneLockHolder is not inductive: a lock may be granted while the highest *)
(* descriptor shares the device.  LockOrder records that only a higher one *)
(* can, so that the sharer, should it try, sees the holder below it.       *)
(***************************************************************************)
EXTENDS FileDesc, TLAPS

Objects == Devices \union Filesystems \union {NoDev}

\* The descriptor an open leaves is a descriptor of its device without lock.
LEMMA OpenedFacts ==
    ASSUME NEW d \in Objects \ {NoDev}, NEW flags \in SUBSET Flags
    PROVE  /\ Opened(d, flags) \in [dev : Objects, flags : SUBSET Flags]
           /\ Opened(d, flags).dev = d
           /\ "EXCL" \notin Opened(d, flags).flags
           /\ "DEV" \in Opened(d, flags).flags => d \in Devices
BY DEF Opened, Kept, Flags, ALT_FD_FLAGS_MASK

\* A free descriptor is no standard one, and the mark is raised over it.
LEMMA FreeFacts ==
    ASSUME IInv, NEW f \in FreeFds
    PROVE  /\ f \in Fds \ Standard /\ f \notin held
           /\ fds[f].dev = NoDev
           /\ "EXCL" \notin fds[f].flags
           /\ Raise(f) \in 3..(ALT_MAX_FD - 1)
           /\ f <= Raise(f) /\ max_fd <= Raise(f)
<1>1. f \in Fds \ Standard /\ fds[f].dev = NoDev
  BY DEF IInv, LockedDevice, InUse, FreeFds
<1>2. f \notin held
  BY <1>1 DEF IInv, NoLeak, InUse
<1>3. "EXCL" \notin fds[f].flags
  BY <1>1, FileDescAssumption DEF IInv, LockedDevice
<1>4. f \in 3..(ALT_MAX_FD - 1)
  BY <1>1, FileDescAssumption DEF Fds, Standard
<1>5. max_fd \in -1..(ALT_MAX_FD - 1)
  BY DEF IInv, TypeOK
<1> QED BY <1>1, <1>2, <1>3, <1>4, <1>5, FileDescAssumption DEF Raise

\* Initially only the standard descriptors are in use, on the null device.
LEMMA InitInv == Init => IInv
<1> SUFFICES ASSUME Init PROVE IInv
  OBVIOUS
<1> USE FileDescAssumption
<1>0. \A f \in Fds : /\ fds[f].flags = {}
                     /\ fds[f].dev = IF f \in Standard THEN Null ELSE NoDev
  BY DEF Init, Free
<1>1. TypeOK
  BY DEF Init, TypeOK, Free, Fds
<1>2. NoLeak /\ BootInv
  BY <1>0 DEF Init, NoLeak, InUse, BootInv
<1>3. HighWater /\ LockOrder /\ LockedDevice
  BY <1>0 DEF HighWater, LockOrder, LockedDevice, InUse
<1> QED BY <1>1, <1>2, <1>3 DEF IInv

\* A descriptor given back: close, or an open that failed.
LEMMA ReleaseStep ==
    ASSUME IInv, NEW f \in Fds, boot = 3, boot' = boot,
           fds' = [fds EXCEPT ![f] = Release(f)],
           max_fd' \in max_fd..(ALT_MAX_FD - 1),
           held' = held \ {f}
    PROVE  IInv'
<1> USE FileDescAssumption
<1>t. /\ fds \in [Fds -> [dev : Objects, flags : SUBSET Flags]]
      /\ max_fd \in -1..(ALT_MAX_FD - 1) /\ held \subseteq Fds
  BY DEF IInv, TypeOK, Objects
<1>r. Release(f) \in [dev : Objects, flags : SUBSET Flags]
  BY <1>t DEF Release, Free, Objects
<1>0. \A g \in Fds : fds'[g] = IF g = f /\ f \notin Standard THEN Free ELSE fds[g]
  BY <1>t DEF Release
<1>f. Free.dev = NoDev /\ Free.flags = {}
  BY DEF Free
<1>m. max_fd' >= max_fd /\ max_fd' \in -1..(ALT_MAX_FD - 1)
  BY <1>t
<1>1. TypeOK'
  <2>1. fds' \in [Fds -> [dev : Objects, flags : SUBSET Flags]]
    BY <1>t, <1>r
  <2> QED BY <1>t, <2>1, <1>m DEF TypeOK, Objects
<1>2. NoLeak'
  <2>1. \A g \in Fds \ Standard : InUse(g)' <=> InUse(g) /\ g # f
    BY <1>0, <1>f DEF InUse
  <2>2. {g \in Fds \ Standard : InUse(g)} = held
    BY DEF IInv, NoLeak
  <2> QED BY <2>1, <2>2 DEF NoLeak
<1>3. HighWater'
  <2>1. \A g \in Fds \ Standard : InUse(g)' => InUse(g)
    BY <1>0, <1>f DEF InUse
  <2>2. \A g \in Fds : "DEV" \in fds'[g].flags => "DEV" \in fds[g].flags
    BY <1>0, <1>f
  <2>3. \A g \in Fds : g \in Int
    BY DEF Fds
  <2> QED BY <1>t, <1>m, <2>1, <2>2, <2>3 DEF IInv, HighWater
<1>4. LockOrder'
  <2>1. \A g \in Fds : /\ "EXCL" \in fds'[g].flags => fds'[g] = fds[g]
                       /\ fds'[g].dev # NoDev => fds'[g] = fds[g]
    BY <1>0, <1>f
  <2>2. \A g \in Fds : "EXCL" \in fds[g].flags => fds[g].dev # NoDev
    BY DEF IInv, LockedDevice
  <2>3. LockOrder
    BY DEF IInv
  <2> QED BY <2>1, <2>2, <2>3 DEF LockOrder
<1>5. LockedDevice'
  <2>1. LockedDevice
    BY DEF IInv
  <2> QED BY <1>0, <1>f, <2>1 DEF LockedDevice, InUse
<1>6. BootInv'
  BY DEF BootInv
<1> QED BY <1>1, <1>2, <1>3, <1>4, <1>5, <1>6 DEF IInv

\* New flags on one descriptor that neither mark a device nor add a lock.
LEMMA FlagsStep ==
    ASSUME IInv, boot = 3, NEW f \in Fds, NEW flags \in SUBSET Flags,
           SetFlags(f, flags),
           "DEV" \in flags <=> "DEV" \in fds[f].flags,
           "EXCL" \in flags =>
              \/ "EXCL" \in fds[f].flags
              \/ "DEV" \in flags /\ InUse(f) /\ ~Shared(f)
    PROVE  IInv'
<1> USE FileDescAssumption
<1>t. /\ fds \in [Fds -> [dev : Objects, flags : SUBSET Flags]]
      /\ max_fd \in -1..(ALT_MAX_FD - 1) /\ held \subseteq Fds
  BY DEF IInv, TypeOK, Objects
<1>u. fds' = [fds EXCEPT ![f].flags = flags] /\ UNCHANGED <<max_fd, boot, held>>
  BY DEF SetFlags
<1>0. \A g \in Fds : /\ fds'[g].dev = fds[g].dev
                     /\ fds'[g].flags = IF g = f THEN flags ELSE fds[g].flags
  BY <1>t, <1>u
<1>1. TypeOK'
  <2>1. fds' \in [Fds -> [dev : Objects, flags : SUBSET Flags]]
    BY <1>t, <1>u
  <2>2. TypeOK
    BY DEF IInv
  <2> QED BY <1>u, <2>1, <2>2 DEF TypeOK, Objects
<1>2. NoLeak'
  <2>1. NoLeak
    BY DEF IInv
  <2> QED BY <1>0, <1>u, <2>1 DEF NoLeak, InUse
<1>3. HighWater'
  <2>1. HighWater
    BY DEF IInv
  <2> QED BY <1>0, <1>u, <2>1 DEF HighWater, InUse
<1>4. LockOrder'
  <2>1. LockOrder
    BY DEF IInv
  <2>2. CASE "EXCL" \in flags => "EXCL" \in fds[f].flags
    BY <1>0, <2>1, <2>2 DEF LockOrder
  <2>3. CASE "DEV" \in flags /\ InUse(f) /\ ~Shared(f)
    <3>1. \A g \in Fds : g # f /\ fds[g].dev = fds[f].dev
              => g >= max_fd /\ g <= max_fd /\ f < g /\ "EXCL" \notin fds[g].flags
      <4> SUFFICES ASSUME NEW g \in Fds, g # f, fds[g].dev = fds[f].dev
                   PROVE  /\ g >= max_fd /\ g <= max_fd /\ f < g
                          /\ "EXCL" \notin fds[g].flags
        OBVIOUS
      <4>0. f \in Int /\ g \in Int /\ max_fd \in Int
        BY <1>t DEF Fds
      <4>1. g >= max_fd
        BY <2>3, <4>0 DEF Shared
      <4>2. HighWater /\ LockOrder
        BY DEF IInv
      <4>3. max_fd > 2
        BY <2>3, <4>2 DEF HighWater
      <4>4. InUse(g)
        BY <2>3 DEF InUse
      <4>5. g <= max_fd /\ f <= max_fd
        BY <2>3, <4>0, <4>2, <4>3, <4>4 DEF HighWater, Standard
      <4>6. f < g
        BY <4>0, <4>1, <4>5
      <4>7. "EXCL" \notin fds[g].flags
        <5>1. ~(g < f)
          BY <4>0, <4>6
        <5> QED BY <4>2, <5>1 DEF LockOrder
      <4> QED BY <4>1, <4>5, <4>6, <4>7
    <3>2. "EXCL" \in flags => \A g \in Fds : "EXCL" \in fds[g].flags /\ g # f
              => fds[g].dev # fds[f].dev
      BY <3>1
    <3> QED BY <1>0, <2>1, <3>1, <3>2 DEF LockOrder
  <2> QED BY <2>2, <2>3
<1>5. LockedDevice'
  <2>1. LockedDevice
    BY DEF IInv
  <2> QED BY <1>0, <2>1 DEF LockedDevice, InUse
<1>6. BootInv'
  BY <1>u DEF BootInv
<1> QED BY <1>1, <1>2, <1>3, <1>4, <1>5, <1>6 DEF IInv

\* An open that succeeds got a device nobody has locked: the holder would lie
\* at or below the high water mark.
LEMMA OpenNotLocked ==
    ASSUME IInv, NEW d, NEW f \in FreeFds, ~OpenFails(d, f, FALSE)
    PROVE  \A g \in Fds : "EXCL" \in fds[g].flags => fds[g].dev # d
<1> SUFFICES ASSUME NEW g \in Fds, "EXCL" \in fds[g].flags, fds[g].dev = d
             PROVE  FALSE
  OBVIOUS
<1>f. /\ f \in Fds /\ f <= Raise(f) /\ max_fd <= Raise(f) /\ g # f
      /\ Raise(f) \in 3..(ALT_MAX_FD - 1) /\ max_fd \in Int
  BY FreeFacts DEF IInv, TypeOK
<1>1. d \in Devices /\ InUse(g)
  BY FileDescAssumption DEF IInv, LockedDevice, InUse
<1>2. ~Locked(d, f, Raise(f))
  BY <1>1 DEF OpenFails
<1>3. g <= Raise(f)
  <2>1. CASE g \in Standard
    BY <1>f, <2>1 DEF Standard
  <2>2. CASE g \notin Standard
    BY <1>f, <1>1, <2>2 DEF IInv, HighWater, Fds
  <2> QED BY <2>1, <2>2
<1> QED BY <1>f, <1>2, <1>3 DEF Locked

\* A descriptor of an unlocked device handed out by open.
LEMMA OpenStep ==
    ASSUME IInv, boot = 3, boot' = boot,
           NEW d \in Objects \ {NoDev}, NEW flags \in SUBSET Flags,
           NEW f \in FreeFds, ~OpenFails(d, f, FALSE),
           max_fd' = Raise(f),
           fds' = [fds EXCEPT ![f] = Opened(d, flags)],
           held' = held \union {f}
    PROVE  IInv'
<1> USE FileDescAssumption
<1> DEFINE new == Opened(d, flags)
<1>t. /\ fds \in [Fds -> [dev : Objects, flags : SUBSET Flags]]
      /\ max_fd \in -1..(ALT_MAX_FD - 1) /\ held \subseteq Fds
  BY DEF IInv, TypeOK, Objects
<1>n. /\ new \in [dev : Objects, flags : SUBSET Flags] /\ new.dev = d
      /\ "EXCL" \notin new.flags /\ ("DEV" \in new.flags => d \in Devices)
  BY OpenedFacts
<1> HIDE DEF new
<1>f. /\ f \in Fds \ Standard /\ f \notin held /\ fds[f].dev = NoDev
      /\ "EXCL" \notin fds[f].flags
      /\ Raise(f) \in 3..(ALT_MAX_FD - 1) /\ f <= Raise(f) /\ max_fd <= Raise(f)
  BY FreeFacts
<1>0. \A g \in Fds : fds'[g] = IF g = f THEN new ELSE fds[g]
  BY <1>t, <1>f DEF new
<1>1. TypeOK'
  <2>1. fds' \in [Fds -> [dev : Objects, flags : SUBSET Flags]]
    BY <1>t, <1>n DEF new
  <2>2. max_fd' \in -1..(ALT_MAX_FD - 1)
    BY <1>f
  <2>3. held' \subseteq Fds
    BY <1>t, <1>f
  <2>4. boot' \in 0..3
    OBVIOUS
  <2> QED BY <2>1, <2>2, <2>3, <2>4 DEF TypeOK, Objects
<1>2. NoLeak'
  <2>1. \A g \in Fds \ Standard : InUse(g)' <=> InUse(g) \/ g = f
    BY <1>0, <1>n, <1>f DEF InUse
  <2>2. {g \in Fds \ Standard : InUse(g)} = held
    BY DEF IInv, NoLeak
  <2> QED BY <1>f, <2>1, <2>2 DEF NoLeak
<1>3. HighWater'
  <2>1. HighWater
    BY DEF IInv
  <2>2. \A g \in Fds : g \in Int
    BY DEF Fds
  <2>3. \A g \in Fds \ Standard : InUse(g)' => InUse(g) \/ g = f
    BY <1>0 DEF InUse
  <2>4. \A g \in Fds \ Standard : InUse(g)' => g <= max_fd'
    BY <1>t, <1>f, <2>1, <2>2, <2>3 DEF HighWater
  <2>5. max_fd' > 2
    BY <1>f
  <2> QED BY <2>4, <2>5 DEF HighWater
<1>4. LockOrder'
  <2>1. LockOrder
    BY DEF IInv
  <2>2. \A g \in Fds : "EXCL" \in fds[g].flags => fds[g].dev # d
    BY OpenNotLocked
  <2> QED BY <1>0, <1>n, <2>1, <2>2 DEF LockOrder
<1>5. LockedDevice'
  <2>1. LockedDevice
    BY DEF IInv
  <2> QED BY <1>0, <1>n, <1>f, <2>1 DEF LockedDevice, InUse
<1>6. BootInv'
  BY DEF BootInv
<1> QED BY <1>1, <1>2, <1>3, <1>4, <1>5, <1>6 DEF IInv

\* A standard descriptor redirected before main.
LEMMA RedirectStep == ASSUME IInv, Redirect PROVE IInv'
<1> USE FileDescAssumption
<1> DEFINE d == Lookup[Stdio[boot + 1]]
           s == Target[boot + 1]
<1>t. /\ fds \in [Fds -> [dev : Objects, flags : SUBSET Flags]]
      /\ max_fd \in -1..(ALT_MAX_FD - 1) /\ held \subseteq Fds
      /\ boot \in 0..2
  BY DEF IInv, TypeOK, Objects, Redirect
<1>d. d \in Objects
  <2>1. boot + 1 \in 1..3
    BY <1>t
  <2> QED BY <2>1 DEF Objects
<1>s. s \in Standard /\ s \in Fds
  <2>1. boot = 0 \/ boot = 1 \/ boot = 2
    BY <1>t
  <2>2. Standard \subseteq Fds
    BY DEF Standard, Fds
  <2> QED BY <2>1, <2>2 DEF Target, Standard
<1>b. boot' \in 0..3 /\ held' = held
  BY <1>t DEF Redirect
<1>i. /\ held = {} /\ \A f \in Fds : "EXCL" \notin fds[f].flags
      /\ LockedDevice /\ HighWater /\ NoLeak
  BY <1>t DEF IInv, BootInv
<1>1. CASE UNCHANGED <<fds, max_fd>>
  <2>1. TypeOK'
    BY <1>1, <1>t, <1>b DEF TypeOK, Objects
  <2>2. NoLeak' /\ HighWater' /\ LockedDevice'
    BY <1>1, <1>b, <1>i DEF NoLeak, HighWater, LockedDevice, InUse
  <2>3. LockOrder' /\ BootInv'
    BY <1>1, <1>b, <1>i DEF LockOrder, BootInv
  <2> QED BY <2>1, <2>2, <2>3 DEF IInv
<1>2. ASSUME NEW f \in FreeFds, max_fd' = Raise(f), d # NoDev,
             \/ UNCHANGED fds
             \/ fds' = [fds EXCEPT ![s] = Opened(d, {})]
      PROVE  IInv'
  <2>f. /\ f \in Fds \ Standard /\ Raise(f) \in 3..(ALT_MAX_FD - 1)
        /\ f <= Raise(f) /\ max_fd <= Raise(f)
    BY FreeFacts
  <2>n. /\ Opened(d, {}) \in [dev : Objects, flags : SUBSET Flags]
        /\ Opened(d, {}).dev = d /\ "EXCL" \notin Opened(d, {}).flags
        /\ ("DEV" \in Opened(d, {}).flags => d \in Devices)
    <3>1. d \in Objects \ {NoDev} /\ {} \in SUBSET Flags
      BY <1>d, <1>2
    <3> HIDE DEF d
    <3> QED BY <3>1, OpenedFacts
  <2>0. \A g \in Fds : fds'[g] = fds[g] \/ (g = s /\ fds'[g] = Opened(d, {}))
    BY <1>t, <1>2
  <2>1. TypeOK'
    <3>1. fds' \in [Fds -> [dev : Objects, flags : SUBSET Flags]]
      BY <1>t, <1>2, <2>n
    <3>2. max_fd' \in -1..(ALT_MAX_FD - 1)
      BY <1>2, <2>f
    <3> QED BY <1>t, <1>b, <3>1, <3>2 DEF TypeOK, Objects
  <2>2. \A g \in Fds \ Standard : fds'[g] = fds[g]
    BY <1>s, <2>0
  <2>3. NoLeak'
    BY <1>b, <1>i, <2>2 DEF NoLeak, InUse
  <2>4. HighWater'
    <3>1. \A g \in Fds : g \in Int
      BY DEF Fds
    <3>2. \A g \in Fds \ Standard : InUse(g)' => g <= max_fd'
      BY <1>t, <1>i, <1>2, <2>f, <2>2, <3>1 DEF HighWater, InUse
    <3>3. max_fd' > 2
      BY <1>2, <2>f
    <3> QED BY <3>2, <3>3 DEF HighWater
  <2>5. \A g \in Fds : "EXCL" \notin fds'[g].flags
    BY <1>i, <2>0, <2>n
  <2>6. LockOrder' /\ BootInv'
    BY <1>b, <1>i, <2>5 DEF LockOrder, BootInv
  <2>7. LockedDevice'
    <3> SUFFICES ASSUME NEW g \in Fds
                 PROVE  /\ "DEV" \in fds'[g].flags => fds'[g].dev \in Devices
                        /\ g \in Standard => fds'[g].dev # NoDev
      BY <2>5 DEF LockedDevice, InUse
    <3>1. CASE fds'[g] = fds[g]
      BY <1>i, <3>1 DEF LockedDevice, InUse
    <3>2. CASE fds'[g] = Opened(d, {})
      BY <1>2, <2>n, <3>2
    <3> QED BY <2>0, <3>1, <3>2
  <2> QED BY <2>1, <2>3, <2>4, <2>6, <2>7 DEF IInv
<1>3. CASE d = NoDev
  BY <1>1, <1>3 DEF Redirect
<1>4. CASE d # NoDev
  BY <1>2, <1>4 DEF Redirect
<1> QED BY <1>3, <1>4

\* The initial states satisfy the invariant and every step keeps it.
THEOREM Invariance == Spec => []IInv
<1>1. Init => IInv
  BY InitInv
<1>2. IInv /\ [Next]_vars => IInv'
  <2> SUFFICES ASSUME IInv, [Next]_vars PROVE IInv'
    OBVIOUS
  <2> USE FileDescAssumption
  <2>t. max_fd \in -1..(ALT_MAX_FD - 1) /\ fds \in [Fds -> [dev : Objects, flags : SUBSET Flags]]
    BY DEF IInv, TypeOK, Objects
  <2>1. CASE Redirect
    BY <2>1, RedirectStep
  <2>2. CASE Open
    <3> PICK name \in Names, flags \in SUBSET Flags, failed \in BOOLEAN :
          OpenAs(name, flags, failed)
      BY <2>2 DEF Open
    <3>0. boot = 3 /\ boot' = boot
      BY DEF OpenAs
    <3>1. CASE UNCHANGED <<fds, max_fd, held>>
      BY <3>0, <3>1 DEF IInv, TypeOK, NoLeak, HighWater, LockOrder,
                        LockedDevice, BootInv, InUse
    <3>2. CASE Lookup[name] # NoDev /\ FreeFds # {}
      <4> PICK f \in FreeFds :
            /\ max_fd' = Raise(f)
            /\ IF OpenFails(Lookup[name], f, failed)
               THEN fds' = [fds EXCEPT ![f] = Release(f)] /\ held' = held
               ELSE /\ fds' = [fds EXCEPT ![f] = Opened(Lookup[name], flags)]
                    /\ held' = held \union {f}
        BY <3>2 DEF OpenAs
      <4>f. /\ f \in Fds /\ f \notin held /\ max_fd <= Raise(f)
            /\ Raise(f) \in 3..(ALT_MAX_FD - 1)
        BY FreeFacts
      <4>d. Lookup[name] \in Objects \ {NoDev}
        BY <3>2 DEF Objects
      <4>1. CASE OpenFails(Lookup[name], f, failed)
        <5>1. max_fd' \in max_fd..(ALT_MAX_FD - 1) /\ held' = held \ {f}
          BY <2>t, <4>f, <4>1
        <5> QED BY <3>0, <4>f, <4>1, <5>1, ReleaseStep
      <4>2. CASE ~OpenFails(Lookup[name], f, failed)
        <5>1. ~OpenFails(Lookup[name], f, FALSE)
          BY <4>2 DEF OpenFails
        <5> QED BY <3>0, <4>d, <4>2, <5>1, OpenStep
      <4> QED BY <4>1, <4>2
    <3>3. CASE Lookup[name] = NoDev \/ FreeFds = {}
      BY <3>1, <3>3 DEF OpenAs
    <3> QED BY <3>2, <3>3
  <2>3. CASE Close
    <3> PICK f \in Fds : /\ boot = 3 /\ fds' = [fds EXCEPT ![f] = Release(f)]
                         /\ held' = held \ {f} /\ UNCHANGED <<max_fd, boot>>
      BY <2>3 DEF Close
    <3>1. max_fd' \in max_fd..(ALT_MAX_FD - 1)
      BY <2>t
    <3> QED BY <3>1, ReleaseStep
  <2>4. CASE Fcntl
    <3> PICK f \in Fds, flags \in SUBSET Flags :
          /\ boot = 3
          /\ SetFlags(f, (fds[f].flags \ ALT_FCNTL_FLAGS_MASK)
                           \union (flags \cap ALT_FCNTL_FLAGS_MASK))
      BY <2>4 DEF Fcntl
    <3> DEFINE new == (fds[f].flags \ ALT_FCNTL_FLAGS_MASK)
                        \union (flags \cap ALT_FCNTL_FLAGS_MASK)
    <3>1. fds[f].flags \in SUBSET Flags
      BY <2>t
    <3>2. /\ new \in SUBSET Flags /\ ("DEV" \in new <=> "DEV" \in fds[f].flags)
          /\ ("EXCL" \in new => "EXCL" \in fds[f].flags)
      BY <3>1 DEF ALT_FCNTL_FLAGS_MASK, Flags
    <3>3. SetFlags(f, new) /\ boot = 3
      OBVIOUS
    <3> HIDE DEF new
    <3> QED BY <3>2, <3>3, FlagsStep
  <2>5. CASE Lock
    <3> PICK f \in Fds : /\ boot = 3 /\ InUse(f) /\ "DEV" \in fds[f].flags
                         /\ ~Shared(f)
                         /\ SetFlags(f, fds[f].flags \union {"EXCL"})
      BY <2>5 DEF Lock
    <3> DEFINE new == fds[f].flags \union {"EXCL"}
    <3>1. new \in SUBSET Flags /\ "DEV" \in new
      BY <2>t DEF Flags
    <3>2. SetFlags(f, new)
      OBVIOUS
    <3> HIDE DEF new
    <3> QED BY <3>1, <3>2, FlagsStep
  <2>6. CASE Unlock
    <3> PICK f \in Fds : /\ boot = 3 /\ "DEV" \in fds[f].flags
                         /\ SetFlags(f, fds[f].flags \ {"EXCL"})
      BY <2>6 DEF Unlock
    <3> DEFINE new == fds[f].flags \ {"EXCL"}
    <3>1. new \in SUBSET Flags /\ "DEV" \in new /\ "EXCL" \notin new
      BY <2>t
    <3>2. SetFlags(f, new)
      OBVIOUS
    <3> HIDE DEF new
    <3> QED BY <3>1, <3>2, FlagsStep
  <2>7. CASE UNCHANGED vars
    BY <2>7 DEF vars, IInv, TypeOK, NoLeak, HighWater, LockOrder,
                LockedDevice, BootInv, InUse
  <2> QED BY <2>1, <2>2, <2>3, <2>4, <2>5, <2>6, <2>7 DEF Next
<1> QED BY <1>1, <1>2, PTL DEF Spec

\* Descriptors are never leaked: those in use are those open returned and
\* nobody closed.
THEOREM Bookkeeping == Spec => []NoLeak
<1>1. IInv => NoLeak
  BY DEF IInv
<1> QED BY <1>1, Invariance, PTL

\* alt_max_fd is at least every descriptor in use, so that the searches
\* that stop there miss none.
THEOREM MarkCovers == Spec => []HighWater
<1>1. IInv => HighWater
  BY DEF IInv
<1> QED BY <1>1, Invariance, PTL

\* The exclusive lock of a device has at most one holder.
THEOREM ExclusiveLock == Spec => []OneLockHolder
<1>1. IInv => OneLockHolder
  BY DEF IInv, LockOrder, OneLockHolder
<1> QED BY <1>1, Invariance, PTL

\* A locked device is closed to everyone else until its holder gives it up.
THEOREM LockShutsOut == Spec => LockedShutsOut
<1> DEFINE A == \A f, g \in Fds :
                    "EXCL" \in fds[g].flags /\ fds[f].dev # fds[g].dev
                        => fds'[f].dev # fds[g].dev
<1>1. IInv /\ [Next]_vars => [A]_vars
  <2> SUFFICES ASSUME IInv, [Next]_vars,
                      NEW f \in Fds, NEW g \in Fds,
                      "EXCL" \in fds[g].flags, fds[f].dev # fds[g].dev
               PROVE  fds'[f].dev # fds[g].dev
    BY DEF A
  <2>t. fds \in [Fds -> [dev : Objects, flags : SUBSET Flags]]
    BY DEF IInv, TypeOK, Objects
  <2>g. fds[g].dev # NoDev
    BY FileDescAssumption DEF IInv, LockedDevice
  <2>r. ASSUME NEW h \in Fds, fds' = [fds EXCEPT ![h] = Release(h)]
        PROVE  fds'[f].dev \in {fds[f].dev, NoDev}
    BY <2>t, <2>r DEF Release, Free
  <2>d. ASSUME NEW h \in Fds, NEW flags, SetFlags(h, flags)
        PROVE  fds'[f].dev = fds[f].dev
    BY <2>t, <2>d DEF SetFlags
  <2>1. CASE Redirect
    BY <2>1 DEF Redirect, IInv, BootInv, TypeOK
  <2>2. CASE Open
    <3> PICK name \in Names, flags \in SUBSET Flags, failed \in BOOLEAN :
          OpenAs(name, flags, failed)
      BY <2>2 DEF Open
    <3>1. CASE Lookup[name] # NoDev /\ FreeFds # {}
      <4> PICK h \in FreeFds :
            IF OpenFails(Lookup[name], h, failed)
            THEN fds' = [fds EXCEPT ![h] = Release(h)]
            ELSE fds' = [fds EXCEPT ![h] = Opened(Lookup[name], flags)]
        BY <3>1 DEF OpenAs
      <4>h. h \in Fds
        BY DEF FreeFds
      <4>1. CASE OpenFails(Lookup[name], h, failed)
        BY <2>g, <2>r, <4>h, <4>1
      <4>2. CASE ~OpenFails(Lookup[name], h, failed)
        <5>1. fds[g].dev # Lookup[name]
          BY <4>2, OpenNotLocked DEF OpenFails
        <5>2. Opened(Lookup[name], flags).dev = Lookup[name]
          BY DEF Opened
        <5> QED BY <2>t, <4>h, <4>2, <5>1, <5>2
      <4> QED BY <4>1, <4>2
    <3>2. CASE ~(Lookup[name] # NoDev /\ FreeFds # {})
      BY <3>2 DEF OpenAs
    <3> QED BY <3>1, <3>2
  <2>3. CASE Close
    BY <2>3, <2>g, <2>r DEF Close
  <2>4. CASE Fcntl
    BY <2>4, <2>d DEF Fcntl
  <2>5. CASE Lock
    BY <2>5, <2>d DEF Lock
  <2>6. CASE Unlock
    BY <2>6, <2>d DEF Unlock
  <2>7. CASE UNCHANGED vars
    BY <2>7 DEF vars
  <2> QED BY <2>1, <2>2, <2>3, <2>4, <2>5, <2>6, <2>7 DEF Next
<1> QED BY <1>1, Invariance, PTL DEF Spec, LockedShutsOut
=============================================================================
