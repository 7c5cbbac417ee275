---------------------------- MODULE DevRegistry ----------------------------
(***************************************************************************)
(* The lists of devices and filesystems, and how open finds a name in      *)
(* them: alt_dev_reg, alt_fs_reg, alt_find_dev and alt_find_file.          *)
(* Channels of DMA controllers and flash devices are found by alt_find_dev *)
(* in lists of their own.                                                  *)
(*                                                                         *)
(* A name is a sequence of characters, as the searches tell names apart by *)
(* where they end and by their '/'.                                        *)
(***************************************************************************)
EXTENDS SequencesExt, FiniteSetsExt

CONSTANTS
    Names,       \* names of devices and filesystems, and of files
    MaxListed    \* bound: devices and filesystems registered

DevRegistryAssumption ==
    /\ Names \subseteq Seq(STRING) \ {<<>>}
    /\ MaxListed \in Nat

VARIABLES
    alt_dev_list, alt_fs_list    \* names, from the head of each list

vars == <<alt_dev_list, alt_fs_list>>

Init == alt_dev_list = <<>> /\ alt_fs_list = <<>>

\* alt_llist_insert, at the head.
Inserted(list, n) == <<n>> \o list

Listed == Len(alt_dev_list) + Len(alt_fs_list)

DevReg(n) ==
    /\ Listed < MaxListed
    /\ alt_dev_list' = Inserted(alt_dev_list, n)
    /\ UNCHANGED alt_fs_list

FsReg(n) ==
    /\ Listed < MaxListed
    /\ alt_fs_list' = Inserted(alt_fs_list, n)
    /\ UNCHANGED alt_dev_list

-----------------------------------------------------------------------------
(* The searches.                                                           *)

\* memcmp over the name and its end.
IsName(registered, n) == registered = n

\* The mount point, less the '/' it may end with, and then '/' or the end.
MountPoint(registered) ==
    IF Last(registered) = "/" THEN Front(registered) ELSE registered
OwnsAny(registered, n) == IsPrefix(MountPoint(registered), n)
Owns(registered, n) ==
    LET m == MountPoint(registered) IN
    IsPrefix(m, n) /\ (Len(n) > Len(m) => n[Len(m) + 1] = "/")

\* The first in the list that matches.
FirstMatch(list, matches) ==
    LET found == {k \in DOMAIN list : list[k] \in matches} IN
    IF found = {} THEN 0 ELSE Min(found)

\* open: a device of that name, or else the filesystem it is in.  Each is
\* told by its place from the end of its list, which it keeps.
Lookup(devs, fss, n) ==
    LET d == FirstMatch(devs, {r \in Names : IsName(r, n)})
        f == FirstMatch(fss, {r \in Names : Owns(r, n)})
    IN IF d # 0 THEN [list |-> "dev", place |-> Len(devs) - d]
       ELSE IF f # 0 THEN [list |-> "fs", place |-> Len(fss) - f]
       ELSE [list |-> "none", place |-> 0]

-----------------------------------------------------------------------------
Next == \E n \in Names : DevReg(n) \/ FsReg(n)

Spec == Init /\ [][Next]_vars

-----------------------------------------------------------------------------
(* Correctness.                                                            *)

TypeOK == {alt_dev_list, alt_fs_list} \subseteq UNION {[1..k -> Names] : k \in 0..MaxListed}

\* Is the file in the directory mounted there, or the mount point itself?
Inside(mount, n) == \E k \in 0..Len(n) :
    /\ mount \in {SubSeq(n, 1, k), SubSeq(n, 1, k) \o <<"/">>}
    /\ k = Len(n) \/ n[k + 1] = "/"

Leads == [n \in Names |-> Lookup(alt_dev_list, alt_fs_list, n)]

\* Registering a device takes over its own name and no other, and a
\* filesystem the names in its directory that are no device's: a name leads
\* to the last registered of those that may have it, and a name that merely
\* begins alike is left alone (alt_find_dev.c:46-47, alt_find_file.c:50-52).
LastOwnerFound == [][\A r \in Names :
    /\ DevReg(r) =>
           Leads' = [Leads EXCEPT ![r] = [list |-> "dev", place |-> Len(alt_dev_list)]]
    /\ FsReg(r) =>
           \A n \in Names :
               Leads'[n] = IF Inside(r, n) /\ Leads[n].list # "dev"
                           THEN [list |-> "fs", place |-> Len(alt_fs_list)]
                           ELSE Leads[n]]_vars
=============================================================================
