----------------------------- MODULE ByteLocks -----------------------------
(***************************************************************************)
(* What fcntl(2) promises of byte-range locks, without the list of ranges: *)
(* every byte of every file is read-locked by any number of owners, or     *)
(* write-locked by one.  Bytes run to OffMax, the last a file can have.    *)
(***************************************************************************)
EXTENDS Integers

CONSTANTS Inode, Owner, OffMax

Byte == 0 .. OffMax
LockType == {"read", "write"}

VARIABLE held       \* what each owner has locked of each file

NoLocks == [b \in Byte |-> "none"]

Init == held = [i \in Inode |-> [o \in Owner |-> NoLocks]]

Conflict(x, y) == x # "none" /\ y # "none" /\ "write" \in {x, y}

(* Owner o has the bytes of R locked as ty from now on, whatever it had.   *)
Hold(i, o, R, ty) ==
    /\ \A b \in Byte : held'[i][o][b] = IF b \in R THEN ty ELSE held[i][o][b]
    /\ \A p \in Owner \ {o}, b \in R : ~Conflict(held[i][p][b], ty)

Release(i, o) == held'[i][o] = NoLocks

(* One owner's locks on one file change.                                   *)
Next == \E i \in Inode, o \in Owner :
    /\ held' = [held EXCEPT ![i][o] = held'[i][o]]
    /\ \/ \E a, z \in Byte, ty \in LockType \cup {"none"} : Hold(i, o, a .. z, ty)
       \/ Release(i, o)

Spec == Init /\ [][Next]_held
=============================================================================
