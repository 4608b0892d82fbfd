----------------------------- MODULE SecretFile -----------------------------
(***************************************************************************)
(* secretfile::write_atomic: how the rendered file of a transport is       *)
(* replaced under the feet of the subprocess that reads it.                *)
(*                                                                         *)
(* A call opens <name>.partial with O_CREAT and O_TRUNC, writes it, sets   *)
(* its mode and renames it over the target.  Every call for one target     *)
(* uses the same <name>.partial and there is no lock, so calls of two      *)
(* reconciles share the temporary file.                                    *)
(*                                                                         *)
(* A file is an inode: two blocks, each empty or of one version.  write    *)
(* goes to the inode that was opened, rename moves the name.               *)
(***************************************************************************)
EXTENDS Integers

CONSTANTS
    Writers,      \* tasks that may be in write_atomic at the same time
    MaxWrites,    \* bound: calls
    MaxFaults     \* bound: I/O errors and crashes

VARIABLES
    data,       \* the blocks of each inode
    target,     \* the inode the target names, 0 for none
    partial,    \* the inode <name>.partial names, 0 for none
    writes,     \* calls so far; a call writes the version of its number
    faults,
    pc, fd, ver \* of each writer: where it stands, its open inode, its version

vars == <<data, target, partial, writes, faults, pc, fd, ver>>

Inodes == 1..MaxWrites
Empty == <<0, 0>>
Whole(v) == <<v, v>>

Init ==
    /\ data = [i \in Inodes |-> Empty]
    /\ target = 0 /\ partial = 0
    /\ writes = 0 /\ faults = 0
    /\ pc = [w \in Writers |-> "idle"]
    /\ fd = [w \in Writers |-> 0]
    /\ ver = [w \in Writers |-> 0]

Goto(w, l) == pc' = [pc EXCEPT ![w] = l]

Return(w) ==
    /\ Goto(w, "idle")
    /\ fd' = [fd EXCEPT ![w] = 0]
    /\ ver' = [ver EXCEPT ![w] = 0]

WriteAtomic(w) ==
    /\ pc[w] = "idle"
    /\ writes < MaxWrites
    /\ writes' = writes + 1
    /\ ver' = [ver EXCEPT ![w] = writes + 1]
    /\ Goto(w, "open")
    /\ UNCHANGED <<data, target, partial, faults, fd>>

(* An inode no name and no writer uses.                                    *)
Free(i) == i \notin {target, partial} /\ \A w \in Writers : fd[w] # i

Opened(w, i) ==
    /\ data' = [data EXCEPT ![i] = Empty]
    /\ fd' = [fd EXCEPT ![w] = i]

(* Fault: no O_TRUNC, and an old temporary file is taken for the new one.  *)
OpenPartialKeeps(w) ==
    /\ pc[w] = "open"
    /\ IF partial # 0
       THEN fd' = [fd EXCEPT ![w] = partial] /\ Goto(w, "rename") /\ UNCHANGED <<data, partial>>
       ELSE /\ \E i \in Inodes : Free(i) /\ Opened(w, i) /\ partial' = i
            /\ Goto(w, "block1")
    /\ UNCHANGED <<target, writes, faults, ver>>

(* O_CREAT with O_TRUNC: an existing temporary file is emptied.            *)
OpenPartial(w) ==
    /\ pc[w] = "open"
    /\ IF partial # 0
       THEN Opened(w, partial) /\ UNCHANGED partial
       ELSE \E i \in Inodes : Free(i) /\ Opened(w, i) /\ partial' = i
    /\ Goto(w, "block1")
    /\ UNCHANGED <<target, writes, faults, ver>>

(* write_all is not one system call.                                       *)
WriteBlock(w) ==
    /\ \/ /\ pc[w] = "block1"
          /\ data' = [data EXCEPT ![fd[w]][1] = ver[w]]
          /\ Goto(w, "block2")
       \/ /\ pc[w] = "block2"
          /\ data' = [data EXCEPT ![fd[w]][2] = ver[w]]
          /\ Goto(w, "chmod")
    /\ UNCHANGED <<target, partial, writes, faults, fd, ver>>

(* The mode is set by name; with no temporary file left it is an error.    *)
Chmod(w) ==
    /\ pc[w] = "chmod"
    /\ IF partial # 0 THEN Goto(w, "rename") /\ UNCHANGED <<fd, ver>> ELSE Return(w)
    /\ UNCHANGED <<data, target, partial, writes, faults>>

(* rename(2); with no temporary file left it is an error.                  *)
Rename(w) ==
    /\ pc[w] = "rename"
    /\ target' = IF partial # 0 THEN partial ELSE target
    /\ partial' = 0
    /\ Return(w)
    /\ UNCHANGED <<data, writes, faults>>

(* Any step may fail; the temporary file stays where it is.                *)
IoError(w) ==
    /\ pc[w] # "idle"
    /\ faults < MaxFaults
    /\ faults' = faults + 1
    /\ Return(w)
    /\ UNCHANGED <<data, target, partial, writes>>

(* The service dies and is started again.                                  *)
Crash ==
    /\ faults < MaxFaults
    /\ faults' = faults + 1
    /\ pc' = [w \in Writers |-> "idle"]
    /\ fd' = [w \in Writers |-> 0]
    /\ ver' = [w \in Writers |-> 0]
    /\ UNCHANGED <<data, target, partial, writes>>

Next ==
    \/ \E w \in Writers :
          \/ WriteAtomic(w) \/ OpenPartial(w) \/ WriteBlock(w) \/ Chmod(w) \/ Rename(w)
          \/ IoError(w)
    \/ Crash

Spec == Init /\ [][Next]_vars

-----------------------------------------------------------------------------

(* The subprocess finds no file or a file of one version, whole, wherever  *)
(* a call failed or the service died (write_atomic, "a reader sees either  *)
(* the old file or the new one and never a partial").                      *)
ReaderSeesWhole == target # 0 => \E v \in 1..writes : data[target] = Whole(v)
=============================================================================
