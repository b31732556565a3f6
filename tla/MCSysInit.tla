------------------------------ MODULE MCSysInit ------------------------------
(***************************************************************************)
(* Small instances of SysInit for TLC.                                     *)
(***************************************************************************)
EXTENDS SysInitInvariants, TLC

CONSTANTS root, dev   \* mount points

MCTty == 0 .. NTty - 1

Start(path) == [cmd |-> "start", arg |-> path, arg2 |-> NULL]
Waitfor(path) == [cmd |-> "waitfor", arg |-> path, arg2 |-> NULL]
Pivot(new, old) == [cmd |-> "pivot", arg |-> new, arg2 |-> old]
RenameMount(new, old) == [cmd |-> "renamemount", arg |-> new, arg2 |-> old]
CreatePort == [cmd |-> "createport", arg |-> NULL, arg2 |-> NULL]
Other == [cmd |-> "other", arg |-> NULL, arg2 |-> NULL]

\* One driver, and the port once it has mounted its path.
ShortStartup == <<Start(root), Waitfor(root), CreatePort>>

\* The root file system is mounted, moved and becomes the root; at the end the
\* port is asked for twice.
PivotStartup ==
  <<Start(NULL), Start(dev), Waitfor(dev), RenameMount(root, dev),
    Waitfor(root), Pivot(root, dev), Waitfor(dev), Other, CreatePort, CreatePort>>

\* A driver is needed to shut down.
StartingShutdown == <<Start(root), Other>>

\* A line is cut at its end or in its middle: "waitfor /dev" may be left as a
\* waitfor without a path, on which process 1 ends itself.
CutLines == {<<>>, <<Waitfor(NULL)>>}

PidSymmetry == Permutations(Pid)
=============================================================================
