-------------------------- MODULE MCChildConfinement --------------------------
(* A small tree: a directory w with a home h in it that is a mount of its  *)
(* own on the host, as /proc is, a file f, and a rootfs r with a mountpoint*)
(* for each.                                                               *)
EXTENDS ChildConfinement

MCRootfs == <<"r">>
MCProc == <<"proc">>
MCHostMounts == {<<>>, <<"w", "h">>, <<"proc">>}
MCFiles == {<<"w", "f">>}
MCPaths == {<<>>, <<"w">>, <<"w", "h">>, <<"w", "f">>, <<"proc">>, <<"r">>, <<"r", "w">>,
            <<"r", "w", "h">>, <<"r", "proc">>}

MCReadOnly == [kind |-> "ReadOnly", flags |-> {}]
MCMount(s, t, p) == [source |-> s, target |-> t, perm |-> p]
MCMounts ==
  {MCMount(<<"w">>, <<"w">>, MCReadOnly),
   MCMount(<<"w", "h">>, <<"w", "h">>, ReadWrite),
   MCMount(<<"w">>, <<"w">>, [kind |-> "Custom", flags |-> {"noexec"}]),
   MCMount(<<"w", "f">>, <<"w", "h">>, MCReadOnly)}
MCBinds ==
  {[target |-> <<"w", "h">>, perm |-> ReadWrite, deep |-> FALSE],
   [target |-> <<"w">>, perm |-> MCReadOnly, deep |-> FALSE],
   [target |-> <<>>, perm |-> MCReadOnly, deep |-> TRUE]}
MCOverlays == {<<"w">>, <<"w", "h">>}

MCMissing == {<<"gone">>}
MCDecisions ==
  {[read |-> [kind |-> "Broad"], writable |-> Baseline(<< <<"w", "h">>, <<"gone">> >>)],
   [read |-> [kind |-> "Narrow", paths |-> << <<"w">>, <<"w", "f">> >>],
    writable |-> << <<"w", "f">>, <<"gone">>, <<"w", "h">> >>]}
=============================================================================
