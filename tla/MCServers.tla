------------------------------ MODULE MCServers ------------------------------
(***************************************************************************)
(* Small instances of Servers for TLC.                                     *)
(***************************************************************************)
EXTENDS Servers, TLC

\* Bodies of no size, short, just fitting req_buf, and one byte more.
MCSize == 0 .. ARG_MAX + 1

ClientSymmetry == Permutations(Client)
=============================================================================
