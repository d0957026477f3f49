------------------------------ MODULE MCKeyCache ------------------------------
(* Two threads, child numbers 0 and 1 plus one hardened number H (= 2).   *)
(* The requested paths cover: the master path, a hardened account path,  *)
(* paths below it with one and two public steps (so the order of the     *)
(* child path matters), and a public path straight from the master key.  *)
EXTENDS KeyCache

H == 2

MCIndex == {0, 1, H}

MCHardened == {H}

\* Watch-only sessions load the master and the account xpub.
MCLoadPaths == {<<>>, <<H>>}

\* The paths on which a get takes each of its routes (cached, from a
\* cached parent, parent derived, master, public from the master) and races.
MCPaths == {<<>>, <<H>>, <<H, 0>>, <<H, 0, 1>>, <<0>>}

=============================================================================
