------------------------------- MODULE MCSites -------------------------------
(* Small instances of Sites for TLC. *)
EXTENDS Sites, TLC

MCSmall == "X" :> "x"
MCDomainChars == {"x", "n", "."}
MCChars == MCDomainChars \cup {"X", "*", " "}

(* x, " *..X. ", which is x, and nx *)
x       == <<"x">>
starx   == <<" ", "*", ".", ".", "X", ".", " ">>
nx      == <<"n", "x">>
MCTyped == {x, starx, nx}
MCSingle == {nx}
MCBlockArgs == {<<starx, nx>>, <<nx, x, nx>>}

Packet(dst, l4, fragment, whole, sni) ==
  [dst |-> dst, l4 |-> l4, fragment |-> fragment,
   whole |-> whole, sni |-> sni]

MCPackets ==
  { Packet("a", "tcp", FALSE, TRUE, <<"n", ".", "X", ".">>),
    Packet("a", "tcp", FALSE, TRUE, nx),
    Packet("a", "tcp", FALSE, FALSE, x),
    Packet("b", "quic", FALSE, TRUE, x),
    Packet("b", "quic", TRUE, TRUE, x) }

MCIpArgs  == {{"b"}}
MCNetArgs == {{{"b"}}}
MCDefaults == <<x>>

Symmetry == Permutations(Procs)
=============================================================================
