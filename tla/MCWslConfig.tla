---------------------------- MODULE MCWslConfig ----------------------------
(***************************************************************************)
(* WslConfig for all files of up to three of these lines: enough for a     *)
(* section with two settings, and for a setting under either of two        *)
(* sections or none.                                                       *)
(***************************************************************************)
EXTENDS WslConfig, TLC

MCSetting(key, value, odd) ==
  [type |-> "setting", key |-> key, value |-> value, odd |-> odd, comment |-> FALSE]

MCLines == Section \cup
  {MCSetting("kernel", "x", FALSE), MCSetting("kernel", "x", TRUE), MCSetting("kernel", "", FALSE),
   MCSetting("localhostforwarding", "false", FALSE), MCSetting("localhostforwarding", "x", FALSE),
   MCSetting("localhostforwarding", "false", TRUE), MCSetting("memory", "x", FALSE)}

MCFiles == UNION {[1..n -> MCLines] : n \in 0..3}

MCSymmetry == Permutations(Handlers)

=============================================================================
