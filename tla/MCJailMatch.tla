---------------------------- MODULE MCJailMatch ----------------------------
(***************************************************************************)
(* JailMatch with up to three expressions listed for the country: one can   *)
(* be received while a second is buffered and a third is between its flag   *)
(* check and its report.                                                    *)
(***************************************************************************)
EXTENDS JailMatch

CONSTANTS re1, re2, re3
MC_Regexps == {re1, re2, re3}
=============================================================================
