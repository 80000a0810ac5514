---------------------------- MODULE MCClipboard ----------------------------
(***************************************************************************)
(* Instances of Clipboard for TLC.                                         *)
(***************************************************************************)
EXTENDS Clipboard
CONSTANTS k1, k2, s1, s2, text

OneConn    == {k1}
TwoConns   == {k1, k2}
TwoSecrets == {s1, s2}
(* The user may copy a text of their own, or by chance one of the secrets. *)
SomeTexts  == {text, s1}
=============================================================================
