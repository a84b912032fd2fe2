----------------------------- MODULE MCClientTcp -----------------------------
(***************************************************************************)
(* Instance of ClientTcp for TLC, in units of two bytes: a length is one   *)
(* unit and a header two.  Packets of two and three units leave a length   *)
(* alone or a length and a byte behind; one of five does not fit beside a  *)
(* read, so that Append cuts, and fills the buffer when it goes on.        *)
(***************************************************************************)
EXTENDS ClientTcp
=============================================================================
