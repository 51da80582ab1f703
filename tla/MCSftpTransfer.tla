--------------------------- MODULE MCSftpTransfer ---------------------------
(* Model-checking instances of SftpTransfer. *)
EXTENDS SftpTransfer
=============================================================================
