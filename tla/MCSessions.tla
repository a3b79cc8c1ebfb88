----------------------------- MODULE MCSessions -----------------------------
(* Two sessions of one user at a server whose cache holds one entry, and a
   second server that revokes them too. *)
EXTENDS Sessions
=============================================================================
