------------------------- MODULE MCWhatsAppSession -------------------------
(* The session of one restaurant in the worker, which restores it when it starts. *)
EXTENDS WhatsAppSession

=============================================================================
