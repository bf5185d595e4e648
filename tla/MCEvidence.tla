------------------------------ MODULE MCEvidence ------------------------------
(* One upload by staff, one through the portal and one other handler.      *)
EXTENDS Evidence

CONSTANTS web, portal, handler, note
MCEvents == Uploads \cup {Note}
=============================================================================
