--------------------------- MODULE MCSmtpSession ----------------------------
(***************************************************************************)
(* Model checking SmtpSession.                                             *)
(***************************************************************************)
EXTENDS SmtpSession
=============================================================================
