---------------------------- MODULE Classification ----------------------------
(***************************************************************************)
(* The classes of errors of package ocppclient, and classify, which gives  *)
(* one to whatever the OCPP library or the network returned.               *)
(*                                                                         *)
(* A returned error is known by what classify looks for in it, in this     *)
(* order: a deadline or the word "timeout", an *ocpp.Error (a CALLERROR or *)
(* a message the library refuses to send), a net.Error, a text that speaks *)
(* of authentication or TLS.                                               *)
(***************************************************************************)
EXTENDS Naturals

ErrorKind == {"timeout", "protocol", "network", "security", "other"}

Classify(kind, fallback) ==
    CASE kind = "timeout" -> "ErrTimeout"
      [] kind = "protocol" -> "ErrProtocol"
      [] kind = "network" -> "ErrConnection"
      [] kind = "security" -> "ErrAuthSecurity"
      [] kind = "other" -> fallback
=============================================================================
