---------------------------- MODULE MCXmlClient ----------------------------
(* A small instance of the XML client for TLC. *)
EXTENDS XmlClient
=============================================================================
