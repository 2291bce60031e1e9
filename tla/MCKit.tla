------------------------------- MODULE MCKit -------------------------------
(* The recovery kit on a primary and a secondary that has a copy window, and a *)
(* change of the configuration that brings a missing extra path and replaces   *)
(* the recovery password.                                                      *)
EXTENDS Kit

MCWindowed == {2}
MCKey == <<1, 2>>
MCLacking == {1}
=============================================================================
