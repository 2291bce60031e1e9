-------------------------- MODULE ConfiguredServices ---------------------------
(* What the commands that restore take from the configuration.             *)
EXTENDS Naturals

\* The services are numbered in the order of their names; s stands for its directory too.
CONSTANT NServices

Services == 1..NServices

===============================================================================
