---------------------------- MODULE MCRefresher ----------------------------
(* Up to four faults and two calls of the application, the registrar's        *)
(* answers to the last two REGISTERs being told apart.                        *)
EXTENDS Refresher
============================================================================
