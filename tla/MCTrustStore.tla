----------------------------- MODULE MCTrustStore -----------------------------
(* Two names under each path, and under them the kinds of thing the loader *)
(* tells apart.                                                            *)
EXTENDS TrustStore

CONSTANTS c1, c2

Plain == [dot |-> FALSE, utf8 |-> TRUE, resolves |-> "file", readable |-> TRUE,
          form |-> "pem", marker |-> TRUE, certs |-> {c1}]

Junk  == [Plain EXCEPT !.form = "junk", !.certs = {}]

(* A bundle of two; a DER file; text before the first marker pushes it out *)
(* of the scan; junk, with a marker and without; a file that cannot be     *)
(* read; hidden junk; a hidden-looking name that is not UTF-8; a           *)
(* directory; a broken link; a link that cannot be followed.               *)
MCObjects ==
  { Plain,
    [Plain EXCEPT !.certs = {c1, c2}],
    [Plain EXCEPT !.form = "der", !.marker = FALSE, !.certs = {c2}],
    [Plain EXCEPT !.marker = FALSE],
    Junk,
    [Plain EXCEPT !.readable = FALSE],
    [Junk EXCEPT !.dot = TRUE, !.marker = FALSE],
    [Plain EXCEPT !.dot = TRUE, !.utf8 = FALSE, !.certs = {c2}],
    [Junk EXCEPT !.resolves = "dir"],
    [Junk EXCEPT !.resolves = "nothing"],
    [Junk EXCEPT !.resolves = "denied"] }
=============================================================================
