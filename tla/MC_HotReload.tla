---------------------------- MODULE MC_HotReload ----------------------------
(* Small instances of HotReload for TLC.                                     *)
EXTENDS HotReload
CONSTANTS v1, v2, p1, s1, s2, r1, r2, x1, x2

Nothing == [puts |-> 0, gets |-> 0, requests |-> 0, edits |-> 0, rows |-> 0, faults |-> 0,
            crashes |-> 0]

(* What happens together: a PUT, or a GET, with an edit and a failed operation; edits  *)
(* one after the other, with a failed load; proxied requests while the files change,  *)
(* with a crash; a PUT while another node stores a text, with a crash.                *)
Scenarios ==
    {[Nothing EXCEPT !.puts = 1, !.edits = 1, !.faults = 1],
     [Nothing EXCEPT !.gets = 1, !.edits = 1, !.faults = 1],
     [Nothing EXCEPT !.edits = 2, !.faults = 1],
     [Nothing EXCEPT !.requests = 2, !.edits = 2, !.crashes = 1],
     [Nothing EXCEPT !.puts = 1, !.rows = 1, !.crashes = 1]}
===============================================================================
