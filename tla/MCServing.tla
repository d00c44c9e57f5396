----------------------------- MODULE MCServing -----------------------------
(* Serving for TLC: two folders, one request, two streams.                *)
EXTENDS Serving

CONSTANTS post, web, phone

\* The statements of MIGRATIONS.
Migrations == <<9, 1, 1, 1, 4>>
=============================================================================
