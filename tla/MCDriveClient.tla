--------------------------- MODULE MCDriveClient ----------------------------
(* Values of the constants of DriveClient for TLC. *)
EXTENDS DriveClient, TLC

CONSTANTS c1, c2

\* One coroutine lists the folder, or fetches an image from its stored link with
\* the full download behind it; the other fetches one at full size with the fresh
\* thumbnail behind it.
MCPlans ==
  c1 :> {<<"list">>, <<"thumbnail", "download">>} @@
  c2 :> {<<"download", "fresh_thumbnail">>}
=============================================================================
