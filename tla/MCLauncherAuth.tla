---------------------------- MODULE MCLauncherAuth ----------------------------
(* Two launches sharing one browser, two tabs that may open either, and two     *)
(* requests under way at once.                                                  *)
EXTENDS LauncherAuth

==============================================================================
