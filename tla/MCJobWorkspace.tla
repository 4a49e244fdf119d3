---------------------------- MODULE MCJobWorkspace ----------------------------
(* Three artifacts of one or two units under a limit of three: any two may    *)
(* fit or not, depending on what the earlier ones left.                       *)
EXTENDS JobWorkspace

==============================================================================
