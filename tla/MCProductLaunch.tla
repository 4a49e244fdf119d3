---------------------------- MODULE MCProductLaunch ----------------------------
(* One launch has no size to bound.  MCProductLaunch.cfg lets both sides of the  *)
(* two contracts be as they are and as the other side expects them, so that the  *)
(* whole sequence is explored; MCProductLaunch_ready.cfg has the line main.ts    *)
(* writes and the address main.rs opens.                                         *)
EXTENDS ProductLaunch

==============================================================================
