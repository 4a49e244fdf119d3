----------------------------- MODULE JobWorkspace -----------------------------
(* apps/server/src/security/job-workspace.ts: calls that copy an artifact     *)
(* into a private job directory under one scratch root, and the cleanups that *)
(* follow.  Every await of materializePrivateJobInput ends a step, so calls   *)
(* interleave there; the read, the check and the update of the module's       *)
(* reservation are one turn.  A restart keeps the directories and loses the   *)
(* reservation.                                                               *)
EXTENDS Integers, FiniteSets, FiniteSetsExt

CONSTANTS Calls,         \* the calls of materializePrivateJobInput
          Sizes,         \* artifact sizes they are made with
          ScratchLimit,  \* scratchBytes
          MaxInFlight,   \* how many of these calls their caller overlaps
          MaxGrowth,     \* bound of the model: bytes by which an artifact's file
                         \* may have grown since its size was checked
          MaxRestarts    \* bound of the model: restarts of the server

ASSUME WorkspaceAssumption == /\ IsFiniteSet(Calls)
                              /\ Sizes \subseteq Nat
                              /\ ScratchLimit \in Nat \ {0}
                              /\ MaxInFlight \in Nat \ {0}
                              /\ MaxGrowth \in Nat
                              /\ MaxRestarts \in Nat

VARIABLES pc,        \* where each call is
          size,      \* its artifactSize
          todo,      \* directories accountedScratchBytes has yet to visit
          total,     \* what it has added up
          reserved,  \* reservedScratchBytes of the scratch root
          saved,     \* the call's local `reserved`
          present,   \* calls whose job directory exists
          bytes,     \* length of its input.bin, 0 when there is none
          stranded,  \* history: bytes reserved by calls that died outside the try
          restarts

local == <<size, todo, total, saved>>
disk  == <<present, bytes>>
vars  == <<pc, local, reserved, disk, stranded, restarts>>

Holding == {"making", "checking", "copying", "verifying", "undoing"}
Flying  == {"listing", "scanning"} \cup Holding
Ended   == {"failed", "done", "cleaned", "lost"}

InFlight == {c \in Calls : pc[c] \in Flying}
Used == MapThenSumSet(LAMBDA c : bytes[c], Calls)

Init == /\ pc = [c \in Calls |-> "idle"]
        /\ size = [c \in Calls |-> 0]
        /\ todo = [c \in Calls |-> {}]
        /\ total = [c \in Calls |-> 0]
        /\ saved = [c \in Calls |-> 0]
        /\ reserved = 0
        /\ present = {}
        /\ bytes = [c \in Calls |-> 0]
        /\ stranded = 0
        /\ restarts = 0

Goto(c, place) == pc' = [pc EXCEPT ![c] = place]

------------------------------------------------------------------------------
\* Up to the scan: the source's checks, an artifact larger than the whole
\* limit, an unsafe root.
Begin(c) == /\ pc[c] = "idle"
            /\ Cardinality(InFlight) < MaxInFlight
            /\ \E s \in Sizes :
                  /\ size' = [size EXCEPT ![c] = s]
                  /\ \/ Goto(c, "failed")
                     \/ s <= ScratchLimit /\ Goto(c, "listing")
            /\ UNCHANGED <<todo, total, saved, reserved, disk, stranded, restarts>>

ReadScratch(c) == /\ pc[c] = "listing"
                  /\ todo' = [todo EXCEPT ![c] = present]
                  /\ total' = [total EXCEPT ![c] = 0]
                  /\ Goto(c, "scanning")
                  /\ UNCHANGED <<size, saved, reserved, disk, stranded, restarts>>

\* One entry of the listing: gone by now (lstat throws), over the limit with
\* it, or counted.
ScanEntry(c, d) ==
    /\ pc[c] = "scanning"
    /\ d \in todo[c]
    /\ IF d \notin present \/ total[c] + bytes[d] > ScratchLimit
       THEN Goto(c, "failed") /\ UNCHANGED <<todo, total>>
       ELSE /\ todo' = [todo EXCEPT ![c] = @ \ {d}]
            /\ total' = [total EXCEPT ![c] = @ + bytes[d]]
            /\ UNCHANGED pc
    /\ UNCHANGED <<size, saved, reserved, disk, stranded, restarts>>

\* Mutated: the artifact about to be copied is not counted.
Admit_IgnoresOwnSize(c) ==
    /\ pc[c] = "scanning"
    /\ todo[c] = {}
    /\ IF total[c] > ScratchLimit - reserved
       THEN Goto(c, "failed") /\ UNCHANGED <<saved, reserved>>
       ELSE /\ saved' = [saved EXCEPT ![c] = reserved]
            /\ reserved' = reserved + size[c]
            /\ Goto(c, "making")
    /\ UNCHANGED <<size, todo, total, disk, stranded, restarts>>

Admit(c) == /\ pc[c] = "scanning"
            /\ todo[c] = {}
            /\ IF total[c] > ScratchLimit - reserved - size[c]
               THEN Goto(c, "failed") /\ UNCHANGED <<saved, reserved>>
               ELSE /\ saved' = [saved EXCEPT ![c] = reserved]
                    /\ reserved' = reserved + size[c]
                    /\ Goto(c, "making")
            /\ UNCHANGED <<size, todo, total, disk, stranded, restarts>>

MakeDirectory(c) ==
    /\ pc[c] = "making"
    /\ \/ present' = present \cup {c} /\ Goto(c, "checking") /\ UNCHANGED reserved
       \/ reserved' = saved[c] /\ Goto(c, "failed") /\ UNCHANGED present
    /\ UNCHANGED <<local, bytes, stranded, restarts>>

\* assertSafeDirectory on the new directory stands between the two try blocks:
\* when it throws, neither the directory nor the reservation is given back.
CheckDirectory(c) ==
    /\ pc[c] = "checking"
    /\ \/ Goto(c, "copying") /\ UNCHANGED stranded
       \/ Goto(c, "failed") /\ stranded' = stranded + size[c]
    /\ UNCHANGED <<local, reserved, disk, restarts>>

\* copyFile takes what the file holds by now: the size it was checked for, and
\* which the reservation covers, does not stop it.
CopyByte(c) == /\ pc[c] = "copying"
               /\ bytes[c] < size[c] + MaxGrowth
               /\ bytes' = [bytes EXCEPT ![c] = @ + 1]
               /\ UNCHANGED <<pc, local, reserved, present, stranded, restarts>>

\* The copy ends, whole or (a source that shrank, a full disk) not.
CopyEnds(c) == /\ pc[c] = "copying"
               /\ \/ Goto(c, "verifying")
                  \/ Goto(c, "undoing")
               /\ UNCHANGED <<local, reserved, disk, stranded, restarts>>

\* Length and hash of the copy against the registered ones.
Verify(c) == /\ pc[c] = "verifying"
             /\ \/ bytes[c] = size[c] /\ Goto(c, "done") /\ reserved' = saved[c]
                \/ Goto(c, "undoing") /\ UNCHANGED reserved
             /\ UNCHANGED <<local, disk, stranded, restarts>>

\* The catch: unlink and rm, whose own failures are ignored.
Undo(c) == /\ pc[c] = "undoing"
           /\ \/ present' = present \ {c} /\ bytes' = [bytes EXCEPT ![c] = 0]
              \/ UNCHANGED present /\ bytes' = [bytes EXCEPT ![c] = 0]
              \/ UNCHANGED disk
           /\ reserved' = saved[c]
           /\ Goto(c, "failed")
           /\ UNCHANGED <<local, stranded, restarts>>

\* cleanupPrivateJobWorkspace, when the job is over; its rm may fail.
Cleanup(c) == /\ pc[c] = "done"
              /\ Goto(c, "cleaned")
              /\ \/ present' = present \ {c} /\ bytes' = [bytes EXCEPT ![c] = 0]
                 \/ UNCHANGED disk
              /\ UNCHANGED <<local, reserved, stranded, restarts>>

\* The server stops, at any await, and starts again: it never looks for the
\* directories it left.
Restart == /\ restarts < MaxRestarts
           /\ restarts' = restarts + 1
           /\ pc' = [c \in Calls |-> IF pc[c] \in Flying \cup {"done"} THEN "lost" ELSE pc[c]]
           /\ reserved' = 0
           /\ stranded' = 0
           /\ UNCHANGED <<local, disk>>

Next == \/ \E c \in Calls : \/ Begin(c) \/ ReadScratch(c)
                            \/ \E d \in Calls : ScanEntry(c, d)
                            \/ Admit(c) \/ MakeDirectory(c) \/ CheckDirectory(c)
                            \/ CopyByte(c) \/ CopyEnds(c) \/ Verify(c) \/ Undo(c)
                            \/ Cleanup(c)
        \/ Restart

Spec == Init /\ [][Next]_vars

------------------------------------------------------------------------------
TypeOK == /\ pc \in [Calls -> {"idle"} \cup Flying \cup Ended]
          /\ size \in [Calls -> Sizes \cup {0}]
          /\ todo \in [Calls -> SUBSET Calls]
          /\ total \in [Calls -> 0..ScratchLimit]
          /\ saved \in [Calls -> 0..ScratchLimit] /\ reserved \in 0..ScratchLimit /\ stranded \in Nat
          /\ present \subseteq Calls /\ bytes \in [Calls -> Nat]
          /\ \A c \in Calls : bytes[c] <= size[c] + MaxGrowth /\ (c \notin present => bytes[c] = 0)
          /\ restarts \in 0..MaxRestarts

\* The job directories together stay within the scratch limit, whatever copies
\* failed half way, directories could not be removed, or restarts left behind.
ScratchCap == Used <= ScratchLimit

\* Only a file that grew after its size was checked takes them over it, and only
\* one such copy at a time: without its excess the others and it are within the
\* limit, because a later call counts whatever an earlier one left behind.
CapButForGrowth == \/ ScratchCap
                   \/ \E c \in Calls : Used - (bytes[c] - size[c]) <= ScratchLimit

\* The reservation is what the calls under way have claimed, plus what the
\* unguarded directory check has stranded: nothing else leaks or is forgotten.
ReservationExact ==
    reserved = stranded + MapThenSumSet(LAMBDA c : size[c], {c \in Calls : pc[c] \in Holding})

==============================================================================
