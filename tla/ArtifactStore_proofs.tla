------------------------ MODULE ArtifactStore_proofs -------------------------
(* The artifact store and the private workspaces under it, for any number of  *)
(* uploads, jobs, bytes, changes, losses and restarts.  What holds of the     *)
(* bytes on disk holds however many jobs overlap; the two sums hold when they *)
(* do not, which is what the coordinator sees to.  The last part is about the *)
(* reader of compound files that the intake calls.                            *)
EXTENDS ArtifactStore, CompoundFile, SumLemmas

\* A job's directory exists from its creation until its call has given it up.
Directories ==
    \A c \in Calls : /\ pc[c] \in {"idle", "listing", "scanning", "making"} => c \notin present
                     /\ pc[c] \in {"checking", "copying", "verifying", "undoing", "done"} => c \in present
                     /\ pc[c] = "checking" => bytes[c] = 0

WorkspaceInv == TypeOK /\ Directories

\* An upload's source never goes back to the description it was opened with, so
\* what has been copied is of that version as long as the two still agree.
Intake(u) ==
    /\ place[u] \in {"idle", "looked"} => file[u] = "none" /\ content[u] = <<>>
    /\ place[u] = "failed" => file[u] = "none"
    /\ place[u] \notin {"idle", "failed"} => snapshot[u].size \in 1..MaxBytes
    /\ snapshot[u].version <= source[u].version
    /\ source[u].version = snapshot[u].version => source[u] = snapshot[u]
    /\ place[u] \in {"copying", "copied"} /\ source[u] = snapshot[u] =>
          \A i \in 1..Len(content[u]) : content[u][i] = snapshot[u].version
    /\ place[u] = "copied" => Len(content[u]) = snapshot[u].size
    /\ place[u] \in {"compared", "accepted"} => content[u] = Whole(snapshot[u])

\* What a stored file and its metadata are, from publication on.
Published(u) == meta[u] = [sha256 |-> Whole(snapshot[u]), size |-> snapshot[u].size]

Stored(u) ==
    /\ file[u] = "stored" =>
          /\ place[u] \in {"closing", "returned", "registered", "refused", "leftover", "lost"}
          /\ Published(u)
          /\ \/ content[u] = Whole(snapshot[u])
             \/ \E i \in DOMAIN content[u] : content[u][i] = Rotten
    /\ place[u] \in {"closing", "returned", "registered", "refused"} => Published(u)
    /\ u \in artifacts <=> place[u] = "registered"

\* A job's input is what it has copied so far of the artifact it was made for.
Input(c) ==
    /\ pc[c] # "idle" => /\ from[c] \in Uploads
                         /\ place[from[c]] \in {"registered", "lost"}
                         /\ Published(from[c])
                         /\ size[c] = snapshot[from[c]].size
    /\ pc[c] \in {"idle", "listing", "scanning", "making", "checking"} => input[c] = <<>>
    /\ pc[c] = "copying" => Len(input[c]) = bytes[c]
    /\ pc[c] = "done" => input[c] = Whole(snapshot[from[c]])

Accounted(u) ==
    file[u] # "none" => u \in artifacts \/ place[u] \in UnderWay \cup {"returned", "lost", "refused", "leftover"}

IInv == /\ StoreTypeOK /\ Directories
        /\ \A u \in Uploads : Intake(u) /\ Stored(u) /\ Accounted(u)
        /\ \A c \in Calls : Input(c)

\* One call at a time: the reservation is that call's, and the artifact it was
\* checked for still fits, counted in the place of what has been copied.
Pending(c) == [d \in Calls |-> IF d \in todo[c] THEN bytes[d] ELSE 0]

Serial ==
    /\ \A c, d \in Calls : pc[c] \in Flying /\ pc[d] \in Flying => c = d
    /\ (\A c \in Calls : pc[c] \notin Holding) => reserved = stranded
    /\ \A c \in Calls : pc[c] \in Holding => saved[c] = stranded /\ reserved = stranded + size[c]
    /\ CapButForGrowth
    /\ \A c \in Calls :
          /\ pc[c] = "scanning" => Used <= total[c] + Total(Pending(c), Calls)
          /\ pc[c] \in {"making", "checking", "copying"} => Used + size[c] - bytes[c] <= ScratchLimit


------------------------------------------------------------------------------
(* The workspaces. *)

LEMMA WorkspaceInit == Init => WorkspaceInv
  BY WorkspaceAssumption DEF Init, WorkspaceInv, TypeOK, Directories, Flying, Holding, Ended

LEMMA WorkspaceStep == WorkspaceInv /\ [Next]_vars => WorkspaceInv'
<1> SUFFICES ASSUME WorkspaceInv, [Next]_vars PROVE TypeOK' /\ Directories'
  BY DEF WorkspaceInv
<1> USE WorkspaceAssumption DEF WorkspaceInv, TypeOK, Directories, Goto, local, disk, Flying,
                                Holding, Ended
<1>0. \A c \in Calls : /\ size[c] \in Nat /\ bytes[c] \in Nat /\ bytes[c] <= size[c] + MaxGrowth
                       /\ total[c] \in 0..ScratchLimit /\ saved[c] \in 0..ScratchLimit
                       /\ c \notin present => bytes[c] = 0
  <2>1. \A n \in Sizes \cup {0} : n \in Nat
    OBVIOUS
  <2>2. \A c \in Calls : size[c] \in Sizes \cup {0}
    OBVIOUS
  <2>3. \A c \in Calls : size[c] \in Nat
    BY ONLY <2>1, <2>2
  <2> QED BY <2>3
<1>1. ASSUME NEW c \in Calls, Begin(c) PROVE TypeOK' /\ Directories'
  <2>1. TypeOK'
    BY <1>1 DEF Begin
  <2>2. Directories'
    BY <1>1 DEF Begin
  <2> QED BY <2>1, <2>2
<1>2. ASSUME NEW c \in Calls, ReadScratch(c) PROVE TypeOK' /\ Directories'
  <2>1. TypeOK'
    BY <1>2 DEF ReadScratch
  <2>2. Directories'
    BY <1>2 DEF ReadScratch
  <2> QED BY <2>1, <2>2
<1>3. ASSUME NEW c \in Calls, NEW d \in Calls, ScanEntry(c, d) PROVE TypeOK' /\ Directories'
  <2>1. TypeOK'
    BY <1>3 DEF ScanEntry
  <2>2. Directories'
    BY <1>3 DEF ScanEntry
  <2> QED BY <2>1, <2>2
<1>4. ASSUME NEW c \in Calls, Admit(c) PROVE TypeOK' /\ Directories'
  <2>1. TypeOK'
    <3>1. saved' \in [Calls -> 0..ScratchLimit] /\ reserved' \in 0..ScratchLimit
      BY <1>0, <1>4 DEF Admit
    <3> QED BY <3>1, <1>4 DEF Admit
  <2>2. Directories'
    BY <1>4 DEF Admit
  <2> QED BY <2>1, <2>2
<1>5. ASSUME NEW c \in Calls, MakeDirectory(c) PROVE TypeOK' /\ Directories'
  <2>1. TypeOK'
    BY <1>5 DEF MakeDirectory
  <2>2. Directories'
    BY <1>5 DEF MakeDirectory
  <2> QED BY <2>1, <2>2
<1>6. ASSUME NEW c \in Calls, CheckDirectory(c) PROVE TypeOK' /\ Directories'
  <2>1. TypeOK'
    <3>1. stranded' \in Nat
      BY <1>0, <1>6 DEF CheckDirectory
    <3> QED BY <3>1, <1>6 DEF CheckDirectory
  <2>2. Directories'
    BY <1>6 DEF CheckDirectory
  <2> QED BY <2>1, <2>2
<1>7. ASSUME NEW c \in Calls, CopyByte(c) PROVE TypeOK' /\ Directories'
  <2>1. TypeOK'
    <3>1. /\ bytes[c] < size[c] + MaxGrowth /\ c \in present
          /\ bytes' = [bytes EXCEPT ![c] = bytes[c] + 1]
          /\ UNCHANGED <<pc, size, todo, total, saved, reserved, present, stranded, restarts>>
      BY <1>7 DEF CopyByte
    <3>2. bytes' \in [Calls -> Nat]
      BY <3>1, <1>0
    <3>3. \A d \in Calls : bytes'[d] <= size[d] + MaxGrowth /\ (d \notin present => bytes'[d] = 0)
      BY <3>1, <1>0
    <3> QED BY <3>1, <3>2, <3>3
  <2>2. Directories'
    BY <1>7 DEF CopyByte
  <2> QED BY <2>1, <2>2
<1>8. ASSUME NEW c \in Calls, CopyEnds(c) PROVE TypeOK' /\ Directories'
  <2>1. TypeOK'
    BY <1>8 DEF CopyEnds
  <2>2. Directories'
    BY <1>8 DEF CopyEnds
  <2> QED BY <2>1, <2>2
<1>9. ASSUME NEW c \in Calls, Verify(c) PROVE TypeOK' /\ Directories'
  <2>1. TypeOK'
    BY <1>9 DEF Verify
  <2>2. Directories'
    BY <1>9 DEF Verify
  <2> QED BY <2>1, <2>2
<1>10. ASSUME NEW c \in Calls, Undo(c) PROVE TypeOK' /\ Directories'
  <2>1. TypeOK'
    <3>1. /\ bytes' \in [Calls -> Nat] /\ present' \subseteq Calls
          /\ \A d \in Calls : bytes'[d] <= size[d] + MaxGrowth /\ (d \notin present' => bytes'[d] = 0)
      <4>1. CASE present' = present \ {c} /\ bytes' = [bytes EXCEPT ![c] = 0]
        BY <1>0, <4>1
      <4>2. CASE present' = present /\ bytes' = [bytes EXCEPT ![c] = 0]
        BY <1>0, <4>2
      <4>3. CASE present' = present /\ bytes' = bytes
        BY <1>0, <4>3
      <4> QED BY <4>1, <4>2, <4>3, <1>10 DEF Undo
    <3> QED BY <3>1, <1>10 DEF Undo
  <2>2. Directories'
    BY <1>10 DEF Undo
  <2> QED BY <2>1, <2>2
<1>11. ASSUME NEW c \in Calls, Cleanup(c) PROVE TypeOK' /\ Directories'
  <2>1. TypeOK'
    <3>1. /\ bytes' \in [Calls -> Nat] /\ present' \subseteq Calls
          /\ \A d \in Calls : bytes'[d] <= size[d] + MaxGrowth /\ (d \notin present' => bytes'[d] = 0)
      <4>1. CASE present' = present \ {c} /\ bytes' = [bytes EXCEPT ![c] = 0]
        BY <1>0, <4>1
      <4>2. CASE present' = present /\ bytes' = [bytes EXCEPT ![c] = 0]
        BY <1>0, <4>2
      <4>3. CASE present' = present /\ bytes' = bytes
        BY <1>0, <4>3
      <4> QED BY <4>1, <4>2, <4>3, <1>11 DEF Cleanup
    <3> QED BY <3>1, <1>11 DEF Cleanup
  <2>2. Directories'
    BY <1>11 DEF Cleanup
  <2> QED BY <2>1, <2>2
<1>12. CASE Restart
  BY <1>12 DEF Restart
<1>13. CASE UNCHANGED vars
  BY <1>13 DEF vars
<1> QED
  BY <1>1, <1>2, <1>3, <1>4, <1>5, <1>6, <1>7, <1>8, <1>9, <1>10, <1>11, <1>12, <1>13 DEF Next


\* One byte count changes, and with it the sum.
LEMMA UsedIsTotal == Used = Total(bytes, Calls) /\ Used' = Total(bytes', Calls)
  BY DEF Used, Total, MapThenSumSet, MapThenFoldSet

LEMMA UsedChanges ==
    ASSUME WorkspaceInv, NEW c \in Calls,
           \A d \in Calls : bytes'[d] \in Nat /\ (d # c => bytes'[d] = bytes[d])
    PROVE  Used' = Used - bytes[c] + bytes'[c] /\ Used \in Nat /\ Used' \in Nat
<1>1. /\ IsFiniteSet(Calls)
      /\ \A d \in Calls : bytes[d] \in Nat
  BY WorkspaceAssumption DEF WorkspaceInv, TypeOK
<1> DEFINE f == bytes
           g == bytes'
<1>2. /\ \A d \in Calls : f[d] \in Nat /\ g[d] \in Nat
      /\ \A d \in Calls : d # c => g[d] = f[d]
      /\ f[c] = bytes[c] /\ g[c] = bytes'[c]
  BY <1>1
<1> HIDE DEF f, g
<1>3. Total(g, Calls) = Total(f, Calls) - f[c] + g[c]
  BY <1>1, <1>2, TotalUpdate
<1>4. Total(g, Calls) \in Nat /\ Total(f, Calls) \in Nat
  BY <1>1, <1>2, TotalType
<1>5. Used = Total(f, Calls) /\ Used' = Total(g, Calls)
  BY UsedIsTotal DEF f, g
<1> QED
  BY <1>2, <1>3, <1>4, <1>5

LEMMA UsedDrops ==
    ASSUME WorkspaceInv, NEW c \in Calls, bytes' = [bytes EXCEPT ![c] = 0]
    PROVE  Used' = Used - bytes[c] /\ Used \in Nat /\ Used' \in Nat /\ bytes[c] \in Nat
<1>1. \A d \in Calls : bytes'[d] \in Nat /\ (d # c => bytes'[d] = bytes[d])
  BY DEF WorkspaceInv, TypeOK
<1>2. bytes'[c] = 0 /\ bytes[c] \in Nat
  BY DEF WorkspaceInv, TypeOK
<1> QED BY <1>1, <1>2, UsedChanges

\* The cap is no harder to keep when nothing was written, and when a file went.
LEMMA CapStays ==
    ASSUME CapButForGrowth, bytes' = bytes, size' = size
    PROVE  CapButForGrowth'
  BY UsedIsTotal DEF CapButForGrowth, ScratchCap

LEMMA CapDrops ==
    ASSUME WorkspaceInv, CapButForGrowth, NEW c \in Calls, size[c] \in Nat,
           \A d \in Calls : size[d] \in Nat,
           bytes' = [bytes EXCEPT ![c] = 0], size' = size
    PROVE  CapButForGrowth'
<1>1. Used' = Used - bytes[c] /\ Used \in Nat /\ Used' \in Nat /\ bytes[c] \in Nat
  BY UsedDrops
<1>2. \A d \in Calls : bytes[d] \in Nat /\ bytes'[d] = IF d = c THEN 0 ELSE bytes[d]
  BY DEF WorkspaceInv, TypeOK
<1>3. ScratchLimit \in Nat
  BY WorkspaceAssumption
<1>4. CASE ScratchCap
  BY <1>1, <1>3, <1>4 DEF CapButForGrowth, ScratchCap
<1>5. ASSUME NEW w \in Calls, Used - (bytes[w] - size[w]) <= ScratchLimit PROVE CapButForGrowth'
  <2>1. CASE w = c
    <3>1. Used' <= ScratchLimit
      BY <1>1, <1>3, <1>5, <2>1
    <3> QED BY <3>1 DEF CapButForGrowth, ScratchCap
  <2>2. CASE w # c
    <3>1. Used' - (bytes'[w] - size'[w]) <= ScratchLimit
      BY <1>1, <1>2, <1>3, <1>5, <2>2
    <3> QED BY <3>1 DEF CapButForGrowth
  <2> QED BY <2>1, <2>2
<1> QED
  BY <1>4, <1>5 DEF CapButForGrowth

\* What a scan has yet to visit loses one entry, by a visit or by a clean-up.
LEMMA PendingChanges ==
    ASSUME WorkspaceInv, NEW c \in Calls, NEW d \in Calls,
           \/ todo'[c] = todo[c] \ {d} /\ bytes' = bytes
           \/ todo'[c] = todo[c] /\ bytes' = [bytes EXCEPT ![d] = 0]
    PROVE  /\ Total(Pending(c), Calls) \in Nat
           /\ Total(Pending(c)', Calls)
              = Total(Pending(c), Calls) - (IF d \in todo[c] THEN bytes[d] ELSE 0)
<1> DEFINE f == Pending(c)
           g == Pending(c)'
<1>0. bytes \in [Calls -> Nat] /\ IsFiniteSet(Calls)
  BY WorkspaceAssumption DEF WorkspaceInv, TypeOK
<1>1. \A x \in Calls : /\ f[x] = IF x \in todo[c] THEN bytes[x] ELSE 0
                       /\ g[x] = IF x \in todo'[c] THEN bytes'[x] ELSE 0
  BY DEF Pending
<1>2. g[d] = 0 /\ \A x \in Calls : x # d => g[x] = f[x]
  BY <1>0, <1>1
<1>3. \A x \in Calls : f[x] \in Nat /\ g[x] \in Nat
  BY <1>0, <1>1, <1>2
<1>5. f[d] = IF d \in todo[c] THEN bytes[d] ELSE 0
  BY <1>1
<1> HIDE DEF f, g
<1>4. Total(g, Calls) = Total(f, Calls) - f[d] + g[d] /\ Total(f, Calls) \in Nat
  BY <1>0, <1>2, <1>3, TotalUpdate, TotalType
<1>6. f[d] \in Nat
  BY <1>3
<1> QED
  BY <1>2, <1>4, <1>5, <1>6 DEF f, g

\* The call under way is the only one, and moves on alone.
LEMMA Alone ==
    ASSUME WorkspaceInv, Serial, NEW c \in Calls, NEW place1, pc[c] \in Flying, Goto(c, place1)
    PROVE  /\ pc'[c] = place1
           /\ \A d \in Calls : d # c => pc'[d] = pc[d] /\ pc'[d] \notin Flying
  BY DEF WorkspaceInv, TypeOK, Serial, Goto

\* What Serial comes down to while c is the only call under way.
LEMMA SerialOf ==
    ASSUME NEW c \in Calls,
           \A d \in Calls : d # c => pc'[d] \notin Flying,
           pc'[c] \in Holding => saved'[c] = stranded' /\ reserved' = stranded' + size'[c],
           pc'[c] \notin Holding => reserved' = stranded',
           CapButForGrowth',
           pc'[c] = "scanning" => Used' <= total'[c] + Total(Pending(c)', Calls),
           pc'[c] \in {"making", "checking", "copying"} => Used' + size'[c] - bytes'[c] <= ScratchLimit
    PROVE  Serial'
  BY DEF Serial, Flying, Holding

LEMMA SerialInit == Init => Serial
<1> SUFFICES ASSUME Init PROVE Serial
  OBVIOUS
<1>1. \A c \in Calls : bytes[c] = 0
  BY DEF Init
<1>2. Used = 0
  BY <1>1, WorkspaceAssumption, TotalZero, UsedIsTotal
<1>3. \A c \in Calls : pc[c] = "idle"
  BY DEF Init
<1> QED
  BY <1>2, <1>3, WorkspaceAssumption DEF Init, Serial, Flying, Holding, CapButForGrowth, ScratchCap

\* With one call at a time, what the scan found and the reservation are all
\* there is to count.
LEMMA SerialStep ==
    ASSUME MaxInFlight = 1, WorkspaceInv, Serial, [Next]_vars
    PROVE  Serial'
<1> USE DEF local, disk
<1>0. /\ \A c \in Calls : /\ size[c] \in Nat /\ bytes[c] \in Nat
                          /\ total[c] \in 0..ScratchLimit /\ saved[c] \in 0..ScratchLimit
      /\ IsFiniteSet(Calls) /\ ScratchLimit \in Nat
      /\ reserved \in 0..ScratchLimit /\ stranded \in Nat
  <2>1. \A n \in Sizes \cup {0} : n \in Nat
    BY WorkspaceAssumption
  <2>2. \A c \in Calls : size[c] \in Sizes \cup {0}
    BY DEF WorkspaceInv, TypeOK
  <2>3. \A c \in Calls : size[c] \in Nat
    BY ONLY <2>1, <2>2
  <2> QED BY <2>3, WorkspaceAssumption DEF WorkspaceInv, TypeOK
<1>00. Used \in Nat /\ CapButForGrowth
  BY <1>0, TotalType, UsedIsTotal DEF Serial
<1>1. ASSUME NEW c \in Calls, Begin(c) PROVE Serial'
  <2>1. InFlight \in SUBSET Calls /\ IsFiniteSet(InFlight) /\ Cardinality(InFlight) = 0
    <3>1. InFlight \in SUBSET Calls
      BY DEF InFlight
    <3>2. IsFiniteSet(InFlight) /\ Cardinality(InFlight) \in Nat
      BY <3>1, <1>0, FS_Subset, FS_CardinalityType
    <3> QED BY <1>1, <3>1, <3>2 DEF Begin
  <2>2. \A d \in Calls : pc[d] \notin Flying
    BY <2>1, FS_EmptySet DEF InFlight
  <2>3. /\ pc'[c] \in {"failed", "listing"}
        /\ \A d \in Calls : d # c => pc'[d] = pc[d]
        /\ UNCHANGED <<reserved, stranded, bytes>>
    BY <1>1 DEF Begin, Goto, WorkspaceInv, TypeOK
  <2>4. reserved = stranded
    BY <2>2 DEF Serial, Flying
  <2>5. CapButForGrowth'
    <3>1. Used' = Used /\ bytes[c] = 0 /\ size[c] \in Nat
          /\ \A d \in Calls : d # c => size'[d] = size[d]
      BY <1>0, <1>1, <2>3, UsedIsTotal DEF Begin, WorkspaceInv, TypeOK, Directories
    <3>2. ASSUME NEW w \in Calls, Used - (bytes[w] - size[w]) <= ScratchLimit
          PROVE  CapButForGrowth'
      <4>1. CASE w = c
        BY <1>0, <1>00, <3>1, <3>2, <4>1 DEF CapButForGrowth, ScratchCap
      <4>2. CASE w # c
        BY <2>3, <3>1, <3>2, <4>2 DEF CapButForGrowth
      <4> QED BY <4>1, <4>2
    <3> QED BY <1>00, <3>1, <3>2 DEF CapButForGrowth, ScratchCap
  <2> QED BY <2>2, <2>3, <2>4, <2>5, SerialOf DEF Holding
<1>2. ASSUME NEW c \in Calls, ReadScratch(c) PROVE Serial'
  <2>1. /\ pc'[c] = "scanning" /\ pc[c] \notin Holding
        /\ \A d \in Calls : d # c => pc'[d] \notin Flying /\ pc[d] \notin Holding
    BY <1>2, Alone DEF ReadScratch, Flying, Holding
  <2>2. reserved = stranded /\ UNCHANGED <<reserved, stranded, bytes>>
    BY <1>2, <2>1 DEF ReadScratch, Serial
  <2>3. todo'[c] = present /\ total'[c] = 0
    BY <1>2 DEF ReadScratch, WorkspaceInv, TypeOK
  <2>4. Used' = Total(Pending(c)', Calls)
    <3>1. \A d \in Calls : Pending(c)'[d] = bytes'[d]
      BY <2>2, <2>3 DEF Pending, WorkspaceInv, TypeOK
    <3> QED BY <1>0, <3>1, TotalAgree, UsedIsTotal
  <2>5. Used' = Used
    BY <2>2, UsedIsTotal
  <2>6. Used' <= total'[c] + Total(Pending(c)', Calls)
    BY <1>00, <2>3, <2>4, <2>5
  <2>7. CapButForGrowth'
    BY <1>00, <1>2, <2>2, CapStays DEF ReadScratch
  <2> QED BY <2>1, <2>2, <2>6, <2>7, SerialOf DEF Holding
<1>3. ASSUME NEW c \in Calls, NEW d \in Calls, ScanEntry(c, d) PROVE Serial'
  <2>1. /\ pc[c] = "scanning" /\ d \in todo[c]
        /\ UNCHANGED <<reserved, stranded, bytes>>
    BY <1>3 DEF ScanEntry
  <2>2. /\ \A e \in Calls : e # c => pc[e] \notin Flying
        /\ reserved = stranded
    BY <2>1 DEF Serial, Flying, Holding
  <2>3. Used' = Used /\ CapButForGrowth'
    BY <1>00, <1>3, <2>1, UsedIsTotal, CapStays DEF ScanEntry
  <2>4. CASE Goto(c, "failed")
    <3>1. /\ pc'[c] = "failed"
          /\ \A e \in Calls : e # c => pc'[e] \notin Flying
      BY <2>1, <2>4, Alone DEF Flying
    <3> QED BY <1>00, <2>1, <2>2, <2>3, <3>1, SerialOf DEF Holding
  <2>5. CASE /\ todo' = [todo EXCEPT ![c] = @ \ {d}]
             /\ total' = [total EXCEPT ![c] = @ + bytes[d]]
             /\ UNCHANGED pc
    <3>1. todo'[c] = todo[c] \ {d} /\ total'[c] = total[c] + bytes[d]
      BY <2>5 DEF WorkspaceInv, TypeOK
    <3>2. /\ Total(Pending(c), Calls) \in Nat
          /\ Total(Pending(c)', Calls) = Total(Pending(c), Calls) - bytes[d]
      BY <2>1, <3>1, PendingChanges
    <3>3. Used <= total[c] + Total(Pending(c), Calls)
      BY <2>1 DEF Serial
    <3>4. Used' <= total'[c] + Total(Pending(c)', Calls)
      BY <1>0, <1>00, <2>3, <3>1, <3>2, <3>3
    <3> QED BY <1>00, <2>1, <2>2, <2>3, <2>5, <3>4, SerialOf DEF Holding
  <2> QED BY <1>3, <2>4, <2>5 DEF ScanEntry
<1>4. ASSUME NEW c \in Calls, Admit(c) PROVE Serial'
  <2>1. /\ pc[c] = "scanning" /\ todo[c] = {}
        /\ UNCHANGED <<size, todo, total, bytes, stranded>>
    BY <1>4 DEF Admit
  <2>2. /\ \A d \in Calls : d # c => pc[d] \notin Flying
        /\ reserved = stranded
    BY <2>1 DEF Serial, Flying, Holding
  <2>6. CapButForGrowth'
    BY <1>00, <2>1, CapStays
  <2>3. Used' = Used /\ Used <= total[c]
    <3>1. \A d \in Calls : Pending(c)[d] = 0
      BY <2>1 DEF Pending
    <3>2. Total(Pending(c), Calls) = 0
      BY <1>0, <3>1, TotalZero
    <3> QED BY <1>0, <2>1, <3>2, UsedIsTotal DEF Serial
  <2>4. CASE Goto(c, "failed") /\ UNCHANGED <<saved, reserved>>
    <3>1. /\ pc'[c] = "failed"
          /\ \A e \in Calls : e # c => pc'[e] \notin Flying
      BY <2>1, <2>4, Alone DEF Flying
    <3> QED BY <2>1, <2>2, <2>3, <2>4, <2>6, <3>1, SerialOf DEF Holding
  <2>5. CASE /\ ~(total[c] > ScratchLimit - reserved - size[c])
             /\ saved' = [saved EXCEPT ![c] = reserved]
             /\ reserved' = reserved + size[c]
             /\ Goto(c, "making")
    <3>1. /\ pc'[c] = "making"
          /\ \A e \in Calls : e # c => pc'[e] \notin Flying
      BY <2>1, <2>5, Alone DEF Flying
    <3>2. saved'[c] = reserved
      BY <2>5 DEF WorkspaceInv, TypeOK
    <3>3. Used' + size[c] - bytes[c] <= ScratchLimit
      BY <1>0, <1>00, <2>3, <2>5
    <3> QED BY <2>1, <2>2, <2>3, <2>5, <2>6, <3>1, <3>2, <3>3, SerialOf DEF Holding
  <2> QED BY <1>4, <2>4, <2>5 DEF Admit
<1>5. ASSUME NEW c \in Calls, \/ MakeDirectory(c) \/ CheckDirectory(c) \/ CopyEnds(c) \/ Verify(c)
      PROVE  Serial'
  <2>1. /\ pc[c] \in Holding /\ UNCHANGED <<local, bytes>>
        /\ \/ /\ pc[c] = "making" /\ Goto(c, "checking") /\ UNCHANGED <<reserved, stranded>>
           \/ /\ pc[c] = "checking" /\ Goto(c, "copying") /\ UNCHANGED <<reserved, stranded>>
           \/ /\ Goto(c, "verifying") /\ UNCHANGED <<reserved, stranded>>
           \/ /\ Goto(c, "undoing") /\ UNCHANGED <<reserved, stranded>>
           \/ /\ Goto(c, "failed") /\ reserved' = saved[c] /\ UNCHANGED stranded
           \/ /\ Goto(c, "done") /\ reserved' = saved[c] /\ UNCHANGED stranded
           \/ /\ Goto(c, "failed") /\ stranded' = stranded + size[c] /\ UNCHANGED reserved
    BY <1>5 DEF MakeDirectory, CheckDirectory, CopyEnds, Verify, Holding
  <2>2. Used' = Used /\ CapButForGrowth'
    BY <1>00, <2>1, UsedIsTotal, CapStays
  <2>3. saved[c] = stranded /\ reserved = stranded + size[c]
    BY <2>1 DEF Serial
  <2>4. pc[c] \in {"making", "checking"} => Used + size[c] - bytes[c] <= ScratchLimit
    BY DEF Serial
  <2>5. \A d \in Calls : d # c => pc'[d] \notin Flying
    BY <2>1, Alone DEF Flying
  <2>6. CASE pc[c] = "making" /\ Goto(c, "checking") /\ UNCHANGED <<reserved, stranded>>
    <3>1. pc'[c] = "checking"
      BY <2>1, <2>6, Alone DEF Flying
    <3> QED BY <2>1, <2>2, <2>3, <2>4, <2>5, <2>6, <3>1, SerialOf DEF Holding
  <2>7. CASE pc[c] = "checking" /\ Goto(c, "copying") /\ UNCHANGED <<reserved, stranded>>
    <3>1. pc'[c] = "copying"
      BY <2>1, <2>7, Alone DEF Flying
    <3> QED BY <2>1, <2>2, <2>3, <2>4, <2>5, <2>7, <3>1, SerialOf DEF Holding
  <2>8. CASE (Goto(c, "verifying") \/ Goto(c, "undoing")) /\ UNCHANGED <<reserved, stranded>>
    <3>1. pc'[c] \in {"verifying", "undoing"}
      BY <2>1, <2>8, Alone DEF Flying
    <3> QED BY <2>1, <2>2, <2>3, <2>5, <2>8, <3>1, SerialOf DEF Holding
  <2>9. CASE (Goto(c, "failed") \/ Goto(c, "done")) /\ reserved' = saved[c] /\ UNCHANGED stranded
    <3>1. pc'[c] \in {"failed", "done"}
      BY <2>1, <2>9, Alone DEF Flying
    <3> QED BY <2>1, <2>2, <2>3, <2>5, <2>9, <3>1, SerialOf DEF Holding
  <2>10. CASE Goto(c, "failed") /\ stranded' = stranded + size[c] /\ UNCHANGED reserved
    <3>1. pc'[c] = "failed"
      BY <2>1, <2>10, Alone DEF Flying
    <3> QED BY <2>1, <2>2, <2>3, <2>5, <2>10, <3>1, SerialOf DEF Holding
  <2> QED BY <2>1, <2>6, <2>7, <2>8, <2>9, <2>10
<1>6. ASSUME NEW c \in Calls, CopyByte(c) PROVE Serial'
  <2>1. /\ pc[c] = "copying"
        /\ bytes' = [bytes EXCEPT ![c] = bytes[c] + 1]
        /\ UNCHANGED <<pc, size, saved, reserved, stranded>>
    BY <1>6 DEF CopyByte
  <2>2. /\ \A d \in Calls : d # c => pc[d] \notin Flying
        /\ saved[c] = stranded /\ reserved = stranded + size[c]
        /\ Used + size[c] - bytes[c] <= ScratchLimit
    BY <2>1 DEF Serial, Flying, Holding
  <2>3. Used' = Used - bytes[c] + bytes'[c] /\ bytes'[c] = bytes[c] + 1
    <3>1. \A d \in Calls : bytes'[d] = IF d = c THEN bytes[c] + 1 ELSE bytes[d]
      BY <2>1 DEF WorkspaceInv, TypeOK
    <3>2. \A d \in Calls : bytes'[d] \in Nat /\ (d # c => bytes'[d] = bytes[d])
      BY <1>0, <3>1
    <3> QED BY <3>1, <3>2, UsedChanges
  <2>4. Used' + size[c] - bytes'[c] <= ScratchLimit
    BY <1>0, <1>00, <2>1, <2>2, <2>3
  <2>5. CapButForGrowth'
    <3>1. Used' - (bytes'[c] - size'[c]) <= ScratchLimit
      BY <1>0, <1>00, <2>1, <2>2, <2>3
    <3> QED BY <3>1 DEF CapButForGrowth
  <2> QED BY <2>1, <2>2, <2>4, <2>5, SerialOf DEF Holding
<1>7. ASSUME NEW c \in Calls, Undo(c) PROVE Serial'
  <2>1. /\ pc[c] = "undoing" /\ Goto(c, "failed") /\ reserved' = saved[c] /\ UNCHANGED stranded
        /\ UNCHANGED size /\ (bytes' = bytes \/ bytes' = [bytes EXCEPT ![c] = 0])
    BY <1>7 DEF Undo
  <2>2. /\ pc'[c] = "failed"
        /\ \A e \in Calls : e # c => pc'[e] \notin Flying
    BY <2>1, Alone DEF Flying, Holding
  <2>3. saved[c] = stranded
    BY <2>1 DEF Serial, Holding
  <2>4. CapButForGrowth'
    BY <1>0, <1>00, <2>1, CapStays, CapDrops
  <2> QED BY <2>1, <2>2, <2>3, <2>4, SerialOf DEF Holding
<1>8. ASSUME NEW c \in Calls, Cleanup(c) PROVE Serial'
  <2>1. /\ pc[c] = "done" /\ UNCHANGED <<size, todo, total, saved, reserved, stranded>>
        /\ bytes' = bytes \/ bytes' = [bytes EXCEPT ![c] = 0]
    BY <1>8 DEF Cleanup
  <2>2. /\ pc'[c] = "cleaned"
        /\ \A d \in Calls : d # c => pc'[d] = pc[d]
    BY <1>8 DEF Cleanup, Goto, WorkspaceInv, TypeOK
  <2>3. Used' <= Used
    <3>1. CASE bytes' = bytes
      BY <1>00, <3>1, UsedIsTotal
    <3>2. CASE bytes' = [bytes EXCEPT ![c] = 0]
      <4>1. Used' = Used - bytes[c] /\ Used' \in Nat /\ bytes[c] \in Nat
        BY <3>2, UsedDrops
      <4> QED BY <1>0, <1>00, <4>1
    <3> QED BY <2>1, <3>1, <3>2
  <2>4. /\ \A d \in Calls : pc'[d] \in Flying => d # c /\ pc[d] \in Flying
        /\ \A d \in Calls : pc'[d] \in Holding <=> pc[d] \in Holding
        /\ \A d \in Calls : pc'[d] \in Flying => pc'[d] = pc[d] /\ bytes'[d] = bytes[d]
    BY <2>1, <2>2 DEF Flying, Holding, WorkspaceInv, TypeOK
  <2>5. /\ \A x, y \in Calls : pc'[x] \in Flying /\ pc'[y] \in Flying => x = y
        /\ (\A d \in Calls : pc'[d] \notin Holding) => reserved' = stranded'
        /\ \A d \in Calls : pc'[d] \in Holding => saved'[d] = stranded' /\ reserved' = stranded' + size'[d]
    BY <2>1, <2>4 DEF Serial
  <2>6. CapButForGrowth' /\ Used' \in Nat
    <3>2. CapButForGrowth'
      BY <1>0, <1>00, <2>1, CapStays, CapDrops
    <3>1. \A d \in Calls : bytes'[d] \in Nat
      BY <1>0, <2>1 DEF WorkspaceInv, TypeOK
    <3> QED BY <1>0, <3>1, <3>2, TotalType, UsedIsTotal
  <2>7. ASSUME NEW d \in Calls, pc'[d] = "scanning"
        PROVE  Used' <= total'[d] + Total(Pending(d)', Calls)
    <3>1. d # c /\ pc[d] = "scanning" /\ Used <= total[d] + Total(Pending(d), Calls)
      BY <2>1, <2>2, <2>7 DEF Serial
    <3>2. CASE bytes' = bytes
      <4>1. Pending(d)' = Pending(d) /\ Used' = Used
        BY <2>1, <3>2, UsedIsTotal DEF Pending
      <4> QED BY <2>1, <3>1, <4>1
    <3>3. CASE bytes' = [bytes EXCEPT ![c] = 0]
      <4>1. /\ Total(Pending(d), Calls) \in Nat
            /\ Total(Pending(d)', Calls)
               = Total(Pending(d), Calls) - (IF c \in todo[d] THEN bytes[c] ELSE 0)
        BY <2>1, <3>3, PendingChanges
      <4>2. Used' = Used - bytes[c]
        BY <3>3, UsedDrops
      <4> QED BY <1>0, <1>00, <2>1, <3>1, <4>1, <4>2
    <3> QED BY <2>1, <3>2, <3>3
  <2>8. ASSUME NEW d \in Calls, pc'[d] \in {"making", "checking", "copying"}
        PROVE  Used' + size'[d] - bytes'[d] <= ScratchLimit
    <3>1. pc[d] = pc'[d] /\ bytes'[d] = bytes[d]
      BY <2>4, <2>8 DEF Flying, Holding
    <3>2. Used + size[d] - bytes[d] <= ScratchLimit
      BY <2>8, <3>1 DEF Serial
    <3> QED BY <1>0, <1>00, <2>1, <2>3, <2>6, <3>1, <3>2
  <2> QED BY <2>5, <2>6, <2>7, <2>8 DEF Serial
<1>9. CASE Restart
  <2>1. \A c \in Calls : pc'[c] \notin Flying
    BY <1>9 DEF Restart, Flying, Holding
  <2>2. CapButForGrowth' /\ reserved' = 0 /\ stranded' = 0
    BY <1>9, <1>00, CapStays DEF Restart
  <2> QED BY <2>1, <2>2 DEF Serial, Flying, Holding
<1>10. CASE UNCHANGED vars
  <2>1. Used' = Used /\ CapButForGrowth'
    BY <1>00, <1>10, UsedIsTotal, CapStays DEF vars
  <2> QED BY <1>10, <2>1 DEF vars, Serial, Pending
<1> QED
  BY <1>1, <1>2, <1>3, <1>4, <1>5, <1>6, <1>7, <1>8, <1>9, <1>10 DEF Next


------------------------------------------------------------------------------
(* The store. *)

\* A step of the store is a step of the workspaces or leaves them alone.
LEMMA StoreStepsWorkspace == [StoreNext]_storeVars => [Next]_vars
<1> SUFFICES ASSUME [StoreNext]_storeVars PROVE [Next]_vars
  OBVIOUS
<1>1. ASSUME NEW u \in Uploads,
             \/ Lstat(u) \/ Open(u) \/ Copy(u) \/ EndOfSource(u) \/ Restat(u) \/ Preflight(u)
             \/ Publish(u) \/ Close(u) \/ Unlink(u) \/ Register(u) \/ ChangeSource(u) \/ Rot(u)
      PROVE  UNCHANGED vars
  BY <1>1 DEF Lstat, Open, Copy, EndOfSource, Restat, Preflight, Publish, Close, Unlink,
              Register, ChangeSource, Rot, Elsewhere
<1>2. ASSUME NEW c \in Calls,
             \/ Materialize(c) \/ CopyInput(c) \/ VerifyInput(c) \/ CleanupInput(c) \/ Workspace(c)
      PROVE  Next
  BY <1>2 DEF Materialize, CopyInput, VerifyInput, CleanupInput, Workspace, Next
<1>3. CASE StoreRestart
  BY <1>3 DEF StoreRestart, Next
<1>4. CASE UNCHANGED storeVars
  BY <1>4 DEF storeVars
<1> QED
  BY <1>1, <1>2, <1>3, <1>4 DEF StoreNext

LEMMA WholeFacts ==
    ASSUME NEW s, s.size \in Nat, s.version \in Byte
    PROVE  /\ Whole(s) \in Seq(Byte) /\ Len(Whole(s)) = s.size
           /\ \A t \in Seq(Byte) :
                 Len(t) = s.size /\ (\A i \in 1..Len(t) : t[i] = s.version) => t = Whole(s)
  BY DEF Whole

LEMMA StoreInitIInv == StoreInit => IInv
<1> SUFFICES ASSUME StoreInit PROVE IInv
  OBVIOUS
<1>1. TypeOK /\ Directories
  BY WorkspaceInit DEF StoreInit, WorkspaceInv
<1>2. <<>> \in Seq(Byte) /\ Len(<<>>) = 0 /\ 0 \in 0..StoreLimit /\ 0 \in 0..MaxRot /\ 0 \in 0..MaxChanges
  BY StoreAssumption
<1>3. source \in [Uploads -> Description]
  BY <1>2 DEF StoreInit, Description
<1>4. StoreTypeOK
  <2>1. \A c \in Calls : Len(input[c]) <= size[c] + MaxGrowth
    BY <1>2, WorkspaceAssumption DEF StoreInit, Init
  <2>2. meta \in [Uploads -> [sha256 : Seq(Byte), size : Nat]]
    BY <1>2 DEF StoreInit, NoMeta
  <2>3. \A u \in Uploads : Len(content[u]) <= MaxBytes + MaxGrowth
    BY <1>2, StoreAssumption, WorkspaceAssumption DEF StoreInit
  <2> QED BY <1>1, <1>2, <1>3, <2>1, <2>2, <2>3 DEF StoreInit, StoreTypeOK
<1>5. \A u \in Uploads : Intake(u) /\ Stored(u) /\ Accounted(u)
  <2>1. \A u \in Uploads : source[u].version = 0 /\ snapshot[u] = source[u]
    BY DEF StoreInit
  <2> QED BY <2>1 DEF StoreInit, Intake, Stored, Accounted
<1>6. \A c \in Calls : Input(c)
  BY DEF StoreInit, Init, Input
<1> QED
  BY <1>1, <1>4, <1>5, <1>6 DEF IInv

\* An intake step changes what belongs to its own upload, and no job has been
\* made for that one yet.
Untouched(v) == /\ place'[v] = place[v] /\ source'[v] = source[v] /\ snapshot'[v] = snapshot[v]
                /\ file'[v] = file[v] /\ content'[v] = content[v] /\ meta'[v] = meta[v]

Places == {"idle", "returned", "registered"} \cup UnderWay \cup Over

LEMMA IntakeStep ==
    ASSUME IInv, NEW u \in Uploads, place[u] \notin {"registered", "lost"}, Elsewhere,
           place' = place \/ place' \in [Uploads -> Places],
           source' = source \/ source' \in [Uploads -> Description],
           snapshot' = snapshot \/ snapshot' \in [Uploads -> Description],
           file' = file \/ file' \in [Uploads -> {"none", "partial", "stored"}],
           content' = content \/ (content' \in [Uploads -> Seq(Byte)] /\ Len(content'[u]) <= MaxBytes + MaxGrowth),
           meta' = meta \/ meta' \in [Uploads -> [sha256 : Seq(Byte), size : Nat]],
           \A v \in Uploads : v # u => Untouched(v),
           Intake(u)', Stored(u)', Accounted(u)'
    PROVE  IInv'
<1>1. UNCHANGED <<pc, size, todo, total, reserved, saved, present, bytes, stranded, restarts,
                  artifacts, reservedBytes, from, input, rot>>
  BY DEF Elsewhere, vars, local, disk, registry, jobs
<1>2. TypeOK' /\ Directories'
  BY <1>1 DEF IInv, StoreTypeOK, TypeOK, Directories
<1>3. StoreTypeOK'
  <2>1. /\ place' \in [Uploads -> Places]
        /\ source' \in [Uploads -> Description] /\ snapshot' \in [Uploads -> Description]
        /\ file' \in [Uploads -> {"none", "partial", "stored"}]
        /\ meta' \in [Uploads -> [sha256 : Seq(Byte), size : Nat]]
    BY DEF IInv, StoreTypeOK, Places
  <2>2. content' \in [Uploads -> Seq(Byte)] /\ \A v \in Uploads : Len(content'[v]) <= MaxBytes + MaxGrowth
    BY DEF IInv, StoreTypeOK, Untouched
  <2> QED BY <1>1, <1>2, <2>1, <2>2 DEF IInv, StoreTypeOK, Places
<1>4. ASSUME NEW v \in Uploads, v # u PROVE Intake(v)' /\ Stored(v)' /\ Accounted(v)'
  <2>1. Intake(v) /\ Stored(v) /\ Accounted(v) /\ Untouched(v) /\ artifacts' = artifacts
    BY <1>1, <1>4 DEF IInv
  <2>2. Intake(v)'
    BY <2>1 DEF Untouched, Intake
  <2>3. Stored(v)'
    BY <2>1 DEF Untouched, Stored, Published
  <2>4. Accounted(v)'
    BY <2>1 DEF Untouched, Accounted
  <2> QED BY <2>2, <2>3, <2>4
<1>5. \A c \in Calls : Input(c)'
  <2> SUFFICES ASSUME NEW c \in Calls PROVE Input(c)'
    OBVIOUS
  <2>1. pc[c] # "idle" => from[c] \in Uploads /\ from[c] # u
    BY DEF IInv, Input
  <2>2. Input(c)
    BY DEF IInv
  <2>3. pc[c] = "done" => pc[c] # "idle"
    OBVIOUS
  <2> QED BY <1>1, <2>1, <2>2, <2>3 DEF Input, Untouched, Published
<1> QED
  BY <1>2, <1>3, <1>4, <1>5 DEF IInv

\* The variables of the intakes are functions on the uploads.
LEMMA IntakeTypes ==
    ASSUME IInv, NEW u \in Uploads
    PROVE  /\ place \in [Uploads -> Places] /\ source \in [Uploads -> Description]
           /\ snapshot \in [Uploads -> Description]
           /\ file \in [Uploads -> {"none", "partial", "stored"}]
           /\ content \in [Uploads -> Seq(Byte)] /\ Len(content[u]) \in 0..(MaxBytes + MaxGrowth)
           /\ meta \in [Uploads -> [sha256 : Seq(Byte), size : Nat]]
           /\ source[u].version \in 0..MaxChanges /\ snapshot[u].version \in 0..MaxChanges
           /\ source[u].size \in Sizes /\ snapshot[u].size \in Sizes
           /\ Intake(u) /\ Stored(u) /\ Accounted(u)
  BY StoreAssumption, WorkspaceAssumption DEF IInv, StoreTypeOK, Places, Description

LEMMA LstatStep == ASSUME IInv, NEW u \in Uploads, Lstat(u) PROVE IInv'
<1> USE IntakeTypes DEF Put
<1>1. /\ place[u] = "idle" /\ Elsewhere
      /\ snapshot' = [snapshot EXCEPT ![u] = source[u]]
      /\ place' = [place EXCEPT ![u] = IF source[u].size \in 1..MaxBytes THEN "looked" ELSE "failed"]
      /\ UNCHANGED <<source, file, content, meta>>
  BY DEF Lstat
<1>2. /\ place' \in [Uploads -> Places] /\ snapshot' \in [Uploads -> Description]
      /\ \A v \in Uploads : v # u => Untouched(v)
  BY <1>1 DEF Untouched, Places, UnderWay, Over
<1>3. artifacts' = artifacts
  BY <1>1 DEF Elsewhere, registry
<1>4. /\ snapshot'[u] = source[u]
      /\ place'[u] = IF source[u].size \in 1..MaxBytes THEN "looked" ELSE "failed"
  BY <1>1
<1>5. source[u].size \in 1..MaxBytes => place'[u] \notin {"idle", "failed"}
  BY <1>4
<1>6. Intake(u)'
  BY <1>1, <1>4, <1>5 DEF Intake
<1>7. Stored(u)' /\ Accounted(u)'
  BY <1>1, <1>3, <1>4 DEF Intake, Stored, Accounted
<1> QED
  BY <1>1, <1>2, <1>6, <1>7, IntakeStep

LEMMA OpenStep == ASSUME IInv, NEW u \in Uploads, Open(u) PROVE IInv'
<1> USE IntakeTypes DEF Put
<1>1. /\ place[u] = "looked" /\ Elsewhere /\ artifacts' = artifacts
      /\ UNCHANGED <<source, snapshot, content, meta>>
  BY DEF Open, Elsewhere, registry
<1>2. CASE \E where \in {"failed", "undoing"} : place' = [place EXCEPT ![u] = where] /\ UNCHANGED file
  <2>1. /\ place' \in [Uploads -> Places] /\ place'[u] \in {"failed", "undoing"}
        /\ \A v \in Uploads : v # u => Untouched(v)
    BY <1>1, <1>2 DEF Untouched, Places, UnderWay, Over
  <2>2. Intake(u)' /\ Stored(u)' /\ Accounted(u)'
    BY <1>1, <1>2, <2>1 DEF Intake, Stored, Accounted
  <2> QED BY <1>1, <1>2, <2>1, <2>2, IntakeStep
<1>3. CASE /\ source[u] = snapshot[u]
           /\ place' = [place EXCEPT ![u] = "copying"]
           /\ file' = [file EXCEPT ![u] = "partial"]
  <2>1. /\ place' \in [Uploads -> Places] /\ place'[u] = "copying"
        /\ file' \in [Uploads -> {"none", "partial", "stored"}] /\ file'[u] = "partial"
        /\ \A v \in Uploads : v # u => Untouched(v)
    BY <1>1, <1>3 DEF Untouched, Places, UnderWay, Over
  <2>2. Len(content[u]) = 0 /\ \A i \in 1..0 : FALSE
    BY <1>1 DEF Intake
  <2>3. Intake(u)' /\ Stored(u)' /\ Accounted(u)'
    BY <1>1, <1>3, <2>1, <2>2 DEF Intake, Stored, Accounted, UnderWay
  <2> QED BY <1>1, <1>3, <2>1, <2>3, IntakeStep
<1> QED
  BY <1>1, <1>2, <1>3 DEF Open

LEMMA CopyStep == ASSUME IInv, NEW u \in Uploads, Copy(u) PROVE IInv'
<1> USE IntakeTypes DEF Put
<1>1. /\ place[u] = "copying" /\ Elsewhere /\ artifacts' = artifacts
      /\ UNCHANGED <<source, snapshot, file, meta>>
  BY DEF Copy, Elsewhere, registry
<1>2. CASE place' = [place EXCEPT ![u] = "undoing"] /\ UNCHANGED content
  <2>1. /\ place' \in [Uploads -> Places] /\ place'[u] = "undoing"
        /\ \A v \in Uploads : v # u => Untouched(v)
    BY <1>1, <1>2 DEF Untouched, Places, UnderWay, Over
  <2>2. Intake(u)' /\ Stored(u)' /\ Accounted(u)'
    BY <1>1, <1>2, <2>1 DEF Intake, Stored, Accounted, UnderWay
  <2> QED BY <1>1, <1>2, <2>1, <2>2, IntakeStep
<1>3. CASE /\ Len(content[u]) < MaxBytes
           /\ content' = [content EXCEPT ![u] = Append(content[u], source[u].version)]
           /\ UNCHANGED place
  <2>1. content[u] \in Seq(Byte) /\ source[u].version \in Byte
    BY StoreAssumption DEF Byte, Rotten
  <2>2. /\ Append(content[u], source[u].version) \in Seq(Byte)
        /\ Len(Append(content[u], source[u].version)) = Len(content[u]) + 1
        /\ \A i \in 1..Len(content[u]) : Append(content[u], source[u].version)[i] = content[u][i]
        /\ Append(content[u], source[u].version)[Len(content[u]) + 1] = source[u].version
    BY <2>1
  <2>3. /\ content' \in [Uploads -> Seq(Byte)]
        /\ content'[u] = Append(content[u], source[u].version)
        /\ \A v \in Uploads : v # u => Untouched(v)
    BY <1>1, <1>3, <2>2 DEF Untouched
  <2>4. Len(content'[u]) <= MaxBytes + MaxGrowth
    BY <1>3, <2>2, <2>3, StoreAssumption, WorkspaceAssumption
  <2>5. source[u] = snapshot[u] => \A i \in 1..Len(content'[u]) : content'[u][i] = snapshot[u].version
    <3> SUFFICES ASSUME source[u] = snapshot[u], NEW i \in 1..Len(content'[u])
                 PROVE  content'[u][i] = snapshot[u].version
      OBVIOUS
    <3>1. i \in 1..Len(content[u]) \/ i = Len(content[u]) + 1
      BY <2>2, <2>3
    <3>2. \A k \in 1..Len(content[u]) : content[u][k] = snapshot[u].version
      BY <1>1 DEF Intake
    <3> QED BY <2>2, <2>3, <3>1, <3>2
  <2>6. Intake(u)' /\ Stored(u)' /\ Accounted(u)'
    BY <1>1, <1>3, <2>5 DEF Intake, Stored, Accounted, UnderWay
  <2> QED BY <1>1, <1>3, <2>3, <2>4, <2>6, IntakeStep
<1> QED
  BY <1>1, <1>2, <1>3 DEF Copy

LEMMA EndOfSourceStep == ASSUME IInv, NEW u \in Uploads, EndOfSource(u) PROVE IInv'
<1> USE IntakeTypes DEF Put
<1>1. /\ place[u] = "copying" /\ Elsewhere /\ artifacts' = artifacts
      /\ UNCHANGED <<source, snapshot, file, content, meta>>
  BY DEF EndOfSource, Elsewhere, registry
<1>2. ASSUME NEW where \in {"copied", "undoing"}, place' = [place EXCEPT ![u] = where],
             where = "copied" => Len(content[u]) = snapshot[u].size
      PROVE  IInv'
  <2>1. /\ place' \in [Uploads -> Places] /\ place'[u] = where
        /\ \A v \in Uploads : v # u => Untouched(v)
    BY <1>1, <1>2 DEF Untouched, Places, UnderWay, Over
  <2>2. Intake(u)' /\ Stored(u)' /\ Accounted(u)'
    BY <1>1, <1>2, <2>1 DEF Intake, Stored, Accounted, UnderWay
  <2> QED BY <1>1, <2>1, <2>2, IntakeStep
<1> QED
  BY <1>2 DEF EndOfSource

LEMMA RestatStep == ASSUME IInv, NEW u \in Uploads, Restat(u) PROVE IInv'
<1> USE IntakeTypes DEF Put
<1>1. /\ place[u] = "copied" /\ Elsewhere /\ artifacts' = artifacts
      /\ UNCHANGED <<source, snapshot, file, content, meta>>
  BY DEF Restat, Elsewhere, registry
<1>2. ASSUME NEW where \in {"compared", "undoing"}, place' = [place EXCEPT ![u] = where],
             where = "compared" => content[u] = Whole(snapshot[u])
      PROVE  IInv'
  <2>1. /\ place' \in [Uploads -> Places] /\ place'[u] = where
        /\ \A v \in Uploads : v # u => Untouched(v)
    BY <1>1, <1>2 DEF Untouched, Places, UnderWay, Over
  <2>2. Intake(u)' /\ Stored(u)' /\ Accounted(u)'
    BY <1>1, <1>2, <2>1 DEF Intake, Stored, Accounted, UnderWay
  <2> QED BY <1>1, <2>1, <2>2, IntakeStep
<1>3. source[u] = snapshot[u] => content[u] = Whole(snapshot[u])
  <2>1. snapshot[u].size \in Nat /\ snapshot[u].version \in Byte
    <3>1. snapshot[u].version \in 0..MaxChanges /\ snapshot[u].size \in Sizes /\ Sizes \subseteq Nat
      BY IntakeTypes, WorkspaceAssumption
    <3>2. snapshot[u].version \in Byte
      BY <3>1, StoreAssumption DEF Byte, Rotten
    <3> QED BY ONLY <3>1, <3>2
  <2>2. source[u] = snapshot[u] => /\ Len(content[u]) = snapshot[u].size
                                   /\ \A i \in 1..Len(content[u]) : content[u][i] = snapshot[u].version
    BY <1>1 DEF Intake
  <2> QED BY <2>1, <2>2, WholeFacts
<1> QED
  BY <1>2, <1>3 DEF Restat

LEMMA PreflightStep == ASSUME IInv, NEW u \in Uploads, Preflight(u) PROVE IInv'
<1> USE IntakeTypes DEF Put
<1>1. /\ place[u] = "compared" /\ Elsewhere /\ artifacts' = artifacts
      /\ UNCHANGED <<source, snapshot, file, content, meta>>
  BY DEF Preflight, Elsewhere, registry
<1>2. ASSUME NEW where \in {"accepted", "undoing"}, place' = [place EXCEPT ![u] = where],
             where = "accepted" => content[u] = Whole(snapshot[u])
      PROVE  IInv'
  <2>1. /\ place' \in [Uploads -> Places] /\ place'[u] = where
        /\ \A v \in Uploads : v # u => Untouched(v)
    BY <1>1, <1>2 DEF Untouched, Places, UnderWay, Over
  <2>2. Intake(u)' /\ Stored(u)' /\ Accounted(u)'
    BY <1>1, <1>2, <2>1 DEF Intake, Stored, Accounted, UnderWay
  <2> QED BY <1>1, <2>1, <2>2, IntakeStep
<1>3. content[u] = Whole(snapshot[u])
  BY <1>1 DEF Intake
<1> QED
  BY <1>2, <1>3 DEF Preflight

LEMMA PublishStep == ASSUME IInv, NEW u \in Uploads, Publish(u) PROVE IInv'
<1> USE IntakeTypes DEF Put
<1>1. /\ place[u] = "accepted" /\ Elsewhere /\ artifacts' = artifacts
      /\ UNCHANGED <<source, snapshot, content>>
  BY DEF Publish, Elsewhere, registry
<1>2. CASE place' = [place EXCEPT ![u] = "undoing"] /\ UNCHANGED <<file, meta>>
  <2>1. /\ place' \in [Uploads -> Places] /\ place'[u] = "undoing"
        /\ \A v \in Uploads : v # u => Untouched(v)
    BY <1>1, <1>2 DEF Untouched, Places, UnderWay, Over
  <2>2. Intake(u)' /\ Stored(u)' /\ Accounted(u)'
    BY <1>1, <1>2, <2>1 DEF Intake, Stored, Accounted, UnderWay
  <2> QED BY <1>1, <1>2, <2>1, <2>2, IntakeStep
<1>3. CASE /\ place' = [place EXCEPT ![u] = "closing"]
           /\ file' = [file EXCEPT ![u] = "stored"]
           /\ meta' = [meta EXCEPT ![u] = [sha256 |-> content[u], size |-> snapshot[u].size]]
  <2>1. [sha256 |-> content[u], size |-> snapshot[u].size] \in [sha256 : Seq(Byte), size : Nat]
    BY WorkspaceAssumption
  <2>2. /\ place' \in [Uploads -> Places] /\ place'[u] = "closing"
        /\ file' \in [Uploads -> {"none", "partial", "stored"}] /\ file'[u] = "stored"
        /\ meta' \in [Uploads -> [sha256 : Seq(Byte), size : Nat]]
        /\ meta'[u] = [sha256 |-> content[u], size |-> snapshot[u].size]
        /\ \A v \in Uploads : v # u => Untouched(v)
    BY <1>1, <1>3, <2>1 DEF Untouched, Places, UnderWay, Over
  <2>3. content[u] = Whole(snapshot[u])
    BY <1>1 DEF Intake
  <2>4. Intake(u)' /\ Stored(u)' /\ Accounted(u)'
    BY <1>1, <1>3, <2>2, <2>3 DEF Intake, Stored, Published, Accounted, UnderWay
  <2> QED BY <1>1, <1>3, <2>2, <2>4, IntakeStep
<1> QED
  BY <1>1, <1>2, <1>3 DEF Publish

LEMMA CloseStep == ASSUME IInv, NEW u \in Uploads, Close(u) PROVE IInv'
<1> USE IntakeTypes DEF Put
<1>1. /\ place[u] = "closing" /\ Elsewhere /\ artifacts' = artifacts
      /\ UNCHANGED <<source, snapshot, file, content, meta>>
  BY DEF Close, Elsewhere, registry
<1>2. ASSUME NEW where \in {"returned", "leftover"}, place' = [place EXCEPT ![u] = where]
      PROVE  IInv'
  <2>1. /\ place' \in [Uploads -> Places] /\ place'[u] = where
        /\ \A v \in Uploads : v # u => Untouched(v)
    BY <1>1, <1>2 DEF Untouched, Places, UnderWay, Over
  <2>2. Intake(u)' /\ Stored(u)' /\ Accounted(u)'
    BY <1>1, <1>2, <2>1 DEF Intake, Stored, Published, Accounted, UnderWay
  <2> QED BY <1>1, <2>1, <2>2, IntakeStep
<1> QED
  BY <1>2 DEF Close

LEMMA UnlinkStep == ASSUME IInv, NEW u \in Uploads, Unlink(u) PROVE IInv'
<1> USE IntakeTypes DEF Put
<1>1. /\ place[u] = "undoing" /\ Elsewhere /\ artifacts' = artifacts
      /\ UNCHANGED <<source, snapshot, meta>>
  BY DEF Unlink, Elsewhere, registry
<1>2. CASE /\ place' = [place EXCEPT ![u] = "failed"]
           /\ file' = [file EXCEPT ![u] = "none"]
           /\ content' = [content EXCEPT ![u] = <<>>]
  <2>1. <<>> \in Seq(Byte) /\ Len(<<>>) = 0
    OBVIOUS
  <2>2. /\ place' \in [Uploads -> Places] /\ place'[u] = "failed"
        /\ file' \in [Uploads -> {"none", "partial", "stored"}] /\ file'[u] = "none"
        /\ content' \in [Uploads -> Seq(Byte)] /\ content'[u] = <<>>
        /\ \A v \in Uploads : v # u => Untouched(v)
    BY <1>1, <1>2, <2>1 DEF Untouched, Places, UnderWay, Over
  <2>3. Intake(u)' /\ Stored(u)' /\ Accounted(u)'
    BY <1>1, <2>2 DEF Intake, Stored, Accounted
  <2>4. Len(content'[u]) <= MaxBytes + MaxGrowth
    BY <2>1, <2>2, StoreAssumption, WorkspaceAssumption
  <2> QED BY <1>1, <2>2, <2>3, <2>4, IntakeStep
<1>3. CASE place' = [place EXCEPT ![u] = "leftover"] /\ UNCHANGED <<file, content>>
  <2>1. /\ place' \in [Uploads -> Places] /\ place'[u] = "leftover"
        /\ \A v \in Uploads : v # u => Untouched(v)
    BY <1>1, <1>3 DEF Untouched, Places, UnderWay, Over
  <2>2. Intake(u)' /\ Stored(u)' /\ Accounted(u)'
    BY <1>1, <1>3, <2>1 DEF Intake, Stored, Accounted
  <2> QED BY <1>1, <1>3, <2>1, <2>2, IntakeStep
<1> QED
  BY <1>1, <1>2, <1>3 DEF Unlink

LEMMA ChangeSourceStep == ASSUME IInv, NEW u \in Uploads, ChangeSource(u) PROVE IInv'
<1> USE IntakeTypes DEF Put
<1>1. /\ place[u] \in {"looked", "copying", "copied"} /\ Elsewhere /\ artifacts' = artifacts
      /\ source[u].version < MaxChanges
      /\ UNCHANGED <<place, snapshot, file, content, meta>>
  BY DEF ChangeSource, Elsewhere, registry
<1>2. PICK s \in Sizes : source' = [source EXCEPT ![u] = [version |-> source[u].version + 1, size |-> s]]
  BY DEF ChangeSource
<1>3. [version |-> source[u].version + 1, size |-> s] \in Description
  BY <1>1, StoreAssumption DEF Description
<1>4. /\ source' \in [Uploads -> Description]
      /\ source'[u] = [version |-> source[u].version + 1, size |-> s]
      /\ \A v \in Uploads : v # u => Untouched(v)
  BY <1>1, <1>2, <1>3 DEF Untouched
<1>5. snapshot[u].version < source'[u].version
  <2>1. source[u].version \in 0..MaxChanges /\ snapshot[u].version \in 0..MaxChanges
    BY IntakeTypes
  <2>2. snapshot[u].version <= source[u].version
    BY DEF Intake
  <2> QED BY <1>4, <2>1, <2>2
<1>6. /\ source'[u].version # snapshot'[u].version /\ source'[u] # snapshot'[u]
      /\ snapshot'[u].version <= source'[u].version
  <2>1. source[u].version \in 0..MaxChanges /\ snapshot[u].version \in 0..MaxChanges
    BY IntakeTypes
  <2> QED BY <1>1, <1>4, <1>5, <2>1
<1>7. Intake(u)'
  BY <1>1, <1>6 DEF Intake
<1>8. Stored(u)' /\ Accounted(u)'
  BY <1>1 DEF Stored, Accounted, Published, UnderWay
<1> QED
  BY <1>1, <1>4, <1>7, <1>8, IntakeStep

LEMMA RegisterStep == ASSUME IInv, NEW u \in Uploads, Register(u) PROVE IInv'
<1> USE DEF Put
<1>1. /\ place[u] \in {"returned", "registered"}
      /\ UNCHANGED <<source, snapshot, file, content, meta, from, input, rot>>
      /\ UNCHANGED <<pc, size, todo, total, reserved, saved, present, bytes, stranded, restarts>>
  BY DEF Register, jobs, vars, local, disk
<1>2. TypeOK' /\ Directories'
  BY <1>1 DEF IInv, StoreTypeOK, TypeOK, Directories
<1>3. /\ place \in [Uploads -> Places] /\ artifacts \subseteq Uploads
      /\ reservedBytes \in 0..StoreLimit /\ meta[u].size \in Nat /\ StoreLimit \in Nat
      /\ \A v \in Uploads : Intake(v) /\ Stored(v) /\ Accounted(v)
  BY StoreAssumption DEF IInv, StoreTypeOK, Places
<1>4. /\ place' \in [Uploads -> Places]
      /\ artifacts' \subseteq Uploads /\ reservedBytes' \in 0..StoreLimit
      /\ \A v \in Uploads : v # u => place'[v] = place[v] /\ (v \in artifacts' <=> v \in artifacts)
      /\ place[u] = "registered" => place'[u] = "registered"
      /\ place'[u] \in {"registered", "refused"}
      /\ u \in artifacts' <=> place'[u] = "registered"
  <2>1. CASE u \in artifacts
    <3>1. place' = [place EXCEPT ![u] = "registered"] /\ UNCHANGED <<artifacts, reservedBytes>>
      BY <2>1 DEF Register, registry
    <3> QED BY <2>1, <3>1, <1>3 DEF Places
  <2>2. CASE u \notin artifacts /\ meta[u].size > StoreLimit - reservedBytes
    <3>1. place' = [place EXCEPT ![u] = "refused"] /\ UNCHANGED <<artifacts, reservedBytes>>
      BY <2>2 DEF Register, registry
    <3> QED BY <2>2, <3>1, <1>3 DEF Places, Over, Stored
  <2>3. CASE u \notin artifacts /\ ~(meta[u].size > StoreLimit - reservedBytes)
    <3>1. /\ place' = [place EXCEPT ![u] = "registered"]
          /\ artifacts' = artifacts \cup {u} /\ reservedBytes' = reservedBytes + meta[u].size
      BY <2>3 DEF Register
    <3>2. reservedBytes' \in 0..StoreLimit
      BY <1>3, <2>3, <3>1
    <3> QED BY <3>1, <3>2, <1>3 DEF Places
  <2> QED BY <2>1, <2>2, <2>3
<1>5. StoreTypeOK'
  BY <1>1, <1>2, <1>4 DEF IInv, StoreTypeOK, Places
<1>6. ASSUME NEW v \in Uploads PROVE Intake(v)' /\ Stored(v)' /\ Accounted(v)'
  <2>0. Intake(v) /\ Stored(v) /\ Accounted(v) /\ (v = u \/ v # u)
    BY <1>3
  <2>1. Intake(v)'
    BY <1>1, <1>4, <2>0 DEF Intake
  <2>2. Stored(v)'
    BY <1>1, <1>4, <2>0 DEF Stored, Published
  <2>3. Accounted(v)'
    BY <1>1, <1>4, <2>0 DEF Accounted, UnderWay
  <2> QED BY <2>1, <2>2, <2>3
<1>7. ASSUME NEW c \in Calls PROVE Input(c)'
  <2>1. Input(c)
    BY DEF IInv
  <2>2. \A v \in Uploads : place[v] \in {"registered", "lost"} => place'[v] = place[v]
    BY <1>1, <1>4
  <2> QED BY <1>1, <2>1, <2>2 DEF Input, Published
<1> QED
  BY <1>2, <1>5, <1>6, <1>7 DEF IInv

LEMMA RotStep == ASSUME IInv, NEW u \in Uploads, Rot(u) PROVE IInv'
<1>1. /\ file[u] = "stored" /\ rot < MaxRot /\ rot' = rot + 1
      /\ UNCHANGED <<place, source, snapshot, meta, artifacts, reservedBytes, from, input>>
      /\ UNCHANGED <<pc, size, todo, total, reserved, saved, present, bytes, stranded, restarts>>
  BY DEF Rot, registry, jobs, vars, local, disk
<1>2. TypeOK' /\ Directories'
  BY <1>1 DEF IInv, StoreTypeOK, TypeOK, Directories
<1>3. /\ content \in [Uploads -> Seq(Byte)] /\ Len(content[u]) \in 1..(MaxBytes + MaxGrowth)
      /\ file \in [Uploads -> {"none", "partial", "stored"}]
      /\ meta[u].size \in 1..MaxBytes /\ Rotten \in Byte
      /\ MaxBytes \in Nat /\ MaxGrowth \in Nat
      /\ \A v \in Uploads : Intake(v) /\ Stored(v) /\ Accounted(v)
  <2>1. /\ content[u] \in Seq(Byte) /\ Len(content[u]) \in 0..(MaxBytes + MaxGrowth)
        /\ content \in [Uploads -> Seq(Byte)]
        /\ file \in [Uploads -> {"none", "partial", "stored"}]
        /\ \A v \in Uploads : Intake(v) /\ Stored(v) /\ Accounted(v)
    BY IntakeTypes
  <2>2. snapshot[u].size \in 1..MaxBytes /\ meta[u].size = snapshot[u].size
    <3>1. Published(u) /\ place[u] \notin {"idle", "failed"}
      BY <1>1, <2>1 DEF Stored
    <3>2. snapshot[u].size \in 1..MaxBytes
      BY <2>1, <3>1 DEF Intake
    <3> QED BY <3>1, <3>2 DEF Published
  <2>3. MaxBytes \in Nat /\ MaxGrowth \in Nat /\ Rotten \in Byte
    BY StoreAssumption, WorkspaceAssumption DEF Byte, Rotten
  <2>4. Len(content[u]) # 0
    <3>1. CASE content[u] = Whole(snapshot[u])
      BY <2>1, <2>2, <3>1 DEF Whole
    <3>2. CASE \E i \in DOMAIN content[u] : content[u][i] = Rotten
      BY <2>1, <3>2
    <3> QED BY <1>1, <2>1, <3>1, <3>2 DEF Stored
  <2> QED BY <2>1, <2>2, <2>3, <2>4
<1>4. /\ file' \in [Uploads -> {"none", "partial", "stored"}]
      /\ content' \in [Uploads -> Seq(Byte)] /\ Len(content'[u]) <= MaxBytes + MaxGrowth
      /\ \A v \in Uploads : v # u => file'[v] = file[v] /\ content'[v] = content[v]
      /\ file'[u] \in {"none", "stored"}
      /\ file'[u] = "stored" => \E i \in DOMAIN content'[u] : content'[u][i] = Rotten
  <2>1. CASE file' = [file EXCEPT ![u] = "none"] /\ content' = [content EXCEPT ![u] = <<>>]
    <3>1. <<>> \in Seq(Byte) /\ Len(<<>>) = 0
      OBVIOUS
    <3>2. content' \in [Uploads -> Seq(Byte)] /\ content'[u] = <<>>
      BY <1>3, <2>1, <3>1
    <3> QED BY <1>3, <2>1, <3>1, <3>2
  <2>2. CASE content' = [content EXCEPT ![u] = [i \in DOMAIN content[u] |-> Rotten]] /\ file' = file
    <3>1. DOMAIN content[u] = 1..Len(content[u]) /\ 1 \in DOMAIN content[u]
      BY <1>3
    <3>2. /\ [i \in DOMAIN content[u] |-> Rotten] \in Seq(Byte)
          /\ Len([i \in DOMAIN content[u] |-> Rotten]) = Len(content[u])
      BY <1>3, <3>1
    <3>3. content'[u] = [i \in DOMAIN content[u] |-> Rotten]
      BY <1>3, <2>2
    <3>4. 1 \in DOMAIN content'[u] /\ content'[u][1] = Rotten
      BY <3>1, <3>3
    <3>5. content' \in [Uploads -> Seq(Byte)]
      BY <1>3, <2>2, <3>2
    <3>6. Len(content'[u]) <= MaxBytes + MaxGrowth
      BY <1>3, <3>2, <3>3
    <3>7. /\ file' \in [Uploads -> {"none", "partial", "stored"}] /\ file'[u] = "stored"
          /\ \A v \in Uploads : v # u => file'[v] = file[v] /\ content'[v] = content[v]
      BY <1>1, <1>3, <2>2
    <3> QED BY ONLY <3>4, <3>5, <3>6, <3>7
  <2>3. CASE /\ Len(content[u]) < meta[u].size + MaxGrowth
             /\ content' = [content EXCEPT ![u] = Append(content[u], Rotten)]
             /\ file' = file
    <3>1. content[u] \in Seq(Byte)
      BY <1>3
    <3>2. /\ Append(content[u], Rotten) \in Seq(Byte)
          /\ Len(Append(content[u], Rotten)) = Len(content[u]) + 1
          /\ Append(content[u], Rotten)[Len(content[u]) + 1] = Rotten
          /\ Len(content[u]) + 1 \in DOMAIN Append(content[u], Rotten)
      BY <1>3, <3>1
    <3>3. content'[u] = Append(content[u], Rotten)
      BY <1>3, <2>3
    <3>4. Len(content'[u]) <= MaxBytes + MaxGrowth
      BY <1>3, <2>3, <3>2, <3>3
    <3>5. \E i \in DOMAIN content'[u] : content'[u][i] = Rotten
      BY <3>2, <3>3
    <3>6. /\ file' \in [Uploads -> {"none", "partial", "stored"}] /\ file'[u] = "stored"
          /\ \A v \in Uploads : v # u => file'[v] = file[v] /\ content'[v] = content[v]
      BY <1>1, <1>3, <2>3
    <3>7. content' \in [Uploads -> Seq(Byte)]
      BY <1>3, <2>3, <3>2
    <3> QED BY ONLY <3>4, <3>5, <3>6, <3>7
  <2> QED BY <2>1, <2>2, <2>3 DEF Rot
<1>5. StoreTypeOK'
  <2>1. rot' \in 0..MaxRot
    BY <1>1, StoreAssumption DEF IInv, StoreTypeOK
  <2>2. \A v \in Uploads : Len(content'[v]) <= MaxBytes + MaxGrowth
    BY <1>4 DEF IInv, StoreTypeOK
  <2> QED BY <1>1, <1>2, <1>4, <2>1, <2>2 DEF IInv, StoreTypeOK
<1>6. ASSUME NEW v \in Uploads PROVE Intake(v)' /\ Stored(v)' /\ Accounted(v)'
  <2>1. Intake(v) /\ Stored(v) /\ Accounted(v)
    BY <1>3
  <2>2. CASE v = u
    <3>1. Intake(u)'
      BY <1>1, <2>1, <2>2 DEF Intake, Stored
    <3>2. Stored(u)'
      BY <1>1, <1>4, <2>1, <2>2 DEF Stored, Published
    <3>3. Accounted(u)'
      BY <1>1, <1>4, <2>1, <2>2 DEF Accounted
    <3> QED BY <2>2, <3>1, <3>2, <3>3
  <2>3. CASE v # u
    BY <1>1, <1>4, <2>1, <2>3 DEF Intake, Stored, Published, Accounted
  <2> QED BY <2>2, <2>3
<1>7. \A c \in Calls : Input(c)'
  BY <1>1 DEF IInv, Input, Published
<1> QED
  BY <1>2, <1>5, <1>6, <1>7 DEF IInv

\* A step of one job leaves the store and the other jobs alone.
LEMMA JobStep ==
    ASSUME IInv, NEW c \in Calls, [Next]_vars,
           UNCHANGED <<intake, registry, rot>>,
           from' \in [Calls -> Uploads \cup {NoHandle}],
           input' \in [Calls -> Seq(Byte)], Len(input'[c]) <= size'[c] + MaxGrowth,
           \A d \in Calls : d # c => /\ pc'[d] = pc[d] /\ size'[d] = size[d] /\ bytes'[d] = bytes[d]
                                     /\ from'[d] = from[d] /\ input'[d] = input[d],
           Input(c)'
    PROVE  IInv'
<1>1. UNCHANGED <<place, source, snapshot, file, content, meta, artifacts, reservedBytes, rot>>
  BY DEF intake, registry
<1>2. TypeOK' /\ Directories'
  BY WorkspaceStep DEF IInv, StoreTypeOK, WorkspaceInv
<1>3. StoreTypeOK'
  <2>1. \A d \in Calls : Len(input'[d]) <= size'[d] + MaxGrowth
    BY DEF IInv, StoreTypeOK
  <2> QED BY <1>1, <1>2, <2>1 DEF IInv, StoreTypeOK
<1>4. \A u \in Uploads : Intake(u)' /\ Stored(u)' /\ Accounted(u)'
  BY <1>1 DEF IInv, Intake, Stored, Published, Accounted
<1>5. ASSUME NEW d \in Calls PROVE Input(d)'
  <2>1. Input(d)
    BY DEF IInv
  <2>2. CASE d = c
    BY <2>2
  <2>3. CASE d # c
    BY <1>1, <2>1, <2>3 DEF Input, Published
  <2> QED BY <2>2, <2>3
<1> QED
  BY <1>2, <1>3, <1>4, <1>5 DEF IInv

\* The variables of the jobs are functions on the calls.
LEMMA JobTypes ==
    ASSUME IInv, NEW c \in Calls
    PROVE  /\ pc \in [Calls -> {"idle"} \cup Flying \cup Ended]
           /\ size \in [Calls -> Sizes \cup {0}] /\ size[c] \in Nat
           /\ bytes \in [Calls -> Nat] /\ bytes[c] <= size[c] + MaxGrowth
           /\ from \in [Calls -> Uploads \cup {NoHandle}]
           /\ input \in [Calls -> Seq(Byte)] /\ Len(input[c]) \in Nat /\ Len(input[c]) <= size[c] + MaxGrowth
           /\ Input(c) /\ (pc[c] = "checking" => bytes[c] = 0)
<1>1. /\ pc \in [Calls -> {"idle"} \cup Flying \cup Ended]
      /\ size \in [Calls -> Sizes \cup {0}]
      /\ bytes \in [Calls -> Nat] /\ bytes[c] <= size[c] + MaxGrowth
      /\ from \in [Calls -> Uploads \cup {NoHandle}]
      /\ input \in [Calls -> Seq(Byte)] /\ Len(input[c]) <= size[c] + MaxGrowth
      /\ Input(c) /\ (pc[c] = "checking" => bytes[c] = 0)
  BY DEF IInv, StoreTypeOK, TypeOK, Directories
<1>2. \A n \in Sizes \cup {0} : n \in Nat
  BY WorkspaceAssumption
<1>3. size[c] \in Sizes \cup {0}
  BY <1>1
<1>4. size[c] \in Nat
  BY ONLY <1>2, <1>3
<1>5. Len(input[c]) \in Nat
  BY <1>1
<1> QED
  BY <1>1, <1>4, <1>5

LEMMA MaterializeStep == ASSUME IInv, NEW c \in Calls, Materialize(c) PROVE IInv'
<1> USE JobTypes
<1>1. PICK u \in artifacts : /\ from' = [from EXCEPT ![c] = u] /\ size'[c] = meta[u].size
  BY DEF Materialize
<1>2. /\ Begin(c) /\ UNCHANGED <<input, intake, registry, rot>>
  BY DEF Materialize
<1>3. /\ pc[c] = "idle" /\ pc'[c] \in {"failed", "listing"}
      /\ \A d \in Calls : d # c => /\ pc'[d] = pc[d] /\ size'[d] = size[d] /\ bytes'[d] = bytes[d]
  BY <1>2 DEF Begin, Goto, disk
<1>4. u \in Uploads /\ place[u] = "registered" /\ Published(u)
  BY <1>1 DEF IInv, StoreTypeOK, Stored
<1>5. size'[c] = snapshot[u].size
  BY <1>1, <1>4 DEF Published
<1>6. UNCHANGED <<place, snapshot, meta, input>>
  BY <1>2 DEF intake
<1>7. from'[c] = u /\ from' \in [Calls -> Uploads \cup {NoHandle}]
  BY <1>1, <1>4
<1>8. input'[c] = <<>> /\ Len(<<>>) = 0
  BY <1>3, <1>6 DEF Input
<1>9. Input(c)'
  BY <1>3, <1>4, <1>5, <1>6, <1>7, <1>8 DEF Input, Published
<1>10. Len(input'[c]) <= size'[c] + MaxGrowth
  <2>1. snapshot[u].size \in Sizes /\ Sizes \subseteq Nat
    BY <1>4, IntakeTypes, WorkspaceAssumption
  <2>2. snapshot[u].size \in Nat
    BY ONLY <2>1
  <2> QED BY <1>5, <1>8, <2>2, WorkspaceAssumption
<1>11. [Next]_vars /\ \A d \in Calls : d # c => from'[d] = from[d]
  BY <1>1, <1>2 DEF Next
<1> QED
  BY <1>2, <1>3, <1>6, <1>7, <1>9, <1>10, <1>11, JobStep

LEMMA CopyInputStep == ASSUME IInv, NEW c \in Calls, CopyInput(c) PROVE IInv'
<1> USE JobTypes
<1>1. /\ pc[c] = "copying" /\ bytes[c] < size[c] + MaxGrowth
      /\ bytes' = [bytes EXCEPT ![c] = bytes[c] + 1]
      /\ UNCHANGED <<pc, size>> /\ [Next]_vars
      /\ bytes[c] < Len(content[from[c]])
      /\ input' = [input EXCEPT ![c] = Append(input[c], content[from[c]][bytes'[c]])]
      /\ UNCHANGED <<intake, registry, from, rot>>
  BY DEF CopyInput, CopyByte, Rest, local, Next
<1>2. UNCHANGED <<place, snapshot, meta>>
  BY <1>1 DEF intake
<1>3. from[c] \in Uploads /\ Published(from[c]) /\ size[c] = snapshot[from[c]].size /\ Len(input[c]) = bytes[c]
  BY <1>1 DEF Input
<1>4. content[from[c]] \in Seq(Byte)
  BY <1>3 DEF IInv, StoreTypeOK
<1>5. DOMAIN content[from[c]] = 1..Len(content[from[c]]) /\ Len(content[from[c]]) \in Nat
  BY <1>4
<1>6. /\ bytes'[c] = bytes[c] + 1 /\ bytes'[c] \in Nat /\ bytes'[c] <= size[c] + MaxGrowth
      /\ bytes'[c] \in 1..Len(content[from[c]])
  BY <1>1, <1>5, WorkspaceAssumption
<1>7. content[from[c]][bytes'[c]] \in Byte
  BY <1>4, <1>5, <1>6
<1>8. /\ Append(input[c], content[from[c]][bytes'[c]]) \in Seq(Byte)
      /\ Len(Append(input[c], content[from[c]][bytes'[c]])) = Len(input[c]) + 1
  BY <1>7
<1>9. /\ input' \in [Calls -> Seq(Byte)] /\ Len(input'[c]) = bytes'[c]
      /\ \A d \in Calls : d # c => input'[d] = input[d] /\ bytes'[d] = bytes[d]
  BY <1>1, <1>3, <1>6, <1>8
<1>10. Input(c)'
  BY <1>1, <1>2, <1>9 DEF Input, Published
<1>11. Len(input'[c]) <= size'[c] + MaxGrowth
  BY <1>1, <1>6, <1>9
<1> QED
  BY <1>1, <1>9, <1>10, <1>11, JobStep

\* The steps that change where a call is and nothing of its input.
LEMMA MoveStep ==
    ASSUME IInv, NEW c \in Calls, [Next]_vars, UNCHANGED input, Rest, UNCHANGED size,
           \A d \in Calls : d # c => pc'[d] = pc[d] /\ bytes'[d] = bytes[d],
           pc[c] # "idle", pc'[c] # "idle",
           pc'[c] \in {"listing", "scanning", "making", "checking"} =>
               pc[c] \in {"listing", "scanning", "making", "checking"},
           pc'[c] = "copying" => pc[c] = "checking" /\ bytes'[c] = bytes[c],
           pc'[c] = "done" => input[c] = meta[from[c]].sha256
    PROVE  IInv'
<1> USE JobTypes
<1>1. UNCHANGED <<place, snapshot, meta, from, input, size>> /\ UNCHANGED <<intake, registry, rot>>
  BY DEF Rest, intake
<1>2. /\ from[c] \in Uploads /\ place[from[c]] \in {"registered", "lost"}
      /\ Published(from[c]) /\ size[c] = snapshot[from[c]].size
  BY DEF Input
<1>3. pc'[c] = "done" => input[c] = Whole(snapshot[from[c]])
  BY <1>2 DEF Published
<1>4. pc'[c] \in {"listing", "scanning", "making", "checking"} => input[c] = <<>>
  BY DEF Input
<1>5. pc'[c] = "copying" => Len(input[c]) = bytes'[c]
  <2>1. Len(<<>>) = 0
    OBVIOUS
  <2> QED BY <2>1 DEF Input
<1>6. Input(c)'
  BY <1>1, <1>2, <1>3, <1>4, <1>5 DEF Input, Published
<1> QED
  BY <1>1, <1>6, JobStep

LEMMA VerifyInputStep == ASSUME IInv, NEW c \in Calls, VerifyInput(c) PROVE IInv'
<1>1. /\ Verify(c) /\ UNCHANGED input /\ Rest
      /\ pc'[c] = "done" => input[c] = meta[from[c]].sha256
  BY DEF VerifyInput
<1>2. /\ pc[c] = "verifying" /\ pc'[c] \in {"done", "undoing"} /\ UNCHANGED <<size, bytes>>
      /\ \A d \in Calls : d # c => pc'[d] = pc[d]
  BY <1>1, JobTypes DEF Verify, Goto, local, disk, Flying, Holding, Ended
<1>3. [Next]_vars
  BY <1>1 DEF Next
<1> QED
  BY <1>1, <1>2, <1>3, MoveStep

LEMMA CleanupInputStep == ASSUME IInv, NEW c \in Calls, CleanupInput(c) PROVE IInv'
<1>1. Cleanup(c) /\ UNCHANGED input /\ Rest /\ [Next]_vars
  BY DEF CleanupInput, Next
<1>2. /\ pc[c] = "done" /\ pc'[c] = "cleaned" /\ UNCHANGED size
      /\ \A d \in Calls : d # c => pc'[d] = pc[d] /\ bytes'[d] = bytes[d]
  BY <1>1, JobTypes DEF Cleanup, Goto, local, disk, Flying, Holding, Ended
<1> QED
  BY <1>1, <1>2, MoveStep

LEMMA WorkspaceOnlyStep == ASSUME IInv, NEW c \in Calls, Workspace(c) PROVE IInv'
<1> USE JobTypes DEF Goto, local, disk, Flying, Holding, Ended
<1>1. UNCHANGED input /\ Rest /\ [Next]_vars
  BY DEF Workspace, Next
<1>2. CASE ReadScratch(c)
  BY <1>1, <1>2, MoveStep DEF ReadScratch
<1>3. ASSUME NEW d \in Calls, ScanEntry(c, d) PROVE IInv'
  BY <1>1, <1>3, MoveStep DEF ScanEntry
<1>4. CASE Admit(c)
  BY <1>1, <1>4, MoveStep DEF Admit
<1>5. CASE MakeDirectory(c)
  BY <1>1, <1>5, MoveStep DEF MakeDirectory
<1>6. CASE CheckDirectory(c)
  BY <1>1, <1>6, MoveStep DEF CheckDirectory
<1>7. CASE CopyEnds(c)
  BY <1>1, <1>7, MoveStep DEF CopyEnds
<1>8. CASE Undo(c)
  <2>1. \A d \in Calls : d # c => bytes'[d] = bytes[d]
    BY <1>8 DEF Undo
  <2> QED BY <1>1, <1>8, <2>1, MoveStep DEF Undo
<1> QED
  BY <1>2, <1>3, <1>4, <1>5, <1>6, <1>7, <1>8 DEF Workspace

LEMMA StoreRestartStep == ASSUME IInv, StoreRestart PROVE IInv'
<1>1. /\ UNCHANGED <<source, snapshot, file, content, meta, from, input, rot, size>>
      /\ artifacts' = {} /\ reservedBytes' = 0
      /\ pc' = [c \in Calls |-> IF pc[c] \in Flying \cup {"done"} THEN "lost" ELSE pc[c]]
      /\ place' = [u \in Uploads |-> IF place[u] \in {"idle"} \cup Over THEN place[u] ELSE "lost"]
  BY DEF StoreRestart, Restart, jobs, local
<1>2. TypeOK' /\ Directories'
  <2>1. [Next]_vars
    BY DEF StoreRestart, Next
  <2> QED BY <2>1, WorkspaceStep DEF IInv, StoreTypeOK, WorkspaceInv
<1>3. StoreTypeOK'
  <2>1. 0 \in 0..StoreLimit
    BY StoreAssumption
  <2>2. \A u \in Uploads : place'[u] \in Places
    BY <1>1 DEF Places, Over, UnderWay
  <2>3. place' \in [Uploads -> Places]
    BY <1>1, <2>2
  <2> QED BY <1>1, <1>2, <2>1, <2>3 DEF IInv, StoreTypeOK, Places
<1>4. ASSUME NEW u \in Uploads PROVE Intake(u)' /\ Stored(u)' /\ Accounted(u)'
  <2>1. Intake(u) /\ Stored(u) /\ Accounted(u) /\ place[u] \in Places
    BY IntakeTypes
  <2>2. \/ place[u] \in {"idle"} \cup Over /\ place'[u] = place[u]
        \/ place[u] \notin {"idle"} \cup Over /\ place'[u] = "lost"
    BY <1>1
  <2>3. Intake(u)'
    BY <1>1, <2>1, <2>2 DEF Intake, Over
  <2>4. Stored(u)'
    BY <1>1, <2>1, <2>2 DEF Stored, Published, Over
  <2>5. Accounted(u)'
    BY <1>1, <2>1, <2>2 DEF Accounted, Intake, Stored, Over, UnderWay
  <2> QED BY <2>3, <2>4, <2>5
<1>5. ASSUME NEW c \in Calls PROVE Input(c)'
  <2>1. Input(c) /\ pc'[c] = IF pc[c] \in Flying \cup {"done"} THEN "lost" ELSE pc[c]
    BY <1>1 DEF IInv
  <2>2. \A u \in Uploads : place[u] \in {"registered", "lost"} => place'[u] = "lost"
    BY <1>1 DEF Over
  <2>3. pc'[c] \in {"idle", "listing", "scanning", "making", "checking"} => pc[c] = "idle"
    BY <2>1 DEF Flying, Holding
  <2>4. pc'[c] \notin {"copying", "done"}
    BY <2>1 DEF Flying, Holding
  <2>5. pc'[c] # "idle" => pc[c] # "idle"
    BY <2>1 DEF Flying, Holding
  <2> QED BY <1>1, <2>1, <2>2, <2>3, <2>4, <2>5 DEF Input, Published
<1> QED
  BY <1>2, <1>3, <1>4, <1>5 DEF IInv

LEMMA StoreNextIInv == IInv /\ [StoreNext]_storeVars => IInv'
<1> SUFFICES ASSUME IInv, [StoreNext]_storeVars PROVE IInv'
  OBVIOUS
<1>1. CASE UNCHANGED storeVars
  BY <1>1 DEF storeVars, vars, local, disk, intake, registry, jobs, IInv, StoreTypeOK, TypeOK,
              Directories, Intake, Stored, Published, Accounted, Input
<1>2. ASSUME NEW u \in Uploads,
             \/ Lstat(u) \/ Open(u) \/ Copy(u) \/ EndOfSource(u) \/ Restat(u) \/ Preflight(u)
             \/ Publish(u) \/ Close(u) \/ Unlink(u) \/ Register(u) \/ ChangeSource(u) \/ Rot(u)
      PROVE  IInv'
  BY <1>2, LstatStep, OpenStep, CopyStep, EndOfSourceStep, RestatStep, PreflightStep, PublishStep,
     CloseStep, UnlinkStep, RegisterStep, ChangeSourceStep, RotStep
<1>3. ASSUME NEW c \in Calls,
             \/ Materialize(c) \/ CopyInput(c) \/ VerifyInput(c) \/ CleanupInput(c) \/ Workspace(c)
      PROVE  IInv'
  BY <1>3, MaterializeStep, CopyInputStep, VerifyInputStep, CleanupInputStep, WorkspaceOnlyStep
<1>4. CASE StoreRestart
  BY <1>4, StoreRestartStep
<1> QED
  BY <1>1, <1>2, <1>3, <1>4 DEF StoreNext

------------------------------------------------------------------------------
(* The two sums. *)

LEMMA RegistryIsTotal ==
    /\ RegistryExact <=> /\ reservedBytes = Total(Registered, artifacts)
                         /\ reservedBytes <= StoreLimit
                         /\ \A u \in artifacts : meta[u].size > 0 /\ place[u] = "registered"
    /\ RegistryExact' <=> /\ reservedBytes' = Total(Registered', artifacts')
                          /\ reservedBytes' <= StoreLimit
                          /\ \A u \in artifacts' : meta'[u].size > 0 /\ place'[u] = "registered"
  BY DEF RegistryExact, Total, MapThenSumSet, MapThenFoldSet

LEMMA RegistryInit == StoreInit => RegistryExact
<1> SUFFICES ASSUME StoreInit PROVE RegistryExact
  OBVIOUS
<1>1. artifacts = {} /\ reservedBytes = 0
  BY DEF StoreInit
<1>2. reservedBytes = Total(Registered, artifacts)
  BY <1>1, TotalEmpty
<1> QED
  BY <1>1, <1>2, RegistryIsTotal, StoreAssumption

LEMMA RegistryStep == ASSUME IInv, IInv', RegistryExact, [StoreNext]_storeVars PROVE RegistryExact'
<1>1. /\ reservedBytes' \in Nat /\ reservedBytes' <= StoreLimit
      /\ \A u \in artifacts' : u \in Uploads /\ meta'[u].size > 0 /\ place'[u] = "registered"
  <2>1. reservedBytes' \in Nat /\ reservedBytes' <= StoreLimit
    BY StoreAssumption DEF IInv, StoreTypeOK
  <2>2. ASSUME NEW u \in artifacts'
        PROVE  u \in Uploads /\ meta'[u].size > 0 /\ place'[u] = "registered"
    <3>1. u \in Uploads /\ Stored(u)' /\ Intake(u)'
      BY DEF IInv, StoreTypeOK
    <3>2. place'[u] = "registered"
      BY <3>1 DEF Stored
    <3>3. snapshot'[u].size \in 1..MaxBytes /\ meta'[u].size = snapshot'[u].size
      BY <3>1, <3>2 DEF Stored, Intake, Published
    <3> QED BY <3>1, <3>2, <3>3, StoreAssumption
  <2> QED BY <2>1, <2>2
<1>2. /\ reservedBytes = Total(Registered, artifacts)
      /\ IsFiniteSet(artifacts) /\ artifacts \subseteq Uploads
      /\ \A u \in Uploads : /\ Registered[u] = meta[u].size /\ Registered'[u] = meta'[u].size
                            /\ meta[u].size \in Nat
      /\ \A u \in Uploads : u \in artifacts <=> place[u] = "registered"
  <2>1. artifacts \subseteq Uploads /\ IsFiniteSet(artifacts)
    BY StoreAssumption, FS_Subset DEF IInv, StoreTypeOK
  <2>2. \A u \in Uploads : Registered[u] = meta[u].size /\ Registered'[u] = meta'[u].size
    BY DEF Registered
  <2>3. \A u \in Uploads : meta[u].size \in Nat /\ (u \in artifacts <=> place[u] = "registered")
    BY DEF IInv, StoreTypeOK, Stored
  <2> QED BY <2>1, <2>2, <2>3, RegistryIsTotal
<1> DEFINE f == Registered
           g == Registered'
           Summed == reservedBytes' = Total(g, artifacts')
<1> HIDE DEF f, g, Summed
<1>3. ASSUME UNCHANGED registry, \A u \in artifacts : meta'[u] = meta[u]
      PROVE  Summed
  <2>1. \A u \in artifacts : f[u] = g[u]
    BY <1>2, <1>3 DEF f, g
  <2>2. Total(f, artifacts) = Total(g, artifacts)
    BY <1>2, <2>1, TotalAgree
  <2> QED BY <1>2, <1>3, <2>2 DEF f, Summed, registry
<1>4. ASSUME NEW u \in Uploads, Register(u) PROVE Summed
  <2>1. meta' = meta
    BY <1>4 DEF Register
  <2>2. CASE UNCHANGED registry
    BY <1>3, <2>1, <2>2
  <2>3. CASE ~UNCHANGED registry
    <3>1. /\ u \notin artifacts /\ artifacts' = artifacts \cup {u}
          /\ reservedBytes' = reservedBytes + meta[u].size
      BY <1>4, <2>3 DEF Register
    <3>2. \A v \in artifacts \cup {u} : f[v] \in Nat
      BY <1>2 DEF f
    <3>3. Total(f, artifacts \cup {u}) = Total(f, artifacts) + f[u]
      BY <1>2, <3>1, <3>2, TotalAdd
    <3>4. f = g
      BY <2>1 DEF f, g, Registered
    <3>5. f[u] = meta[u].size /\ reservedBytes = Total(f, artifacts)
      BY <1>2 DEF f
    <3> QED BY <3>1, <3>3, <3>4, <3>5 DEF Summed
  <2> QED BY <2>2, <2>3
<1>5. ASSUME NEW u \in Uploads, Publish(u) PROVE Summed
  <2>1. u \notin artifacts /\ UNCHANGED registry
    BY <1>2, <1>5 DEF Publish, Elsewhere
  <2>2. \A v \in Uploads : v # u => meta'[v] = meta[v]
    BY <1>5 DEF Publish, IInv, StoreTypeOK
  <2> QED BY <1>2, <1>3, <2>1, <2>2
<1>6. ASSUME NEW u \in Uploads,
             \/ Lstat(u) \/ Open(u) \/ Copy(u) \/ EndOfSource(u) \/ Restat(u) \/ Preflight(u)
             \/ Close(u) \/ Unlink(u) \/ ChangeSource(u) \/ Rot(u)
      PROVE  Summed
  <2>1. meta' = meta /\ UNCHANGED registry
    BY <1>6 DEF Lstat, Open, Copy, EndOfSource, Restat, Preflight, Close, Unlink, ChangeSource, Rot, Elsewhere
  <2> QED BY <1>3, <2>1
<1>7. ASSUME NEW c \in Calls,
             \/ Materialize(c) \/ CopyInput(c) \/ VerifyInput(c) \/ CleanupInput(c) \/ Workspace(c)
      PROVE  Summed
  <2>1. meta' = meta /\ UNCHANGED registry
    BY <1>7 DEF Materialize, CopyInput, VerifyInput, CleanupInput, Workspace, Rest, intake
  <2> QED BY <1>3, <2>1
<1>8. ASSUME StoreRestart PROVE Summed
  <2>1. artifacts' = {} /\ reservedBytes' = 0
    BY <1>8 DEF StoreRestart
  <2> QED BY <2>1, TotalEmpty DEF Summed
<1>9. ASSUME UNCHANGED storeVars PROVE Summed
  <2>1. meta' = meta /\ UNCHANGED registry
    BY <1>9 DEF storeVars, intake
  <2> QED BY <1>3, <2>1
<1>10. Summed
  BY <1>4, <1>5, <1>6, <1>7, <1>8, <1>9 DEF StoreNext
<1> QED
  BY <1>1, <1>10, RegistryIsTotal DEF Summed, g

\* With one call at a time the sum of the reservation has at most one term.
LEMMA SerialReservation == ASSUME WorkspaceInv, Serial PROVE ReservationExact
<1> DEFINE H == {c \in Calls : pc[c] \in Holding}
<1>1. ReservationExact <=> reserved = stranded + Total(size, H)
  BY DEF ReservationExact, Total, MapThenSumSet, MapThenFoldSet
<1>2. stranded \in Nat
  BY DEF WorkspaceInv, TypeOK
<1>3. CASE H = {}
  <2>1. Total(size, H) = 0
    BY <1>3, TotalEmpty
  <2> QED BY <1>1, <1>2, <1>3, <2>1 DEF Serial
<1>4. CASE H # {}
  <2>1. PICK c \in H : TRUE
    BY <1>4
  <2>2. H = {} \cup {c}
    BY <2>1 DEF Serial, Flying
  <2>3. size[c] \in Nat
    <3>1. \A n \in Sizes \cup {0} : n \in Nat
      BY WorkspaceAssumption
    <3>2. size[c] \in Sizes \cup {0}
      BY <2>1 DEF WorkspaceInv, TypeOK
    <3> QED BY ONLY <3>1, <3>2
  <2>4. Total(size, {} \cup {c}) = Total(size, {}) + size[c]
    <3>1. c \notin {} /\ IsFiniteSet({}) /\ \A y \in {} \cup {c} : size[y] \in Nat
      BY <2>3, FS_EmptySet
    <3> QED BY <3>1, TotalAdd
  <2>5. Total(size, {}) = 0
    BY TotalEmpty
  <2>6. Total(size, H) = size[c]
    BY <2>2, <2>3, <2>4, <2>5
  <2> QED BY <1>1, <2>1, <2>6 DEF Serial
<1> QED
  BY <1>3, <1>4

------------------------------------------------------------------------------
(* The theorems. *)

\* The invariant the rest follows from: what each place of an intake says of the
\* source, the file and its metadata, and what each place of a job says of its
\* directory and its input.
THEOREM StoreInvariantHolds == StoreSpec => []IInv
<1>1. StoreInit => IInv
  BY StoreInitIInv
<1>2. IInv /\ [StoreNext]_storeVars => IInv'
  BY StoreNextIInv
<1> QED
  BY <1>1, <1>2, PTL DEF StoreSpec

\* Every variable of the store and the workspaces keeps its type; no copy of an
\* upload is longer than maxBytes, no input longer than its artifact and
\* what that one has grown by.
THEOREM StoreTypeCorrect == StoreSpec => []StoreTypeOK
<1>1. IInv => StoreTypeOK
  BY DEF IInv
<1> QED
  BY <1>1, StoreInvariantHolds, PTL

\* intakeArtifact: a file that got its final name is one version of the source,
\* whole, whatever the source did between the lstat, the open, the copy and the
\* second stat.
THEOREM StoredFilesAreWhole == StoreSpec => []OneVersionStored
<1>1. IInv => OneVersionStored
  BY DEF IInv, Stored, OneVersionStored
<1> QED
  BY <1>1, StoreInvariantHolds, PTL

\* materializePrivateInput: a job that has its input has the uploaded bytes, with
\* any number of jobs and uploads under way, stored files lost or changed, and
\* restarts.
THEOREM JobsGetTheUpload == StoreSpec => []JobInputIsTheUpload
<1>1. IInv => JobInputIsTheUpload
  BY DEF IInv, Input, Directories, JobInputIsTheUpload
<1> QED
  BY <1>1, StoreInvariantHolds, PTL

\* The store's directory: a file nothing accounts for is never left.
THEOREM EveryFileIsAccountedFor == StoreSpec => []DiskIsAccountedFor
<1>1. IInv => DiskIsAccountedFor
  BY DEF IInv, Accounted, DiskIsAccountedFor
<1> QED
  BY <1>1, StoreInvariantHolds, PTL

\* ArtifactRegistry: its #reservedBytes is the sum of the registered sizes, each
\* counted once, and within the capacity.
THEOREM RegistryNeverDrifts == StoreSpec => []RegistryExact
<1>1. StoreInit => RegistryExact
  BY RegistryInit
<1>2. IInv /\ IInv' /\ RegistryExact /\ [StoreNext]_storeVars => RegistryExact'
  BY RegistryStep
<1> QED
  BY <1>1, <1>2, StoreInvariantHolds, PTL DEF StoreSpec

\* The store drives the workspaces only through their own steps, so what is
\* proved of JobWorkspace holds under it.
THEOREM StoreImplementsWorkspace == StoreSpec => Spec
<1>1. StoreInit => Init
  BY DEF StoreInit
<1>2. [StoreNext]_storeVars => [Next]_vars
  BY StoreStepsWorkspace
<1> QED
  BY <1>1, <1>2, PTL DEF StoreSpec, Spec

\* With one call at a time: the call under way is the only one that holds a
\* reservation, and what it found in its scan is still all there is.
THEOREM OneCallAtATime == ASSUME MaxInFlight = 1 PROVE Spec => [](WorkspaceInv /\ Serial)
<1>1. Init => WorkspaceInv /\ Serial
  BY WorkspaceInit, SerialInit
<1>2. WorkspaceInv /\ Serial /\ [Next]_vars => (WorkspaceInv /\ Serial)'
  BY WorkspaceStep, SerialStep
<1> QED
  BY <1>1, <1>2, PTL DEF Spec

\* materializePrivateJobInput: when calls do not overlap, nothing takes the job
\* directories over the scratch limit, leftovers of failures and restarts
\* included, but the excess of one copy of a file that grew behind its check.
THEOREM OnlyGrowthOverflows == ASSUME MaxInFlight = 1 PROVE Spec => []CapButForGrowth
<1>1. Serial => CapButForGrowth
  BY DEF Serial
<1> QED
  BY <1>1, OneCallAtATime, PTL

\* And when no stored file grows, nothing at all.
THEOREM ScratchNeverOverflows == ASSUME MaxInFlight = 1, MaxGrowth = 0 PROVE Spec => []ScratchCap
<1>1. WorkspaceInv /\ Serial => ScratchCap
  <2> SUFFICES ASSUME WorkspaceInv, Serial, NEW c \in Calls, Used - (bytes[c] - size[c]) <= ScratchLimit
               PROVE  Used <= ScratchLimit
    BY DEF Serial, CapButForGrowth, ScratchCap
  <2>1. IsFiniteSet(Calls) /\ ScratchLimit \in Nat /\ \A d \in Calls : bytes[d] \in Nat
    BY WorkspaceAssumption DEF WorkspaceInv, TypeOK
  <2>2. Used \in Nat
    BY <2>1, TotalType, UsedIsTotal
  <2>3. \A n \in Sizes \cup {0} : n \in Nat
    BY WorkspaceAssumption
  <2>4. size[c] \in Sizes \cup {0}
    BY DEF WorkspaceInv, TypeOK
  <2>5. size[c] \in Nat
    BY ONLY <2>3, <2>4
  <2>6. bytes[c] <= size[c] + MaxGrowth
    BY DEF WorkspaceInv, TypeOK
  <2> QED BY <2>1, <2>2, <2>5, <2>6
<1> QED
  BY <1>1, OneCallAtATime, PTL

\* Both counters of bytes are exact when calls do not overlap.
THEOREM CountersNeverDrift == ASSUME MaxInFlight = 1 PROVE StoreSpec => []CountersExact
<1>1. WorkspaceInv /\ Serial => ReservationExact
  BY SerialReservation
<1>2. RegistryExact /\ ReservationExact => CountersExact
  BY DEF CountersExact
<1> QED
  BY <1>1, <1>2, OneCallAtATime, StoreImplementsWorkspace, RegistryNeverDrifts, PTL

------------------------------------------------------------------------------
(* Compound files.  What the reader has followed is the beginning of every    *)
(* chain there is, so a link it refuses is in none.                           *)

\* The links of c lead from first to next.
Walked(f, first, c, next) ==
    /\ c \in Seq(0..(f.sectors - 1))
    /\ first = IF c = <<>> THEN next ELSE c[1]
    /\ \A i \in DOMAIN c : Readable(f, c[i])
    /\ \A i \in DOMAIN c : f.fat[c[i]] = IF i < Len(c) THEN c[i + 1] ELSE next
    /\ \A i, j \in DOMAIN c : c[i] = c[j] => i = j

Acceptable(f) == /\ TableHolds(f) /\ HasDirectory(f)
                 /\ \A n \in DOMAIN f.streams : HasStream(f, f.streams[n])

ReadIInv ==
    /\ document \in Files
    /\ reading \in {"table", "directory", "streams", "accepted", "corrupt"}
    /\ reading = "directory" => /\ TableHolds(document)
                                /\ Walked(document, document.directory, chain, sector)
                                /\ Len(chain) <= document.sectors
    /\ reading = "streams" => /\ TableHolds(document) /\ HasDirectory(document)
                              /\ entry \in DOMAIN document.streams
                              /\ \A n \in 1..(entry - 1) : HasStream(document, document.streams[n])
                              /\ Walked(document, document.streams[entry].first, chain, sector)
                              /\ Len(chain) <= document.streams[entry].required
    /\ reading = "accepted" => Acceptable(document)
    /\ reading = "corrupt" => ~Acceptable(document)

LEMMA FileFacts ==
    ASSUME NEW f \in Files
    PROVE  /\ f.sectors \in Nat
           /\ Len(f.streams) \in Nat /\ DOMAIN f.streams = 1..Len(f.streams)
           /\ \A n \in DOMAIN f.streams : f.streams[n].first \in Int /\ f.streams[n].required \in Nat \ {0}
<1>1. f.sectors \in Nat /\ f.streams \in Seq([first : Int, required : Nat \ {0}])
  BY CompoundFileAssumption
<1> DEFINE S == [first : Int, required : Nat \ {0}]
<1>2. \A n \in DOMAIN f.streams : f.streams[n] \in S
  <2> HIDE DEF S
  <2>1. f.streams \in Seq(S)
    BY <1>1 DEF S
  <2> QED BY <2>1
<1>3. \A s \in [first : Int, required : Nat \ {0}] : s.first \in Int /\ s.required \in Nat \ {0}
  OBVIOUS
<1>4. \A n \in DOMAIN f.streams : f.streams[n].first \in Int /\ f.streams[n].required \in Nat \ {0}
  BY <1>2, <1>3
<1> QED BY <1>1, <1>4

LEMMA ChainFacts ==
    ASSUME NEW f, f.sectors \in Nat, NEW c \in Chains(f)
    PROVE  /\ Len(c) \in 1..f.sectors /\ DOMAIN c = 1..Len(c)
           /\ \A i \in DOMAIN c : c[i] \in 0..(f.sectors - 1)
<1>1. PICK n \in 1..f.sectors : c \in [1..n -> 0..(f.sectors - 1)]
  BY DEF Chains
<1>2. c \in Seq(0..(f.sectors - 1)) /\ Len(c) = n
  BY <1>1
<1> QED BY <1>1, <1>2

\* A chain begins with what was followed, and goes on where that leads.
LEMMA WalkedIsPrefix ==
    ASSUME NEW f, f.sectors \in Nat, NEW first, NEW c, NEW next, Walked(f, first, c, next),
           NEW d \in Chains(f), IsChain(f, first, d)
    PROVE  /\ Len(c) \in Nat /\ DOMAIN c = 1..Len(c) /\ Len(c) <= Len(d)
           /\ \A i \in DOMAIN c : d[i] = c[i]
           /\ next = IF Len(c) < Len(d) THEN d[Len(c) + 1] ELSE End
<1>1. Len(c) \in Nat /\ DOMAIN c = 1..Len(c)
  BY DEF Walked
<1>2. /\ Len(d) \in Nat /\ Len(d) >= 1 /\ DOMAIN d = 1..Len(d)
      /\ \A i \in DOMAIN d : d[i] \in 0..(f.sectors - 1)
  BY ChainFacts
<1> DEFINE Bad == {i \in 1..Len(c) : ~(i <= Len(d) /\ d[i] = c[i])}
<1>3. Bad = {}
  <2> SUFFICES ASSUME Bad # {} PROVE FALSE
    OBVIOUS
  <2>0. Bad \in SUBSET Nat
    BY <1>1
  <2> HIDE DEF Bad
  <2>1. PICK i \in Bad : \A j \in Bad : i <= j
    BY <2>0, LeastNumber
  <2> USE DEF Bad
  <2>2. i \in 1..Len(c) /\ ~(i <= Len(d) /\ d[i] = c[i])
    OBVIOUS
  <2>3. i # 1
    <3> SUFFICES ASSUME i = 1 PROVE FALSE
      OBVIOUS
    <3>1. c # <<>> /\ first = c[1]
      BY <1>1, <2>2 DEF Walked
    <3>2. first = d[1]
      BY DEF IsChain
    <3> QED BY <1>1, <1>2, <2>2, <3>1, <3>2
  <2>4. i - 1 \in 1..Len(c) /\ i - 1 \notin Bad
    BY <1>1, <2>1, <2>2, <2>3
  <2>5. i - 1 <= Len(d) /\ d[i - 1] = c[i - 1]
    BY <2>4
  <2>6. f.fat[c[i - 1]] = c[i]
    <3>1. i - 1 \in DOMAIN c /\ i - 1 < Len(c) /\ (i - 1) + 1 = i
      BY <1>1, <2>2, <2>4
    <3> QED BY <3>1 DEF Walked
  <2>7. f.fat[d[i - 1]] = IF i - 1 < Len(d) THEN d[i] ELSE End
    <3>1. i - 1 \in DOMAIN d /\ (i - 1) + 1 = i
      BY <1>1, <1>2, <2>2, <2>4, <2>5
    <3> QED BY <3>1 DEF IsChain
  <2>8. c[i] \in 0..(f.sectors - 1) /\ c[i] # End
    BY <1>1, <2>2 DEF Walked, Readable, End
  <2> QED
    BY <1>1, <1>2, <2>2, <2>5, <2>6, <2>7, <2>8
<1>4. \A i \in 1..Len(c) : i <= Len(d) /\ d[i] = c[i]
  BY <1>3
<1>5. Len(c) <= Len(d)
  BY <1>1, <1>2, <1>4
<1>6. next = IF Len(c) < Len(d) THEN d[Len(c) + 1] ELSE End
  <2>1. CASE c = <<>>
    BY <1>2, <2>1 DEF Walked, IsChain
  <2>2. CASE c # <<>>
    <3>1. Len(c) \in 1..Len(c) /\ Len(c) \in DOMAIN d
      BY <1>1, <1>2, <1>5, <2>2 DEF Walked
    <3>2. f.fat[c[Len(c)]] = next
      BY <1>1, <3>1 DEF Walked
    <3>3. f.fat[d[Len(c)]] = IF Len(c) < Len(d) THEN d[Len(c) + 1] ELSE End
      BY <3>1 DEF IsChain
    <3> QED BY <1>4, <3>1, <3>2, <3>3
  <2> QED BY <2>1, <2>2
<1> QED BY <1>1, <1>4, <1>5, <1>6

LEMMA WalkBegins == ASSUME NEW f, NEW first PROVE Walked(f, first, <<>>, first)
  BY DEF Walked

LEMMA WalkGoesOn ==
    ASSUME NEW f, NEW first, NEW c, NEW next, Walked(f, first, c, next),
           Readable(f, next), next \notin ToSet(c)
    PROVE  Walked(f, first, Append(c, next), f.fat[next]) /\ Len(Append(c, next)) = Len(c) + 1
<1> DEFINE d == Append(c, next)
<1>1. /\ c \in Seq(0..(f.sectors - 1)) /\ next \in 0..(f.sectors - 1)
      /\ Len(c) \in Nat /\ DOMAIN c = 1..Len(c)
  BY DEF Walked, Readable
<1>2. /\ d \in Seq(0..(f.sectors - 1)) /\ Len(d) = Len(c) + 1 /\ DOMAIN d = 1..(Len(c) + 1)
      /\ \A i \in 1..Len(c) : d[i] = c[i]
      /\ d[Len(c) + 1] = next /\ d # <<>>
  BY <1>1
<1>3. \A i \in 1..Len(c) : c[i] # next
  BY <1>1 DEF ToSet
<1> HIDE DEF d
<1>4. first = d[1]
  <2>1. CASE c = <<>>
    BY <1>2, <2>1 DEF Walked
  <2>2. CASE c # <<>>
    <3>1. 1 \in 1..Len(c)
      BY <1>1, <2>2
    <3> QED BY <1>2, <2>2, <3>1 DEF Walked
  <2> QED BY <2>1, <2>2
<1>5. \A i \in DOMAIN d : Readable(f, d[i])
  <2> SUFFICES ASSUME NEW i \in DOMAIN d PROVE Readable(f, d[i])
    OBVIOUS
  <2>1. i \in 1..Len(c) \/ i = Len(c) + 1
    BY <1>1, <1>2
  <2> QED BY <1>1, <1>2, <2>1 DEF Walked
<1>6. \A i \in DOMAIN d : f.fat[d[i]] = IF i < Len(d) THEN d[i + 1] ELSE f.fat[next]
  <2> SUFFICES ASSUME NEW i \in DOMAIN d PROVE f.fat[d[i]] = IF i < Len(d) THEN d[i + 1] ELSE f.fat[next]
    OBVIOUS
  <2>1. CASE i = Len(c) + 1
    BY <1>1, <1>2, <2>1
  <2>2. CASE i \in 1..Len(c)
    <3>1. f.fat[c[i]] = IF i < Len(c) THEN c[i + 1] ELSE next
      BY <1>1, <2>2 DEF Walked
    <3>2. i < Len(c) => i + 1 \in 1..Len(c)
      BY <1>1, <2>2
    <3>3. ~(i < Len(c)) => i = Len(c)
      BY <1>1, <2>2
    <3> QED BY <1>1, <1>2, <2>2, <3>1, <3>2, <3>3
  <2> QED BY <1>1, <1>2, <2>1, <2>2
<1>7. \A i, j \in DOMAIN d : d[i] = d[j] => i = j
  <2> SUFFICES ASSUME NEW i \in DOMAIN d, NEW j \in DOMAIN d, d[i] = d[j] PROVE i = j
    OBVIOUS
  <2>0. \A k \in 1..(Len(c) + 1) : k \in 1..Len(c) \/ k = Len(c) + 1
    BY <1>1
  <2>1. CASE i \in 1..Len(c) /\ j \in 1..Len(c)
    BY <1>1, <1>2, <2>1 DEF Walked
  <2>2. CASE i = Len(c) + 1 /\ j = Len(c) + 1
    BY <2>2
  <2>3. CASE i \in 1..Len(c) /\ j = Len(c) + 1
    BY <1>2, <1>3, <2>3
  <2>4. CASE i = Len(c) + 1 /\ j \in 1..Len(c)
    BY <1>2, <1>3, <2>4
  <2> QED BY <1>2, <2>0, <2>1, <2>2, <2>3, <2>4
<1> QED
  BY <1>2, <1>4, <1>5, <1>6, <1>7 DEF Walked, d

\* No chain goes on through a sector that was seen, or that cannot be read.
LEMMA NoChainThere ==
    ASSUME NEW f, f.sectors \in Nat, NEW first, NEW c, NEW next, Walked(f, first, c, next),
           next \in ToSet(c) \/ ~Readable(f, next),
           NEW d \in Chains(f), IsChain(f, first, d)
    PROVE  next = End /\ Len(d) = Len(c)
<1>1. /\ Len(c) \in Nat /\ DOMAIN c = 1..Len(c) /\ Len(c) <= Len(d)
      /\ \A i \in DOMAIN c : d[i] = c[i]
      /\ next = IF Len(c) < Len(d) THEN d[Len(c) + 1] ELSE End
  BY WalkedIsPrefix
<1>2. Len(d) \in Nat /\ DOMAIN d = 1..Len(d)
  BY ChainFacts
<1>3. SUFFICES ASSUME Len(c) < Len(d) PROVE FALSE
  <2>0. Len(c) \in Nat /\ Len(d) \in Nat /\ Len(c) <= Len(d)
    BY <1>1, <1>2
  <2>1. ~(Len(c) < Len(d)) => Len(d) = Len(c)
    BY ONLY <2>0
  <2> QED BY <1>1, <2>1
<1>4. Len(c) + 1 \in DOMAIN d /\ next = d[Len(c) + 1]
  BY <1>1, <1>2, <1>3
<1>5. Readable(f, next)
  BY <1>4 DEF IsChain
<1>6. PICK i \in DOMAIN c : next = c[i]
  BY <1>5 DEF ToSet
<1>7. i \in DOMAIN d /\ d[i] = d[Len(c) + 1] /\ i # Len(c) + 1
  BY <1>1, <1>2, <1>4, <1>6
<1> QED
  BY <1>4, <1>7 DEF IsChain

\* Where the links end, what was followed is a chain.
LEMMA WalkEnds ==
    ASSUME NEW f, f.sectors \in Nat, NEW first, NEW c, Walked(f, first, c, End), c # <<>>
    PROVE  c \in Chains(f) /\ IsChain(f, first, c)
<1>1. c \in Seq(0..(f.sectors - 1)) /\ Len(c) \in Nat /\ Len(c) >= 1 /\ DOMAIN c = 1..Len(c)
  BY DEF Walked
<1>2. IsChain(f, first, c)
  BY DEF Walked, IsChain
<1>3. c \in [1..Len(c) -> 0..(f.sectors - 1)]
  BY <1>1
<1>4. Len(c) <= f.sectors
  <2>1. c \in Injection(1..Len(c), 0..(f.sectors - 1))
    BY <1>1, <1>3 DEF Walked, Injection, IsInjective
  <2>2. IsFiniteSet(0..(f.sectors - 1)) /\ Cardinality(0..(f.sectors - 1)) = f.sectors
    <3>1. f.sectors - 1 \in Int /\ 0 \in Int
      OBVIOUS
    <3>2. /\ IsFiniteSet(0..(f.sectors - 1))
          /\ Cardinality(0..(f.sectors - 1)) = IF 0 > f.sectors - 1 THEN 0 ELSE f.sectors - 1 - 0 + 1
      BY <3>1, FS_Interval
    <3> QED BY <3>2
  <2>3. IsFiniteSet(1..Len(c)) /\ Cardinality(1..Len(c)) = Len(c)
    BY <1>1, FS_Interval
  <2>4. Cardinality(1..Len(c)) <= Cardinality(0..(f.sectors - 1))
    BY <2>1, <2>2, FS_Injection
  <2> QED BY <2>2, <2>3, <2>4
<1> QED
  BY <1>1, <1>2, <1>3, <1>4 DEF Chains

------------------------------------------------------------------------------
\* The reader turns to the n-th stream when those before it have been read.
LEMMA NextStreamKeeps ==
    ASSUME ReadIInv, reading \in {"directory", "streams"}, HasDirectory(document), NEW n \in Nat, n >= 1,
           n <= Len(document.streams) + 1,
           \A k \in 1..(n - 1) : HasStream(document, document.streams[k]),
           NextStream(n)
    PROVE  ReadIInv'
<1>0. /\ document \in Files /\ TableHolds(document)
  BY DEF ReadIInv
<1>1. /\ document.sectors \in Nat
      /\ Len(document.streams) \in Nat /\ DOMAIN document.streams = 1..Len(document.streams)
      /\ \A k \in DOMAIN document.streams : document.streams[k].first \in Int /\ document.streams[k].required \in Nat \ {0}
  BY <1>0, FileFacts
<1>2. CASE n > Len(document.streams)
  <2>1. Acceptable(document)
    BY <1>0, <1>1, <1>2 DEF Acceptable
  <2>2. reading' = "accepted" /\ document' = document
    BY <1>2 DEF NextStream
  <2> QED BY <1>0, <2>1, <2>2 DEF ReadIInv
<1>3. CASE n \in DOMAIN document.streams /\ document.streams[n].first < 0
  <2>1. ~HasStream(document, document.streams[n])
    <3> SUFFICES ASSUME NEW c \in Chains(document), IsChain(document, document.streams[n].first, c) PROVE FALSE
      BY DEF HasStream
    <3>1. 1 \in DOMAIN c /\ c[1] \in 0..(document.sectors - 1)
      BY <1>1, ChainFacts
    <3>2. c[1] = document.streams[n].first
      BY DEF IsChain
    <3> QED BY <1>1, <1>3, <3>1, <3>2
  <2>2. ~Acceptable(document)
    BY <1>3, <2>1 DEF Acceptable
  <2>3. reading' = "corrupt" /\ document' = document
    BY <1>1, <1>3 DEF NextStream, Corrupt
  <2> QED BY <1>0, <2>2, <2>3 DEF ReadIInv
<1>4. CASE n \in DOMAIN document.streams /\ ~(document.streams[n].first < 0)
  <2>1. /\ reading' = "streams" /\ entry' = n /\ document' = document
        /\ sector' = document.streams[n].first /\ chain' = <<>>
    BY <1>1, <1>4 DEF NextStream, BeginChain
  <2>2. Walked(document, document.streams[n].first, <<>>, document.streams[n].first)
    BY WalkBegins
  <2>3. Len(<<>>) = 0 /\ 0 <= document.streams[n].required
    BY <1>1, <1>4
  <2> QED BY <1>0, <1>4, <2>1, <2>2, <2>3 DEF ReadIInv
<1> QED
  BY <1>1, <1>2, <1>3, <1>4

LEMMA CorruptIsRight ==
    ASSUME ReadIInv, ~Acceptable(document), Corrupt PROVE ReadIInv'
  BY DEF ReadIInv, Corrupt

LEMMA NextReadIInv == ReadIInv /\ [ReadNext]_readVars => ReadIInv'
<1> SUFFICES ASSUME ReadIInv, [ReadNext]_readVars PROVE ReadIInv'
  OBVIOUS
<1>0. /\ document \in Files /\ document.sectors \in Nat
      /\ Len(document.streams) \in Nat /\ DOMAIN document.streams = 1..Len(document.streams)
      /\ \A k \in DOMAIN document.streams : document.streams[k].first \in Int /\ document.streams[k].required \in Nat \ {0}
  BY FileFacts DEF ReadIInv
<1>1. CASE ReadTable
  <2>1. CASE TableHolds(document)
    <3>1. /\ reading' = "directory" /\ document' = document
          /\ sector' = document.directory /\ chain' = <<>>
      BY <1>1, <2>1 DEF ReadTable, BeginChain
    <3>2. Walked(document, document.directory, <<>>, document.directory) /\ Len(<<>>) = 0
      BY WalkBegins
    <3> QED BY <1>0, <2>1, <3>1, <3>2 DEF ReadIInv
  <2>2. CASE ~TableHolds(document)
    BY <1>1, <2>2, CorruptIsRight DEF ReadTable, Acceptable
  <2> QED BY <2>1, <2>2
<1>2. CASE DirectoryTurn
  <2>0. /\ reading = "directory" /\ sector # End /\ TableHolds(document)
        /\ Walked(document, document.directory, chain, sector) /\ Len(chain) <= document.sectors
    BY <1>2 DEF DirectoryTurn, ReadIInv
  <2>1. CASE sector \in ToSet(chain) \/ Len(chain) >= document.sectors \/ ~Readable(document, sector)
    <3>1. ~HasDirectory(document)
      <4> SUFFICES ASSUME NEW d \in Chains(document), IsChain(document, document.directory, d) PROVE FALSE
        BY DEF HasDirectory
      <4>1. sector \notin ToSet(chain) /\ Readable(document, sector)
        BY <1>0, <2>0, NoChainThere
      <4>2. Len(chain) \in Nat /\ Len(d) > Len(chain)
        BY <1>0, <2>0, WalkedIsPrefix
      <4>3. Len(d) \in 1..document.sectors
        BY <1>0, ChainFacts
      <4> QED BY <1>0, <2>1, <4>1, <4>2, <4>3
    <3>2. ~Acceptable(document) /\ Corrupt
      BY <1>2, <2>1, <3>1 DEF DirectoryTurn, Acceptable
    <3> QED BY <3>2, CorruptIsRight
  <2>2. CASE ~(sector \in ToSet(chain) \/ Len(chain) >= document.sectors \/ ~Readable(document, sector))
    <3>1. /\ chain' = Append(chain, sector) /\ sector' = document.fat[sector]
          /\ document' = document /\ reading' = reading
      BY <1>2, <2>2 DEF DirectoryTurn, Follow
    <3>2. Walked(document, document.directory, Append(chain, sector), document.fat[sector]) /\ Len(Append(chain, sector)) = Len(chain) + 1
      BY <2>0, <2>2, WalkGoesOn
    <3>3. Len(chain) \in Nat
      BY <2>0 DEF Walked
    <3>4. Len(chain) + 1 <= document.sectors
      BY <1>0, <2>2, <3>3
    <3> QED BY <1>0, <2>0, <3>1, <3>2, <3>4 DEF ReadIInv
  <2> QED BY <2>1, <2>2
<1>3. CASE DirectoryRead
  <2>0. reading = "directory" /\ sector = End /\ Walked(document, document.directory, chain, End)
    BY <1>3 DEF DirectoryRead, ReadIInv
  <2>1. CASE chain = <<>>
    <3>1. ~HasDirectory(document)
      <4> SUFFICES ASSUME NEW d \in Chains(document), IsChain(document, document.directory, d) PROVE FALSE
        BY DEF HasDirectory
      <4>1. d[1] = End
        BY <2>0, <2>1 DEF IsChain, Walked
      <4>2. 1 \in DOMAIN d /\ d[1] \in 0..(document.sectors - 1)
        BY <1>0, ChainFacts
      <4> QED BY <1>0, <4>1, <4>2 DEF End
    <3> QED BY <1>3, <2>1, <3>1, CorruptIsRight DEF DirectoryRead, Acceptable
  <2>2. CASE chain # <<>>
    <3>1. HasDirectory(document)
      BY <1>0, <2>0, <2>2, WalkEnds DEF HasDirectory
    <3>2. NextStream(1)
      BY <1>3, <2>2 DEF DirectoryRead
    <3>3. \A k \in 1..(1 - 1) : HasStream(document, document.streams[k])
      OBVIOUS
    <3>4. 1 <= Len(document.streams) + 1
      BY <1>0
    <3> QED BY <2>0, <3>1, <3>2, <3>3, <3>4, NextStreamKeeps
  <2> QED BY <2>1, <2>2
<1>4. CASE StreamTurn \/ StreamRead
  <2> DEFINE s == document.streams[entry]
  <2>0. /\ reading = "streams" /\ TableHolds(document) /\ HasDirectory(document)
        /\ entry \in DOMAIN document.streams /\ s.required \in Nat \ {0}
        /\ \A n \in 1..(entry - 1) : HasStream(document, document.streams[n])
        /\ Walked(document, s.first, chain, sector) /\ Len(chain) <= s.required
        /\ Len(chain) \in Nat
    BY <1>0, <1>4 DEF StreamTurn, StreamRead, ReadIInv, Walked
  <2> HIDE DEF s
  <2>1. CASE StreamTurn /\ (sector \in ToSet(chain) \/ ~Readable(document, sector))
    <3>1. Len(chain) < s.required /\ Corrupt
      BY <2>1 DEF StreamTurn, s
    <3>2. ~HasStream(document, s)
      <4> SUFFICES ASSUME NEW d \in Chains(document), IsChain(document, s.first, d), Len(d) = s.required PROVE FALSE
        BY DEF HasStream
      <4>1. Len(d) = Len(chain)
        BY <1>0, <2>0, <2>1, NoChainThere
      <4> QED BY <2>0, <3>1, <4>1
    <3>3. ~Acceptable(document)
      BY <2>0, <3>2 DEF Acceptable, s
    <3> QED BY <3>1, <3>3, CorruptIsRight
  <2>2. CASE StreamTurn /\ ~(sector \in ToSet(chain) \/ ~Readable(document, sector))
    <3>1. /\ chain' = Append(chain, sector) /\ sector' = document.fat[sector]
          /\ document' = document /\ reading' = reading /\ entry' = entry
          /\ Len(chain) < s.required
      BY <2>2 DEF StreamTurn, Follow, s
    <3>2. Walked(document, s.first, Append(chain, sector), document.fat[sector]) /\ Len(Append(chain, sector)) = Len(chain) + 1
      BY <2>0, <2>2, WalkGoesOn
    <3>3. Len(chain) + 1 <= s.required
      BY <2>0, <3>1
    <3> QED BY <1>0, <2>0, <3>1, <3>2, <3>3 DEF ReadIInv, s
  <2>3. CASE StreamRead /\ sector # End
    <3>1. Corrupt /\ Len(chain) = s.required
      BY <2>0, <2>3 DEF StreamRead, s
    <3>2. ~HasStream(document, s)
      <4> SUFFICES ASSUME NEW d \in Chains(document), IsChain(document, s.first, d), Len(d) = s.required PROVE FALSE
        BY DEF HasStream
      <4> QED BY <1>0, <2>0, <2>3, <3>1, WalkedIsPrefix
    <3>3. ~Acceptable(document)
      BY <2>0, <3>2 DEF Acceptable, s
    <3> QED BY <3>1, <3>3, CorruptIsRight
  <2>4. CASE StreamRead /\ sector = End
    <3>1. NextStream(entry + 1) /\ Len(chain) = s.required
      BY <2>0, <2>4 DEF StreamRead, s
    <3>2. chain # <<>>
      BY <2>0, <3>1
    <3>3. HasStream(document, s)
      BY <1>0, <2>0, <2>4, <3>1, <3>2, WalkEnds DEF HasStream
    <3>4. \A k \in 1..((entry + 1) - 1) : HasStream(document, document.streams[k])
      <4> SUFFICES ASSUME NEW k \in 1..((entry + 1) - 1) PROVE HasStream(document, document.streams[k])
        OBVIOUS
      <4>1. k \in 1..(entry - 1) \/ k = entry
        BY <1>0, <2>0
      <4> QED BY <2>0, <3>3, <4>1 DEF s
    <3>5. entry + 1 \in Nat /\ entry + 1 >= 1 /\ entry + 1 <= Len(document.streams) + 1
      BY <1>0, <2>0
    <3> HIDE DEF s
    <3> QED BY <2>0, <3>1, <3>4, <3>5, NextStreamKeeps
  <2> QED BY <1>4, <2>1, <2>2, <2>3, <2>4
<1>5. CASE UNCHANGED readVars
  BY <1>5 DEF readVars, ReadIInv
<1> QED
  BY <1>1, <1>2, <1>3, <1>4, <1>5 DEF ReadNext

\* compoundStreams, turn by turn: what was followed is the beginning of every
\* chain there is, and the verdict is the right one for every table.
THEOREM ReaderInvariantHolds == ReadSpec => []ReadIInv
<1>1. ReadInit => ReadIInv
  BY DEF ReadInit, Opened, ReadIInv
<1> QED
  BY <1>1, NextReadIInv, PTL DEF ReadSpec

\* compoundStreams accepts a document exactly when its directory and every stream
\* are chains of its table, of their length and without a loop.
THEOREM AcceptedChainsAreReal == ReadSpec => []ChainsAreReal
<1>1. ReadIInv => ChainsAreReal
  BY DEF ReadIInv, Acceptable, ChainsAreReal
<1> QED
  BY <1>1, ReaderInvariantHolds, PTL

==============================================================================
