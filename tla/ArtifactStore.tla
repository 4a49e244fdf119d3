---------------------------- MODULE ArtifactStore ----------------------------
(* apps/server/src/security/intake.ts and artifact-registry.ts, composed with *)
(* JobWorkspace: an upload is copied into the store and named by the          *)
(* registry, and jobs get a private copy of what the registry names.          *)
(* A byte is the version of the source it was read from; the hash of a file   *)
(* is its sequence of bytes.  The file system is shared with other programs:  *)
(* a source may change while it is taken in, a stored file may rot or grow.   *)
EXTENDS JobWorkspace, Sequences

CONSTANTS Uploads,     \* the calls of intakeArtifact
          MaxBytes,    \* maxBytes
          StoreLimit,  \* artifactStoreBytes
          NoHandle,    \* of a job not made yet
          MaxChanges,  \* bound of the model: changes of one source
          MaxRot       \* bound of the model: stored files that change

ASSUME StoreAssumption == /\ IsFiniteSet(Uploads)
                          /\ MaxBytes \in Nat \ {0}
                          /\ StoreLimit \in Nat \ {0}
                          /\ NoHandle \notin Uploads
                          /\ MaxChanges \in Nat
                          /\ MaxRot \in Nat

VARIABLES place,       \* where each intake is
          source,      \* the source as it is now: its version and its size
          snapshot,    \* the source as lstat, then stat, described it
          file,        \* per upload: no file, <id>.partial, or <id>
          content,     \* and what is in it
          meta,        \* the IntakeMetadata the call resolved with
          artifacts,   \* the registry's #artifacts
          reservedBytes, \* and #reservedBytes
          from,        \* per job: the handle it was made for
          input,       \* per job: what is in its input.bin
          rot          \* stored files changed so far

intake   == <<place, source, snapshot, file, content, meta>>
registry == <<artifacts, reservedBytes>>
jobs     == <<from, input>>
storeVars == <<vars, intake, registry, jobs, rot>>

UnderWay == {"looked", "copying", "copied", "compared", "accepted", "closing", "undoing"}
Over     == {"failed", "leftover", "refused", "lost"}
NoMeta   == [sha256 |-> <<>>, size |-> 0]
Rotten   == MaxChanges + 1  \* a byte of no version of the source

StoreInit ==
    /\ Init
    /\ place = [u \in Uploads |-> "idle"]
    /\ source \in [Uploads -> [version : {0}, size : Sizes]]
    /\ snapshot = source
    /\ file = [u \in Uploads |-> "none"]
    /\ content = [u \in Uploads |-> <<>>]
    /\ meta = [u \in Uploads |-> NoMeta]
    /\ artifacts = {} /\ reservedBytes = 0
    /\ from = [c \in Calls |-> NoHandle]
    /\ input = [c \in Calls |-> <<>>]
    /\ rot = 0

Put(u, where) == place' = [place EXCEPT ![u] = where]
Elsewhere == UNCHANGED <<vars, registry, jobs, rot>>

------------------------------------------------------------------------------
\* intakeArtifact, from one await to the next.

Lstat(u) ==
    /\ place[u] = "idle"
    /\ snapshot' = [snapshot EXCEPT ![u] = source[u]]
    /\ IF source[u].size \in 1..MaxBytes THEN Put(u, "looked") ELSE Put(u, "failed")
    /\ UNCHANGED <<source, file, content, meta>> /\ Elsewhere

\* The directory is made and checked and the source opened: a failure there is
\* before the try.  Then its stat is compared with the lstat's.
Open(u) ==
    /\ place[u] = "looked"
    /\ \/ Put(u, "failed") /\ UNCHANGED file
       \/ source[u] # snapshot[u] /\ Put(u, "undoing") /\ UNCHANGED file
       \/ /\ source[u] = snapshot[u]
          /\ Put(u, "copying")
          /\ file' = [file EXCEPT ![u] = "partial"]
    /\ UNCHANGED <<source, snapshot, content, meta>> /\ Elsewhere

\* One byte of the pipeline, or its failure.
Copy(u) ==
    /\ place[u] = "copying"
    /\ \/ /\ Len(content[u]) < source[u].size
          /\ Len(content[u]) < MaxBytes
          /\ content' = [content EXCEPT ![u] = Append(@, source[u].version)]
          /\ UNCHANGED place
       \/ Put(u, "undoing") /\ UNCHANGED content
    /\ UNCHANGED <<source, snapshot, file, meta>> /\ Elsewhere

EndOfSource(u) ==
    /\ place[u] = "copying"
    /\ Len(content[u]) >= source[u].size
    /\ IF Len(content[u]) = snapshot[u].size THEN Put(u, "copied") ELSE Put(u, "undoing")
    /\ UNCHANGED <<source, snapshot, file, content, meta>> /\ Elsewhere

\* Mutated: the length is proof enough that nothing changed.
Restat_SizeOnly(u) ==
    /\ place[u] = "copied"
    /\ IF source[u].size = snapshot[u].size THEN Put(u, "compared") ELSE Put(u, "undoing")
    /\ UNCHANGED <<source, snapshot, file, content, meta>> /\ Elsewhere

Restat(u) ==
    /\ place[u] = "copied"
    /\ IF source[u] = snapshot[u] THEN Put(u, "compared") ELSE Put(u, "undoing")
    /\ UNCHANGED <<source, snapshot, file, content, meta>> /\ Elsewhere

\* The copy is read back and its format detected, which may throw.
Preflight(u) ==
    /\ place[u] = "compared"
    /\ \/ Len(content[u]) = snapshot[u].size /\ Put(u, "accepted")
       \/ Put(u, "undoing")
    /\ UNCHANGED <<source, snapshot, file, content, meta>> /\ Elsewhere

\* The metadata is put together after the rename, in the same turn.
Publish(u) ==
    /\ place[u] = "accepted"
    /\ \/ /\ Put(u, "closing")
          /\ file' = [file EXCEPT ![u] = "stored"]
          /\ meta' = [meta EXCEPT ![u] = [sha256 |-> content[u], size |-> snapshot[u].size]]
       \/ Put(u, "undoing") /\ UNCHANGED <<file, meta>>
    /\ UNCHANGED <<source, snapshot, content>> /\ Elsewhere

\* The finally of a success: when close throws, the call rejects although the
\* artifact has its name.
Close(u) ==
    /\ place[u] = "closing"
    /\ Put(u, "returned") \/ Put(u, "leftover")
    /\ UNCHANGED <<source, snapshot, file, content, meta>> /\ Elsewhere

\* Mutated: the catch rethrows and removes nothing.
Unlink_Never(u) ==
    /\ place[u] = "undoing"
    /\ Put(u, "failed")
    /\ UNCHANGED <<source, snapshot, file, content, meta>> /\ Elsewhere

\* The catch, whose own failure is ignored, and the finally.
Unlink(u) ==
    /\ place[u] = "undoing"
    /\ \/ /\ Put(u, "failed")
          /\ file' = [file EXCEPT ![u] = "none"]
          /\ content' = [content EXCEPT ![u] = <<>>]
       \/ /\ file[u] # "none"
          /\ Put(u, "leftover")
          /\ UNCHANGED <<file, content>>
    /\ UNCHANGED <<source, snapshot, meta>> /\ Elsewhere

------------------------------------------------------------------------------
\* ArtifactRegistry.

\* Mutated: a handle may be registered again.
Register_Twice(u) ==
    /\ place[u] \in {"returned", "registered"}
    /\ IF meta[u].size > StoreLimit - reservedBytes
       THEN Put(u, IF u \in artifacts THEN "registered" ELSE "refused") /\ UNCHANGED registry
       ELSE /\ artifacts' = artifacts \cup {u}
            /\ reservedBytes' = reservedBytes + meta[u].size
            /\ Put(u, "registered")
    /\ UNCHANGED <<source, snapshot, file, content, meta, vars, jobs, rot>>

\* Called with what intake resolved with, once or again.
Register(u) ==
    /\ place[u] \in {"returned", "registered"}
    /\ IF u \in artifacts \/ meta[u].size > StoreLimit - reservedBytes
       THEN Put(u, IF u \in artifacts THEN "registered" ELSE "refused") /\ UNCHANGED registry
       ELSE /\ artifacts' = artifacts \cup {u}
            /\ reservedBytes' = reservedBytes + meta[u].size
            /\ Put(u, "registered")
    /\ UNCHANGED <<source, snapshot, file, content, meta, vars, jobs, rot>>

Rest == UNCHANGED <<intake, registry, from, rot>>

\* materializePrivateInput up to the call into the workspace: a handle it
\* knows, a file of the registered size.
Materialize(c) ==
    /\ Begin(c)
    /\ \E u \in artifacts :
          /\ from' = [from EXCEPT ![c] = u]
          /\ size'[c] = meta[u].size
          /\ (file[u] = "none" \/ Len(content[u]) # meta[u].size) => pc'[c] = "failed"
    /\ UNCHANGED <<input, intake, registry, rot>>

CopyInput(c) == /\ CopyByte(c)
                /\ file[from[c]] = "stored"
                /\ bytes[c] < Len(content[from[c]])
                /\ input' = [input EXCEPT ![c] = Append(@, content[from[c]][bytes'[c]])]
                /\ Rest

\* Mutated: a copy of the right length is taken for the artifact.
VerifyInput_SizeOnly(c) == Verify(c) /\ UNCHANGED input /\ Rest

VerifyInput(c) == /\ Verify(c)
                  /\ pc'[c] = "done" => input[c] = meta[from[c]].sha256
                  /\ UNCHANGED input /\ Rest

\* cleanupPrivateInput asks for a handle it knows.
CleanupInput(c) == from[c] \in artifacts /\ Cleanup(c) /\ UNCHANGED input /\ Rest

\* The other steps of JobWorkspace touch neither store nor input.
Workspace(c) == /\ \/ ReadScratch(c)
                   \/ \E d \in Calls : ScanEntry(c, d)
                   \/ Admit(c) \/ MakeDirectory(c) \/ CheckDirectory(c)
                   \/ CopyEnds(c) \/ Undo(c)
                /\ UNCHANGED input /\ Rest

------------------------------------------------------------------------------
\* Another program writes to the source of an upload under way: its stamps
\* (inode, mtime, ctime) change with every version.
ChangeSource(u) ==
    /\ place[u] \in {"looked", "copying", "copied"}
    /\ source[u].version < MaxChanges
    /\ \E s \in Sizes : source' = [source EXCEPT ![u] = [version |-> @.version + 1, size |-> s]]
    /\ UNCHANGED <<place, snapshot, file, content, meta>> /\ Elsewhere

\* A stored file is lost, keeps its length and not its bytes, or grows.
Rot(u) ==
    /\ file[u] = "stored" /\ rot < MaxRot
    /\ rot' = rot + 1
    /\ \/ /\ file' = [file EXCEPT ![u] = "none"]
          /\ content' = [content EXCEPT ![u] = <<>>]
       \/ /\ content' = [content EXCEPT ![u] = [i \in DOMAIN @ |-> Rotten]]
          /\ UNCHANGED file
       \/ /\ Len(content[u]) < meta[u].size + MaxGrowth
          /\ content' = [content EXCEPT ![u] = Append(@, Rotten)]
          /\ UNCHANGED file
    /\ UNCHANGED <<place, source, snapshot, meta, vars, registry, jobs>>

\* The server stops, at any await, and starts again with an empty registry.
StoreRestart ==
    /\ Restart
    /\ place' = [u \in Uploads |-> IF place[u] \in {"idle"} \cup Over THEN place[u] ELSE "lost"]
    /\ artifacts' = {} /\ reservedBytes' = 0
    /\ UNCHANGED <<source, snapshot, file, content, meta, jobs, rot>>

StoreNext == \/ \E u \in Uploads : \/ Lstat(u) \/ Open(u) \/ Copy(u) \/ EndOfSource(u)
                                   \/ Restat(u) \/ Preflight(u) \/ Publish(u) \/ Close(u)
                                   \/ Unlink(u) \/ Register(u) \/ ChangeSource(u) \/ Rot(u)
             \/ \E c \in Calls : \/ Materialize(c) \/ CopyInput(c) \/ VerifyInput(c)
                                 \/ CleanupInput(c) \/ Workspace(c)
             \/ StoreRestart

StoreSpec == StoreInit /\ [][StoreNext]_storeVars

------------------------------------------------------------------------------
Byte        == 0..Rotten
Description == [version : 0..MaxChanges, size : Sizes]

StoreTypeOK ==
    /\ TypeOK
    /\ place \in [Uploads -> {"idle", "returned", "registered"} \cup UnderWay \cup Over]
    /\ source \in [Uploads -> Description] /\ snapshot \in [Uploads -> Description]
    /\ file \in [Uploads -> {"none", "partial", "stored"}]
    /\ content \in [Uploads -> Seq(Byte)] /\ \A u \in Uploads : Len(content[u]) <= MaxBytes + MaxGrowth
    /\ meta \in [Uploads -> [sha256 : Seq(Byte), size : Nat]]
    /\ artifacts \subseteq Uploads /\ reservedBytes \in 0..StoreLimit
    /\ from \in [Calls -> Uploads \cup {NoHandle}]
    /\ input \in [Calls -> Seq(Byte)] /\ \A c \in Calls : Len(input[c]) <= size[c] + MaxGrowth
    /\ rot \in 0..MaxRot

Whole(s) == [i \in 1..s.size |-> s.version]

\* An artifact that has its final name is the source as intake first saw it,
\* every byte of it and of one version, although the source may change between
\* any two steps; unless it was written to in the store since.
OneVersionStored ==
    \A u \in Uploads : file[u] = "stored" => \/ content[u] = Whole(snapshot[u])
                                             \/ \E i \in DOMAIN content[u] : content[u][i] = Rotten

\* The workspace a job is given holds exactly the bytes that were uploaded, from
\* the intake's first look at the source to the job's cleanup: no change of the
\* source, rot or growth of the stored file, failed copy or other job shows through.
JobInputIsTheUpload ==
    \A c \in Calls : pc[c] = "done" => c \in present /\ input[c] = Whole(snapshot[from[c]])

\* A file in the store is a registered artifact, belongs to an upload that is
\* not over, or is one of the leftovers the code accepts: of a crash, of a
\* refused registration, of an unlink or a close that failed.
DiskIsAccountedFor ==
    \A u \in Uploads : file[u] # "none" =>
        u \in artifacts \/ place[u] \in UnderWay \cup {"returned", "lost", "refused", "leftover"}

\* The registry's capacity is what its artifacts take, and they have room, were
\* they registered once, again, or beyond the limit.
Registered    == [u \in Uploads |-> meta[u].size]
RegistryExact == /\ reservedBytes = MapThenSumSet(LAMBDA u : Registered[u], artifacts)
                 /\ reservedBytes <= StoreLimit
                 /\ \A u \in artifacts : meta[u].size > 0 /\ place[u] = "registered"

\* Neither counter of bytes drifts: the registry's, and the workspaces' reservation,
\* which is what the calls under way hold plus what the check outside both try
\* blocks has stranded.
CountersExact == RegistryExact /\ ReservationExact

==============================================================================
