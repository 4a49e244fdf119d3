----------------------------- MODULE CompoundFile -----------------------------
(* The sector chains of compoundStreams in apps/server/src/security/intake.ts.*)
(* A document is its sector count, its allocation table, the sectors that     *)
(* hold the table, the directory's first sector, and the streams of its       *)
(* directory in their order, each with its first sector and its length in     *)
(* sectors; other fields and names are left out.                              *)
EXTENDS Integers, Sequences, SequencesExt

CONSTANT Files  \* the compound files: the documents

VARIABLES document, \* the document that is read
          reading,  \* what of it: "table", "directory", "streams", or the verdict
          entry,    \* the stream whose chain is followed
          sector,   \* the sector the chain leads to next
          chain     \* the sectors it led through

readVars == <<document, reading, entry, sector, chain>>

ASSUME CompoundFileAssumption ==
    \A f \in Files : /\ f.sectors \in Nat
                     /\ f.streams \in Seq([first : Int, required : Nat \ {0}])

End == -2  \* end of a chain
Fat == -3  \* the entry of a sector of the table itself

\* sector() and next() throw outside the document or the table.
Readable(f, id) == id \in 0..(f.sectors - 1) /\ id \in DOMAIN f.fat

Opened(f) ==
    /\ document = f /\ reading = "table"
    /\ entry = 1 /\ sector = End /\ chain = <<>>

ReadInit == \E f \in Files : Opened(f)

Corrupt == reading' = "corrupt" /\ UNCHANGED <<document, entry, sector, chain>>

\* A chain is begun at its first sector.
BeginChain(what, n, first) ==
    /\ reading' = what /\ entry' = n
    /\ sector' = first /\ chain' = <<>>
    /\ UNCHANGED document

Follow ==
    /\ chain' = Append(chain, sector) /\ sector' = document.fat[sector]
    /\ UNCHANGED <<document, reading, entry>>

TableHolds(f) == \A id \in f.fatIds : Readable(f, id) /\ f.fat[id] = Fat

ReadTable ==
    /\ reading = "table"
    /\ IF TableHolds(document) THEN BeginChain("directory", 1, document.directory) ELSE Corrupt

\* The next stream of the directory, or the end of the document's reading.
NextStream(n) ==
    IF n > Len(document.streams) THEN reading' = "accepted" /\ UNCHANGED <<document, entry, sector, chain>>
    ELSE IF document.streams[n].first < 0 THEN Corrupt
    ELSE BeginChain("streams", n, document.streams[n].first)

\* The directory's chain: a sector seen before, or too many, is corrupt.
DirectoryTurn ==
    /\ reading = "directory" /\ sector # End
    /\ IF sector \in ToSet(chain) \/ Len(chain) >= document.sectors \/ ~Readable(document, sector)
       THEN Corrupt ELSE Follow

DirectoryRead ==
    /\ reading = "directory" /\ sector = End
    /\ IF chain = <<>> THEN Corrupt ELSE NextStream(1)

\* A stream's chain: exactly the sectors its size requires.
StreamTurn ==
    /\ reading = "streams" /\ Len(chain) < document.streams[entry].required
    /\ IF sector \in ToSet(chain) \/ ~Readable(document, sector) THEN Corrupt ELSE Follow

\* Mutated: the chain need not end with the stream.
StreamRead_Longer ==
    /\ reading = "streams" /\ Len(chain) >= document.streams[entry].required
    /\ NextStream(entry + 1)

StreamRead ==
    /\ reading = "streams" /\ Len(chain) >= document.streams[entry].required
    /\ IF sector # End THEN Corrupt ELSE NextStream(entry + 1)

ReadNext == ReadTable \/ DirectoryTurn \/ DirectoryRead \/ StreamTurn \/ StreamRead

ReadSpec == ReadInit /\ [][ReadNext]_readVars

------------------------------------------------------------------------------
\* The reference: a sequence of sectors of the document that the table links from
\* first to End, none of them twice.
IsChain(f, first, c) ==
    /\ c # <<>> /\ c[1] = first
    /\ \A i \in DOMAIN c : Readable(f, c[i])
    /\ \A i \in DOMAIN c : f.fat[c[i]] = IF i < Len(c) THEN c[i + 1] ELSE End
    /\ \A i, j \in DOMAIN c : c[i] = c[j] => i = j

Chains(f) == UNION {[1..n -> 0..(f.sectors - 1)] : n \in 1..f.sectors}

HasDirectory(f) == \E c \in Chains(f) : IsChain(f, f.directory, c)
HasStream(f, s) == \E c \in Chains(f) : IsChain(f, s.first, c) /\ Len(c) = s.required

\* A document is accepted exactly when the directory and every stream are chains
\* of its table, each stream of its own length and none through a sector twice,
\* though the reader follows the links of a table nobody has checked.
ChainsAreReal ==
    reading \in {"accepted", "corrupt"} =>
        (reading = "accepted" <=> /\ TableHolds(document) /\ HasDirectory(document)
                                  /\ \A n \in DOMAIN document.streams : HasStream(document, document.streams[n]))

==============================================================================
