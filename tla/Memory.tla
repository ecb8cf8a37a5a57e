------------------------------- MODULE Memory --------------------------------
(***************************************************************************)
(* takt memory: notes of agents and chunks of ingested files, searched by  *)
(* the distance of their embeddings.  A text is a sequence of sentences; a *)
(* file is a sequence of sections or, with the heading in front, of table  *)
(* rows.  Of the embedding (external: the model reads the first 512 tokens *)
(* of a text) only the distance of two texts is known, and different texts *)
(* can be at distance 0.  The commands of several agents share the         *)
(* database.                                                               *)
(***************************************************************************)
EXTENDS Naturals, Sequences, SequencesExt, FiniteSets

CONSTANTS
    Clients,        \* agents, each with one command at a time
    Namespaces,
    Size,           \* of each sentence, in characters
    Documents,      \* the files: [table : BOOLEAN, parts : sequence]
    Notes,          \* the texts of takt memory add
    ChunkMaxChars,  \* _CHUNK_MAX_CHARS
    Distance(_, _), \* of the embeddings of two texts
    MaxDistance,    \* of two unit vectors: the threshold of a search without one
    DedupThreshold, \* _DEDUP_THRESHOLD
    OverFetch,      \* 20: how many times the limit is fetched for a namespace
    MaxLimit,       \* bound: on the --limit of a search
    Thresholds,     \* bound: the --threshold of a search
    MaxEntries,     \* bound: on the entries ever added
    MaxDeletes      \* bound: on the entries deleted

Sentences == DOMAIN Size
Texts == Seq(Sentences)

ASSUME MemoryAssumption ==
    /\ Size \in [Sentences -> Nat] /\ Notes \subseteq Texts
    /\ \A d \in Documents : /\ d.table \in BOOLEAN
                            /\ d.parts \in IF d.table THEN Texts ELSE Seq(Texts)
    /\ ChunkMaxChars \in Nat /\ OverFetch \in Nat \ {0} /\ MaxLimit \in Nat
    /\ MaxDistance \in Nat /\ Thresholds \subseteq Nat /\ DedupThreshold \in Nat \ {0}
    /\ MaxEntries \in Nat /\ MaxDeletes \in Nat

VARIABLES
    schema,     \* the database file has its tables
    model,      \* the embedding model in the cache: "none", "part", "whole"
    entries,    \* the rows, by rowid
    deleted,    \* history: the rows deleted
    added,      \* how many were ever added
    job         \* of each client, the ingest it is at

memoryVars == <<schema, model, entries, deleted, added, job>>

Idle == [at |-> "idle"]
MemoryInit ==
    /\ schema = FALSE /\ model = "none"
    /\ entries = <<>> /\ deleted = {} /\ added = 0
    /\ job = [c \in Clients |-> Idle]

-----------------------------------------------------------------------------
(* Chunks of a file.                                                       *)
Chars(text) == FoldLeft(LAMBDA n, s : n + Size[s], 0, text)

(* _split_if_large: the separators between sentences are not counted once  *)
(* a section is split.                                                     *)
PackSentence(acc, s) ==
    IF acc.length + Size[s] > ChunkMaxChars /\ acc.current # <<>>
    THEN [chunks |-> Append(acc.chunks, acc.current), current |-> <<s>>, length |-> Size[s]]
    ELSE [acc EXCEPT !.current = Append(@, s), !.length = @ + Size[s]]

Packed(section) ==
    LET packed[n \in 0..Len(section)] ==
            IF n = 0 THEN [chunks |-> <<>>, current |-> <<>>, length |-> 0]
            ELSE PackSentence(packed[n - 1], section[n])
    IN  packed[Len(section)]

(* Deviation for the mutants: the last chunk is not flushed.               *)
SplitUnflushed(section) ==
    IF Chars(section) + Len(section) - 1 <= ChunkMaxChars THEN <<section>>
    ELSE Packed(section).chunks

SplitIfLarge(section) ==
    IF Chars(section) + Len(section) - 1 <= ChunkMaxChars THEN <<section>>
    ELSE Append(Packed(section).chunks, Packed(section).current)

(* _chunk_csv: every chunk starts with the heading.                        *)
PackRow(acc, row) ==
    IF acc.length + Size[row] + 1 > ChunkMaxChars /\ Len(acc.current) > 1
    THEN [chunks |-> Append(acc.chunks, acc.current), current |-> <<acc.current[1], row>>,
          length |-> Size[acc.current[1]] + Size[row] + 1]
    ELSE [acc EXCEPT !.current = Append(@, row), !.length = @ + Size[row] + 1]

PackedRows(rows) ==
    LET packed[n \in 1..Len(rows)] ==
            IF n = 1 THEN [chunks |-> <<>>, current |-> <<rows[1]>>, length |-> Size[rows[1]]]
            ELSE PackRow(packed[n - 1], rows[n])
    IN  packed[Len(rows)]

ChunkRows(rows) ==
    LET packed == PackedRows(rows)
    IN  IF Len(packed.current) > 1 THEN Append(packed.chunks, packed.current) ELSE packed.chunks

ChunkFile(d) ==
    IF ~d.table THEN FlattenSeq([i \in DOMAIN d.parts |-> SplitIfLarge(d.parts[i])])
    ELSE IF d.parts = <<>> THEN <<>> ELSE ChunkRows(d.parts)

-----------------------------------------------------------------------------
(* The texts that are ever embedded, and their distances; nearly the same  *)
(* texts are below the threshold, whatever they say.                       *)
Known == Notes \cup UNION {ToSet(ChunkFile(d)) : d \in Documents}

ASSUME DistanceAssumption ==
    \A a, b \in Known : Distance(a, b) \in 0..MaxDistance /\ Distance(a, a) = 0

Same(a, b) == Distance(a, b) < DedupThreshold

(* The n nearest of the rows R, and those within a distance.               *)
Nearer(i, j, query) ==
    LET di == Distance(entries[i].text, query)
        dj == Distance(entries[j].text, query)
    IN  di < dj \/ (di = dj /\ i < j)
Nearest(R, query, n) == {i \in R : Cardinality({j \in R : Nearer(j, i, query)}) < n}
Within(R, query, distance) == {i \in R : Distance(entries[i].text, query) <= distance}

(* What is searched: one namespace or all of them.                         *)
Scopes == {{ns} : ns \in Namespaces} \cup {Namespaces}
RowsOf(scope) == {i \in DOMAIN entries : entries[i].namespace \in scope}

(* Deviation for the mutants: no more than the limit is fetched.           *)
SearchWithinLimit(query, scope, limit, threshold) ==
    Within(Nearest(DOMAIN entries, query, limit) \cap RowsOf(scope), query, threshold)

(* search: the nearest rows of all namespaces are fetched, more than the   *)
(* limit when those of the others are then left out.                       *)
Search(query, scope, limit, threshold) ==
    LET many == IF scope = Namespaces THEN limit ELSE limit * OverFetch
        fetched == Nearest(DOMAIN entries, query, many)
    IN  Within(Nearest(fetched \cap RowsOf(scope), query, limit), query, threshold)

-----------------------------------------------------------------------------
Usable == schema /\ model = "whole"

(* takt memory init; a model file that is there is not downloaded again.   *)
InitDb ==
    /\ schema' = TRUE
    /\ model' = IF model = "none" THEN "whole" ELSE model
    /\ UNCHANGED <<entries, deleted, added, job>>

InitDbKilled ==
    /\ schema' \in {schema, TRUE}
    /\ model' \in IF model = "none" /\ schema' THEN {"none", "part"} ELSE {model}
    /\ UNCHANGED <<entries, deleted, added, job>>

Insert(text, ns) ==
    /\ added < MaxEntries /\ added' = added + 1
    /\ entries' = Append(entries, [text |-> text, namespace |-> ns])

AddEntry ==
    /\ Usable
    /\ \E text \in Notes, ns \in Namespaces : Insert(text, ns)
    /\ UNCHANGED <<schema, model, deleted, job>>

DeleteEntry ==
    /\ schema /\ Cardinality(deleted) < MaxDeletes
    /\ \E i \in DOMAIN entries :
          /\ entries' = RemoveAt(entries, i)
          /\ deleted' = deleted \cup {entries[i]}
    /\ UNCHANGED <<schema, model, added, job>>

(* ingest_file: chunk by chunk, a search and, if nothing is near, an add.  *)
IngestStart(c) ==
    /\ Usable /\ job[c].at \in {"idle", "done"}
    /\ \E d \in Documents, ns \in Namespaces :
          job' = [job EXCEPT ![c] = [at |-> "search", file |-> d, namespace |-> ns, chunks |-> ChunkFile(d)]]
    /\ UNCHANGED <<schema, model, entries, deleted, added>>

IngestSearch(c) ==
    LET chunks == job[c].chunks
        existing == Search(chunks[1], {job[c].namespace}, 1, MaxDistance)
        duplicate == \E i \in existing : Same(entries[i].text, chunks[1])
    IN  /\ job[c].at = "search"
        /\ job' = [job EXCEPT ![c] = IF chunks = <<>> THEN [@ EXCEPT !.at = "done"]
                                    ELSE IF duplicate THEN [@ EXCEPT !.chunks = Tail(chunks)]
                                    ELSE [@ EXCEPT !.at = "add"]]
        /\ UNCHANGED <<schema, model, entries, deleted, added>>

IngestAdd(c) ==
    /\ job[c].at = "add"
    /\ Insert(job[c].chunks[1], job[c].namespace)
    /\ job' = [job EXCEPT ![c].at = "search", ![c].chunks = Tail(@)]
    /\ UNCHANGED <<schema, model, deleted>>

IngestKilled(c) ==
    /\ job[c].at \in {"search", "add"}
    /\ job' = [job EXCEPT ![c] = Idle]
    /\ UNCHANGED <<schema, model, entries, deleted, added>>

MemoryNext ==
    \/ InitDb \/ InitDbKilled \/ AddEntry \/ DeleteEntry
    \/ \E c \in Clients : IngestStart(c) \/ IngestSearch(c) \/ IngestAdd(c) \/ IngestKilled(c)

MemorySpec == MemoryInit /\ [][MemoryNext]_memoryVars

-----------------------------------------------------------------------------
(* When an ingest is done, every sentence of the file, and with a row the  *)
(* heading, is in one of its chunks, and every chunk is an entry of the    *)
(* namespace or nearly the same as one, whatever other agents added        *)
(* meanwhile, unless someone deleted it.  What a chunk says beyond the     *)
(* entry it is nearly the same as is not stored.                           *)
Parts(d) == IF d.table THEN {{d.parts[1], d.parts[i]} : i \in 2..Len(d.parts)}
            ELSE {{s} : s \in UNION {ToSet(d.parts[i]) : i \in DOMAIN d.parts}}

IngestComplete ==
    \A c \in Clients : job[c].at = "done" =>
        LET chunks == ToSet(ChunkFile(job[c].file))
        IN  /\ \A p \in Parts(job[c].file) : \E t \in chunks : p \subseteq ToSet(t)
            /\ \A t \in chunks : \E e \in ToSet(entries) \cup deleted :
                   e.namespace = job[c].namespace /\ Same(e.text, t)

(* A search in a namespace or in all gives the nearest entries there, and  *)
(* as many as it was asked for and there are within the threshold, unless  *)
(* entries of other namespaces, nearer than all that are missed, use up    *)
(* what is fetched.                                                        *)
SearchFinds ==
    \A query \in Notes, scope \in Scopes, limit \in 1..MaxLimit, threshold \in Thresholds :
        LET found == Search(query, scope, limit, threshold)
            missed == Within(RowsOf(scope), query, threshold) \ found
        IN  /\ \A i \in found, j \in missed : Nearer(i, j, query)
            /\ \/ Cardinality(found) = limit
               \/ \A j \in missed :
                     Cardinality({i \in DOMAIN entries \ RowsOf(scope) : Nearer(i, j, query)})
                         > (OverFetch - 1) * limit
=============================================================================
