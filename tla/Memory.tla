------------------------------- MODULE Memory -------------------------------
(* The memory store (s17code/core/memory/store.py, vector_index.py): records *)
(* that supersede one another, documents replaced whole, and the vector      *)
(* sidecar kept in two files beside the database.  Texts are not modelled;   *)
(* of a vector, only the embedding model that made it.  Records are numbered *)
(* in the order of their insertion, the order the table is read in: a list   *)
(* of ids taken from the table is the set of those numbers, and a list of    *)
(* vectors the function that gives each number its vector.                   *)
EXTENDS Naturals, FiniteSets

CONSTANTS
    Documents, Contents,
    Fingerprints,   \* of the embedding models the server may be started with
    MaxRecords,     \* bound: records ever minted
    MaxChunks,      \* bound: chunks of one version
    MaxVersions,    \* bound: versions of all documents
    MaxDeaths       \* bound: crashes

ASSUME MemoryConstants == /\ MaxRecords \in Nat /\ MaxChunks \in Nat
                          /\ MaxVersions \in Nat /\ MaxDeaths \in Nat
                          /\ "none" \notin Documents    \* the doc of a record that is no chunk

VARIABLES
    reliable,       \* the embedder never fails and is never changed
    db,             \* what the connection sees, its open transaction included
    disk,           \* what is committed
    index, ids,     \* the sidecar in memory: vectors, and whose they are
    indexFile, idsFile,
    fingerprint,    \* of the running embedder
    up, deaths, minted,
    acked           \* ghost: records whose write returned

memoryVars == <<reliable, db, disk, index, ids, indexFile, idsFile, fingerprint,
                up, deaths, minted, acked>>
sidecar == <<index, ids, indexFile, idsFile>>

NoRows == [i \in {} |-> "none"]
NoVectors == [i \in {} |-> "none"]

Current(d) == {i \in DOMAIN d.rows : d.rows[i].status = "current"}
Ofs(d, doc) == {i \in Current(d) : d.rows[i].doc = doc}
Active(d, doc) == {v \in d.docs : v.doc = doc /\ v.state = "active"}
Superseded(rows, which) ==
    [i \in DOMAIN rows |-> IF i \in which THEN [rows[i] EXCEPT !.status = "superseded"] ELSE rows[i]]
With(rows, new) == [i \in DOMAIN rows \cup DOMAIN new |-> IF i \in DOMAIN new THEN new[i] ELSE rows[i]]

MemoryInit == /\ reliable \in BOOLEAN
              /\ db = [rows |-> NoRows, docs |-> {}, audits |-> {}]
              /\ disk = db
              /\ index = NoVectors /\ ids = {} /\ indexFile = NoVectors /\ idsFile = {}
              /\ fingerprint \in Fingerprints
              /\ up = TRUE /\ deaths = 0 /\ minted = 0 /\ acked = {}

(* Mutant of InStep: the numbers of records are compared, not their ids.     *)
InStepByCount(d, held) == Cardinality(Current(d)) = Cardinality(held)

(* _ensure_vector_index: nothing to do while the ids are the current ones.   *)
InStep(d, held) == Current(d) = held

(* _unpack_embedding: the vectors this embedding model made.                 *)
Own(d, print) == {i \in Current(d) : d.rows[i].vector = print}

Cuts == {"none", "before", "in_index", "between", "in_ids"}
TornIndex == [i \in {0} |-> "torn"]         \* a file the process died writing
TornIds == {0}

(* _ensure_vector_index on the records d, for an embedder with this print    *)
(* and the sidecar held in memory; the files left when it is cut short by a  *)
(* crash before the first is written, inside of it, between the two or       *)
(* inside the second.  An empty index removes both files.                    *)
EnsureVectorIndex(d, print, vectors, held, cut) ==
    \/ /\ InStep(d, held) \/ cut = "before"
       /\ index' = vectors /\ ids' = held
       /\ UNCHANGED <<indexFile, idsFile>>
    \/ /\ ~InStep(d, held) /\ cut # "before"
       /\ ids' = Own(d, print)
       /\ index' = [i \in ids' |-> print]
       /\ cut \in {"in_index", "in_ids"} => ids' # {}
       /\ indexFile' = IF cut = "in_index" THEN TornIndex ELSE index'
       /\ idsFile' = CASE cut \in {"in_index", "between"} -> idsFile
                       [] cut = "in_ids" -> TornIds
                       [] OTHER -> ids'

(* The database after a call that saw d and committed saved, or died.        *)
Leaves(d, saved, cut) == /\ cut # "none" => deaths < MaxDeaths
                         /\ deaths' = IF cut = "none" THEN deaths ELSE deaths + 1
                         /\ up' = (cut = "none")
                         /\ disk' = saved
                         /\ db' = IF cut = "none" THEN d ELSE saved

(* write: the record is inserted and what it supersedes is marked; then its  *)
(* audit event, whose embedding may raise and leave the transaction open.    *)
Inserted(old) ==
    LET row == [status |-> "current", doc |-> "none", version |-> 0,
                supersedes |-> old, vector |-> fingerprint]
    IN [db EXCEPT !.rows = With(Superseded(db.rows, {old}), [i \in {minted + 1} |-> row])]

MaySupersede(old) == old # 0 => old \in Ofs(db, "none")

Write(old, cut) ==
    LET d == [Inserted(old) EXCEPT !.audits = db.audits \cup {minted + 1}]
    IN /\ up /\ minted < MaxRecords /\ MaySupersede(old)
       /\ minted' = minted + 1
       /\ EnsureVectorIndex(d, fingerprint, index, ids, cut)
       /\ Leaves(d, d, cut)
       /\ acked' = IF cut = "none" THEN acked \cup {minted + 1} ELSE acked
       /\ UNCHANGED <<reliable, fingerprint>>

WriteRaises(old) == /\ up /\ ~reliable /\ minted < MaxRecords /\ MaySupersede(old)
                    /\ minted' = minted + 1
                    /\ db' = Inserted(old)
                    /\ UNCHANGED <<reliable, disk, sidecar, fingerprint, up, deaths, acked>>

(* Mutant of Replaced: the former version's chunks stay current.             *)
ReplacedKeepingChunks(doc) ==
    [db EXCEPT !.docs = (db.docs \ Active(db, doc))
                        \cup {[v EXCEPT !.state = "superseded"] : v \in Active(db, doc)}]
Replaced(doc) ==
    [db EXCEPT !.docs = (db.docs \ Active(db, doc))
                        \cup {[v EXCEPT !.state = "superseded"] : v \in Active(db, doc)},
               !.rows = Superseded(db.rows, Ofs(db, doc))]

(* ingest_document: the version the same content already has is left alone;  *)
(* otherwise the former one is superseded and the new inserted, committed    *)
(* together with whatever transaction was open.                              *)
NewVersion(doc, content, n) ==
    LET old == Active(db, doc)
        version == IF old = {} THEN 1 ELSE (CHOOSE v \in old : TRUE).version + 1
        chunks == [i \in (minted + 1)..(minted + n) |->
                      [status |-> "current", doc |-> doc, version |-> version,
                       supersedes |-> 0, vector |-> fingerprint]]
        entry == [doc |-> doc, version |-> version, state |-> "active", content |-> content, chunks |-> n]
        base == Replaced(doc)
    IN [rows |-> With(base.rows, chunks), docs |-> base.docs \cup {entry},
        audits |-> db.audits \cup DOMAIN chunks]

Unknown(doc, content) == \A v \in Active(db, doc) : v.content # content

IngestDocument(doc, content, n, cut) ==
    LET d == NewVersion(doc, content, n)
    IN /\ up /\ minted + n <= MaxRecords /\ Unknown(doc, content)
       /\ Cardinality(db.docs) < MaxVersions
       /\ minted' = minted + n
       /\ EnsureVectorIndex(d, fingerprint, index, ids, cut)
       /\ Leaves(d, d, cut)
       /\ acked' = IF cut = "none" THEN acked \cup ((minted + 1)..(minted + n)) ELSE acked
       /\ UNCHANGED <<reliable, fingerprint>>

(* An embedding raises: the whole open transaction is rolled back.           *)
IngestRaises(doc, content) ==
    /\ up /\ ~reliable /\ Unknown(doc, content)
    /\ db' = disk
    /\ UNCHANGED <<reliable, disk, sidecar, fingerprint, up, deaths, minted, acked>>

(* search raises when a vector has no id.                                    *)
Searchable == Cardinality(DOMAIN index') <= Cardinality(ids')

(* recall over the facts, the chunks or both: the sidecar is brought in step,*)
(* vectors of another model are made again, one at a time, and committed     *)
(* unless an embedding raises first.                                         *)
Recall(docs, renewed, cut) ==
    LET asked == {i \in Current(db) : db.rows[i].doc \in docs}
        stale == {i \in asked : db.rows[i].vector # fingerprint}
        fresh == [db EXCEPT !.rows =
                     [i \in DOMAIN db.rows |-> IF i \in renewed
                         THEN [db.rows[i] EXCEPT !.vector = fingerprint] ELSE db.rows[i]]]
        saved == IF renewed = stale /\ stale # {} THEN fresh ELSE disk
    IN /\ up /\ asked # {}
       /\ renewed \subseteq stale
       /\ renewed # stale => ~reliable
       /\ EnsureVectorIndex(db, fingerprint, index, ids, cut)
       /\ IF cut = "none" THEN Leaves(fresh, saved, cut) ELSE Leaves(db, disk, cut)
       /\ ~Searchable => renewed = {} /\ saved = disk
       /\ UNCHANGED <<reliable, fingerprint, minted, acked>>

Die == /\ up /\ deaths < MaxDeaths
       /\ up' = FALSE /\ deaths' = deaths + 1 /\ db' = disk
       /\ UNCHANGED <<reliable, disk, sidecar, fingerprint, minted, acked>>

(* The server starts: the sidecar is read when both its files are there, and *)
(* brought in step with the committed records, unless it dies in between.    *)
(* _load raises on a torn file, and no server comes up while it is there.    *)
Start(print, cut) ==
    LET whole == DOMAIN indexFile # {} /\ idsFile # {}
    IN /\ ~up
       /\ whole => indexFile # TornIndex /\ idsFile # TornIds
       /\ reliable => print = fingerprint
       /\ fingerprint' = print
       /\ EnsureVectorIndex(disk, print, IF whole THEN indexFile ELSE NoVectors,
                            IF whole THEN idsFile ELSE {}, cut)
       /\ Leaves(disk, disk, cut)
       /\ UNCHANGED <<reliable, minted, acked>>

MemoryNext ==
    \/ \E old \in 0..MaxRecords : \/ \E cut \in Cuts : Write(old, cut)
                                  \/ WriteRaises(old)
    \/ \E doc \in Documents, content \in Contents :
          \/ \E n \in 0..MaxChunks, cut \in Cuts : IngestDocument(doc, content, n, cut)
          \/ IngestRaises(doc, content)
    \/ \E docs \in {{"none"}, Documents, Documents \cup {"none"}}, renewed \in SUBSET (1..MaxRecords),
          cut \in Cuts : Recall(docs, renewed, cut)
    \/ Die
    \/ \E print \in Fingerprints, cut \in Cuts : Start(print, cut)

MemorySpec == MemoryInit /\ [][MemoryNext]_memoryVars
-----------------------------------------------------------------------------
(* A document is seen in one version, whole: its current chunks are those of *)
(* its active version, all of them, whatever failed, was rolled back or was  *)
(* lost in a crash between two steps.                                        *)
IsWhole(d, doc) ==
    /\ \A v, w \in Active(d, doc) : v = w
    /\ Active(d, doc) = {} => Ofs(d, doc) = {}
    /\ \A v \in Active(d, doc) : /\ Cardinality(Ofs(d, doc)) = v.chunks
                                 /\ \A i \in Ofs(d, doc) : d.rows[i].version = v.version

DocumentIsWhole == \A doc \in Documents : IsWhole(db, doc) /\ IsWhole(disk, doc)

(* No two records supersede the same one.                                    *)
SupersededOnce(d) ==
    \A i, j \in DOMAIN d.rows :
        d.rows[i].supersedes # 0 /\ d.rows[i].supersedes = d.rows[j].supersedes => i = j

(* What a caller was told is written is in the database with its audit event *)
(* after every crash and every rollback, and was superseded at most once.    *)
AcknowledgedIsKept ==
    acked \subseteq disk.audits /\ acked \subseteq DOMAIN disk.rows /\ SupersededOnce(db)

(* The two together: no failed call, rollback or crash loses what was        *)
(* acknowledged or shows a document in two versions (write, ingest_document).*)
RecordsStand == DocumentIsWhole /\ AcknowledgedIsKept

(* With an embedder that does not fail and is not changed, the sidecar has,  *)
(* between two calls, the vector of every current record under its own id,   *)
(* wherever a crash cut the writing of its two files.                        *)
SidecarAgrees == reliable /\ up => /\ ids = Current(db)
                                   /\ index = [i \in ids |-> fingerprint]
=============================================================================
