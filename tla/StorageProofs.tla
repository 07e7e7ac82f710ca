------------------------------ MODULE StorageProofs ------------------------------
(***************************************************************************)
(* Proofs about what is kept in two places, written in several steps or    *)
(* read in several pieces: the RCON credentials, for any number of updates *)
(* at once, the schema, for any builds, the extraction of archives of any  *)
(* size, the audit log with its export and its page, for every size of a   *)
(* page and however its rows come in, and the table of login attempts.     *)
(***************************************************************************)
EXTENDS RconCredentials, Migrations, Extraction, AuditTrail, LoginLimiter,
        FiniteSetTheorems, WellFoundedInduction, TLAPS

-----------------------------------------------------------------------------
(* The RCON credentials *)

UpdateRecords ==
  [state : {"none", "encrypted", "written"}, value : Credentials \union {NoRow}]

UpdateOK(r) ==
  r = Waiting \/ (r.state \in {"encrypted", "written"} /\ r.value \in Credentials)

Written(u) == update[u].state = "written"

RconTyped ==
  /\ secret \in Credentials \union {NoRow}
  /\ credentials \in Credentials \union {Environment}
  /\ source = "environment" => credentials = Environment
  /\ update \in [Updates -> UpdateRecords]
  /\ \A u \in Updates : UpdateOK(update[u])
  /\ crossed \in BOOLEAN

(* Unless updates crossed, at most one is between its two writes, and the row is its. *)
OneBetween ==
  ~crossed =>
    /\ \A u, w \in Updates : Written(u) /\ Written(w) => u = w
    /\ \A u \in Updates : Written(u) => update[u].value = secret

RconInv == RconTyped /\ OneBetween /\ CredentialsAgree

LEMMA NoneWaits == Waiting \in UpdateRecords /\ UpdateOK(Waiting) /\ Waiting.state = "none"
  BY DEF Waiting, UpdateRecords, UpdateOK

LEMMA BegunUpdate ==
  ASSUME NEW value \in Credentials
  PROVE  LET r == [state |-> "encrypted", value |-> value]
         IN r \in UpdateRecords /\ UpdateOK(r) /\ r.state = "encrypted"
  BY DEF UpdateRecords, UpdateOK

LEMMA WrittenUpdate ==
  ASSUME NEW r \in UpdateRecords, UpdateOK(r), r.state = "encrypted"
  PROVE  LET w == [r EXCEPT !.state = "written"]
         IN /\ w \in UpdateRecords /\ UpdateOK(w) /\ w.state = "written"
            /\ w.value = r.value /\ r.value \in Credentials
  BY DEF UpdateRecords, UpdateOK, Waiting

LEMMA RconInvInit == RconInit => RconInv
  BY NoneWaits, CredentialConstants
     DEF RconInit, RconInv, RconTyped, OneBetween, Written, CredentialsAgree, Stored

LEMMA BeginKeepsRcon ==
  ASSUME RconInv, NEW u \in Updates, NEW value \in Credentials, BeginUpdate(u, value)
  PROVE  RconInv'
<1> DEFINE r == [state |-> "encrypted", value |-> value]
<1>1. r \in UpdateRecords /\ UpdateOK(r) /\ r.state = "encrypted"
  BY BegunUpdate
<1>2. /\ update[u].state = "none" /\ update' = [update EXCEPT ![u] = r]
      /\ UNCHANGED <<secret, credentials, source, crossed>>
  BY NoneWaits DEF BeginUpdate
<1> HIDE DEF r
<1>3. update \in [Updates -> UpdateRecords]
  BY DEF RconInv, RconTyped
<1>4. \A w \in Updates : update'[w] = IF w = u THEN r ELSE update[w]
  BY <1>2, <1>3
<1>5. RconTyped'
  BY <1>1, <1>2, <1>3, <1>4 DEF RconInv, RconTyped
<1>6. \A w \in Updates : (Written(w)' <=> Written(w)) /\ (Written(w) => update'[w] = update[w])
  BY <1>1, <1>2, <1>4 DEF Written
<1>7. OneBetween'
  BY <1>2, <1>6 DEF RconInv, OneBetween
<1>8. CredentialsAgree'
  BY <1>2, <1>6 DEF RconInv, CredentialsAgree, Written, Stored
<1> QED
  BY <1>5, <1>7, <1>8 DEF RconInv

LEMMA RowKeepsRcon ==
  ASSUME RconInv, NEW u \in Updates, SetServerSecret(u)
  PROVE  RconInv'
<1>1. /\ update \in [Updates -> UpdateRecords] /\ UpdateOK(update[u])
      /\ update[u].state = "encrypted" /\ UNCHANGED <<credentials, source>>
  BY DEF RconInv, RconTyped, SetServerSecret
<1>2. CASE /\ secret' = update[u].value
           /\ update' = [update EXCEPT ![u].state = "written"]
           /\ crossed' = \E w \in Updates \ {u} : update[w].state = "written"
  <2> DEFINE r == [update[u] EXCEPT !.state = "written"]
  <2>1. /\ r \in UpdateRecords /\ UpdateOK(r) /\ r.state = "written"
        /\ r.value = secret' /\ secret' \in Credentials
    BY <1>1, <1>2, WrittenUpdate
  <2>2. update' = [update EXCEPT ![u] = r]
    BY <1>2
  <2> HIDE DEF r
  <2>3. \A w \in Updates : update'[w] = IF w = u THEN r ELSE update[w]
    BY <1>1, <2>2
  <2>4. crossed' \in BOOLEAN
    BY <1>2, Zenon
  <2>5. RconTyped'
    BY <1>1, <2>1, <2>2, <2>3, <2>4 DEF RconInv, RconTyped
  <2>6. ~crossed' => \A w \in Updates \ {u} : ~Written(w)
    BY <1>2, Zenon DEF Written
  <2>7. OneBetween'
    BY <2>1, <2>3, <2>6 DEF OneBetween, Written
  <2>8. CredentialsAgree'
    BY <2>1, <2>3 DEF CredentialsAgree
  <2> QED
    BY <2>5, <2>7, <2>8 DEF RconInv
<1>3. CASE update' = [update EXCEPT ![u] = Waiting] /\ UNCHANGED <<secret, crossed>>
  <2>1. \A w \in Updates : update'[w] = IF w = u THEN Waiting ELSE update[w]
    BY <1>1, <1>3
  <2>2. RconTyped'
    BY <1>1, <1>3, <2>1, NoneWaits DEF RconInv, RconTyped
  <2>3. \A w \in Updates : (Written(w)' <=> Written(w)) /\ (Written(w) => update'[w] = update[w])
    BY <1>1, <2>1, NoneWaits DEF Written
  <2>4. OneBetween'
    BY <1>3, <2>3 DEF RconInv, OneBetween
  <2>5. CredentialsAgree'
    BY <1>1, <1>3, <2>3 DEF RconInv, CredentialsAgree, Written, Stored
  <2> QED
    BY <2>2, <2>4, <2>5 DEF RconInv
<1> QED
  BY <1>2, <1>3 DEF SetServerSecret

LEMMA CopyKeepsRcon ==
  ASSUME RconInv, NEW u \in Updates, ReplaceCopy(u)
  PROVE  RconInv'
<1>1. /\ update \in [Updates -> UpdateRecords] /\ UpdateOK(update[u]) /\ Written(u)
      /\ credentials' = update[u].value /\ source' = "encrypted database"
      /\ update' = [update EXCEPT ![u] = Waiting] /\ UNCHANGED <<secret, crossed>>
  BY DEF RconInv, RconTyped, ReplaceCopy, Written
<1>2. update[u].value \in Credentials
  BY <1>1, NoneWaits DEF UpdateOK, Written
<1>3. \A w \in Updates : update'[w] = IF w = u THEN Waiting ELSE update[w]
  BY <1>1
<1>4. RconTyped'
  BY <1>1, <1>2, <1>3, NoneWaits DEF RconInv, RconTyped
<1>5. \A w \in Updates : (Written(w)' => Written(w) /\ w # u) /\ (w # u => update'[w] = update[w])
  BY <1>3, NoneWaits DEF Written
<1>6. OneBetween'
  BY <1>1, <1>5 DEF RconInv, OneBetween
<1>7. CredentialsAgree'
  BY <1>1, <1>2, CredentialConstants DEF RconInv, OneBetween, CredentialsAgree, Stored
<1> QED
  BY <1>4, <1>6, <1>7 DEF RconInv

LEMMA RestartKeepsRcon == RconInv /\ Restart => RconInv'
  BY NoneWaits, CredentialConstants
     DEF Restart, RconInv, RconTyped, OneBetween, Written, CredentialsAgree, Stored

LEMMA RconInvNext == RconInv /\ [RconNext]_rconVars => RconInv'
<1> SUFFICES ASSUME RconInv, [RconNext]_rconVars PROVE RconInv'
  OBVIOUS
<1>1. ASSUME NEW u \in Updates,
             \/ \E value \in Credentials : BeginUpdate(u, value)
             \/ SetServerSecret(u) \/ ReplaceCopy(u)
      PROVE  RconInv'
  BY <1>1, BeginKeepsRcon, RowKeepsRcon, CopyKeepsRcon
<1>2. CASE UNCHANGED rconVars
  BY <1>2 DEF rconVars, RconInv, RconTyped, OneBetween, Written, CredentialsAgree, Stored
<1> QED
  BY <1>1, <1>2, RestartKeepsRcon DEF RconNext

(* The types of the credentials' row, copy and updates (integration.go). *)
THEOREM RconTypeCorrect == RconSpec => []RconTypeOK
<1>1. RconInv => RconTypeOK
  BY DEF RconInv, RconTyped, UpdateOK, RconTypeOK
<1> QED
  BY <1>1, RconInvInit, RconInvNext, PTL DEF RconSpec

(* However many updates are under way, fail or are cut short: with none between its two
   writes commands are sent with what a restart would load, crossed updates excepted
   (integration.go:96-102). *)
THEOREM RowAndCopyAgree == RconSpec => []CredentialsAgree
<1>1. RconInv => CredentialsAgree
  BY DEF RconInv
<1> QED
  BY <1>1, RconInvInit, RconInvNext, PTL DEF RconSpec

-----------------------------------------------------------------------------
(* The schema *)

Processes ==
  [state : {"down", "migrating", "serving"}, build : Builds \union {0}, migrated : BOOLEAN]

SchemaTyped ==
  /\ applied \in Versions \union {0}
  /\ times \in [Versions -> Nat]
  /\ orphans \in BOOLEAN
  /\ process \in Processes
  /\ process.state = "down" => process = NoProcess
  /\ process.state # "down" => process.build \in Builds
  /\ process.state = "migrating" => applied <= process.build

PragmaTyped == foreignKeys \in BOOLEAN

SchemaInv == SchemaTyped /\ PragmaTyped /\ MigratedOnce /\ ServesItsSchema

LEMMA VersionsAreNumbers ==
  /\ Versions \subseteq Nat \ {0}
  /\ \A b \in Builds : 1..b \subseteq Versions /\ b \in Nat \ {0}
<1>1. \A b \in Builds : b \in Nat \ {0}
  BY BuildConstants
<1>2. \A b \in Builds : 1..b \subseteq Versions
  BY DEF Versions
<1>3. ASSUME NEW v \in Versions
      PROVE  v \in Nat \ {0}
  <2>1. PICK b \in Builds : v \in 1..b
    BY DEF Versions
  <2> QED
    BY <1>1, <2>1
<1> QED
  BY <1>1, <1>2, <1>3

LEMMA DownProcess ==
  NoProcess \in Processes /\ NoProcess.state = "down"
  BY DEF NoProcess, Processes

LEMMA StartedProcess ==
  ASSUME NEW b \in Builds, NEW state \in {"migrating", "serving"}, NEW migrated \in BOOLEAN
  PROVE  LET p == [state |-> state, build |-> b, migrated |-> migrated]
         IN p \in Processes /\ p.state = state /\ p.build = b /\ p.migrated = migrated
  BY DEF Processes

LEMMA ServingProcess ==
  ASSUME NEW p \in Processes
  PROVE  LET s == [p EXCEPT !.state = "serving"]
         IN s \in Processes /\ s.state = "serving" /\ s.build = p.build
  BY DEF Processes

LEMMA SchemaInvInit == SchemaInit => SchemaInv
<1> SUFFICES ASSUME SchemaInit PROVE SchemaInv
  OBVIOUS
<1>1. /\ process = NoProcess /\ foreignKeys = TRUE /\ orphans = FALSE
      /\ applied \in Versions \union {0}
  BY DEF SchemaInit
<1>2. times = [v \in Versions |-> IF v <= applied THEN 1 ELSE 0]
  BY DEF SchemaInit
<1>3. times \in [Versions -> Nat] /\ MigratedOnce
  BY <1>2 DEF MigratedOnce
<1>4. SchemaTyped
  BY <1>1, <1>3, DownProcess DEF SchemaTyped
<1>5. ServesItsSchema
  BY <1>1, DownProcess DEF ServesItsSchema
<1> QED
  BY <1>1, <1>3, <1>4, <1>5 DEF SchemaInv, PragmaTyped

LEMMA OpenKeepsSchema ==
  ASSUME SchemaInv, NEW b \in Builds, OpenStore(b)
  PROVE  SchemaInv'
<1> DEFINE state == IF applied = b THEN "serving" ELSE "migrating"
           migrated == applied < b
           p == [state |-> state, build |-> b, migrated |-> migrated]
<1>1. /\ UNCHANGED <<applied, times, orphans>> /\ applied <= b
      /\ process' = p /\ foreignKeys' = (applied = b)
  BY DEF OpenStore
<1>2. state \in {"migrating", "serving"} /\ migrated \in BOOLEAN
  OBVIOUS
<1>3. (state = "serving" <=> applied = b) /\ (applied = b => ~migrated)
  <2>1. applied = b => ~(applied < b)
    BY VersionsAreNumbers
  <2> QED
    BY <2>1, Zenon
<1> HIDE DEF state, migrated
<1>4. p \in Processes /\ p.state = state /\ p.build = b /\ p.migrated = migrated
  BY <1>2, StartedProcess
<1> HIDE DEF p
<1>5. SchemaTyped'
  BY <1>1, <1>2, <1>4 DEF SchemaInv, SchemaTyped
<1>6. PragmaTyped'
  BY <1>1, Zenon DEF PragmaTyped
<1>7. ServesItsSchema'
  BY <1>1, <1>3, <1>4 DEF ServesItsSchema
<1>8. MigratedOnce'
  BY <1>1 DEF SchemaInv, MigratedOnce
<1> QED
  BY <1>5, <1>6, <1>7, <1>8 DEF SchemaInv

LEMMA ApplyKeepsSchema ==
  ASSUME SchemaInv, ApplyMigration
  PROVE  SchemaInv'
<1>1. /\ UNCHANGED <<process, foreignKeys>> /\ applied' = applied + 1
      /\ times' = [times EXCEPT ![applied + 1] = @ + 1]
      /\ process.state = "migrating" /\ applied < process.build /\ process.build \in Builds
  BY DEF SchemaInv, SchemaTyped, ApplyMigration
<1>2. applied \in Nat /\ applied + 1 \in Versions /\ times \in [Versions -> Nat]
  BY <1>1, VersionsAreNumbers DEF SchemaInv, SchemaTyped
<1>3. times' \in [Versions -> Nat] /\ MigratedOnce'
  <2>1. \A v \in Versions : times'[v] = IF v = applied + 1 THEN times[v] + 1 ELSE times[v]
    BY <1>1, <1>2
  <2>2. \A v \in Versions : v \in Nat /\ (v <= applied' <=> v <= applied \/ v = applied + 1)
    BY <1>1, <1>2, VersionsAreNumbers
  <2>3. MigratedOnce'
    BY <1>2, <2>1, <2>2 DEF SchemaInv, MigratedOnce
  <2> QED
    BY <1>1, <1>2, <2>3
<1>4. orphans' \in BOOLEAN
  BY DEF SchemaInv, SchemaTyped, ApplyMigration
<1>5. applied' \in Versions \union {0} /\ applied' <= process.build
  BY <1>1, <1>2, VersionsAreNumbers
<1>6. SchemaTyped' /\ PragmaTyped'
  BY <1>1, <1>3, <1>4, <1>5 DEF SchemaInv, SchemaTyped, PragmaTyped
<1>7. ServesItsSchema'
  BY <1>1 DEF ServesItsSchema
<1> QED
  BY <1>3, <1>6, <1>7 DEF SchemaInv

LEMMA CheckKeepsSchema ==
  ASSUME SchemaInv, CheckReferences
  PROVE  SchemaInv'
<1> DEFINE p == [process EXCEPT !.state = "serving"]
<1>1. /\ UNCHANGED <<applied, times, orphans>> /\ foreignKeys' = TRUE
      /\ applied = process.build /\ process.state = "migrating"
      /\ process' = IF orphans THEN NoProcess ELSE p
      /\ process \in Processes /\ process.build \in Builds
  BY DEF SchemaInv, SchemaTyped, CheckReferences
<1>2. p \in Processes /\ p.state = "serving" /\ p.build = process.build
  BY <1>1, ServingProcess
<1> HIDE DEF p
<1>3. SchemaTyped'
  BY <1>1, <1>2, DownProcess DEF SchemaInv, SchemaTyped
<1>4. PragmaTyped' /\ MigratedOnce'
  BY <1>1 DEF SchemaInv, PragmaTyped, MigratedOnce
<1>5. ServesItsSchema'
  BY <1>1, <1>2, DownProcess DEF ServesItsSchema
<1> QED
  BY <1>3, <1>4, <1>5 DEF SchemaInv

LEMMA EndKeepsSchema ==
  ASSUME SchemaInv, ProcessEnds
  PROVE  SchemaInv'
  BY DownProcess
     DEF ProcessEnds, SchemaInv, SchemaTyped, PragmaTyped, MigratedOnce, ServesItsSchema

LEMMA SchemaInvNext == SchemaInv /\ [SchemaNext]_schemaVars => SchemaInv'
<1> SUFFICES ASSUME SchemaInv, [SchemaNext]_schemaVars PROVE SchemaInv'
  OBVIOUS
<1>1. CASE UNCHANGED schemaVars
  BY <1>1 DEF schemaVars, SchemaInv, SchemaTyped, PragmaTyped, MigratedOnce, ServesItsSchema
<1> QED
  BY <1>1, OpenKeepsSchema, ApplyKeepsSchema, CheckKeepsSchema, EndKeepsSchema DEF SchemaNext

LEMMA SchemaInvAlways == SchemaSpec => []SchemaInv
  BY SchemaInvInit, SchemaInvNext, PTL DEF SchemaSpec

(* The types of the schema and of the process that opens it (store/migrate.go). *)
THEOREM SchemaTypeCorrect == SchemaSpec => []SchemaTypeOK
<1>1. SchemaInv => SchemaTypeOK
  BY DEF SchemaInv, SchemaTyped, PragmaTyped, Processes, SchemaTypeOK
<1> QED
  BY <1>1, SchemaInvAlways, PTL

(* Whatever builds are started, in whatever order, and wherever they die: every version
   up to the recorded one took effect exactly once, and a process serves the schema it
   was built for, with foreign keys on, and without dangling references if it has
   migrated itself (migrate.go:15-17, 270-305). *)
THEOREM ServesWhatItKnows == SchemaSpec => []SchemaServed
<1>1. SchemaInv => SchemaServed
  BY DEF SchemaInv, SchemaServed
<1> QED
  BY <1>1, SchemaInvAlways, PTL

-----------------------------------------------------------------------------
(* The extraction of an archive *)

Extracting ==
  /\ extracting \in {"running", "extracted", "refused"}
  /\ entries \in 0..MaxEntries

(* The sum never exceeds the limit, so that what is left of it never wraps. *)
Summed == total \in 0..SafeTotal /\ promised \in 0..total /\ onDisk \in Nat

ExtractionInv ==
  /\ Extracting /\ Summed
  /\ onDisk <= promised + 1
  /\ ExtractedAsPromised

LEMMA SmallRemainder ==
  ASSUME NEW m \in Nat \ {0}, NEW a \in 0..(m - 1)
  PROVE  a % m = a
  OBVIOUS

LEMMA Small ==
  ASSUME NEW a \in 0..(Half - 1) PROVE Wrap(a) = a /\ Signed(a) = a
<1>1. 2 * Half \in Nat \ {0} /\ a \in 0..(2 * Half - 1) /\ a < Half
  BY ExtractionConstants
<1>2. a % (2 * Half) = a
  BY <1>1, SmallRemainder
<1> QED
  BY <1>1, <1>2 DEF Wrap, Signed

LEMMA LimitHolds ==
  ASSUME Summed, NEW declared \in Sizes, ~Exceeds(declared)
  PROVE  /\ declared \in Nat /\ Wrap(total + declared) = total + declared
         /\ total + declared \in 0..SafeTotal
         /\ Signed(declared) = declared /\ Signed(Wrap(declared + 1)) = declared + 1
<1>1. SafeTotal \in 0..(Half - 2) /\ declared \in Nat /\ Half \in Nat
  BY ExtractionConstants DEF Sizes
<1>2. ~(declared > Wrap(SafeTotal - total))
  BY DEF Exceeds
<1>3. SafeTotal - total \in 0..(Half - 1)
  BY <1>1 DEF Summed
<1>4. Wrap(SafeTotal - total) = SafeTotal - total
  BY <1>3, Small
<1>5. total + declared \in 0..SafeTotal
  BY <1>1, <1>2, <1>4 DEF Summed
<1>6. total + declared \in 0..(Half - 1) /\ declared \in 0..(Half - 1)
      /\ declared + 1 \in 0..(Half - 1)
  BY <1>1, <1>5 DEF Summed
<1> QED
  BY <1>1, <1>5, <1>6, Small

LEMMA ExtractionInvInit == ExtractionInit => ExtractionInv
  BY ExtractionConstants
     DEF ExtractionInit, ExtractionInv, Extracting, Summed, ExtractedAsPromised

LEMMA EntryKeepsExtraction ==
  ASSUME ExtractionInv,
         \/ SkipEntry \/ RefuseEntry
         \/ \E declared \in Sizes :
              MakeDirectory(declared) \/ \E held \in Held : WriteFile(declared, held)
  PROVE  ExtractionInv'
<1>1. ASSUME NextEntry PROVE entries' \in 0..MaxEntries /\ extracting = "running"
  BY <1>1, ExtractionConstants DEF NextEntry, ExtractionInv, Extracting
<1>2. CASE SkipEntry \/ RefuseEntry
  BY <1>1, <1>2
     DEF SkipEntry, RefuseEntry, ExtractionInv, Extracting, Summed, ExtractedAsPromised
<1>3. ASSUME NEW declared \in Sizes, MakeDirectory(declared) PROVE ExtractionInv'
  BY <1>1, <1>3, LimitHolds
     DEF MakeDirectory, ExtractionInv, Extracting, Summed, ExtractedAsPromised
<1>4. ASSUME NEW declared \in Sizes, NEW held \in Held, WriteFile(declared, held)
      PROVE  ExtractionInv'
  <2> DEFINE written == Copied(held, declared + 1)
  <2>1. entries' \in 0..MaxEntries /\ extracting = "running" /\ onDisk = promised
    BY <1>1, <1>4 DEF WriteFile, ExtractionInv, ExtractedAsPromised
  <2>2. CASE Exceeds(declared)
    BY <1>4, <2>1, <2>2 DEF WriteFile, ExtractionInv, Extracting, Summed, ExtractedAsPromised
  <2>3. CASE ~Exceeds(declared)
    <3>1. /\ total' = total + declared /\ promised' = promised + declared
          /\ onDisk' = onDisk + written
          /\ extracting' = IF written = declared THEN "running" ELSE "refused"
      BY <1>4, <2>3, LimitHolds DEF WriteFile, ExtractionInv
    <3>2. declared \in Nat /\ total + declared \in 0..SafeTotal /\ held \in Nat
      BY <2>3, LimitHolds, ExtractionConstants DEF ExtractionInv
    <3>3. written \in 0..(declared + 1)
      BY <3>2 DEF Copied
    <3> HIDE DEF written
    <3> QED
      BY <2>1, <3>1, <3>2, <3>3
         DEF ExtractionInv, Extracting, Summed, ExtractedAsPromised
  <2> QED
    BY <2>2, <2>3
<1> QED
  BY <1>2, <1>3, <1>4

LEMMA ExtractionInvNext == ExtractionInv /\ [ExtractionNext]_extractionVars => ExtractionInv'
<1> SUFFICES ASSUME ExtractionInv, [ExtractionNext]_extractionVars PROVE ExtractionInv'
  OBVIOUS
<1>1. CASE EndArchive
  BY <1>1 DEF EndArchive, ExtractionInv, Extracting, Summed, ExtractedAsPromised
<1>2. CASE NextArchive
  BY <1>2, ExtractionConstants
     DEF NextArchive, ExtractionInv, Extracting, Summed, ExtractedAsPromised
<1>3. CASE UNCHANGED extractionVars
  BY <1>3 DEF extractionVars, ExtractionInv, Extracting, Summed, ExtractedAsPromised
<1> QED
  BY <1>1, <1>2, <1>3, EntryKeepsExtraction DEF ExtractionNext

LEMMA ExtractionInvAlways == ExtractionSpec => []ExtractionInv
  BY ExtractionInvInit, ExtractionInvNext, PTL DEF ExtractionSpec

(* The types of an extraction; that the sum never wraps is part of them (zip.go). *)
THEOREM ExtractionTypeCorrect == ExtractionSpec => []ExtractionTypeOK
<1>1. ExtractionInv => ExtractionTypeOK
  BY ExtractionConstants DEF ExtractionInv, Extracting, Summed, Sizes, ExtractionTypeOK
<1> QED
  BY <1>1, ExtractionInvAlways, PTL

(* However many entries an archive has and however they lie, no more is written than
   the limit and the byte by which a lie is noticed, and what is not refused holds
   exactly what its entries say (zip.go:50-54, 77-85). *)
THEOREM LiesAreNoticed == ExtractionSpec => []ExtractionHonest
<1>1. ExtractionInv => ExtractionHonest
  BY ExtractionConstants
     DEF ExtractionInv, Extracting, Summed, ExtractedAsPromised, DiskBounded, ExtractionHonest
<1> QED
  BY <1>1, ExtractionInvAlways, PTL

-----------------------------------------------------------------------------
(* The order of the log *)

(* Rows that are told apart by their identities. *)
Ordered(S) ==
  /\ IsFiniteSet(S) /\ S \subseteq Events
  /\ \A x, y \in S : x.id = y.id => x = y

LEMMA TotalOrder ==
  ASSUME NEW S, Ordered(S), NEW x \in S, NEW y \in S
  PROVE  /\ x = y \/ Older(x, y) \/ Older(y, x)
         /\ Older(x, y) => ~Older(y, x) /\ x # y
         /\ \A z \in S : Older(x, y) /\ Older(y, z) => Older(x, z)
<1>1. \A e \in S : e.time \in Int /\ e.id \in Nat
  <2> SUFFICES ASSUME NEW e \in S PROVE e.time \in Int /\ e.id \in Nat
    OBVIOUS
  <2>1. e \in Events
    BY DEF Ordered
  <2> QED
    BY <2>1, AuditConstants DEF Events
<1>2. x.id = y.id => x = y
  BY DEF Ordered
<1> QED
  BY <1>1, <1>2 DEF Older

NewerIn(S, e) ==
  {x \in S \ {e} : x.time > e.time \/ (x.time = e.time /\ x.id > e.id)}

LEMMA NewerIsNotOlder ==
  ASSUME NEW S, Ordered(S), NEW e \in S
  PROVE  NewerIn(S, e) = {x \in S : Older(e, x)}
<1>1. \A x \in S : x.time \in Int /\ x.id \in Nat
  <2> SUFFICES ASSUME NEW x \in S PROVE x.time \in Int /\ x.id \in Nat
    OBVIOUS
  <2>1. x \in Events
    BY DEF Ordered
  <2> QED
    BY <2>1, AuditConstants DEF Events
<1>2. \A x \in S : Older(e, x) => x # e
  BY TotalOrder
<1>3. \A x \in S : x \in NewerIn(S, e) <=> Older(e, x)
  BY <1>1, <1>2 DEF Older, NewerIn
<1> QED
  BY <1>3 DEF NewerIn

(* How many rows are newer is a rank by age. *)
Rank(S, e) == Cardinality(NewerIn(S, e))

LEMMA RankByAge ==
  ASSUME NEW S, Ordered(S)
  PROVE  /\ \A e \in S : Rank(S, e) \in Nat /\ Rank(S, e) < Cardinality(S)
         /\ Cardinality(S) \in Nat
         /\ \A e \in S : Rank(S, e) > 0 => \E x \in S : Older(e, x)
         /\ \A x, y \in S : Older(y, x) <=> Rank(S, x) < Rank(S, y)
<1>1. ASSUME NEW e \in S
      PROVE  /\ IsFiniteSet(NewerIn(S, e)) /\ Rank(S, e) \in Nat
             /\ Rank(S, e) < Cardinality(S) /\ Cardinality(S) \in Nat
  <2>1. IsFiniteSet(S \ {e}) /\ Cardinality(S \ {e}) = Cardinality(S) - 1
    BY FS_RemoveElement DEF Ordered
  <2>2. NewerIn(S, e) \in SUBSET (S \ {e})
    BY DEF NewerIn
  <2>3. /\ IsFiniteSet(NewerIn(S, e))
        /\ Cardinality(NewerIn(S, e)) <= Cardinality(S \ {e})
    BY <2>1, <2>2, FS_Subset
  <2>4. Cardinality(S) \in Nat /\ Cardinality(NewerIn(S, e)) \in Nat
    BY <2>3, FS_CardinalityType DEF Ordered
  <2> QED
    BY <2>1, <2>3, <2>4 DEF Rank
<1>2. ASSUME NEW e \in S, Rank(S, e) > 0
      PROVE  \E x \in S : Older(e, x)
  <2>1. NewerIn(S, e) # {}
    BY <1>2, FS_EmptySet DEF Rank
  <2> QED
    BY <2>1, NewerIsNotOlder
<1>3. ASSUME NEW x \in S, NEW y \in S, Older(y, x)
      PROVE  Rank(S, x) < Rank(S, y)
  <2>1. x \in NewerIn(S, y) /\ NewerIn(S, x) \in SUBSET (NewerIn(S, y) \ {x})
    <3>1. x \in NewerIn(S, y)
      BY <1>3, NewerIsNotOlder
    <3>2. ASSUME NEW z \in NewerIn(S, x)
          PROVE  z \in NewerIn(S, y) \ {x}
      <4>1. z \in S /\ Older(x, z)
        BY NewerIsNotOlder
      <4>2. Older(y, z) /\ z # x
        BY <1>3, <4>1, TotalOrder
      <4> QED
        BY <4>1, <4>2, NewerIsNotOlder
    <3> QED
      BY <3>1, <3>2
  <2>2. /\ IsFiniteSet(NewerIn(S, y) \ {x})
        /\ Cardinality(NewerIn(S, y) \ {x}) = Cardinality(NewerIn(S, y)) - 1
    BY <1>1, <2>1, FS_RemoveElement
  <2>3. Cardinality(NewerIn(S, x)) <= Cardinality(NewerIn(S, y) \ {x})
    BY <2>1, <2>2, FS_Subset
  <2> QED
    BY <1>1, <2>2, <2>3 DEF Rank
<1>4. ASSUME NEW x \in S, NEW y \in S, Rank(S, x) < Rank(S, y)
      PROVE  Older(y, x)
  <2>1. Rank(S, x) \in Nat /\ Rank(S, y) \in Nat
    BY <1>1
  <2>2. x # y /\ ~Older(x, y)
    BY <1>3, <1>4, <2>1
  <2> QED
    BY <2>2, TotalOrder
<1>5. Cardinality(S) \in Nat
  BY FS_CardinalityType DEF Ordered
<1> QED
  BY <1>1, <1>2, <1>3, <1>4, <1>5

LEMMA Least ==
  ASSUME NEW T \in SUBSET Nat, T # {}
  PROVE  \E m \in T : \A k \in T : m <= k
<1>1. PICK m \in T : \A k \in T : <<k, m>> \notin OpToRel(<, Nat)
  BY WFMin, NatLessThanWellFounded, Zenon
<1>2. \A k \in T : ~(k < m)
  BY <1>1, Zenon DEF OpToRel
<1>3. \A k \in T : k \in Nat /\ m \in Nat
  OBVIOUS
<1> QED
  BY <1>2, <1>3

(* The rows of a page are the newest of those it is read from. *)
Top(S, limit) == {e \in S : Rank(S, e) < limit}

IsOldest(S, m) == m \in S /\ \A x \in S : x = m \/ Older(m, x)

LEMMA TopIsNewest ==
  ASSUME NEW S, Ordered(S), NEW limit \in Nat \ {0}
  PROVE  /\ Top(S, limit) \subseteq S /\ IsFiniteSet(Top(S, limit))
         /\ Cardinality(Top(S, limit)) <= limit
         /\ \A e \in S \ Top(S, limit) : \A x \in Top(S, limit) : Older(e, x)
         /\ Cardinality(S) <= limit => Top(S, limit) = S
         /\ Top(S, limit) # {} => \E m : IsOldest(Top(S, limit), m)
         /\ S # {} => Top(S, limit) # {}
<1> DEFINE top == Top(S, limit)
<1>0. /\ \A e \in S : Rank(S, e) \in Nat /\ Rank(S, e) < Cardinality(S)
      /\ Cardinality(S) \in Nat
  BY RankByAge
<1>1. top \subseteq S /\ IsFiniteSet(top)
  <2>1. top \in SUBSET S
    BY DEF Top
  <2> HIDE DEF top
  <2> QED
    BY <2>1, FS_Subset DEF Ordered
<1>2. Cardinality(top) <= limit
  <2> DEFINE g == [x \in top |-> Rank(S, x)]
  <2>1. g \in [top -> 0..(limit - 1)]
    BY <1>0 DEF Top
  <2>2. ASSUME NEW x \in top, NEW y \in top, g[x] = g[y]
        PROVE  x = y
    <3>1. x \in S /\ y \in S /\ Rank(S, x) = Rank(S, y)
      BY <1>1, <2>2
    <3>2. ~Older(x, y) /\ ~Older(y, x)
      BY <1>0, <3>1, RankByAge
    <3> QED
      BY <3>1, <3>2, TotalOrder
  <2> HIDE DEF g, top
  <2>3. g \in Injection(top, 0..(limit - 1))
    BY <2>1, <2>2 DEF Injection, IsInjective
  <2>4. IsFiniteSet(0..(limit - 1)) /\ Cardinality(0..(limit - 1)) = limit
    BY FS_Interval
  <2> QED
    BY <2>3, <2>4, FS_Injection
<1>3. ASSUME NEW e \in S \ top, NEW x \in top
      PROVE  Older(e, x)
  <2>1. x \in S /\ Rank(S, x) < limit /\ ~(Rank(S, e) < limit)
    BY DEF Top
  <2>2. Rank(S, x) < Rank(S, e)
    BY <1>0, <2>1
  <2> QED
    BY <2>1, <2>2, RankByAge
<1>4. Cardinality(S) <= limit => top = S
  BY <1>0 DEF Top
<1>5. ASSUME top # {}
      PROVE  \E m : IsOldest(top, m)
  <2> DEFINE left == {limit - Rank(S, e) : e \in top}
  <2>1. left \in SUBSET Nat /\ left # {}
    BY <1>0, <1>5 DEF Top
  <2> HIDE DEF left
  <2>2. PICK k \in left : \A i \in left : k <= i
    BY <2>1, Least
  <2>3. PICK m \in top : k = limit - Rank(S, m)
    BY <2>2 DEF left
  <2>4. ASSUME NEW x \in top
        PROVE  x = m \/ Older(m, x)
    <3>1. limit - Rank(S, m) <= limit - Rank(S, x)
      BY <2>2, <2>3 DEF left
    <3>2. x \in S /\ m \in S
      BY <1>1
    <3>3. ~(Rank(S, m) < Rank(S, x))
      BY <1>0, <3>1, <3>2
    <3>4. ~Older(x, m)
      BY <3>2, <3>3, RankByAge
    <3> QED
      BY <3>2, <3>4, TotalOrder
  <2> QED
    BY <2>4 DEF IsOldest
<1>6. ASSUME S # {}
      PROVE  top # {}
  <2> DEFINE ranks == {Rank(S, e) : e \in S}
  <2>1. ranks \in SUBSET Nat /\ ranks # {}
    BY <1>0, <1>6
  <2> HIDE DEF ranks
  <2>2. PICK k \in ranks : \A i \in ranks : k <= i
    BY <2>1, Least
  <2>3. PICK m \in S : k = Rank(S, m)
    BY <2>2 DEF ranks
  <2>4. \A x \in S : ~(Rank(S, x) < Rank(S, m))
    BY <1>0, <2>2, <2>3 DEF ranks
  <2>5. \A x \in S : ~Older(m, x)
    BY <2>4, RankByAge
  <2>6. ~(Rank(S, m) > 0)
    BY <2>5, RankByAge
  <2> QED
    BY <1>0, <2>6 DEF Top
<1> QED
  BY <1>1, <1>2, <1>3, <1>4, <1>5, <1>6

-----------------------------------------------------------------------------
(* What one statement reads *)

RowsAfter(rows, f, c) == {e \in Matching(f, rows) : c = NoCursor \/ Older(e, c)}

CursorAt(e) == [time |-> e.time, id |-> e.id]

Cursors == [time : Int, id : Int]

LEMMA CursorIsRow ==
  ASSUME NEW e \in Events
  PROVE  /\ CursorAt(e) # NoCursor /\ CursorAt(e) \in Cursors
         /\ \A x : Older(x, CursorAt(e)) <=> Older(x, e)
<1>1. e.time \in Int /\ e.id \in Nat
  BY AuditConstants DEF Events
<1>2. CursorAt(e).id # NoCursor.id
  BY <1>1 DEF CursorAt, NoCursor
<1> QED
  BY <1>1, <1>2 DEF CursorAt, Cursors, Older

LEMMA OrderedPart ==
  ASSUME NEW S, Ordered(S), NEW T \in SUBSET S
  PROVE  Ordered(T)
  BY FS_Subset DEF Ordered

LEMMA ReadsNewest ==
  ASSUME Ordered(events), NEW f, NEW c, NEW limit \in Nat \ {0}
  PROVE  LET S == RowsAfter(events, f, c)
             read == ListAudit(f, c, limit)
         IN /\ Ordered(S) /\ read.rows = Top(S, limit)
            /\ read.next = NoCursor => read.rows = S
            /\ read.next # NoCursor =>
                 \E m : IsOldest(read.rows, m) /\ read.next = CursorAt(m)
<1> DEFINE S == RowsAfter(events, f, c)
           read == ListAudit(f, c, limit)
           top == Top(S, limit)
           last == CHOOSE e \in top : \A x \in top \ {e} : Older(e, x)
<1>1. Ordered(S)
  <2>1. S \in SUBSET events
    BY DEF RowsAfter, Matching
  <2> HIDE DEF S
  <2> QED
    BY <2>1, OrderedPart
<1>2. /\ read.rows = top
      /\ read.next = IF Cardinality(S) > limit THEN CursorAt(last) ELSE NoCursor
  BY DEF ListAudit, RowsAfter, Top, Rank, NewerIn, CursorAt
<1> HIDE DEF S, read, last
<1>3. Cardinality(S) \in Nat /\ (Cardinality(S) <= limit => top = S) /\ top \subseteq S
  BY <1>1, TopIsNewest, RankByAge
<1>4. ASSUME Cardinality(S) > limit
      PROVE  IsOldest(top, last) /\ CursorAt(last) # NoCursor
  <2>1. S # {}
    BY <1>4, FS_EmptySet
  <2>2. PICK m : IsOldest(top, m)
    BY <1>1, <2>1, TopIsNewest
  <2>3. m \in top /\ \A x \in top \ {m} : Older(m, x)
    BY <2>2 DEF IsOldest
  <2>4. last \in top /\ \A x \in top \ {last} : Older(last, x)
    BY <2>3 DEF last
  <2>5. last \in Events
    BY <1>1, <1>3, <2>4 DEF Ordered
  <2> QED
    BY <2>4, <2>5, CursorIsRow DEF IsOldest
<1>5. CASE Cardinality(S) > limit
  BY <1>1, <1>2, <1>4, <1>5 DEF S, read
<1>6. CASE Cardinality(S) <= limit
  BY <1>1, <1>2, <1>3, <1>6 DEF S, read
<1> QED
  BY <1>3, <1>5, <1>6

(* What several statements have read, of rows that only grow: chunks in the log's
   order down to the cursor, which is their oldest row; of what was known at first
   nothing is left out before the cursor, and nothing at all if there is none. *)
AllOf(chunks) == UNION {chunks[k] : k \in 1..Len(chunks)}

InOrder(chunks) ==
  \A i, j \in 1..Len(chunks) : i < j =>
    \A x \in chunks[i], y \in chunks[j] : Older(y, x) /\ x # y

ReadSoFar(rows, f, chunks, next, known) ==
  /\ chunks \in Seq(SUBSET Matching(f, rows)) /\ known \subseteq Matching(f, rows)
  /\ InOrder(chunks)
  /\ next # NoCursor => \E m : IsOldest(AllOf(chunks), m) /\ next = CursorAt(m)
  /\ \A e \in known \ AllOf(chunks) :
       next # NoCursor /\ \A x \in AllOf(chunks) : Older(e, x)

LEMMA ReadStays ==
  ASSUME NEW rows, NEW more, rows \subseteq more, NEW f, NEW chunks, NEW next, NEW known,
         ReadSoFar(rows, f, chunks, next, known)
  PROVE  ReadSoFar(more, f, chunks, next, known)
<1>1. Matching(f, rows) \subseteq Matching(f, more)
  BY DEF Matching
<1>2. chunks \in Seq(SUBSET Matching(f, more))
  <2>1. chunks \in Seq(SUBSET Matching(f, rows))
    BY DEF ReadSoFar
  <2> QED
    BY <1>1, <2>1
<1> QED
  BY <1>1, <1>2 DEF ReadSoFar

LEMMA NothingRead == \A rows, f : ReadSoFar(rows, f, <<>>, NoCursor, {})
  BY DEF ReadSoFar, InOrder

LEMMA ReadStarts ==
  ASSUME Ordered(events), NEW f, NEW limit \in Nat \ {0}
  PROVE  LET read == ListAudit(f, NoCursor, limit)
         IN /\ ReadSoFar(events, f, <<read.rows>>, read.next, Matching(f, events))
            /\ AllOf(<<read.rows>>) = read.rows
            /\ IsFiniteSet(read.rows) /\ Cardinality(read.rows) <= limit
<1> DEFINE S == RowsAfter(events, f, NoCursor)
           read == ListAudit(f, NoCursor, limit)
           top == read.rows
<1>1. S = Matching(f, events)
  BY DEF RowsAfter
<1>2. /\ Ordered(S) /\ top = Top(S, limit) /\ (read.next = NoCursor => top = S)
      /\ read.next # NoCursor => \E m : IsOldest(top, m) /\ read.next = CursorAt(m)
  BY ReadsNewest
<1>3. /\ top \subseteq S /\ IsFiniteSet(top) /\ Cardinality(top) <= limit
      /\ \A e \in S \ top : \A x \in top : Older(e, x)
  BY <1>2, TopIsNewest
<1> HIDE DEF S, read
<1>4. <<top>> \in Seq(SUBSET S) /\ Len(<<top>>) = 1 /\ <<top>>[1] = top
  BY <1>3
<1>5. AllOf(<<top>>) = top /\ InOrder(<<top>>)
  BY <1>4 DEF AllOf, InOrder
<1> QED
  BY <1>1, <1>2, <1>3, <1>4, <1>5 DEF ReadSoFar, read

LEMMA ReadGoesOn ==
  ASSUME Ordered(events), NEW f, NEW limit \in Nat \ {0}, NEW chunks, NEW next, NEW known,
         ReadSoFar(events, f, chunks, next, known), next # NoCursor
  PROVE  LET read == ListAudit(f, next, limit)
         IN /\ ReadSoFar(events, f, Append(chunks, read.rows), read.next, known)
            /\ AllOf(Append(chunks, read.rows)) = AllOf(chunks) \union read.rows
            /\ IsFiniteSet(read.rows) /\ Cardinality(read.rows) <= limit
            /\ AllOf(chunks) \intersect read.rows = {}
<1> DEFINE S == RowsAfter(events, f, next)
           read == ListAudit(f, next, limit)
           top == read.rows
           all == AllOf(chunks)
           longer == Append(chunks, top)
<1>1. /\ Ordered(S) /\ top = Top(S, limit) /\ (read.next = NoCursor => top = S)
      /\ read.next # NoCursor => \E m : IsOldest(top, m) /\ read.next = CursorAt(m)
  BY ReadsNewest
<1>2. /\ top \subseteq S /\ IsFiniteSet(top) /\ Cardinality(top) <= limit
      /\ \A e \in S \ top : \A x \in top : Older(e, x)
  BY <1>1, TopIsNewest
<1> HIDE DEF read
<1>3. PICK m : IsOldest(all, m) /\ next = CursorAt(m)
  BY DEF ReadSoFar
<1>4. /\ chunks \in Seq(SUBSET Matching(f, events)) /\ Len(chunks) \in Nat
      /\ \A k \in 1..Len(chunks) : chunks[k] \subseteq all
      /\ all \subseteq Matching(f, events) /\ Matching(f, events) \subseteq events
  BY DEF ReadSoFar, AllOf, Matching
<1>5. m \in events /\ m \in Events /\ m \in all
  BY <1>3, <1>4 DEF IsOldest, Ordered
<1>6. S = {e \in Matching(f, events) : Older(e, m)}
  BY <1>3, <1>5, CursorIsRow DEF RowsAfter
<1> HIDE DEF S, all
<1>7. ASSUME NEW e \in S, NEW x \in all
      PROVE  Older(e, x) /\ x # e
  <2>1. e \in events /\ x \in events /\ Older(e, m) /\ (x = m \/ Older(m, x))
    BY <1>3, <1>4, <1>6, <1>7 DEF IsOldest
  <2> QED
    BY <1>5, <2>1, TotalOrder
<1>8. /\ longer \in Seq(SUBSET Matching(f, events)) /\ Len(longer) = Len(chunks) + 1
      /\ longer[Len(chunks) + 1] = top
      /\ \A k \in 1..Len(chunks) : longer[k] = chunks[k]
      /\ \A k \in 1..Len(longer) : k \in 1..Len(chunks) \/ k = Len(chunks) + 1
  BY <1>2, <1>4, <1>6
<1> HIDE DEF longer, top
<1>9. AllOf(longer) = all \union top
  BY <1>4, <1>8 DEF AllOf, all
<1>10. InOrder(longer)
  <2> SUFFICES ASSUME NEW i \in 1..Len(longer), NEW j \in 1..Len(longer), i < j,
                      NEW x \in longer[i], NEW y \in longer[j]
               PROVE  Older(y, x) /\ x # y
    BY DEF InOrder
  <2>1. i \in 1..Len(chunks)
    BY <1>4, <1>8
  <2>2. CASE j \in 1..Len(chunks)
    BY <1>8, <2>1, <2>2 DEF ReadSoFar, InOrder
  <2>3. CASE j = Len(chunks) + 1
    BY <1>2, <1>4, <1>7, <1>8, <2>1, <2>3
  <2> QED
    BY <1>8, <2>2, <2>3
<1>11. ASSUME read.next # NoCursor
       PROVE  \E l : IsOldest(all \union top, l) /\ read.next = CursorAt(l)
  <2>1. PICK l : IsOldest(top, l) /\ read.next = CursorAt(l)
    BY <1>1, <1>11 DEF top
  <2>2. IsOldest(all \union top, l)
    BY <1>2, <1>7, <2>1 DEF IsOldest
  <2> QED
    BY <2>1, <2>2
<1>12. ASSUME NEW e \in known \ (all \union top)
       PROVE  read.next # NoCursor /\ \A x \in all \union top : Older(e, x)
  <2>1. e \in Matching(f, events) /\ \A x \in all : Older(e, x)
    BY <1>12 DEF ReadSoFar, all
  <2>2. e \in S
    BY <1>5, <1>6, <2>1
  <2> QED
    BY <1>1, <1>2, <1>12, <2>1, <2>2 DEF top
<1>13. all \intersect top = {}
  BY <1>2, <1>7
<1> QED
  BY <1>2, <1>8, <1>9, <1>10, <1>11, <1>12, <1>13 DEF ReadSoFar, read, top, longer, all

-----------------------------------------------------------------------------
(* The log and its export *)

Exports ==
  [state : {"none", "writing", "done", "broken"}, filter : Filters,
   chunks : Seq(SUBSET Events), next : Cursors, known : SUBSET Events]

LogOK == clock \in 0..MaxTime /\ Ordered(events)

ExportOK ==
  /\ export \in Exports
  /\ ReadSoFar(events, export.filter, export.chunks, export.next, export.known)
  /\ Cardinality(Exported) <= ExportRows
  /\ export.state = "none" => export = NoExport
  /\ export.state = "done" => export.next = NoCursor \/ Cardinality(Exported) >= ExportRows

LEMMA ExportedRows ==
  ASSUME LogOK, ExportOK
  PROVE  /\ Exported = AllOf(export.chunks) /\ Exported \subseteq events
         /\ IsFiniteSet(Exported) /\ Cardinality(Exported) \in Nat
<1>1. Exported = AllOf(export.chunks)
  BY DEF Exported, AllOf
<1>2. Exported \subseteq events
  BY <1>1 DEF ExportOK, ReadSoFar, AllOf, Matching
<1>3. IsFiniteSet(events) /\ Exported \in SUBSET events
  BY <1>2 DEF LogOK, Ordered
<1> QED
  BY <1>1, <1>2, <1>3, FS_Subset, FS_CardinalityType

LEMMA ExportInOrderAndWhole ==
  ASSUME LogOK, ExportOK
  PROVE  AuditTypeOK /\ ExportInOrder /\ ExportComplete
<1>1. Exported = AllOf(export.chunks) /\ Exported \subseteq events /\ Cardinality(Exported) \in Nat
  BY ExportedRows
<1>2. AuditTypeOK
  BY <1>1 DEF AuditTypeOK, LogOK, ExportOK, Exports, Ordered
<1>3. ExportInOrder
  BY DEF ExportInOrder, ExportOK, ReadSoFar, InOrder
<1>4. ExportComplete
  BY <1>1, AuditConstants DEF ExportComplete, ExportOK, ReadSoFar
<1> QED
  BY <1>2, <1>3, <1>4

LEMMA EmptyExport ==
  /\ NoExport \in Exports /\ NoExport.state = "none" /\ NoExport.filter = "all"
  /\ NoExport.chunks = <<>> /\ NoExport.next = NoCursor /\ NoExport.known = {}
<1>1. NoCursor \in Cursors /\ "all" \in Filters
  BY AuditConstants DEF NoCursor, Cursors
<1> HIDE DEF NoCursor
<1> QED
  BY <1>1 DEF NoExport, Exports

(* An export of these chunks. *)
LEMMA ExportIs ==
  ASSUME NEW e \in Exports, export' = e, Ordered(events), UNCHANGED <<clock, events>>, LogOK,
         ReadSoFar(events, e.filter, e.chunks, e.next, e.known),
         Cardinality(AllOf(e.chunks)) <= ExportRows,
         e.state = "none" => e = NoExport,
         e.state = "done" => e.next = NoCursor \/ Cardinality(AllOf(e.chunks)) >= ExportRows
  PROVE  LogOK' /\ ExportOK'
<1>1. Exported' = AllOf(e.chunks)
  BY DEF Exported, AllOf
<1> QED
  BY <1>1 DEF LogOK, ExportOK

LEMMA NothingExported ==
  ASSUME Ordered(events), UNCHANGED <<clock, events>>, LogOK, export' = NoExport
  PROVE  LogOK' /\ ExportOK'
<1>1. AllOf(NoExport.chunks) = {} /\ Cardinality({}) = 0
  BY EmptyExport, FS_EmptySet DEF AllOf
<1>2. ReadSoFar(events, NoExport.filter, NoExport.chunks, NoExport.next, NoExport.known)
  BY EmptyExport, NothingRead
<1>3. /\ Cardinality(AllOf(NoExport.chunks)) <= ExportRows /\ NoExport \in Exports
      /\ NoExport.state # "done"
  BY <1>1, EmptyExport, AuditConstants
<1> QED
  BY <1>2, <1>3, ExportIs

LEMMA ExportInit == AuditInit => LogOK /\ ExportOK
<1> SUFFICES ASSUME AuditInit PROVE LogOK /\ ExportOK
  OBVIOUS
<1>1. clock = 0 /\ events = {} /\ export = NoExport
  BY DEF AuditInit
<1>2. LogOK
  BY <1>1, AuditConstants, FS_EmptySet DEF LogOK, Ordered
<1>3. Exported = {} /\ Cardinality({}) = 0
  BY <1>1, EmptyExport, FS_EmptySet DEF Exported
<1>4. export \in Exports /\ export.state = "none"
  BY <1>1, EmptyExport
<1>5. ReadSoFar(events, export.filter, export.chunks, export.next, export.known)
  BY <1>1, EmptyExport, NothingRead
<1> QED
  BY <1>1, <1>2, <1>3, <1>4, <1>5, AuditConstants DEF ExportOK

(* Rows are inserted whatever is being read. *)
LEMMA LogGrows ==
  ASSUME LogOK, AuditWrites
  PROVE  LogOK' /\ events \subseteq events' /\ UNCHANGED export
<1>1. CASE Tick
  BY <1>1, AuditConstants DEF Tick, LogOK, Ordered
<1>2. ASSUME NEW id \in EventIds, NEW outcome \in Filters \ {"all"}, NEW lag \in 0..MaxLag,
             WriteAudit(id, outcome, lag)
      PROVE  LogOK' /\ events \subseteq events' /\ UNCHANGED export
  <2> DEFINE e == [time |-> clock - lag, id |-> id, outcome |-> outcome]
  <2>1. /\ events' = events \union {e} /\ UNCHANGED <<clock, export>>
        /\ \A x \in events : x.id # id
    BY <1>2 DEF WriteAudit
  <2>2. e \in Events /\ e.id = id
    BY AuditConstants DEF LogOK, Events
  <2> HIDE DEF e
  <2>3. IsFiniteSet(events')
    BY <2>1, FS_AddElement DEF LogOK, Ordered
  <2>4. \A x, y \in events' : x.id = y.id => x = y
    BY <2>1, <2>2 DEF LogOK, Ordered
  <2> QED
    BY <2>1, <2>2, <2>3, <2>4 DEF LogOK, Ordered
<1> QED
  BY <1>1, <1>2 DEF AuditWrites

LEMMA WritesKeepExport ==
  ASSUME LogOK, ExportOK, AuditWrites
  PROVE  ExportOK'
<1>1. events \subseteq events' /\ UNCHANGED export
  BY LogGrows
<1>2. ReadSoFar(events', export.filter, export.chunks, export.next, export.known)
  BY <1>1, ReadStays DEF ExportOK
<1>3. Exported' = Exported
  BY <1>1 DEF Exported
<1> QED
  BY <1>1, <1>2, <1>3 DEF ExportOK

LEMMA PageTyped ==
  ASSUME LogOK, NEW f, NEW c, NEW limit \in Nat \ {0}
  PROVE  /\ ListAudit(f, c, limit).next \in Cursors
         /\ ListAudit(f, c, limit).rows \subseteq Events
<1> DEFINE read == ListAudit(f, c, limit)
<1>1. /\ Ordered(RowsAfter(events, f, c)) /\ read.rows = Top(RowsAfter(events, f, c), limit)
      /\ read.next # NoCursor => \E m : IsOldest(read.rows, m) /\ read.next = CursorAt(m)
  BY ReadsNewest DEF LogOK
<1> HIDE DEF read
<1>2. read.rows \subseteq Events
  BY <1>1 DEF Top, Ordered
<1>3. read.next # NoCursor => read.next \in Cursors
  BY <1>1, <1>2, CursorIsRow DEF IsOldest
<1>4. NoCursor \in Cursors
  BY DEF NoCursor, Cursors
<1> QED
  BY <1>2, <1>3, <1>4 DEF read

LEMMA ExportKeeps ==
  ASSUME LogOK, ExportOK, ExportNext
  PROVE  LogOK' /\ ExportOK'
<1>0. /\ Ordered(events) /\ export \in Exports /\ Exported = AllOf(export.chunks)
      /\ IsFiniteSet(Exported) /\ Cardinality(Exported) \in Nat
      /\ Cardinality(Exported) <= ExportRows
      /\ ExportPage \in Nat \ {0} /\ ExportRows \in Nat \ {0}
      /\ ReadSoFar(events, export.filter, export.chunks, export.next, export.known)
  BY ExportedRows, AuditConstants DEF LogOK, ExportOK
<1>1. Cardinality(Exported) < ExportRows =>
        ExportLimit \in Nat \ {0} /\ ExportLimit <= ExportRows - Cardinality(Exported)
  BY <1>0 DEF ExportLimit
<1>3. ASSUME NEW filter \in Filters, BeginExport(filter)
      PROVE  LogOK' /\ ExportOK'
  <2> DEFINE first == ListAudit(filter, NoCursor, ExportLimit)
             begun == [state |-> "writing", filter |-> filter, chunks |-> <<first.rows>>,
                       next |-> first.next, known |-> Matching(filter, events)]
  <2>1. export' = begun /\ UNCHANGED <<clock, events>> /\ export = NoExport
    BY <1>3 DEF BeginExport, ExportOK
  <2>2. ExportLimit \in Nat \ {0} /\ ExportLimit <= ExportRows
    <3>1. Exported = {} /\ Cardinality({}) = 0
      BY <2>1, EmptyExport, FS_EmptySet DEF Exported
    <3> QED
      BY <1>0, <1>1, <3>1
  <2>3. /\ ReadSoFar(events, filter, <<first.rows>>, first.next, Matching(filter, events))
        /\ AllOf(<<first.rows>>) = first.rows
        /\ IsFiniteSet(first.rows) /\ Cardinality(first.rows) <= ExportLimit
    BY <1>0, <1>1, <2>2, ReadStarts
  <2>5. first.next \in Cursors /\ first.rows \subseteq Events
    BY <2>2, PageTyped
  <2>6. Cardinality(first.rows) <= ExportRows
    BY <1>0, <1>1, <2>2, <2>3, FS_CardinalityType
  <2> HIDE DEF first
  <2>7. Matching(filter, events) \subseteq Events
    BY <1>0 DEF Ordered, Matching
  <2>8. <<first.rows>> \in Seq(SUBSET Events)
    BY <2>5
  <2>9. /\ begun \in Exports /\ begun.state = "writing" /\ begun.filter = filter
        /\ begun.chunks = <<first.rows>> /\ begun.next = first.next
        /\ begun.known = Matching(filter, events)
    BY <2>5, <2>7, <2>8 DEF Exports
  <2> HIDE DEF begun
  <2> QED
    BY <1>0, <2>1, <2>3, <2>6, <2>9, ExportIs
<1>4. CASE ContinueExport
  <2> DEFINE read == ListAudit(export.filter, export.next, ExportLimit)
             longer == [export EXCEPT !.chunks = Append(@, read.rows), !.next = read.next]
  <2>1. /\ export' = longer /\ UNCHANGED <<clock, events>> /\ export.state = "writing"
        /\ export.next # NoCursor /\ Cardinality(Exported) < ExportRows
    BY <1>4 DEF ContinueExport
  <2>2. /\ ReadSoFar(events, export.filter, Append(export.chunks, read.rows), read.next,
                     export.known)
        /\ AllOf(Append(export.chunks, read.rows)) = Exported \union read.rows
        /\ IsFiniteSet(read.rows) /\ Cardinality(read.rows) <= ExportLimit
        /\ Exported \intersect read.rows = {}
    BY <1>0, <1>1, <2>1, ReadGoesOn
  <2>4. read.next \in Cursors /\ read.rows \subseteq Events
    BY <1>1, <2>1, PageTyped
  <2> HIDE DEF read
  <2>5. Cardinality(Exported \union read.rows) <= ExportRows
    <3>1. Cardinality(Exported \union read.rows)
            = Cardinality(Exported) + Cardinality(read.rows) - Cardinality({})
      BY <1>0, <2>2, FS_Union
    <3>2. Cardinality({}) = 0 /\ Cardinality(read.rows) \in Nat
      BY <2>2, FS_EmptySet, FS_CardinalityType
    <3> QED
      BY <1>0, <1>1, <2>1, <2>2, <3>1, <3>2
  <2>6. Append(export.chunks, read.rows) \in Seq(SUBSET Events)
    <3>1. export.chunks \in Seq(SUBSET Events)
      BY <1>0 DEF Exports
    <3> QED
      BY <2>4, <3>1
  <2>7. /\ longer \in Exports /\ longer.state = export.state /\ longer.filter = export.filter
        /\ longer.chunks = Append(export.chunks, read.rows) /\ longer.next = read.next
        /\ longer.known = export.known
    BY <1>0, <2>4, <2>6 DEF Exports
  <2> HIDE DEF longer
  <2> QED
    BY <1>0, <2>1, <2>2, <2>5, <2>7, ExportIs
<1>5. CASE EndExport \/ BreakExport
  <2>1. PICK s \in {"done", "broken"} :
          /\ export' = [export EXCEPT !.state = s] /\ UNCHANGED <<clock, events>>
          /\ s = "done" => export.next = NoCursor \/ Cardinality(Exported) >= ExportRows
    BY <1>5 DEF EndExport, BreakExport
  <2> DEFINE ended == [export EXCEPT !.state = s]
  <2>2. /\ ended \in Exports /\ ended.state = s /\ ended.filter = export.filter
        /\ ended.chunks = export.chunks /\ ended.next = export.next
        /\ ended.known = export.known
    BY <1>0 DEF Exports
  <2>3. export' = ended
    BY <2>1
  <2> HIDE DEF ended
  <2> QED
    BY <1>0, <2>1, <2>2, <2>3, ExportIs
<1>6. CASE ForgetExport
  BY <1>0, <1>6, NothingExported DEF ForgetExport
<1> QED
  BY <1>3, <1>4, <1>5, <1>6 DEF ExportNext

-----------------------------------------------------------------------------
(* The audit page *)

PageRecords == [rows : SUBSET Events, next : Cursors, known : SUBSET Events]

RowsOf(held) == [k \in 1..Len(held) |-> held[k].rows]

(* The pages held of a filter are one reading of the log. *)
Whole(rows, f, held) ==
  held # <<>> => ReadSoFar(rows, f, RowsOf(held), CursorAfter(held), held[1].known)

Readings == [kind : {"none", "first", "more", "reread"}, got : Seq(PageRecords)]

TrailOf(rows, f, held, r) ==
  /\ held \in Seq(PageRecords) /\ r \in Readings
  /\ Len(held) <= MaxPages
  /\ Whole(rows, f, held) /\ Whole(rows, f, r.got)
  /\ r.kind # "reread" => r.got = <<>>
  /\ r.kind = "first" => held = <<>>
  /\ r.kind = "more" =>
       held # <<>> /\ CursorAfter(held) # NoCursor /\ Len(held) < MaxPages
  /\ r.kind = "reread" =>
       /\ Len(r.got) < Len(held)
       /\ r.got # <<>> => CursorAfter(r.got) # NoCursor

TrailOK ==
  /\ filters \in Filters
  /\ trail \in [Filters -> Seq(PageRecords)] /\ reading \in [Filters -> Readings]
  /\ \A f \in Filters : TrailOf(events, f, trail[f], reading[f])

LEMMA BegunReadings ==
  /\ \A kind \in {"first", "more", "reread"} :
       Begin(kind) \in Readings /\ Begin(kind).kind = kind /\ Begin(kind).got = <<>>
  /\ NotReading \in Readings /\ NotReading.kind = "none" /\ NotReading.got = <<>>
<1>1. <<>> \in Seq(PageRecords)
  OBVIOUS
<1> QED
  BY <1>1 DEF Begin, NotReading, Readings

LEMMA TrailStays ==
  ASSUME NEW rows, NEW more, rows \subseteq more, NEW f, NEW held, NEW r,
         TrailOf(rows, f, held, r)
  PROVE  TrailOf(more, f, held, r)
<1>1. Whole(more, f, held) /\ Whole(more, f, r.got)
  BY ReadStays DEF TrailOf, Whole
<1> QED
  BY <1>1 DEF TrailOf

(* The page that follows those held. *)
PageAfter(f, held) ==
  LET read == ListAudit(f, CursorAfter(held), TrailPage)
  IN [rows |-> read.rows, next |-> read.next,
      known |-> IF CursorAfter(held) = NoCursor THEN Matching(f, events) ELSE {}]

LEMMA RowsTyped ==
  ASSUME NEW held \in Seq(PageRecords)
  PROVE  /\ RowsOf(held) \in Seq(SUBSET Events) /\ Len(RowsOf(held)) = Len(held)
         /\ \A k \in 1..Len(held) : RowsOf(held)[k] = held[k].rows
<1>1. ASSUME NEW k \in 1..Len(held)
      PROVE  held[k].rows \in SUBSET Events
  <2>1. held[k] \in PageRecords
    OBVIOUS
  <2> QED
    BY <2>1 DEF PageRecords
<1> QED
  BY <1>1 DEF RowsOf

LEMMA PageAdded ==
  ASSUME LogOK, NEW f, NEW held \in Seq(PageRecords), Whole(events, f, held),
         held # <<>> => CursorAfter(held) # NoCursor
  PROVE  /\ PageAfter(f, held) \in PageRecords
         /\ PageAfter(f, held).next = ListAudit(f, CursorAfter(held), TrailPage).next
         /\ Append(held, PageAfter(f, held)) \in Seq(PageRecords)
         /\ Len(Append(held, PageAfter(f, held))) = Len(held) + 1
         /\ CursorAfter(Append(held, PageAfter(f, held))) = PageAfter(f, held).next
         /\ Whole(events, f, Append(held, PageAfter(f, held)))
<1> DEFINE c == CursorAfter(held)
           read == ListAudit(f, c, TrailPage)
           p == PageAfter(f, held)
           longer == Append(held, p)
<1>0. TrailPage \in Nat \ {0} /\ Ordered(events)
  BY TrailConstants DEF LogOK
<1>1. read.next \in Cursors /\ read.rows \subseteq Events
  BY <1>0, PageTyped
<1>2. Matching(f, events) \subseteq Events
  BY <1>0 DEF Matching, Ordered
<1> HIDE DEF c, read
<1>3. p = [rows |-> read.rows, next |-> read.next,
           known |-> IF c = NoCursor THEN Matching(f, events) ELSE {}]
  BY DEF PageAfter, c, read
<1>4. /\ p \in PageRecords /\ p.rows = read.rows /\ p.next = read.next
      /\ c = NoCursor => p.known = Matching(f, events)
  BY <1>1, <1>2, <1>3 DEF PageRecords
<1> HIDE DEF p
<1>5. /\ longer \in Seq(PageRecords) /\ Len(longer) = Len(held) + 1 /\ Len(held) \in Nat
      /\ longer[Len(longer)] = p /\ longer # <<>>
      /\ \A k \in 1..Len(held) : longer[k] = held[k]
  BY <1>4
<1>6. RowsOf(longer) = Append(RowsOf(held), read.rows) /\ CursorAfter(longer) = read.next
  <2>1. /\ RowsOf(held) \in Seq(SUBSET Events) /\ Len(RowsOf(held)) = Len(held)
        /\ \A k \in 1..Len(held) : RowsOf(held)[k] = held[k].rows
    BY RowsTyped
  <2>2. /\ Append(RowsOf(held), read.rows) \in Seq(SUBSET Events)
        /\ Len(Append(RowsOf(held), read.rows)) = Len(held) + 1
        /\ Append(RowsOf(held), read.rows)[Len(held) + 1] = read.rows
        /\ \A k \in 1..Len(held) : Append(RowsOf(held), read.rows)[k] = held[k].rows
    BY <1>1, <1>5, <2>1
  <2>3. /\ RowsOf(longer) \in Seq(SUBSET Events) /\ Len(RowsOf(longer)) = Len(held) + 1
        /\ \A k \in 1..(Len(held) + 1) : RowsOf(longer)[k] = longer[k].rows
    <3> HIDE DEF longer
    <3> QED
      BY <1>5, RowsTyped
  <2>4. \A k \in 1..(Len(held) + 1) :
          RowsOf(longer)[k] = Append(RowsOf(held), read.rows)[k]
    <3>1. \A k \in 1..(Len(held) + 1) : k \in 1..Len(held) \/ k = Len(held) + 1
      BY <1>5
    <3> HIDE DEF longer
    <3> QED
      BY <1>4, <1>5, <2>2, <2>3, <3>1
  <2> DEFINE a == RowsOf(longer)
             b == Append(RowsOf(held), read.rows)
  <2> HIDE DEF a, b
  <2>5. a = b
    BY <2>2, <2>3, <2>4 DEF a, b
  <2> QED
    BY <1>4, <1>5, <2>5 DEF a, b, CursorAfter
<1>7. CASE held = <<>>
  <2>1. c = NoCursor /\ longer[1] = p
    BY <1>5, <1>7 DEF c, CursorAfter
  <2>2. RowsOf(held) = <<>>
    BY <1>7 DEF RowsOf
  <2>3. RowsOf(longer) = <<read.rows>>
    BY <1>6, <2>2
  <2>4. ReadSoFar(events, f, <<read.rows>>, read.next, Matching(f, events))
    BY <1>0, <2>1, ReadStarts DEF read
  <2> QED
    BY <1>4, <1>5, <1>6, <2>1, <2>3, <2>4 DEF Whole, read, p, c
<1>8. CASE held # <<>>
  <2>1. c # NoCursor /\ longer[1] = held[1]
        /\ ReadSoFar(events, f, RowsOf(held), c, held[1].known)
    BY <1>5, <1>8 DEF c, Whole
  <2>2. ReadSoFar(events, f, Append(RowsOf(held), read.rows), read.next, held[1].known)
    BY <1>0, <2>1, ReadGoesOn DEF read
  <2> QED
    BY <1>4, <1>5, <1>6, <2>1, <2>2 DEF Whole, read, p, c
<1> QED
  BY <1>7, <1>8

LEMMA OneFilter ==
  ASSUME TrailOK, UNCHANGED events, filters' \in Filters, NEW f \in Filters,
         NEW held, NEW r, TrailOf(events, f, held, r),
         trail' = [trail EXCEPT ![f] = held], reading' = [reading EXCEPT ![f] = r]
  PROVE  TrailOK'
<1>1. held \in Seq(PageRecords) /\ r \in Readings
  BY DEF TrailOf
<1>2. trail' \in [Filters -> Seq(PageRecords)] /\ reading' \in [Filters -> Readings]
  BY <1>1 DEF TrailOK
<1>3. ASSUME NEW g \in Filters
      PROVE  TrailOf(events', g, trail'[g], reading'[g])
  <2>1. CASE g = f
    BY <2>1 DEF TrailOK
  <2>2. CASE g # f
    BY <2>2 DEF TrailOK
  <2> QED
    BY <2>1, <2>2
<1> QED
  BY <1>2, <1>3 DEF TrailOK

(* A fetch of these pages begins, or ends; what is held of the filter stays. *)
LEMMA FetchOnly ==
  ASSUME TrailOK, UNCHANGED <<events, trail>>, filters' \in Filters, NEW f \in Filters,
         NEW r \in Readings, r.got = <<>>, reading' = [reading EXCEPT ![f] = r],
         r.kind = "first" => trail[f] = <<>>,
         r.kind = "more" => /\ trail[f] # <<>> /\ CursorAfter(trail[f]) # NoCursor
                            /\ Len(trail[f]) < MaxPages,
         r.kind = "reread" => trail[f] # <<>>
  PROVE  TrailOK'
<1>1. /\ TrailOf(events, f, trail[f], reading[f]) /\ trail \in [Filters -> Seq(PageRecords)]
      /\ trail[f] \in Seq(PageRecords)
  BY DEF TrailOK
<1>2. Len(trail[f]) \in Nat /\ (trail[f] # <<>> => Len(trail[f]) > 0) /\ Len(<<>>) = 0
  BY <1>1
<1>3. TrailOf(events, f, trail[f], r)
  BY <1>1, <1>2 DEF TrailOf, Whole
<1>4. trail' = [trail EXCEPT ![f] = trail[f]]
  BY <1>1
<1> QED
  BY <1>3, <1>4, OneFilter

LEMMA TrailBegins ==
  ASSUME AuditInit, TrailInit
  PROVE  TrailOK
<1>1. "all" \in Filters /\ MaxPages \in Nat \ {0}
  BY AuditConstants, TrailConstants
<1>2. /\ trail = [f \in Filters |-> <<>>] /\ filters = "all"
      /\ reading = [f \in Filters |-> IF f = "all" THEN Begin("first") ELSE NotReading]
  BY DEF TrailInit
<1>3. <<>> \in Seq(PageRecords) /\ Len(<<>>) = 0
  OBVIOUS
<1>4. ASSUME NEW f \in Filters
      PROVE  TrailOf(events, f, trail[f], reading[f])
  <2>1. trail[f] = <<>> /\ reading[f] \in {Begin("first"), NotReading}
    BY <1>2
  <2> QED
    BY <1>1, <1>3, <2>1, BegunReadings DEF TrailOf, Whole
<1>5. trail \in [Filters -> Seq(PageRecords)] /\ reading \in [Filters -> Readings]
  BY <1>2, <1>3, BegunReadings
<1> QED
  BY <1>1, <1>2, <1>4, <1>5 DEF TrailOK

LEMMA PageRead ==
  ASSUME LogOK, TrailOK, NEW f \in Filters, ReadPage(f)
  PROVE  TrailOK'
<1> DEFINE r == reading[f]
           held == trail[f]
           from == IF r.kind = "reread" THEN r.got ELSE held
           p == PageAfter(f, from)
           longer == Append(from, p)
           got == Append(r.got, p)
           goesOn == [r EXCEPT !.got = got]
<1>1. /\ TrailOf(events, f, held, r) /\ r \in Readings /\ held \in Seq(PageRecords)
      /\ r.got \in Seq(PageRecords)
      /\ trail \in [Filters -> Seq(PageRecords)] /\ reading \in [Filters -> Readings]
  BY DEF TrailOK, Readings
<1>2. /\ events' = events /\ filters' = filters /\ filters \in Filters /\ r # NotReading
  BY DEF ReadPage, auditVars, TrailOK
<1>3. r.kind # "none"
  <2>1. r.kind = "none" => r.got = <<>>
    BY <1>1 DEF TrailOf
  <2>2. r = [kind |-> r.kind, got |-> r.got]
    BY <1>1 DEF Readings
  <2> QED
    BY <1>2, <2>1, <2>2 DEF NotReading
<1>4. Cursor(f) = CursorAfter(from)
  BY DEF Cursor
<1>5. \/ /\ r.kind = "reread" /\ Len(got) < Len(held) /\ p.next # NoCursor
         /\ reading' = [reading EXCEPT ![f] = goesOn] /\ trail' = trail
      \/ /\ ~(r.kind = "reread" /\ Len(got) < Len(held) /\ p.next # NoCursor)
         /\ reading' = [reading EXCEPT ![f] = NotReading]
         /\ trail' = [trail EXCEPT ![f] = longer]
  <2>1. p = [rows |-> ListAudit(f, Cursor(f), TrailPage).rows,
             next |-> ListAudit(f, Cursor(f), TrailPage).next,
             known |-> IF Cursor(f) = NoCursor THEN Matching(f, events) ELSE {}]
    BY <1>4 DEF PageAfter
  <2> DEFINE page == [rows |-> ListAudit(f, Cursor(f), TrailPage).rows,
                      next |-> ListAudit(f, Cursor(f), TrailPage).next,
                      known |-> IF Cursor(f) = NoCursor THEN Matching(f, events) ELSE {}]
             more == Append(reading[f].got, page)
  <2>2. IF /\ reading[f].kind = "reread" /\ Len(more) < Len(trail[f])
           /\ ListAudit(f, Cursor(f), TrailPage).next # NoCursor
          THEN reading' = [reading EXCEPT ![f].got = more] /\ trail' = trail
          ELSE /\ reading' = [reading EXCEPT ![f] = NotReading]
               /\ trail' = [trail EXCEPT ![f] =
                    IF reading[f].kind = "reread" THEN more ELSE Append(@, page)]
    BY DEF ReadPage
  <2>3. page.next = ListAudit(f, Cursor(f), TrailPage).next /\ p = page
    BY <2>1
  <2> HIDE DEF page, p
  <2>4. [reading EXCEPT ![f].got = more] = [reading EXCEPT ![f] = goesOn]
    BY <1>1, <2>3
  <2>5. (IF reading[f].kind = "reread" THEN more ELSE Append(held, page)) = longer
    BY <2>3
  <2> QED
    BY <1>1, <2>2, <2>3, <2>4, <2>5
<1>6. /\ from \in Seq(PageRecords) /\ Whole(events, f, from)
      /\ from # <<>> => CursorAfter(from) # NoCursor
  <2>1. r.kind \in {"first", "more", "reread"}
    BY <1>1, <1>3 DEF Readings
  <2> QED
    BY <1>1, <2>1 DEF TrailOf
<1>7. /\ p \in PageRecords /\ longer \in Seq(PageRecords) /\ Len(longer) = Len(from) + 1
      /\ CursorAfter(longer) = p.next /\ Whole(events, f, longer)
  BY <1>6, PageAdded
<1>8. Len(longer) <= MaxPages
  <2>1. Len(from) \in Nat /\ Len(held) \in Nat /\ MaxPages \in Nat \ {0}
    BY <1>1, <1>6, TrailConstants
  <2>2. r.kind = "first" => Len(from) = 0
    BY <1>1 DEF TrailOf
  <2>3. r.kind = "more" => Len(from) < MaxPages
    BY <1>1 DEF TrailOf
  <2>4. r.kind = "reread" => Len(from) < Len(held) /\ Len(held) <= MaxPages
    BY <1>1 DEF TrailOf
  <2>5. r.kind \in {"first", "more", "reread"}
    BY <1>1, <1>3 DEF Readings
  <2> HIDE DEF from, r, held, longer
  <2> QED
    BY <1>7, <2>1, <2>2, <2>3, <2>4, <2>5
<1> HIDE DEF p
<1>9. CASE /\ r.kind = "reread" /\ Len(got) < Len(held) /\ p.next # NoCursor
           /\ reading' = [reading EXCEPT ![f] = goesOn] /\ trail' = trail
  <2>1. got = longer
    BY <1>9
  <2>2. goesOn \in Readings /\ goesOn.kind = "reread" /\ goesOn.got = got
    BY <1>1, <1>7, <1>9, <2>1 DEF Readings
  <2> HIDE DEF goesOn
  <2>3. TrailOf(events, f, held, goesOn)
    BY <1>1, <1>7, <1>9, <2>1, <2>2 DEF TrailOf
  <2>4. trail' = [trail EXCEPT ![f] = held]
    BY <1>1, <1>9
  <2> QED
    BY <1>2, <1>9, <2>3, <2>4, OneFilter
<1>10. CASE /\ reading' = [reading EXCEPT ![f] = NotReading]
            /\ trail' = [trail EXCEPT ![f] = longer]
  <2>1. TrailOf(events, f, longer, NotReading)
    BY <1>7, <1>8, BegunReadings DEF TrailOf, Whole
  <2> HIDE DEF longer
  <2> QED
    BY <1>2, <1>10, <2>1, OneFilter
<1> QED
  BY <1>5, <1>9, <1>10

LEMMA TrailKeeps ==
  ASSUME LogOK, TrailOK, TrailNext
  PROVE  TrailOK' /\ UNCHANGED auditVars
<1>0. \A f \in Filters : trail[f] \in Seq(PageRecords)
  BY DEF TrailOK
<1>1. ASSUME NEW f \in Filters, ChangeFilters(f)
      PROVE  TrailOK' /\ UNCHANGED auditVars
  <2>1. UNCHANGED <<auditVars, events, trail>> /\ filters' \in Filters
    BY <1>1 DEF ChangeFilters, auditVars
  <2>2. CASE trail[f] = <<>> /\ reading[f] = NotReading
    <3>1. reading' = [reading EXCEPT ![f] = Begin("first")]
      BY <1>1, <2>2 DEF ChangeFilters
    <3> QED
      BY <2>1, <2>2, <3>1, BegunReadings, FetchOnly
  <2>3. CASE ~(trail[f] = <<>> /\ reading[f] = NotReading)
    BY <1>1, <2>1, <2>3 DEF ChangeFilters, TrailOK
  <2> QED
    BY <2>1, <2>2, <2>3
<1>2. CASE LoadMore
  <2>1. /\ UNCHANGED <<auditVars, events, trail, filters>> /\ filters \in Filters
        /\ reading' = [reading EXCEPT ![filters] = Begin("more")]
        /\ trail[filters] # <<>> /\ CursorAfter(trail[filters]) # NoCursor
        /\ Len(trail[filters]) < MaxPages
    BY <1>2 DEF LoadMore, HasNextPage, auditVars, TrailOK
  <2> QED
    BY <2>1, BegunReadings, FetchOnly
<1>3. CASE ReadAgain
  <2>1. /\ UNCHANGED <<auditVars, events, trail, filters>> /\ filters \in Filters
        /\ reading' = [reading EXCEPT ![filters] =
                         Begin(IF trail[filters] = <<>> THEN "first" ELSE "reread")]
    BY <1>3 DEF ReadAgain, auditVars, TrailOK
  <2>2. CASE trail[filters] = <<>>
    BY <2>1, <2>2, BegunReadings, FetchOnly
  <2>3. CASE trail[filters] # <<>>
    BY <2>1, <2>3, BegunReadings, FetchOnly
  <2> QED
    BY <2>1, <2>2, <2>3
<1>4. ASSUME NEW f \in Filters, ReadPage(f)
      PROVE  TrailOK' /\ UNCHANGED auditVars
  BY <1>4, PageRead DEF ReadPage
<1>5. ASSUME NEW f \in Filters, ReadBreaks(f)
      PROVE  TrailOK' /\ UNCHANGED auditVars
  <2>1. /\ UNCHANGED <<auditVars, events, trail, filters>> /\ filters \in Filters
        /\ reading' = [reading EXCEPT ![f] = NotReading]
    BY <1>5 DEF ReadBreaks, auditVars, TrailOK
  <2> QED
    BY <2>1, BegunReadings, FetchOnly
<1> QED
  BY <1>1, <1>2, <1>3, <1>4, <1>5 DEF TrailNext

LEMMA TrailReads ==
  ASSUME LogOK, TrailOK
  PROVE  TrailTypeOK /\ TrailInOrder /\ TrailComplete
<1>1. ASSUME NEW f \in Filters
      PROVE  /\ trail[f] \in Seq(PageRecords) /\ Len(trail[f]) <= MaxPages
             /\ reading[f].kind \in {"none", "first", "more", "reread"}
             /\ trail[f] # <<>> => ReadSoFar(events, f, RowsOf(trail[f]),
                                             CursorAfter(trail[f]), trail[f][1].known)
             /\ RowsOf(trail[f]) \in Seq(SUBSET Events)
             /\ Len(RowsOf(trail[f])) = Len(trail[f])
             /\ \A k \in 1..Len(trail[f]) : RowsOf(trail[f])[k] = trail[f][k].rows
  BY <1>1, RowsTyped DEF TrailOK, TrailOf, Whole, Readings
<1>2. \A f \in Filters : ShownTrail(f) = AllOf(RowsOf(trail[f]))
  BY <1>1 DEF ShownTrail, AllOf
<1>3. TrailTypeOK
  <2>1. ASSUME NEW f \in Filters
        PROVE  ShownTrail(f) \subseteq events
    <3>1. CASE trail[f] = <<>>
      BY <3>1 DEF ShownTrail
    <3>2. CASE trail[f] # <<>>
      <4>1. RowsOf(trail[f]) \in Seq(SUBSET Matching(f, events))
        BY <1>1, <3>2 DEF ReadSoFar
      <4>2. AllOf(RowsOf(trail[f])) \subseteq Matching(f, events)
        BY <4>1 DEF AllOf
      <4> QED
        BY <1>2, <4>2 DEF Matching
    <3> QED
      BY <3>1, <3>2
  <2> QED
    BY <1>1, <2>1 DEF TrailTypeOK, TrailOK
<1>4. TrailInOrder
  <2> SUFFICES ASSUME NEW f \in Filters, NEW i \in 1..Len(trail[f]),
                      NEW j \in 1..Len(trail[f]), i < j
               PROVE  \A x \in trail[f][i].rows, y \in trail[f][j].rows :
                        Older(y, x) /\ x # y
    BY DEF TrailInOrder
  <2>1. trail[f] # <<>>
    BY <1>1
  <2>2. InOrder(RowsOf(trail[f]))
    BY <1>1, <2>1 DEF ReadSoFar
  <2> QED
    BY <1>1, <2>2 DEF InOrder
<1>5. TrailComplete
  <2> SUFFICES ASSUME NEW f \in Filters, trail[f] # <<>>,
                      NEW e \in trail[f][1].known \ ShownTrail(f)
               PROVE  (\A x \in ShownTrail(f) : Older(e, x)) /\ HasNextPage(f)
    BY DEF TrailComplete
  <2> QED
    BY <1>1, <1>2 DEF ReadSoFar, HasNextPage
<1> QED
  BY <1>3, <1>4, <1>5

(* Whatever is inserted while they read, and whatever they read again, the export
   and the page keep to the order of the log and leave no row of it out
   (audit.go:93-119, audit-page.tsx:38). *)
THEOREM LogIsReadWhole == LogSpec => []LogReadWhole
<1> DEFINE Inv == LogOK /\ ExportOK /\ TrailOK
<1>1. AuditInit /\ TrailInit => Inv
  BY ExportInit, TrailBegins
<1>2. Inv /\ [LogNext]_<<auditVars, trailVars>> => Inv'
  <2> SUFFICES ASSUME LogOK, ExportOK, TrailOK, [LogNext]_<<auditVars, trailVars>>
               PROVE  LogOK' /\ ExportOK' /\ TrailOK'
    OBVIOUS
  <2>1. CASE AuditWrites /\ UNCHANGED trailVars
    <3>1. events \subseteq events' /\ UNCHANGED <<filters, trail, reading>>
      BY <2>1, LogGrows DEF trailVars
    <3>2. TrailOK'
      BY <3>1, TrailStays DEF TrailOK
    <3> QED
      BY <2>1, <3>2, LogGrows, WritesKeepExport
  <2>2. CASE ExportNext /\ UNCHANGED trailVars
    <3>1. UNCHANGED <<events, filters, trail, reading>>
      BY <2>2 DEF trailVars, ExportNext, BeginExport, ContinueExport, EndExport,
                  BreakExport, ForgetExport
    <3>2. TrailOK'
      BY <3>1 DEF TrailOK
    <3> QED
      BY <2>2, <3>2, ExportKeeps
  <2>3. CASE TrailNext
    <3>1. TrailOK' /\ UNCHANGED <<clock, events, export>>
      BY <2>3, TrailKeeps DEF auditVars
    <3>2. LogOK' /\ ExportOK'
      BY <3>1 DEF LogOK, ExportOK, Exported
    <3> QED
      BY <3>1, <3>2
  <2>4. CASE UNCHANGED <<auditVars, trailVars>>
    <3>1. UNCHANGED <<clock, events, export, filters, trail, reading>>
      BY <2>4 DEF auditVars, trailVars
    <3> QED
      BY <3>1 DEF LogOK, ExportOK, Exported, TrailOK
  <2> QED
    BY <2>1, <2>2, <2>3, <2>4 DEF LogNext
<1>3. Inv => LogReadWhole
  BY ExportInOrderAndWhole, TrailReads DEF LogReadWhole
<1> HIDE DEF Inv
<1> QED
  BY <1>1, <1>2, <1>3, PTL DEF LogSpec

-----------------------------------------------------------------------------
(* The login limiter *)

Histories == {h \in [Lasts -> 0..Long] : \A i, j \in Lasts : i <= j => h[i] <= h[j]}

Windows == [started : Int, count : 1..Limit]

Recent == {c \in Keys : passed[c][1] < Long}

(* What stands in a window, of the attempts let through and of the time now: its
   first attempt came no earlier than the window began and no later than its caller
   waited for the lock, ... *)
WindowBegan(w, h, now) ==
  /\ w.started \in -MaxLate..now
  /\ h[w.count] <= now - w.started
  /\ h[w.count] = Long \/ h[w.count] >= now - w.started - MaxLate

(* ... and of the attempts before it all but the last few are long ago. *)
LongAgo(h, n) == \A i \in Lasts : i >= n + Limit => h[i] >= Window - MaxLate

LimiterInv ==
  /\ tick \in 0..MaxTick /\ refused \subseteq Keys
  /\ attempts \in [Known -> Windows] /\ Known \subseteq Keys
  /\ IsFiniteSet(Known) /\ Cardinality(Known) <= MaxKeys
  /\ passed \in [Keys -> Histories] /\ IsFiniteSet(Recent)
  /\ \A k \in Known :
       WindowBegan(attempts[k], passed[k], tick) /\ LongAgo(passed[k], attempts[k].count)
  /\ \A k \in Keys \ Known : LongAgo(passed[k], 0)
  /\ RefusedForCause

LEMMA LimiterNumbers ==
  /\ Limit \in Nat \ {0} /\ MaxKeys \in Nat \ {0} /\ Window \in Nat \ {0}
  /\ MaxLate \in 0..(Window - 1) /\ MaxTick \in Nat
  /\ Long \in Nat \ {0} /\ Long = Window + MaxLate
  /\ 1 \in Lasts /\ Limit \in Lasts /\ 2 * Limit + 1 \in Lasts
  /\ \A i \in Lasts : i \in Nat \ {0} /\ (i # 1 => i - 1 \in Lasts)
  BY LimiterConstants DEF Long, Lasts

LEMMA HistoryNumbers ==
  ASSUME NEW h \in Histories
  PROVE  /\ \A i \in Lasts : h[i] \in Int /\ 0 <= h[i] /\ h[i] <= Long
         /\ \A i, j \in Lasts : i <= j => h[i] <= h[j]
  BY LimiterNumbers DEF Histories

(* The attempts of a key after one more. *)
OneMore(h) == [i \in Lasts |-> IF i = 1 THEN 0 ELSE h[i - 1]]

LEMMA OneMoreIs ==
  ASSUME NEW h \in Histories
  PROVE  /\ OneMore(h) \in Histories
         /\ OneMore(h)[1] = 0
         /\ \A i \in Lasts : i # 1 => OneMore(h)[i] = h[i - 1]
<1>1. /\ \A i \in Lasts : OneMore(h)[i] = IF i = 1 THEN 0 ELSE h[i - 1]
      /\ OneMore(h) = [i \in Lasts |-> OneMore(h)[i]]
  BY DEF OneMore
<1>2. OneMore(h)[1] = 0 /\ \A i \in Lasts : i # 1 => OneMore(h)[i] = h[i - 1]
  BY <1>1, LimiterNumbers
<1>3. \A i \in Lasts : OneMore(h)[i] \in 0..Long
  BY <1>2, LimiterNumbers, HistoryNumbers
<1>4. ASSUME NEW i \in Lasts, NEW j \in Lasts, i <= j
      PROVE  OneMore(h)[i] <= OneMore(h)[j]
  <2>1. CASE i = 1
    BY <1>2, <1>3, <2>1
  <2>2. CASE i # 1
    <3>1. j # 1 /\ i - 1 \in Lasts /\ j - 1 \in Lasts /\ i - 1 <= j - 1
      BY <1>4, <2>2, LimiterNumbers
    <3> QED
      BY <1>2, <2>2, <3>1, HistoryNumbers
  <2> QED
    BY <2>1, <2>2
<1>5. OneMore(h) \in [Lasts -> 0..Long]
  BY <1>1, <1>3
<1> QED
  BY <1>2, <1>4, <1>5 DEF Histories

(* The attempts of a key a moment later. *)
Aged(h) == [i \in Lasts |-> IF h[i] < Long THEN h[i] + 1 ELSE Long]

LEMMA AgedIs ==
  ASSUME NEW h \in Histories
  PROVE  /\ Aged(h) \in Histories
         /\ \A i \in Lasts : /\ Aged(h)[i] >= h[i] /\ Aged(h)[i] <= h[i] + 1
                             /\ Aged(h)[i] = Long \/ Aged(h)[i] = h[i] + 1
<1>1. \A i \in Lasts : Aged(h)[i] = IF h[i] < Long THEN h[i] + 1 ELSE Long
  BY DEF Aged
<1>2. \A i \in Lasts : Aged(h)[i] \in 0..Long
  BY <1>1, LimiterNumbers, HistoryNumbers
<1>3. \A i, j \in Lasts : i <= j => Aged(h)[i] <= Aged(h)[j]
  BY <1>1, LimiterNumbers, HistoryNumbers
<1>4. \A i \in Lasts : /\ Aged(h)[i] >= h[i] /\ Aged(h)[i] <= h[i] + 1
                       /\ Aged(h)[i] = Long \/ Aged(h)[i] = h[i] + 1
  BY <1>1, LimiterNumbers, HistoryNumbers
<1>5. Aged(h) \in [Lasts -> 0..Long]
  BY <1>2 DEF Aged
<1> QED
  BY <1>3, <1>4, <1>5 DEF Histories

LEMMA NothingPassed ==
  NonePassed \in Histories /\ LongAgo(NonePassed, 0) /\ NonePassed[1] = Long
  BY LimiterNumbers DEF NonePassed, Histories, LongAgo

(* A window that is over began long enough ago. *)
LEMMA OverLongAgo ==
  ASSUME LimiterInv, NEW k \in Known, NEW late \in 0..MaxLate, Dead(k, tick - late)
  PROVE  LongAgo(passed[k], 0)
<1> DEFINE h == passed[k]
           w == attempts[k]
<1>1. h \in Histories /\ w \in Windows /\ WindowBegan(w, h, tick) /\ tick \in Int
  BY LimiterNumbers DEF LimiterInv
<1>2. w.started \in Int /\ w.count \in 1..Limit /\ w.count \in Lasts
  BY <1>1, LimiterNumbers DEF Windows, Lasts
<1>3. tick - late - w.started >= Window
  BY DEF Dead
<1> HIDE DEF h, w
<1>4. h[w.count] >= Window - MaxLate
  BY <1>1, <1>2, <1>3, LimiterNumbers, HistoryNumbers DEF WindowBegan
<1>5. \A i \in Lasts : i >= 0 + Limit => h[i] >= Window - MaxLate
  <2> SUFFICES ASSUME NEW i \in Lasts, i >= 0 + Limit
               PROVE  h[i] >= Window - MaxLate
    OBVIOUS
  <2>1. w.count <= i /\ h[w.count] <= h[i]
    <3>1. w.count <= i
      BY <1>2, LimiterNumbers
    <3> QED
      BY <1>1, <1>2, <3>1, HistoryNumbers
  <2>2. h[i] \in Int /\ h[w.count] \in Int
    BY <1>1, <1>2, HistoryNumbers
  <2> QED
    BY <1>4, <2>1, <2>2, LimiterNumbers
<1>6. LongAgo(h, 0)
  BY <1>5 DEF LongAgo
<1> QED
  BY <1>6 DEF h

(* What is left of the table for a key. *)
LEMMA TableIs ==
  ASSUME LimiterInv, NEW k \in Keys, NEW late \in 0..MaxLate
  PROVE  LET table == TableFor(k, tick - late)
         IN /\ DOMAIN table \subseteq Known /\ table = [c \in DOMAIN table |-> attempts[c]]
            /\ IsFiniteSet(DOMAIN table) /\ Cardinality(DOMAIN table) <= MaxKeys
            /\ \A c \in Known \ DOMAIN table : LongAgo(passed[c], 0)
            /\ k \in Known => table = attempts
            /\ (k \notin Known /\ Cardinality(DOMAIN table) >= MaxKeys) =>
                 \A c \in DOMAIN table : ~Dead(c, tick - late)
<1> DEFINE now == tick - late
           live == {x \in Known : ~Dead(x, now)}
           purged == [c \in live |-> attempts[c]]
<1>1. attempts = [c \in Known |-> attempts[c]] /\ IsFiniteSet(Known)
      /\ Cardinality(Known) <= MaxKeys /\ Cardinality(Known) \in Nat
  BY FS_CardinalityType DEF LimiterInv
<1>2. CASE ~(k \notin Known /\ Cardinality(Known) >= MaxKeys)
  <2>1. TableFor(k, now) = attempts /\ DOMAIN attempts = Known
    BY <1>2 DEF TableFor, Known
  <2> QED
    BY <1>1, <1>2, <2>1
<1>3. CASE k \notin Known /\ Cardinality(Known) >= MaxKeys
  <2>1. TableFor(k, now) = purged /\ DOMAIN purged = live
    BY <1>3 DEF TableFor
  <2>2. live \in SUBSET Known
    OBVIOUS
  <2>3. \A c \in Known \ live : LongAgo(passed[c], 0)
    BY OverLongAgo
  <2>4. \A c \in live : ~Dead(c, now)
    OBVIOUS
  <2>5. purged = [c \in live |-> attempts[c]]
    OBVIOUS
  <2> HIDE DEF live, purged
  <2>6. IsFiniteSet(live) /\ Cardinality(live) <= Cardinality(Known)
        /\ Cardinality(live) \in Nat
    BY <1>1, <2>2, FS_Subset, FS_CardinalityType
  <2> QED
    BY <1>1, <1>3, <2>1, <2>2, <2>3, <2>4, <2>5, <2>6, LimiterNumbers
<1> QED
  BY <1>2, <1>3
(* An attempt is let through: the window it is counted in is in the table. *)
LEMMA LetThroughKeeps ==
  ASSUME LimiterInv, NEW k \in Keys, NEW late \in 0..MaxLate, NEW w \in Windows,
         LetThrough(k, TableFor(k, tick - late), w),
         k \in Known \/ Cardinality(DOMAIN TableFor(k, tick - late)) < MaxKeys,
         WindowBegan(w, OneMore(passed[k]), tick), LongAgo(OneMore(passed[k]), w.count)
  PROVE  LimiterInv'
<1> DEFINE table == TableFor(k, tick - late)
           kept == DOMAIN table
           more == OneMore(passed[k])
<1>1. /\ kept \subseteq Known /\ table = [c \in kept |-> attempts[c]]
      /\ IsFiniteSet(kept) /\ Cardinality(kept) <= MaxKeys
      /\ \A c \in Known \ kept : LongAgo(passed[c], 0)
      /\ k \in Known => table = attempts
      /\ k \in Known \/ Cardinality(kept) < MaxKeys
  BY TableIs
<1>2. k \in Known => k \in kept
  BY <1>1 DEF Known
<1>3. /\ attempts' = [c \in kept \union {k} |-> IF c = k THEN w ELSE table[c]]
      /\ passed' = [passed EXCEPT ![k] = more]
      /\ refused' = {} /\ tick' = tick
  BY DEF LetThrough, OneMore
<1>4. /\ passed \in [Keys -> Histories] /\ passed[k] \in Histories
      /\ attempts \in [Known -> Windows] /\ Known \subseteq Keys /\ IsFiniteSet(Recent)
  BY DEF LimiterInv
<1>5. more \in Histories /\ more[1] = 0
  BY <1>4, OneMoreIs
<1> HIDE DEF table, kept, more
<1>6. /\ Known' = kept \union {k} /\ Known' \subseteq Keys
      /\ IsFiniteSet(Known') /\ Cardinality(Known') <= MaxKeys
  <2>1. Known' = kept \union {k} /\ Known' \subseteq Keys
    BY <1>1, <1>3, <1>4 DEF Known
  <2>2. CASE k \in kept
    <3>1. Known' = kept
      BY <2>1, <2>2
    <3> QED
      BY <1>1, <2>1, <3>1
  <2>3. CASE k \notin kept
    <3>1. Cardinality(kept) < MaxKeys
      BY <1>1, <1>2, <2>3
    <3>2. IsFiniteSet(kept \union {k}) /\ Cardinality(kept \union {k}) = Cardinality(kept) + 1
      BY <1>1, <2>3, FS_AddElement
    <3>3. Cardinality(kept) \in Nat
      BY <1>1, FS_CardinalityType
    <3> QED
      BY <2>1, <3>1, <3>2, <3>3, LimiterNumbers
  <2> QED
    BY <2>2, <2>3
<1>7. /\ attempts'[k] = w
      /\ \A c \in kept \ {k} : attempts'[c] = attempts[c]
  BY <1>1, <1>3
<1>8. attempts' \in [Known' -> Windows]
  <2>1. ASSUME NEW c \in kept \union {k}
        PROVE  attempts'[c] \in Windows
    <3>1. CASE c = k
      BY <1>7, <3>1
    <3>2. CASE c # k
      BY <1>1, <1>4, <1>7, <2>1, <3>2
    <3> QED
      BY <3>1, <3>2
  <2> QED
    BY <1>3, <1>6, <2>1
<1>9. passed' \in [Keys -> Histories] /\ passed'[k] = more
      /\ \A c \in Keys \ {k} : passed'[c] = passed[c]
  BY <1>3, <1>4, <1>5
<1>10. IsFiniteSet(Recent')
  <2>1. Recent' \in SUBSET (Recent \union {k})
    BY <1>9 DEF Recent
  <2>2. IsFiniteSet(Recent \union {k})
    BY <1>4, FS_AddElement
  <2> HIDE DEF Recent
  <2> QED
    BY <2>1, <2>2, FS_Subset
<1>11. ASSUME NEW c \in Known'
       PROVE  WindowBegan(attempts'[c], passed'[c], tick')
              /\ LongAgo(passed'[c], attempts'[c].count)
  <2>1. CASE c = k
    BY <1>3, <1>7, <1>9, <2>1 DEF more
  <2>2. CASE c # k
    <3>1. c \in kept \ {k} /\ c \in Known /\ c \in Keys \ {k}
      BY <1>1, <1>4, <1>6, <2>2
    <3>2. attempts'[c] = attempts[c] /\ passed'[c] = passed[c]
      BY <1>7, <1>9, <3>1
    <3> QED
      BY <1>3, <3>1, <3>2 DEF LimiterInv
  <2> QED
    BY <2>1, <2>2
<1>12. ASSUME NEW c \in Keys \ Known'
       PROVE  LongAgo(passed'[c], 0)
  <2>1. c \in Keys \ {k} /\ c \notin kept
    BY <1>6
  <2>2. LongAgo(passed[c], 0)
    BY <1>1, <2>1 DEF LimiterInv
  <2> QED
    BY <1>9, <2>1, <2>2
<1>13. RefusedForCause'
  BY <1>3 DEF RefusedForCause
<1> QED
  BY <1>3, <1>6, <1>8, <1>9, <1>10, <1>11, <1>12, <1>13 DEF LimiterInv

LEMMA AllowKeeps ==
  ASSUME LimiterInv, NEW k \in Keys, NEW late \in 0..MaxLate, Allow(k, tick - late)
  PROVE  LimiterInv'
<1> DEFINE now == tick - late
           table == TableFor(k, now)
           kept == DOMAIN table
           h == passed[k]
           w == attempts[k]
<1>0. h \in Histories /\ tick \in 0..MaxTick /\ tick \in Int /\ late \in Int
  BY LimiterNumbers DEF LimiterInv
<1>1. OneMore(h) \in Histories /\ OneMore(h)[1] = 0
      /\ \A i \in Lasts : i # 1 => OneMore(h)[i] = h[i - 1]
  BY <1>0, OneMoreIs
<1>7. /\ kept \subseteq Known /\ table = [c \in kept |-> attempts[c]]
      /\ IsFiniteSet(kept) /\ Cardinality(kept) <= MaxKeys
      /\ \A c \in Known \ kept : LongAgo(passed[c], 0)
      /\ (k \notin Known /\ Cardinality(kept) >= MaxKeys) => \A c \in kept : ~Dead(c, now)
  BY TableIs
<1>2. ASSUME k \in Known
      PROVE  /\ w \in Windows /\ WindowBegan(w, h, tick) /\ LongAgo(h, w.count)
             /\ w.started \in Int /\ w.count \in 1..Limit /\ w.count \in Lasts
             /\ w.count \in Nat
  <2>1. w \in Windows /\ WindowBegan(w, h, tick) /\ LongAgo(h, w.count)
    BY <1>2 DEF LimiterInv
  <2> HIDE DEF w
  <2> QED
    BY <2>1, LimiterNumbers DEF Windows, Lasts
<1>3. CASE k \notin Known /\ Cardinality(kept) >= MaxKeys
  <2>1. attempts' = table /\ refused' = {k} /\ UNCHANGED <<tick, passed>>
    BY <1>3 DEF Allow
  <2>2. ASSUME NEW c \in kept
        PROVE  c \in Recent
    <3>1. /\ c \in Known /\ c \in Keys /\ attempts[c] \in Windows /\ passed[c] \in Histories
          /\ WindowBegan(attempts[c], passed[c], tick) /\ ~Dead(c, now)
      BY <1>3, <1>7, <2>2 DEF LimiterInv
    <3> DEFINE x == attempts[c]
               p == passed[c]
    <3>2. x \in Windows /\ p \in Histories /\ WindowBegan(x, p, tick)
          /\ ~(now - x.started >= Window)
      BY <3>1 DEF Dead
    <3> HIDE DEF x, p
    <3>3. x.started \in Int /\ x.count \in Lasts /\ p[x.count] <= tick - x.started
      BY <3>2, LimiterNumbers DEF Windows, WindowBegan, Lasts
    <3>4. p[1] <= p[x.count] /\ p[1] \in Int /\ p[x.count] \in Int
      <4>1. 1 \in Lasts /\ 1 <= x.count
        BY <3>3, LimiterNumbers DEF Lasts
      <4> QED
        BY <3>2, <3>3, <4>1, HistoryNumbers
    <3>5. p[1] < Long
      <4>1. tick - late - x.started < Window
        BY <1>0, <3>2, <3>3, LimiterNumbers
      <4> QED
        BY <1>0, <3>3, <3>4, <4>1, LimiterNumbers
    <3> QED
      BY <3>1, <3>5 DEF Recent, p
  <2>3. Cardinality(Recent) >= MaxKeys
    <3>1. IsFiniteSet(Recent) /\ kept \in SUBSET Recent
      BY <2>2 DEF LimiterInv
    <3> HIDE DEF Recent, kept
    <3>2. /\ Cardinality(kept) <= Cardinality(Recent) /\ Cardinality(Recent) \in Nat
          /\ Cardinality(kept) \in Nat
      BY <1>7, <3>1, FS_Subset, FS_CardinalityType
    <3> QED
      BY <1>3, <3>2, LimiterNumbers
  <2>4. RefusedForCause'
    BY <2>1, <2>3 DEF RefusedForCause, Recent
  <2>5. Known' = kept /\ \A c \in kept : attempts'[c] = attempts[c]
    BY <1>7, <2>1 DEF Known
  <2> HIDE DEF table, kept
  <2>6. attempts' \in [Known' -> Windows] /\ Known' \subseteq Keys /\ refused' \subseteq Keys
    <3>1. attempts \in [Known -> Windows] /\ Known \subseteq Keys
      BY DEF LimiterInv
    <3> QED
      BY <1>7, <2>1, <2>5, <3>1
  <2>7. Recent' = Recent
    BY <2>1 DEF Recent
  <2>8. \A c \in Keys \ Known' : LongAgo(passed[c], 0)
    BY <1>7, <2>5 DEF LimiterInv
  <2>9. \A c \in Known' : WindowBegan(attempts'[c], passed[c], tick)
                          /\ LongAgo(passed[c], attempts'[c].count)
    BY <1>7, <2>5 DEF LimiterInv
  <2> QED
    BY <1>7, <2>1, <2>4, <2>5, <2>6, <2>7, <2>8, <2>9 DEF LimiterInv
<1>4. CASE ~(k \notin Known /\ Cardinality(kept) >= MaxKeys) /\ (k \notin Known \/ Dead(k, now))
  <2> DEFINE new == [started |-> now, count |-> 1]
  <2>1. LetThrough(k, table, new)
    BY <1>4 DEF Allow
  <2>2. LongAgo(h, 0)
    BY <1>4, OverLongAgo DEF LimiterInv
  <2>3. new.started = now /\ new.count = 1
    OBVIOUS
  <2>4. now \in -MaxLate..tick /\ now \in Int
    BY <1>0, LimiterNumbers
  <2>5. new \in Windows
    BY <2>4, LimiterNumbers DEF Windows
  <2> HIDE DEF new, now
  <2>6. now = tick - late
    BY DEF now
  <2>7. WindowBegan(new, OneMore(h), tick)
    BY <1>0, <1>1, <2>3, <2>4, <2>6, LimiterNumbers DEF WindowBegan
  <2>8. LongAgo(OneMore(h), new.count)
    <3>1. ASSUME NEW i \in Lasts, i >= 1 + Limit
          PROVE  OneMore(h)[i] >= Window - MaxLate
      <4>1. i # 1 /\ i - 1 \in Lasts /\ i - 1 >= Limit
        BY <3>1, LimiterNumbers
      <4>2. h[i - 1] >= Window - MaxLate
        BY <2>2, <4>1, LimiterNumbers DEF LongAgo
      <4> QED
        BY <1>1, <4>1, <4>2
    <3> QED
      BY <2>3, <3>1 DEF LongAgo
  <2>9. k \in Known \/ Cardinality(kept) < MaxKeys
    BY <1>4, <1>7, FS_CardinalityType, LimiterNumbers
  <2> QED
    BY <2>1, <2>5, <2>6, <2>7, <2>8, <2>9, LetThroughKeeps
<1>5. CASE k \in Known /\ ~Dead(k, now) /\ w.count >= Limit
  <2>1. refused' = {k} /\ UNCHANGED <<tick, attempts, passed>>
    BY <1>5 DEF Allow
  <2>2. ~(now - w.started >= Window)
    BY <1>5 DEF Dead
  <2> HIDE DEF w, h
  <2>3. w.count = Limit /\ h[Limit] < Long
    <3>1. w.count = Limit
      BY <1>2, <1>5, LimiterNumbers
    <3>2. h[Limit] <= tick - w.started /\ tick - w.started < Long
      BY <1>0, <1>2, <1>5, <2>2, <3>1, LimiterNumbers DEF WindowBegan
    <3> QED
      BY <1>0, <1>2, <1>5, <3>1, <3>2, LimiterNumbers, HistoryNumbers
  <2>4. RefusedForCause'
    BY <2>1, <2>3 DEF RefusedForCause, h
  <2>5. Known' = Known /\ Recent' = Recent
    BY <2>1 DEF Known, Recent
  <2> QED
    BY <2>1, <2>4, <2>5 DEF LimiterInv
<1>6. CASE k \in Known /\ ~Dead(k, now) /\ ~(w.count >= Limit)
  <2> DEFINE new == [attempts[k] EXCEPT !.count = @ + 1]
  <2>1. LetThrough(k, table, new)
    BY <1>6 DEF Allow
  <2>2. new.started = w.started /\ new.count = w.count + 1 /\ new \in Windows
    BY <1>2, <1>6, LimiterNumbers DEF Windows
  <2>3. w.count + 1 \in Lasts /\ w.count + 1 # 1 /\ (w.count + 1) - 1 = w.count
    BY <1>2, <1>6, LimiterNumbers DEF Lasts
  <2> HIDE DEF new, w, h, now
  <2>4. WindowBegan(new, OneMore(h), tick)
    <3>1. OneMore(h)[w.count + 1] = h[w.count]
      BY <1>1, <2>3
    <3> QED
      BY <1>2, <1>6, <2>2, <3>1 DEF WindowBegan
  <2>5. LongAgo(OneMore(h), new.count)
    <3>1. ASSUME NEW i \in Lasts, i >= w.count + 1 + Limit
          PROVE  OneMore(h)[i] >= Window - MaxLate
      <4>1. i # 1 /\ i - 1 \in Lasts /\ i - 1 >= w.count + Limit
        BY <1>2, <1>6, <3>1, LimiterNumbers
      <4>2. h[i - 1] >= Window - MaxLate
        BY <1>2, <1>6, <4>1 DEF LongAgo
      <4> QED
        BY <1>1, <4>1, <4>2
    <3> QED
      BY <2>2, <3>1 DEF LongAgo
  <2> QED
    BY <1>6, <2>1, <2>2, <2>4, <2>5, LetThroughKeeps DEF h, now
<1> QED
  BY <1>3, <1>4, <1>5, <1>6

LEMMA ResetKeeps ==
  ASSUME LimiterInv, NEW k \in Keys, Reset(k)
  PROVE  LimiterInv'
<1>1. /\ attempts' = [c \in Known \ {k} |-> attempts[c]]
      /\ passed' = [passed EXCEPT ![k] = NonePassed] /\ refused' = {} /\ tick' = tick
  BY DEF Reset
<1>2. /\ attempts \in [Known -> Windows] /\ passed \in [Keys -> Histories]
      /\ Known \subseteq Keys /\ IsFiniteSet(Known) /\ Cardinality(Known) <= MaxKeys
      /\ IsFiniteSet(Recent)
  BY DEF LimiterInv
<1>3. /\ Known' = Known \ {k} /\ attempts' \in [Known' -> Windows]
      /\ \A c \in Known' : attempts'[c] = attempts[c]
  BY <1>1, <1>2 DEF Known
<1>4. passed' \in [Keys -> Histories] /\ passed'[k] = NonePassed
      /\ \A c \in Keys \ {k} : passed'[c] = passed[c]
  BY <1>1, <1>2, NothingPassed
<1>5. IsFiniteSet(Known') /\ Cardinality(Known') <= MaxKeys
  <2>1. Known' \in SUBSET Known
    BY <1>3
  <2>2. IsFiniteSet(Known') /\ Cardinality(Known') <= Cardinality(Known)
    BY <1>2, <2>1, FS_Subset
  <2>3. Cardinality(Known') \in Nat /\ Cardinality(Known) \in Nat
    BY <1>2, <2>2, FS_CardinalityType
  <2> QED
    BY <1>2, <2>2, <2>3, LimiterNumbers
<1>6. IsFiniteSet(Recent')
  <2>1. Recent' \in SUBSET Recent
    BY <1>4, NothingPassed, LimiterNumbers DEF Recent
  <2> QED
    BY <1>2, <2>1, FS_Subset
<1>7. \A c \in Known' : c \in Known /\ c \in Keys \ {k}
  BY <1>2, <1>3
<1>8. \A c \in Keys \ Known' : LongAgo(passed'[c], 0)
  <2> SUFFICES ASSUME NEW c \in Keys \ Known' PROVE LongAgo(passed'[c], 0)
    OBVIOUS
  <2>1. CASE c = k
    BY <1>4, <2>1, NothingPassed
  <2>2. CASE c # k
    BY <1>3, <1>4, <2>2 DEF LimiterInv
  <2> QED
    BY <2>1, <2>2
<1>9. \A c \in Known' : WindowBegan(attempts'[c], passed'[c], tick')
                        /\ LongAgo(passed'[c], attempts'[c].count)
  BY <1>1, <1>3, <1>4, <1>7 DEF LimiterInv
<1>10. RefusedForCause' /\ refused' \subseteq Keys /\ Known' \subseteq Keys
  BY <1>1, <1>2, <1>3 DEF RefusedForCause
<1> QED
  BY <1>1, <1>3, <1>4, <1>5, <1>6, <1>8, <1>9, <1>10 DEF LimiterInv

LEMMA TimeKeeps ==
  ASSUME LimiterInv, TimePasses
  PROVE  LimiterInv'
<1>1. /\ passed' = [k \in Keys |-> Aged(passed[k])] /\ refused' = {}
      /\ tick' = tick + 1 /\ tick < MaxTick /\ attempts' = attempts
  BY DEF TimePasses, Aged
<1>2. /\ passed \in [Keys -> Histories] /\ tick \in 0..MaxTick /\ Known \subseteq Keys
      /\ attempts \in [Known -> Windows] /\ IsFiniteSet(Recent)
  BY DEF LimiterInv
<1>3. \A k \in Keys : /\ passed[k] \in Histories /\ passed'[k] = Aged(passed[k])
                      /\ passed'[k] \in Histories
  BY <1>1, <1>2, AgedIs
<1>4. passed' \in [Keys -> Histories]
  BY <1>1, <1>3
<1>5. Known' = Known
  BY <1>1 DEF Known
<1>6. IsFiniteSet(Recent')
  <2>1. ASSUME NEW c \in Keys, passed'[c][1] < Long
        PROVE  passed[c][1] < Long
    <3> DEFINE h == passed[c]
    <3>1. h \in Histories /\ Aged(h) \in Histories /\ Aged(h)[1] < Long
      BY <1>3, <2>1
    <3> HIDE DEF h
    <3>2. h[1] < Long
      BY <3>1, AgedIs, HistoryNumbers, LimiterNumbers
    <3> QED
      BY <3>2 DEF h
  <2>2. Recent' \in SUBSET Recent
    BY <2>1 DEF Recent
  <2> QED
    BY <1>2, <2>2, FS_Subset
<1>7. ASSUME NEW c \in Keys, NEW n, LongAgo(passed[c], n)
      PROVE  LongAgo(passed'[c], n)
  <2> DEFINE h == passed[c]
  <2>1. h \in Histories /\ passed'[c] = Aged(h) /\ Aged(h) \in Histories /\ LongAgo(h, n)
    BY <1>3, <1>7
  <2> HIDE DEF h
  <2>2. ASSUME NEW i \in Lasts, h[i] >= Window - MaxLate
        PROVE  Aged(h)[i] >= Window - MaxLate
    BY <2>1, <2>2, AgedIs, HistoryNumbers, LimiterNumbers
  <2> QED
    BY <2>1, <2>2 DEF LongAgo
<1>8. ASSUME NEW c \in Known
      PROVE  WindowBegan(attempts'[c], passed'[c], tick')
  <2> DEFINE h == passed[c]
             w == attempts[c]
  <2>1. h \in Histories /\ w \in Windows /\ WindowBegan(w, h, tick) /\ passed'[c] = Aged(h)
        /\ attempts'[c] = w /\ Aged(h) \in Histories
    BY <1>1, <1>2, <1>3 DEF LimiterInv
  <2> HIDE DEF h, w
  <2>2. w.count \in Lasts /\ w.started \in Int
    BY <2>1, LimiterNumbers DEF Windows, Lasts
  <2>3. WindowBegan(w, Aged(h), tick + 1)
    <3>1. w.started \in -MaxLate..tick /\ h[w.count] <= tick - w.started
          /\ (h[w.count] = Long \/ h[w.count] >= tick - w.started - MaxLate)
      BY <2>1 DEF WindowBegan
    <3>2. /\ Aged(h)[w.count] >= h[w.count] /\ Aged(h)[w.count] <= h[w.count] + 1
          /\ Aged(h)[w.count] = Long \/ Aged(h)[w.count] = h[w.count] + 1
          /\ h[w.count] \in Int /\ Aged(h)[w.count] \in Int /\ Aged(h)[w.count] <= Long
      BY <2>1, <2>2, AgedIs, HistoryNumbers
    <3> QED
      BY <1>2, <2>2, <3>1, <3>2, LimiterNumbers DEF WindowBegan
  <2> QED
    BY <1>1, <2>1, <2>3
<1>9. tick' \in 0..MaxTick
  BY <1>1, <1>2, LimiterNumbers
<1>10. RefusedForCause' /\ refused' \subseteq Keys
  BY <1>1 DEF RefusedForCause
<1> QED
  BY <1>1, <1>2, <1>4, <1>5, <1>6, <1>7, <1>8, <1>9, <1>10 DEF LimiterInv

(* However long callers wait for its lock and whatever the table forgets for other
   keys' sake, the limiter lets no key through more often than it is for, and
   refuses none but for attempts that still count (ratelimit.go:24-48). *)
THEOREM LimiterLimits == LimiterSpec => []AttemptsLimited
<1>1. LimiterInit => LimiterInv
  <2> SUFFICES ASSUME LimiterInit PROVE LimiterInv
    OBVIOUS
  <2>1. /\ tick = 0 /\ attempts = <<>> /\ passed = [k \in Keys |-> NonePassed]
        /\ refused = {}
    BY DEF LimiterInit
  <2>2. Known = {} /\ attempts \in [{} -> Windows]
    BY <2>1 DEF Known
  <2>3. IsFiniteSet({}) /\ Cardinality({}) = 0
    BY FS_EmptySet
  <2>4. Recent = {}
    BY <2>1, NothingPassed, LimiterNumbers DEF Recent
  <2> QED
    BY <2>1, <2>2, <2>3, <2>4, NothingPassed, LimiterNumbers DEF LimiterInv, RefusedForCause
<1>2. LimiterInv /\ [LimiterNext]_limiterVars => LimiterInv'
  <2>1. ASSUME LimiterInv, UNCHANGED limiterVars
        PROVE  LimiterInv'
    BY <2>1 DEF limiterVars, LimiterInv, Known, Recent, RefusedForCause
  <2> QED
    BY <2>1, AllowKeeps, ResetKeeps, TimeKeeps DEF LimiterNext
<1>3. LimiterInv => AttemptsLimited
  <2> SUFFICES ASSUME LimiterInv PROVE AttemptsLimited
    OBVIOUS
  <2>1. LimiterTypeOK
    <3>1. ASSUME NEW k \in Known
          PROVE  attempts[k].started \in -MaxLate..tick /\ attempts[k].count \in 1..Limit
      <4>1. attempts[k] \in Windows /\ WindowBegan(attempts[k], passed[k], tick)
        BY DEF LimiterInv
      <4> QED
        BY <4>1 DEF Windows, WindowBegan
    <3> QED
      BY <3>1 DEF LimiterTypeOK, LimiterInv
  <2>2. ASSUME NEW k \in Keys
        PROVE  passed[k][2 * Limit + 1] >= Window - MaxLate
    <3>1. CASE k \in Known
      <4>1. attempts[k] \in Windows /\ LongAgo(passed[k], attempts[k].count)
        BY <3>1 DEF LimiterInv
      <4>2. attempts[k].count \in 1..Limit
        BY <4>1 DEF Windows
      <4> QED
        BY <4>1, <4>2, LimiterNumbers DEF LongAgo
    <3>2. CASE k \notin Known
      <4>1. LongAgo(passed[k], 0)
        BY <3>2 DEF LimiterInv
      <4> QED
        BY <4>1, LimiterNumbers DEF LongAgo
    <3> QED
      BY <3>1, <3>2
  <2> QED
    BY <2>1, <2>2 DEF AttemptsLimited, SpanLimited, LimiterInv
<1> QED
  BY <1>1, <1>2, <1>3, PTL DEF LimiterSpec

=============================================================================
