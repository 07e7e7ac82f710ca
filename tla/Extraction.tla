------------------------------- MODULE Extraction -------------------------------
(***************************************************************************)
(* Extracting an uploaded world archive entry by entry: what an entry says *)
(* it holds is held against a limit for the whole archive before anything  *)
(* of it is written, and against what was written afterwards (zip.go).     *)
(* Sizes are unsigned numbers of Width bits; what is written is counted in *)
(* signed ones.                                                            *)
(***************************************************************************)
EXTENDS Integers

CONSTANTS
  Width,      \* of a size in an entry's header
  SafeTotal,  \* the limit: four times MaxUploadBytes, which is 20 GiB at most
  Held,       \* how much an entry may really hold
  MaxEntries  \* bound: entries of an archive

Half == 2^(Width - 1)

ASSUME ExtractionConstants ==
  /\ Width \in Nat \ {0} /\ Half \in Nat \ {0}  \* the provers have no rule for powers
  /\ SafeTotal \in 0..(Half - 2)
  /\ Held \subseteq Nat /\ MaxEntries \in Nat

VARIABLES
  extracting,  \* how the extraction stands
  entries,     \* entries looked at
  total,       \* what they say they hold
  promised,    \* of that, what the files among them do
  onDisk       \* bytes written

extractionVars == <<extracting, entries, total, promised, onDisk>>

Sizes == 0..(2 * Half - 1)

(* Arithmetic of uint64, and the conversion to int64. *)
Wrap(n) == n % (2 * Half)
Signed(n) == IF n < Half THEN n ELSE n - 2 * Half

(* io.Copy of an io.LimitReader: nothing is read under a limit below one. *)
Copied(held, limit) == IF limit < 0 THEN 0 ELSE IF held < limit THEN held ELSE limit

ExtractionInit ==
  /\ extracting = "running" /\ entries = 0
  /\ total = 0 /\ promised = 0 /\ onDisk = 0

NextEntry == extracting = "running" /\ entries < MaxEntries /\ entries' = entries + 1

ExceedsBySum(declared) ==  \* variant: the sum is compared, and wraps
  Wrap(total + declared) > SafeTotal

(* The limit is unsigned as well, and total never exceeds it. *)
Exceeds(declared) == declared > Wrap(SafeTotal - total)

(* Resource forks and the like are passed over. *)
SkipEntry ==
  /\ NextEntry
  /\ UNCHANGED <<extracting, total, promised, onDisk>>

(* A path outside the world's directory, an unsafe path, a link, a file that is there
   already, an entry that cannot be opened or written, a cancelled request: the
   archive is refused, and the staging directory is removed. *)
RefuseEntry ==
  /\ NextEntry
  /\ extracting' = "refused"
  /\ UNCHANGED <<total, promised, onDisk>>

(* A directory, whose size counts but is not written. *)
MakeDirectory(declared) ==
  /\ NextEntry
  /\ IF Exceeds(declared)
       THEN extracting' = "refused" /\ UNCHANGED total
       ELSE total' = Wrap(total + declared) /\ UNCHANGED extracting
  /\ UNCHANGED <<promised, onDisk>>

(* A file: one byte more than it says is read, so that more of it is noticed. *)
WriteFile(declared, held) ==
  /\ NextEntry
  /\ IF Exceeds(declared)
       THEN extracting' = "refused" /\ UNCHANGED <<total, promised, onDisk>>
       ELSE LET written == Copied(held, Signed(Wrap(declared + 1)))
            IN /\ total' = Wrap(total + declared) /\ promised' = promised + declared
               /\ onDisk' = onDisk + written
               /\ extracting' = IF written = Signed(declared) THEN "running" ELSE "refused"

EndArchive ==
  /\ extracting = "running" /\ entries > 0
  /\ extracting' = "extracted"
  /\ UNCHANGED <<entries, total, promised, onDisk>>

(* The request is over; its staging directory is installed or removed. *)
NextArchive ==
  /\ extracting # "running"
  /\ extracting' = "running" /\ entries' = 0
  /\ total' = 0 /\ promised' = 0 /\ onDisk' = 0

ExtractionNext ==
  \/ SkipEntry \/ RefuseEntry
  \/ \E declared \in Sizes :
       MakeDirectory(declared) \/ \E held \in Held : WriteFile(declared, held)
  \/ EndArchive \/ NextArchive

ExtractionSpec == ExtractionInit /\ [][ExtractionNext]_extractionVars

-----------------------------------------------------------------------------
(* Properties *)

ExtractionTypeOK ==
  /\ extracting \in {"running", "extracted", "refused"}
  /\ entries \in 0..MaxEntries
  /\ total \in Sizes /\ promised \in 0..total
  /\ onDisk \in Nat

(* However an archive lies about its entries, and whatever sizes it names, no more is
   written than the limit and the one byte by which a lie is noticed
   (zip.go:50-54, 77). *)
DiskBounded ==
  onDisk <= IF extracting = "refused" THEN SafeTotal + 1 ELSE SafeTotal

(* What is not refused holds exactly what its entries say, byte for byte
   (zip.go:83-85). *)
ExtractedAsPromised == extracting # "refused" => onDisk = promised

(* An archive that lies about its size neither fills the disk nor is accepted. *)
ExtractionHonest == DiskBounded /\ ExtractedAsPromised

=============================================================================
