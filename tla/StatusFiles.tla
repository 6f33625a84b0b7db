---------------------------- MODULE StatusFiles ----------------------------
(***************************************************************************)
(* The status file: one record for each function, at its device number.    *)
(* Storage::init creates and formats it once; each function object reads   *)
(* its record when it is constructed, stores a default when the record was *)
(* never written, and rewrites it with each change of its status.  A       *)
(* status is modelled by who stored it and when, in two halves, because a  *)
(* power failure may come inside a write; the flag "first", which says     *)
(* that a record was ever written, is in the second half.                  *)
(***************************************************************************)
EXTENDS Naturals, Sequences

CONSTANTS
    MAX_FUNCTION,  \* records of the formatted file
    MaxStores,     \* bound: stores of each object
    MaxFailures    \* bound: power failures

ASSUME StatusAssumption ==
    MAX_FUNCTION \in Nat \ {0} /\ MaxStores \in Nat \ {0} /\ MaxFailures \in Nat

VARIABLES
    status_file,  \* exists, recs: the records from device number 0 on
    boot_stage,   \* how far Storage::init is, then "run"
    status,       \* of each object: <<>> before construction, or two halves
    storing,      \* the record that is being written: object, position, halves left
    last,         \* ghost: of each object, the status it stored completely last
    begun,        \* ghost: of each object, the status it began to store last
    spoilt,       \* ghost: the format was cut, or the file could not be created
    failures      \* ghost: power failures so far

statusVars == <<status_file, boot_stage, status, storing, last, begun, spoilt, failures>>

Objects == 0 .. MAX_FUNCTION - 1
Zero    == <<0, 0>>                          \* who and when of a formatted record
Garbage == <<MAX_FUNCTION, 0>>               \* of uninitialized memory
Halves  == (Objects \X (1 .. MaxStores)) \union {Zero, Garbage}
Nobody  == [obj |-> MAX_FUNCTION, pos |-> 0, parts |-> {}]
Both(h) == <<h, h>>

StatusTypeOK ==
    /\ status_file.exists \in BOOLEAN /\ status_file.recs \in Seq(Halves \X Halves)
    /\ boot_stage \in {"init", "format", "run"}
    /\ status \in [Objects -> (Halves \X Halves) \union {<<>>}]
    /\ storing.parts \subseteq {1, 2}
    /\ {last, begun} \subseteq [Objects -> Halves]
    /\ failures \in 0 .. MaxFailures

StatusInit ==
    /\ status_file = [exists |-> FALSE, recs |-> <<>>]
    /\ boot_stage = "init"
    /\ status = [o \in Objects |-> <<>>]
    /\ storing = Nobody
    /\ last = [o \in Objects |-> Zero]
    /\ begun = last
    /\ spoilt = FALSE
    /\ failures = 0

-----------------------------------------------------------------------------

FileLength == Len(status_file.recs)

\* Storage::init: a file that is missing is created, and an empty one is
\* formatted.  When it cannot be created init returns false, which is ESP_OK,
\* and the start goes on.
InitFiles ==
    /\ boot_stage = "init"
    /\ \/ /\ status_file' = [status_file EXCEPT !.exists = TRUE]
          /\ boot_stage' = IF FileLength = 0 THEN "format" ELSE "run"
          /\ UNCHANGED spoilt
       \/ /\ ~status_file.exists
          /\ boot_stage' = "run"
          /\ spoilt' = TRUE
          /\ UNCHANGED status_file
    /\ UNCHANGED <<status, storing, last, begun, failures>>

\* status_file_format: the zeroes reach the file some records at a time.
Format ==
    /\ boot_stage = "format"
    /\ \/ /\ FileLength < MAX_FUNCTION
          /\ status_file' = [status_file EXCEPT !.recs = Append(@, Both(Zero))]
          /\ UNCHANGED boot_stage
       \/ /\ FileLength = MAX_FUNCTION
          /\ boot_stage' = "run"
          /\ UNCHANGED status_file
    /\ UNCHANGED <<status, storing, last, begun, spoilt, failures>>

\* A position beyond the end is refused by the file system or kept.
Landing(o) == IF o <= FileLength THEN {o} ELSE {o, FileLength}

ReadFrom_Next(o) == o + 2
ReadFrom(o) == o + 1

\* read_status into the memory of a new object: a read that fails or finds
\* nothing leaves it as it is.
ReadStatus(o) ==
    IF status_file.exists /\ FileLength >= ReadFrom(o) THEN status_file.recs[ReadFrom(o)]
    ELSE Both(Garbage)

IsFirst(s) == s[2] # Zero

\* write_status, which needs the file to exist.
Store(o) == LET next == <<o, IF begun[o] = Zero THEN 1 ELSE begun[o][2] + 1>> IN
    /\ begun[o][2] < MaxStores
    /\ status' = [status EXCEPT ![o] = Both(next)]
    /\ begun' = [begun EXCEPT ![o] = next]
    /\ IF status_file.exists
       THEN \E pos \in Landing(o) : storing' = [obj |-> o, pos |-> pos, parts |-> {1, 2}]
       ELSE UNCHANGED storing
    /\ UNCHANGED <<status_file, boot_stage, last, spoilt, failures>>

\* The constructor of a function: a record that was never written, or garbage
\* that looks like one, gets the default.
Construct(o) ==
    /\ boot_stage = "run" /\ storing = Nobody /\ status[o] = <<>>
    /\ \/ /\ IsFirst(ReadStatus(o))
          /\ status' = [status EXCEPT ![o] = ReadStatus(o)]
          /\ UNCHANGED <<status_file, boot_stage, storing, last, begun, spoilt, failures>>
       \/ (ReadStatus(o) = Both(Garbage) \/ ~IsFirst(ReadStatus(o))) /\ Store(o)

\* A function changes its status and stores it.
Change(o) == boot_stage = "run" /\ storing = Nobody /\ status[o] # <<>> /\ Store(o)

WithHalf(rec, h, half) == IF h = 1 THEN <<half, rec[2]>> ELSE <<rec[1], half>>

\* Half of the record is in the file; zeroes fill a gap before it.
WriteHalf(h) ==
    /\ h \in storing.parts /\ (h = 2 => 1 \notin storing.parts)
    /\ LET p      == storing.pos + 1
           was(i) == IF i <= FileLength THEN status_file.recs[i] ELSE Both(Zero)
           recs   == [i \in 1 .. (IF p > FileLength THEN p ELSE FileLength) |->
                         IF i = p THEN WithHalf(was(i), h, begun[storing.obj]) ELSE was(i)]
       IN  status_file' = [status_file EXCEPT !.recs = recs]
    /\ storing' = IF h = 2 THEN Nobody ELSE [storing EXCEPT !.parts = @ \ {h}]
    /\ last' = IF h = 2 THEN [last EXCEPT ![storing.obj] = begun[storing.obj]] ELSE last
    /\ UNCHANGED <<boot_stage, status, begun, spoilt, failures>>

PowerFails ==
    /\ failures < MaxFailures /\ failures' = failures + 1
    /\ boot_stage' = "init"
    /\ status' = [o \in Objects |-> <<>>]
    /\ storing' = Nobody
    /\ spoilt' = (spoilt \/ (boot_stage = "format" /\ FileLength \in 1 .. MAX_FUNCTION - 1))
    /\ UNCHANGED <<status_file, last, begun>>

StatusNext ==
    \/ InitFiles \/ Format \/ PowerFails
    \/ \E o \in Objects : Construct(o) \/ Change(o)
    \/ \E h \in {1, 2} : WriteHalf(h)

StatusSpec == StatusInit /\ [][StatusNext]_statusVars

-----------------------------------------------------------------------------
(* Properties.                                                             *)

\* What a function reads back is its own and no older than the status it
\* stored completely last: power failures inside later stores may leave halves
\* of those.  Only a file whose format was cut, which the next start does not
\* format again, or that could not be created, which init reports as ESP_OK,
\* gives it uninitialized memory or the status of another function.
StatusComesBack == \A o \in Objects :
    status[o] # <<>> /\ ~spoilt
        => \A h \in {1, 2} : status[o][h][1] = o /\ status[o][h][2] >= last[o][2]
=============================================================================
