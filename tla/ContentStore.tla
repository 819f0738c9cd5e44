---------------------------- MODULE ContentStore ----------------------------
(***************************************************************************)
(* The on-disk store of one node (internal/content/store.go): one file per *)
(* block, per manifest and per erasure fragment, and the pins, which live  *)
(* in memory and in pins.json.                                             *)
(*                                                                         *)
(* Store.mu makes every call exclusive, but os.WriteFile is several steps  *)
(* to the disk: it opens and truncates the file, then fills it.  The open  *)
(* may fail, the disk may fill up, and the process may die in between;     *)
(* what is then left is a "torn" file.  writing is the call that holds     *)
(* Store.mu for writing, and how far its os.WriteFile has come.            *)
(***************************************************************************)
EXTENDS Integers, FiniteSets

CONSTANTS
    Blocks, Manifests, Fragments,  \* the files that may be stored
    CIDs,                          \* the CIDs that may be pinned
    PinFile,                       \* pins.json
    MaxFaults                      \* bound on crashes and failed writes

Content == Blocks \cup Manifests \cup Fragments
Files == Content \cup {PinFile}

ASSUME FaultsAssumption == MaxFaults \in Nat
ASSUME FilesAssumption ==
    /\ PinFile \notin Content
    /\ Manifests \cap (Blocks \cup Fragments) = {}

VARIABLES
    running, faults,
    disk,         \* every file: "absent", "torn" or "whole"
    savedPins,    \* what pins.json says when it is whole
    pins,         \* s.pins
    writing       \* the write in progress, or Idle

\* Auxiliary variables: what the callers know.
VARIABLES
    interrupted,  \* the files whose latest write was cut short
    acked,        \* the CIDs whose pin was reported as made
    revoked,      \* the CIDs whose unpin was reported as made
    forgotten     \* the acked CIDs lost by a start that could not read pins.json

aux == <<interrupted, acked, revoked, forgotten>>
vars == <<running, faults, disk, savedPins, pins, writing, aux>>

Idle == [op |-> "none", name |-> PinFile, stage |-> "none"]

\* NewStore in an empty data directory.
Init ==
    /\ running = TRUE /\ faults = 0
    /\ disk = [f \in Files |-> "absent"]
    /\ savedPins = {} /\ pins = {}
    /\ writing = Idle
    /\ interrupted = {} /\ acked = {} /\ revoked = {} /\ forgotten = {}

Unlocked == running /\ writing = Idle

-----------------------------------------------------------------------------
(* The calls.  Those that write take the lock and go on to WriteFile. *)

\* Mutant of Put: the lock is not taken.
PutWithoutLock(f) ==
    /\ running
    /\ writing' = [op |-> "put", name |-> f, stage |-> "open"]
    /\ UNCHANGED <<running, faults, disk, savedPins, pins, aux>>

\* Put, PutManifest and PutFragment.
Put(f) ==
    /\ Unlocked
    /\ writing' = [op |-> "put", name |-> f, stage |-> "open"]
    /\ UNCHANGED <<running, faults, disk, savedPins, pins, aux>>

Pin(c) ==
    /\ Unlocked
    /\ pins' = pins \cup {c}
    /\ revoked' = revoked \ {c}
    /\ writing' = [op |-> "pin", name |-> c, stage |-> "open"]
    /\ UNCHANGED <<running, faults, disk, savedPins, interrupted, acked, forgotten>>

Unpin(c) ==
    /\ Unlocked
    /\ pins' = pins \ {c}
    /\ acked' = acked \ {c}
    /\ writing' = [op |-> "unpin", name |-> c, stage |-> "open"]
    /\ UNCHANGED <<running, faults, disk, savedPins, interrupted, revoked, forgotten>>

\* What Get, GetManifest and GetFragment answer.  They wait for Store.mu like
\* the others and change nothing.  Half a JSON document does not parse, so a
\* torn manifest is an error; the bytes of other files are not looked at.
Answer(f) ==
    IF disk[f] = "absent" \/ (disk[f] = "torn" /\ f \in Manifests)
    THEN "error" ELSE disk[f]

\* Delete of a file that is not there is an error and changes nothing.
Delete(f) ==
    /\ Unlocked /\ disk[f] # "absent"
    /\ disk' = [disk EXCEPT ![f] = "absent"]
    /\ interrupted' = interrupted \ {f}
    /\ UNCHANGED <<running, faults, savedPins, pins, writing, acked, revoked, forgotten>>

-----------------------------------------------------------------------------
(* os.WriteFile, of a content file or of pins.json. *)

Target == IF writing.op = "put" THEN writing.name ELSE PinFile

\* O_TRUNC: an older copy is gone before the first byte is written.
OpenTruncate ==
    /\ writing.stage = "open"
    /\ disk' = [disk EXCEPT ![Target] = "torn"]
    /\ writing' = [writing EXCEPT !.stage = "fill"]
    /\ UNCHANGED <<running, faults, savedPins, pins, aux>>

\* Mutant of WriteEnd: the pins were listed before the map was changed.
WriteEndOfOldPins ==
    /\ writing.stage = "fill"
    /\ disk' = [disk EXCEPT ![Target] = "whole"]
    /\ savedPins' = IF Target = PinFile THEN pins \ {writing.name} ELSE savedPins
    /\ interrupted' = interrupted \ {Target}
    /\ acked' = IF writing.op = "pin" THEN acked \cup {writing.name} ELSE acked
    /\ revoked' = IF writing.op = "unpin" THEN revoked \cup {writing.name} ELSE revoked
    /\ forgotten' = IF writing.op = "pin" THEN forgotten \ {writing.name} ELSE forgotten
    /\ writing' = Idle
    /\ UNCHANGED <<running, faults, pins>>

\* Mutant of WriteEnd: pins are added to the file and never taken out of it.
WriteEndAddsOnly ==
    /\ writing.stage = "fill"
    /\ disk' = [disk EXCEPT ![Target] = "whole"]
    /\ savedPins' = IF Target = PinFile THEN savedPins \cup pins ELSE savedPins
    /\ interrupted' = interrupted \ {Target}
    /\ acked' = IF writing.op = "pin" THEN acked \cup {writing.name} ELSE acked
    /\ revoked' = IF writing.op = "unpin" THEN revoked \cup {writing.name} ELSE revoked
    /\ forgotten' = IF writing.op = "pin" THEN forgotten \ {writing.name} ELSE forgotten
    /\ writing' = Idle
    /\ UNCHANGED <<running, faults, pins>>

WriteEnd ==
    /\ writing.stage = "fill"
    /\ disk' = [disk EXCEPT ![Target] = "whole"]
    /\ savedPins' = IF Target = PinFile THEN pins ELSE savedPins
    /\ interrupted' = interrupted \ {Target}
    /\ acked' = IF writing.op = "pin" THEN acked \cup {writing.name} ELSE acked
    /\ revoked' = IF writing.op = "unpin" THEN revoked \cup {writing.name} ELSE revoked
    /\ forgotten' = IF writing.op = "pin" THEN forgotten \ {writing.name} ELSE forgotten
    /\ writing' = Idle
    /\ UNCHANGED <<running, faults, pins>>

\* Opening or filling the file fails: the call returns an error, the file
\* stays as it is, and a changed pin stays changed in memory.
WriteFails ==
    /\ writing # Idle /\ faults < MaxFaults
    /\ faults' = faults + 1
    /\ interrupted' = IF writing.stage = "fill"
                      THEN interrupted \cup {Target} ELSE interrupted
    /\ writing' = Idle
    /\ UNCHANGED <<running, disk, savedPins, pins, acked, revoked, forgotten>>

-----------------------------------------------------------------------------
(* The process. *)

Crash ==
    /\ running /\ faults < MaxFaults
    /\ running' = FALSE /\ faults' = faults + 1
    /\ pins' = {}
    /\ interrupted' = IF writing.stage = "fill"
                      THEN interrupted \cup {Target} ELSE interrupted
    /\ writing' = Idle
    /\ UNCHANGED <<disk, savedPins, acked, revoked, forgotten>>

\* NewStore: a file that loadPins cannot read or cannot parse counts as no pins
\* at all.  Reading may fail whatever is on the disk.
LoadPins ==
    \/ /\ disk[PinFile] = "whole"
       /\ pins' = savedPins /\ forgotten' = forgotten \ savedPins
    \/ pins' = {} /\ forgotten' = forgotten \cup acked

Restart ==
    /\ ~running
    /\ running' = TRUE
    /\ LoadPins
    /\ UNCHANGED <<faults, disk, savedPins, writing, interrupted, acked, revoked>>

Next ==
    \/ \E f \in Content : Put(f)
    \/ \E f \in Blocks : Delete(f)
    \/ \E c \in CIDs : Pin(c) \/ Unpin(c)
    \/ OpenTruncate \/ WriteEnd \/ WriteFails \/ Crash \/ Restart

Spec == Init /\ [][Next]_vars

-----------------------------------------------------------------------------
(* Correctness. *)

\* The values of the variables.
TypeOK ==
    /\ running \in BOOLEAN /\ faults \in 0 .. MaxFaults
    /\ disk \in [Files -> {"absent", "torn", "whole"}]
    /\ savedPins \in SUBSET CIDs /\ pins \in SUBSET CIDs
    /\ writing \in {Idle} \cup [op : {"put", "pin", "unpin"},
                                name : Content \cup CIDs, stage : {"open", "fill"}]
    /\ interrupted \in SUBSET Files
    /\ acked \in SUBSET CIDs /\ revoked \in SUBSET CIDs /\ forgotten \in SUBSET CIDs

\* With no call in progress, only files whose latest write was cut short are
\* torn: a later write that completes, or a Delete, repairs them.
TornOnlyIfInterrupted ==
    writing = Idle => {f \in Files : disk[f] = "torn"} \subseteq interrupted

\* Failed writes, crashes and restarts lose no pin that was reported as made,
\* but for those in force before a start that could not read or parse pins.json;
\* of these, the ones the file still names are back after a start that reads it.
AckedPinsInForce ==
    Unlocked => acked \ forgotten \subseteq pins

\* An unpin that was reported as made is not undone by a restart.
RevokedPinsStayOff == revoked \cap pins = {}

=============================================================================
