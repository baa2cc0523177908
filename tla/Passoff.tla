------------------------------- MODULE Passoff -------------------------------
(***************************************************************************)
(* The pass-off watcher (pipeline/ops/passoff_watcher.py) and the manifest *)
(* it works on (pipeline/manifest.py): result files that other tools write *)
(* are read into the manifest, and confirmed addresses are appended, once, *)
(* to the file that is handed off.                                         *)
(*                                                                         *)
(* The manifest commits every statement; the file is buffered.  A scan may *)
(* fail at any step (the error is logged, the next scan goes on) and the   *)
(* process may be killed.                                                  *)
(***************************************************************************)
EXTENDS Integers, Sequences, SequencesExt, Places

CONSTANTS
    Files,      (* result files, in the order of scan_once                  *)
    Results,    (* what each will hold in the end: <<[email, ok], ...>>     *)
    FromZuhal,  (* those of Zuhal; the others are ZeroBounce's              *)
    MaxFaults   (* failed scans and kills: a bound                          *)

Emails == UNION {{r.email : r \in ToSet(Results[f])} : f \in ToSet(Files)}

ASSUME PassoffAssumption ==
    /\ Files \in Seq(ToSet(Files)) /\ Files # <<>> /\ FromZuhal \subseteq ToSet(Files)
    /\ Results \in [ToSet(Files) -> Seq([email : Emails, ok : BOOLEAN])]
    /\ MaxFaults \in Nat

VARIABLES
    written,                           \* rows of each file written so far
    known, zerobounced, in_passoff,    \* the manifest, as sets of addresses
    wpc, cur, size, row, new_rows,     \* scan: step, file, its size at stat, row, rows to append
    seen,                              \* seen_fingerprints: sizes
    buffer, combined,                  \* rows not flushed, rows in the file per address
    faults,
    torn                               \* history: addresses a fault or a late row has met

manifest == <<known, zerobounced, in_passoff>>
scan     == <<wpc, cur, size, row, new_rows, seen>>
passoff  == <<written, manifest, scan, buffer, combined, faults, torn>>

NotSeen == -1

PassoffTypeOK ==
    /\ \A f \in ToSet(Files) : written[f] \in 0..Len(Results[f])
    /\ {known, zerobounced, in_passoff, torn} \subseteq SUBSET Emails
    /\ wpc \in {"idle", "stat", "ingest", "collect", "write", "mark"}
    /\ cur \in 1..Len(Files) /\ size \in Nat /\ row \in Nat
    /\ new_rows \in Seq(Emails) /\ buffer \in Seq(Emails)
    /\ combined \in [Emails -> Nat] /\ faults \in 0..MaxFaults

PassoffInit ==
    /\ written = [f \in ToSet(Files) |-> 0]
    /\ known = {} /\ zerobounced = {} /\ in_passoff = {}
    /\ wpc = "idle" /\ cur = 1 /\ size = 0 /\ row = 0 /\ new_rows = <<>>
    /\ seen = [f \in ToSet(Files) |-> NotSeen]
    /\ buffer = <<>> /\ combined = [e \in Emails |-> 0]
    /\ faults = 0 /\ torn = {}

file  == Files[cur]
rows  == SubSeq(Results[file], 1, written[file])

flushed == [e \in Emails |-> combined[e] + Cardinality({i \in DOMAIN buffer : buffer[i] = e})]

-----------------------------------------------------------------------------

\* The tools that write the result files know nothing of the watcher.
Grows(f) ==
    /\ written[f] < Len(Results[f]) /\ written' = [written EXCEPT ![f] = @ + 1]
    /\ UNCHANGED <<manifest, scan, buffer, combined, faults, torn>>

ScanBegins ==
    /\ wpc = "idle" /\ wpc' = "stat" /\ cur' = 1
    /\ UNCHANGED <<written, manifest, size, row, new_rows, seen, buffer, combined, faults, torn>>

nextFile ==
    /\ size' = 0 /\ row' = 0
    /\ IF cur < Len(Files) THEN wpc' = "stat" /\ cur' = cur + 1 ELSE wpc' = "idle" /\ cur' = 1

\* file_fingerprint
Stat ==
    /\ wpc = "stat"
    /\ IF seen[file] = written[file]
       THEN nextFile
       ELSE wpc' = "ingest" /\ size' = written[file] /\ row' = 1 /\ UNCHANGED cur
    /\ UNCHANGED <<written, manifest, new_rows, seen, buffer, combined, faults, torn>>

\* mark_zuhaled, mark_zerobounced: one row of ingest_zuhal_file, ingest_zb_file.
Ingest ==
    /\ wpc = "ingest"
    /\ IF row > Len(rows)
       THEN wpc' = "collect" /\ UNCHANGED <<row, known, zerobounced>>
       ELSE /\ known' = known \cup {rows[row].email}
            /\ zerobounced' = IF file \in FromZuhal THEN zerobounced
                              ELSE zerobounced \cup {rows[row].email}
            /\ row' = row + 1 /\ UNCHANGED wpc
    /\ UNCHANGED <<written, in_passoff, cur, size, new_rows, seen, buffer, combined, faults, torn>>

\* Mutant: the manifest is not asked.
appendableUnasked(r) == r.ok

\* is_passed_off; a Zuhal row also gives way to any ZeroBounce row.
appendable(r) ==
    r.ok /\ r.email \notin in_passoff /\ (file \in FromZuhal => r.email \notin zerobounced)

\* The file is read a second time, and may have grown.
Collect ==
    /\ wpc = "collect"
    /\ LET confirmed == At(rows, {i \in DOMAIN rows : appendable(rows[i])})
       IN  new_rows' = [i \in DOMAIN confirmed |-> confirmed[i].email]
    /\ wpc' = "write"
    /\ UNCHANGED <<written, manifest, cur, size, row, seen, buffer, combined, faults, torn>>

WriteRow ==
    /\ wpc = "write" /\ new_rows # <<>>
    /\ buffer' = Append(buffer, Head(new_rows)) /\ wpc' = "mark"
    /\ UNCHANGED <<written, manifest, cur, size, row, new_rows, seen, combined, faults, torn>>

\* mark_passed_off is an UPDATE: it marks nothing that is not in the manifest.
MarkRow ==
    /\ wpc = "mark"
    /\ in_passoff' = in_passoff \cup ({Head(new_rows)} \cap known)
    /\ torn' = torn \cup ({Head(new_rows)} \ known)
    /\ new_rows' = Tail(new_rows) /\ wpc' = "write"
    /\ UNCHANGED <<written, known, zerobounced, cur, size, row, seen, buffer, combined, faults>>

flush == combined' = flushed /\ buffer' = <<>>

BufferFull ==
    /\ buffer # <<>> /\ flush
    /\ UNCHANGED <<written, manifest, scan, faults, torn>>

FileDone ==
    /\ wpc = "write" /\ new_rows = <<>>
    /\ flush /\ seen' = [seen EXCEPT ![file] = size] /\ nextFile
    /\ UNCHANGED <<written, manifest, new_rows, faults, torn>>

abandoned == wpc' = "idle" /\ cur' = 1 /\ size' = 0 /\ row' = 0 /\ new_rows' = <<>>

halfway == IF wpc = "mark" THEN {Head(new_rows)} ELSE {}

\* "Scan failed; continuing": the file is closed on the way out.
ScanFails ==
    /\ wpc \in {"ingest", "collect", "write", "mark"} /\ faults < MaxFaults
    /\ faults' = faults + 1 /\ torn' = torn \cup halfway
    /\ abandoned /\ flush
    /\ UNCHANGED <<written, manifest, seen>>

\* Fingerprints and what was not flushed are gone.
Killed ==
    /\ faults < MaxFaults /\ faults' = faults + 1
    /\ torn' = torn \cup halfway \cup ToSet(buffer)
    /\ abandoned /\ buffer' = <<>> /\ seen' = [f \in ToSet(Files) |-> NotSeen]
    /\ UNCHANGED <<written, manifest, combined>>

\* manifest_init, run by hand while no scan is under way.
ManifestInit ==
    /\ wpc = "idle"
    /\ LET read(S) == UNION {{r.email : r \in ToSet(SubSeq(Results[f], 1, written[f]))} : f \in S}
       IN  /\ known' = known \cup read(ToSet(Files))
           /\ zerobounced' = zerobounced \cup read(ToSet(Files) \ FromZuhal)
           /\ in_passoff' = in_passoff \cup {e \in known' : combined[e] > 0}
    /\ UNCHANGED <<written, scan, buffer, combined, faults, torn>>

PassoffNext ==
    \/ \E f \in ToSet(Files) : Grows(f)
    \/ ScanBegins \/ Stat \/ Ingest \/ Collect \/ WriteRow \/ MarkRow \/ BufferFull \/ FileDone
    \/ ScanFails \/ Killed \/ ManifestInit

PassoffSpec == PassoffInit /\ [][PassoffNext]_passoff

-----------------------------------------------------------------------------

\* Addresses that one file holds twice are appended twice from it.
Doubled ==
    {e \in Emails : \E f \in ToSet(Files) :
        Cardinality({i \in DOMAIN Results[f] : Results[f][i].email = e}) > 1}

(* Files grow, are read again by every later scan and name an address of   *)
(* another operator's file: still it is handed off exactly once if it is   *)
(* marked and never otherwise, but for the one address that a fault caught *)
(* between file and mark, what was not flushed when the process was        *)
(* killed, and rows that were written while their file was being read.     *)
HandedOffOnce ==
    \A e \in Emails \ (torn \cup Doubled) :
        flushed[e] = IF e \in in_passoff \cup halfway THEN 1 ELSE 0

=============================================================================
