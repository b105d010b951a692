-------------------------- MODULE OtaSystem_proof --------------------------
(***************************************************************************)
(* What TLAPS proves of the firmware update, for any number of tasks,       *)
(* resets and failed operations: the main slot is only incomplete while the  *)
(* journal says so and nothing selects it, the phases tell what is in the    *)
(* slot, the backup a restore needs is kept, and the server hears of success *)
(* only while the image of that task runs, confirmed.                        *)
(*                                                                         *)
(* Inv is the inductive invariant.  A step either is one of Recovery, or one *)
(* of a process of the main application, or restarts: RecoveryStep, MainStep *)
(* and RestartStep say what such a step must respect to keep Inv, and each   *)
(* action has a lemma that shows that it does.                              *)
(*                                                                         *)
(* Fate is a second invariant, on top of Inv, of the specification with its *)
(* history (OtaHistory): which tasks are answered, lost or still owned by    *)
(* the journal or by a process.  Accounted says what may become lost in a    *)
(* step, and NotForgotten follows.                                          *)
(***************************************************************************)
EXTENDS OtaHistory, TLAPS

Notices  == {"network_ready", "saving", "resume"}
Handing  == {"verify", "await", "acknowledged", "select", "fail"}
Staged   == Handing \cup {"restart", "direct"}
Fetching == {"check", "backup", "download", "sign", "save"}
Applying == {"erase", "write", "written"}
Rewriting == {"verify_backup", "erase_restore", "rewrite", "rewritten"}
Promoting == {"promote", "rename_pending", "rename_backup", "promoted"}

\* The labels a process may have.
Labels(p) ==
    {"idle"} \cup
    (IF p = "recovery" THEN {"start", "mount", "candidate", "restore", "boot_written",
                             "boot_rejected", "boot_restored", "mark_restored"} \cup Applying \cup Rewriting
     ELSE IF p = "boot" THEN {"starting", "saving", "resume"}
     ELSE IF p = "report" THEN {"report", "sleep", "http", "answered", "clear"} \cup Promoting
     ELSE IF p = "mqtt" THEN Notices
     ELSE IF p = "download" THEN {"begin"} \cup Fetching \cup Staged \cup Notices
     ELSE Staged \cup Notices)
Everywhere == UNION {Labels(p) : p \in Procs}
PlacesOK ==
    /\ pc \in [Procs -> Everywhere]
    /\ \A p \in Procs : pc[p] \in Labels(p)

\* The first boots of an image, until ConfirmRunningImage has recorded them.
BootPhases == {"ready_to_boot", "rollback_ready", "rollback_booting"}
Settled    == BootPhases \cup {"confirmed"}
Updating   == {"awaiting_staged_ack", "pending", "applying", "ready_to_boot", "confirmed"}
Anchored   == {"awaiting_staged_ack", "pending", "applying", "restoring"} \cup BootPhases

\* One application runs, the main one from a complete slot.
ModesOK ==
    /\ mode = "main" => /\ pc["recovery"] = "idle" /\ flash # Partial
                        /\ boot \in {"pending", "valid", "erased"}
    /\ mode # "main" => \A p \in Procs \ {"recovery"} : pc[p] = "idle"
    /\ mode = "halted" => pc["recovery"] = "idle"
    /\ mode # "main" => IF pc["recovery"] = "mark_restored" THEN boot = "new"
                        ELSE \/ boot \in {"erased", "aborted"}
                             \/ mode = "halted" /\ boot = "new"

\* What Recovery works on, r, is what the journal says, and what it has written.
RecoveryAt(at, r, record, image) ==
    /\ at \notin {"idle", "start", "restore"} => record = r
    /\ at = "restore" => /\ \E e \in BOOLEAN : record = [r EXCEPT !.error = e]
                         /\ r.phase \in {"applying", "ready_to_boot", "restoring"}
    /\ at = "mount" => r.phase \in {"pending", "applying", "ready_to_boot", "restoring"}
    /\ at = "candidate" => r.phase \in {"pending", "applying"}
    /\ at \in Applying => r.phase = "applying"
    /\ at \in Rewriting => r.phase = "restoring"
    /\ at = "boot_written" => r.phase = "ready_to_boot"
    /\ at = "boot_rejected" => r.phase = "failed"
    /\ at \in {"boot_restored", "mark_restored"} => r.phase = "rollback_ready"
    /\ at = "written" => image = r.pending
    /\ at = "rewritten" => image = r.installed
RecoveryOK == RecoveryAt(pc["recovery"], loc["recovery"], journal, flash)

\* While the record is that of a first boot or of a confirmed image, nobody stages
\* or hands off, and the slot stays selected.
SettledOK ==
    mode = "main" /\ journal.phase \in Settled =>
        /\ \A p \in Procs : pc[p] \notin Fetching \cup Handing \cup {"restart", "resume"}
        /\ boot # "erased"

\* A first boot is recorded once, before anything else is done.
BootsOK ==
    /\ mode = "main" /\ journal.phase \in BootPhases => ~confirmed /\ pc["report"] = "idle"
    /\ \A p \in Procs : pc[p] = "saving" =>
          /\ journal.phase \in BootPhases /\ loc[p] = ConfirmedRecord(journal)
          /\ boot # "pending"
    /\ \A p, q \in Procs : pc[p] = "saving" /\ pc[q] = "saving" => p = q
    /\ confirmed => boot # "pending" /\ mode = "main"
    /\ pc["report"] # "idle" => confirmed

\* The card is changed only while the journal does not need it.
CardOK ==
    /\ pc["download"] \in Fetching => journal.phase \notin Anchored
    /\ pc["download"] \in {"download", "sign", "save"} =>
          loc["download"].installed = flash /\ sd.installed \in {flash, Damaged}

\* A success in the making: the image of the task runs and is confirmed.
ReportAt(at, r, record, image) ==
    /\ at \in Promoting => r.phase = "confirmed"
    /\ at \in Promoting \cup {"http", "answered"} /\ r.phase = "confirmed" =>
          record.phase = "confirmed" /\ r.pending = image /\ r.task = image
ReportOK == ReportAt(pc["report"], loc["report"], journal, flash)

\* What a record says of the main slot and of the backup.
Fits(r, image, backup) ==
    /\ r.phase \in Updating => r.pending = r.task
    /\ image = Partial => r.phase \in {"applying", "restoring"}
    /\ r.phase \in {"ready_to_boot", "confirmed"} => image = r.pending
    /\ r.phase \in {"rollback_ready", "rollback_booting", "rollback"} => image = r.installed
    /\ r.phase \in {"awaiting_staged_ack", "pending"} => image = r.installed
    /\ r.phase \in Anchored => backup \in {r.installed, Damaged}

\* The durable state and the RAM of the application, and their types.
Booted == {"erased", "new", "pending", "valid", "aborted"}
Cards  == [pending : Images \cup {None, Damaged}, sig : Tasks \cup {None},
           installed : Images \cup {None, Damaged}]
DurableOK ==
    /\ journal \in Record /\ ValidateRecord(journal)
    /\ flash \in Images \cup {Partial} /\ sd \in Cards /\ boot \in Booted
    /\ Fits(journal, flash, sd.installed)
    /\ flash = Partial => boot \in {"erased", "aborted"}
FlagTypes ==
    /\ confirmed \in BOOLEAN /\ timer \in BOOLEAN /\ connected \in BOOLEAN
    /\ acked \in Tasks \cup {None}
    /\ mode \in {"main", "recovery", "halted"}
ResultTypes ==
    /\ DOMAIN result \subseteq Tasks
    /\ \A t \in DOMAIN result : result[t] \in {{}, {"success"}, {"failed"}, {"rejected"}}
LocTypes == loc \in [Procs -> Record]

\* The flag of the hand-off belongs to a process that is running.
HandoffOK ==
    /\ handoff \in {None, "staged", "retry"}
    /\ handoff # None => pc[handoff] # "idle"
    /\ pc["staged"] # "idle" => handoff = "staged"

Inv == /\ DurableOK /\ FlagTypes /\ ResultTypes /\ LocTypes
       /\ PlacesOK /\ ModesOK /\ RecoveryOK /\ SettledOK /\ BootsOK /\ CardOK /\ ReportOK
       /\ HandoffOK

(***************************************************************************)
(* Records, saves and single steps of a process.                           *)
(***************************************************************************)
\* What a record that passes ValidateRecord has.
LEMMA ValidFacts ==
    ASSUME NEW r \in Record, ValidateRecord(r)
    PROVE  /\ r.phase \in Updating => r.task \in Tasks /\ r.pending \in Images /\ r.installed \in Images
           /\ r.phase \in {"restoring", "rollback_ready", "rollback_booting", "rollback"} =>
                 r.installed \in Images
<1>1. /\ r.task \in Tasks \cup {None}
      /\ r.pending \in Images \cup {None} /\ r.installed \in Images \cup {None}
  BY DEF Record
<1>2. r.phase \in Updating => r.task # None /\ r.pending # None /\ r.installed # None
  BY DEF ValidateRecord, Updating
<1>3. r.phase \in {"restoring", "rollback_ready", "rollback_booting", "rollback"} =>
         r.installed # None
  BY DEF ValidateRecord
<1> QED BY <1>1, <1>2, <1>3

\* No record has a phase without a name, and no image is none or incomplete.
LEMMA NameFacts ==
    /\ None \notin Images /\ Partial \notin Images /\ Tasks \subseteq Images /\ Base \in Images
    /\ None \notin Procs /\ BlankRecord \in Record
<1>1. BlankRecord \in Record
  BY DEF BlankRecord, Record, Phases
<1> QED BY <1>1, OtaAssumption DEF Images

\* A save leaves the old or the new record, and the new one when it says so.
LEMMA SaveFacts ==
    ASSUME NEW r \in Record, NEW ok \in BOOLEAN, Save(r, ok),
           journal \in Record, ValidateRecord(journal)
    PROVE  /\ journal' \in {journal, r} /\ journal' \in Record /\ ValidateRecord(journal')
           /\ ok => journal' = r
<1>1. CASE ValidateRecord(r)
  BY <1>1 DEF Save
<1>2. CASE ~ValidateRecord(r)
  BY <1>2 DEF Save
<1> QED BY <1>1, <1>2

\* A process that takes a step, and the others.
LEMMA GoFacts ==
    ASSUME NEW p \in Procs, NEW label \in Labels(p), NEW rec \in Record,
           PlacesOK, LocTypes, Go(p, label, rec)
    PROVE  /\ PlacesOK' /\ LocTypes'
           /\ pc'[p] = label /\ loc'[p] = rec
           /\ \A q \in Procs \ {p} : pc'[q] = pc[q] /\ loc'[q] = loc[q]
<1>1. pc \in [Procs -> Everywhere] /\ loc \in [Procs -> Record]
  BY DEF PlacesOK, LocTypes
<1>2. pc' = [pc EXCEPT ![p] = label] /\ loc' = [loc EXCEPT ![p] = rec]
  BY DEF Go
<1>3. label \in Everywhere
  BY DEF Everywhere
<1>4. loc' \in [Procs -> Record] /\ loc'[p] = rec /\ \A q \in Procs \ {p} : loc'[q] = loc[q]
  BY <1>1, <1>2
<1>5. pc' \in [Procs -> Everywhere] /\ pc'[p] = label /\ \A q \in Procs \ {p} : pc'[q] = pc[q]
  BY <1>1, <1>2, <1>3
<1>6. \A q \in Procs : pc'[q] \in Labels(q)
  BY <1>5 DEF PlacesOK
<1> QED BY <1>4, <1>5, <1>6 DEF PlacesOK, LocTypes

(***************************************************************************)
(* The three kinds of steps.                                               *)
(***************************************************************************)
\* A restart begins with RAM that is blank, in the application that boot selects.
LEMMA RestartStep ==
    ASSUME NEW b \in Booted, Restart(b), ResultTypes',
           journal' \in Record, ValidateRecord(journal'), flash' \in Images \cup {Partial},
           sd' \in Cards, Fits(journal', flash', sd'.installed),
           flash' = Partial => b \in {"erased", "aborted"}
    PROVE  Inv'
<1> DEFINE selected == b \in {"new", "valid"}
<1>1. boot' = IF b = "new" THEN "pending" ELSE IF b = "pending" THEN "aborted" ELSE b
  BY DEF Restart
<1>2. /\ boot' \in Booted
      /\ selected => boot' \in {"pending", "valid"} /\ flash' # Partial
      /\ ~selected => boot' \in {"erased", "aborted"}
  BY <1>1 DEF Booted
<1>3. /\ mode' = IF selected THEN "main" ELSE "recovery"
      /\ pc' = [p \in Procs |-> IF p = "recovery" /\ ~selected THEN "start"
                                ELSE IF p = "boot" /\ selected THEN "starting" ELSE "idle"]
  BY <1>2 DEF Restart
<1>4. /\ loc' = [p \in Procs |-> BlankRecord]
      /\ confirmed' = FALSE /\ handoff' = None /\ acked' = None
      /\ timer' = FALSE /\ connected' = FALSE
  BY DEF Restart
<1>5. DurableOK'
  BY <1>2 DEF DurableOK
<1>6. FlagTypes' /\ LocTypes'
  BY <1>3, <1>4, NameFacts DEF FlagTypes, LocTypes
<1>7. /\ \A p \in Procs \ {"recovery", "boot"} : pc'[p] = "idle"
      /\ pc'["recovery"] = IF selected THEN "idle" ELSE "start"
      /\ pc'["boot"] = IF selected THEN "starting" ELSE "idle"
  BY <1>3 DEF Procs
<1>8. PlacesOK'
  <2>1. \A p \in Procs : pc'[p] \in Labels(p)
    BY <1>7 DEF Labels, Procs, Notices
  <2>2. \A p \in Procs : pc'[p] \in Everywhere
    BY <2>1 DEF Everywhere
  <2>3. pc' \in [Procs -> Everywhere]
    BY <1>3, <2>2
  <2> QED BY <2>1, <2>3 DEF PlacesOK
<1>9. ModesOK' /\ RecoveryOK'
  BY <1>2, <1>3, <1>7 DEF ModesOK, RecoveryOK, RecoveryAt, Applying, Rewriting, Procs
<1>10. /\ \A p \in Procs : pc'[p] \in {"idle", "start", "starting"}
       /\ "download" \in Procs /\ "report" \in Procs /\ "staged" \in Procs
  BY <1>7 DEF Procs
<1>11. \A p \in Procs : pc'[p] \notin Fetching \cup Handing \cup Promoting
                                       \cup {"restart", "resume", "saving", "http", "answered"}
  BY <1>10 DEF Fetching, Handing, Promoting
<1>12. SettledOK'
  BY <1>2, <1>3, <1>11 DEF SettledOK
<1>13. pc'["report"] = "idle" /\ pc'["staged"] = "idle"
  BY <1>7 DEF Procs
<1>14. BootsOK'
  BY <1>4, <1>11, <1>13 DEF BootsOK
<1>15. pc'["download"] \notin Fetching /\ pc'["report"] \notin Promoting \cup {"http", "answered"}
  BY <1>10, <1>11
<1>16. CardOK' /\ ReportOK'
  BY <1>15 DEF CardOK, ReportOK, ReportAt, Fetching
<1>17. HandoffOK'
  BY <1>4, <1>13 DEF HandoffOK
<1> QED BY <1>5, <1>6, <1>8, <1>9, <1>12, <1>14, <1>16, <1>17 DEF Inv

\* A step of Recovery, which has the machine for itself.
LEMMA RecoveryStep ==
    ASSUME Inv, mode # "main", UNCHANGED <<confirmed, handoff, acked, timer, connected, result>>,
           NEW label \in Labels("recovery"), NEW rec \in Record, Go("recovery", label, rec),
           mode' \in {"recovery", "halted"}, mode' = "halted" => label = "idle",
           journal' \in Record, ValidateRecord(journal'), flash' \in Images \cup {Partial},
           sd' \in Cards, Fits(journal', flash', sd'.installed),
           IF label = "mark_restored" THEN boot' = "new" /\ flash' # Partial
           ELSE \/ boot' \in {"erased", "aborted"}
                \/ mode' = "halted" /\ boot' = "new" /\ flash' # Partial,
           RecoveryAt(label, rec, journal', flash')
    PROVE  Inv'
<1>1. "recovery" \in Procs
  BY DEF Procs
<1>2. /\ PlacesOK' /\ LocTypes' /\ pc'["recovery"] = label /\ loc'["recovery"] = rec
      /\ \A q \in Procs \ {"recovery"} : pc'[q] = pc[q]
  BY <1>1, GoFacts DEF Inv
<1>3. \A q \in Procs \ {"recovery"} : pc'[q] = "idle"
  BY <1>2 DEF Inv, ModesOK
<1>4. DurableOK'
  BY DEF DurableOK, Booted
<1>5. FlagTypes' /\ ResultTypes'
  BY DEF Inv, FlagTypes, ResultTypes
<1>6. ModesOK' /\ RecoveryOK'
  BY <1>2, <1>3 DEF ModesOK, RecoveryOK
<1>7. \A p \in Procs : pc'[p] # "saving"
  BY <1>2, <1>3 DEF Labels, Applying, Rewriting
<1>8. pc'["report"] = "idle" /\ pc'["staged"] = "idle" /\ pc'["download"] = "idle"
  BY <1>3 DEF Procs
<1>9. SettledOK'
  BY DEF SettledOK
<1>10. ~confirmed'
  BY DEF Inv, BootsOK, FlagTypes
<1>11. BootsOK'
  BY <1>7, <1>8, <1>10 DEF BootsOK
<1>12. CardOK' /\ ReportOK'
  BY <1>8 DEF CardOK, ReportOK, ReportAt, Fetching, Promoting
<1>13. HandoffOK'
  <2>1. handoff = None
    BY NameFacts DEF Inv, HandoffOK, ModesOK, Procs
  <2> QED BY <1>8, <2>1 DEF HandoffOK
<1> QED BY <1>2, <1>4, <1>5, <1>6, <1>9, <1>11, <1>12, <1>13 DEF Inv

Unsettling == Fetching \cup Handing \cup {"restart", "resume"}
Sending    == Promoting \cup {"http", "answered"}

\* How a step of p to label leaves the flag of the hand-off.
Flagged(p, label) ==
    \/ handoff' = handoff /\ (handoff = p => label # "idle") /\ (p = "staged" => pc[p] # "idle")
    \/ handoff' = (IF handoff = p THEN None ELSE handoff) /\ label = "idle"
    \/ handoff = None /\ handoff' = p /\ p = "retry" /\ label # "idle"

\* A step of one process of the main application.
LEMMA MainStep ==
    ASSUME Inv, mode = "main", UNCHANGED <<mode, flash>>,
           NEW p \in Procs \ {"recovery"}, NEW label \in Labels(p), NEW rec \in Record,
           Go(p, label, rec), FlagTypes', ResultTypes',
           journal' \in Record, ValidateRecord(journal'), sd' \in Cards,
           Fits(journal', flash, sd'.installed),
           boot' \in {"pending", "valid", "erased"}, boot # "pending" => boot' # "pending",
           confirmed => confirmed', confirmed' => boot' # "pending",
           journal'.phase \in Settled =>
               journal.phase \in Settled /\ label \notin Unsettling /\ boot' # "erased",
           journal'.phase \in BootPhases =>
               journal.phase \in BootPhases /\ ~confirmed' /\ (p = "report" => label = "idle"),
           label = "saving" =>
               /\ journal' = journal /\ journal.phase \in BootPhases
               /\ rec = ConfirmedRecord(journal) /\ boot' # "pending"
               /\ \A q \in Procs : pc[q] # "saving",
           \A q \in Procs \ {p} : pc[q] = "saving" => journal' = journal,
           p = "report" /\ label # "idle" => confirmed',
           p # "download" /\ pc["download"] \in Fetching =>
               journal'.phase \notin Anchored /\ sd'.installed = sd.installed,
           p = "download" /\ label \in Fetching => journal'.phase \notin Anchored,
           p = "download" /\ label \in {"download", "sign", "save"} =>
               rec.installed = flash /\ sd'.installed \in {flash, Damaged},
           p # "report" /\ pc["report"] \in Sending /\ loc["report"].phase = "confirmed" =>
               journal'.phase = "confirmed",
           p = "report" => ReportAt(label, rec, journal', flash),
           Flagged(p, label)
    PROVE  Inv'
<1>1. /\ PlacesOK' /\ LocTypes' /\ pc'[p] = label /\ loc'[p] = rec
      /\ \A q \in Procs \ {p} : pc'[q] = pc[q] /\ loc'[q] = loc[q]
  BY GoFacts DEF Inv
<1>2. /\ "recovery" \in Procs /\ "report" \in Procs /\ "download" \in Procs /\ "staged" \in Procs
      /\ "retry" \in Procs /\ "retry" # "staged" /\ "recovery" # "report"
  BY DEF Procs
<1>3. pc["recovery"] = "idle" /\ pc'["recovery"] = "idle" /\ flash # Partial
  BY <1>1, <1>2 DEF Inv, ModesOK
<1>4. DurableOK'
  <2>1. flash' \in Images \cup {Partial} /\ Fits(journal', flash', sd'.installed)
    BY DEF Inv, DurableOK
  <2> QED BY <1>3, <2>1 DEF DurableOK, Booted
<1>5. ModesOK' /\ RecoveryOK'
  BY <1>3 DEF ModesOK, RecoveryOK, RecoveryAt, Applying, Rewriting
<1>6. SettledOK'
  <2>1. ASSUME journal'.phase \in Settled
        PROVE  (\A q \in Procs : pc'[q] \notin Unsettling) /\ boot' # "erased"
    BY <1>1, <2>1 DEF Inv, SettledOK, Unsettling
  <2> QED BY <2>1 DEF SettledOK, Unsettling
<1>7. BootsOK'
  <2>1. ASSUME journal'.phase \in BootPhases PROVE ~confirmed' /\ pc'["report"] = "idle"
    BY <1>1, <1>2, <2>1 DEF Inv, BootsOK
  <2>2. ASSUME NEW q \in Procs, pc'[q] = "saving"
        PROVE  /\ journal'.phase \in BootPhases /\ loc'[q] = ConfirmedRecord(journal')
               /\ boot' # "pending"
    BY <1>1, <2>2 DEF Inv, BootsOK
  <2>3. ASSUME NEW q \in Procs, NEW s \in Procs, pc'[q] = "saving", pc'[s] = "saving"
        PROVE  q = s
    BY <1>1, <2>3 DEF Inv, BootsOK
  <2>4. pc'["report"] # "idle" => confirmed'
    BY <1>1, <1>2 DEF Inv, BootsOK
  <2> QED BY <2>1, <2>2, <2>3, <2>4 DEF BootsOK
<1>8. CardOK'
  <2>1. CASE p = "download"
    BY <1>1, <2>1 DEF CardOK
  <2>2. CASE p # "download"
    BY <1>1, <1>2, <2>2 DEF CardOK, Inv, Fetching
  <2> QED BY <2>1, <2>2
<1>9. ReportOK'
  <2>1. CASE p = "report"
    BY <1>1, <2>1 DEF ReportOK
  <2>2. CASE p # "report"
    BY <1>1, <1>2, <2>2 DEF ReportOK, ReportAt, Inv, Sending
  <2> QED BY <2>1, <2>2
<1>10. HandoffOK'
  <2>1. None # "staged" /\ None # "retry"
    BY <1>2, NameFacts
  <2>2. /\ handoff \in {None, "staged", "retry"}
        /\ handoff # None => pc[handoff] # "idle"
        /\ pc["staged"] # "idle" => handoff = "staged"
    BY DEF Inv, HandoffOK
  <2>3. CASE handoff' = handoff /\ (handoff = p => label # "idle") /\ (p = "staged" => pc[p] # "idle")
    BY <1>1, <1>2, <2>1, <2>2, <2>3 DEF HandoffOK
  <2>4. CASE handoff' = (IF handoff = p THEN None ELSE handoff) /\ label = "idle"
    BY <1>1, <1>2, <2>1, <2>2, <2>4 DEF HandoffOK
  <2>5. CASE handoff = None /\ handoff' = p /\ p = "retry" /\ label # "idle"
    BY <1>1, <1>2, <2>1, <2>2, <2>5 DEF HandoffOK
  <2> QED BY <2>3, <2>4, <2>5 DEF Flagged
<1> QED BY <1>1, <1>4, <1>5, <1>6, <1>7, <1>8, <1>9, <1>10 DEF Inv

\* A step that leaves the durable state alone.
LEMMA QuietStep ==
    ASSUME Inv, mode = "main", UNCHANGED <<mode, durable, confirmed>>,
           NEW p \in Procs \ {"recovery"}, NEW label \in Labels(p), NEW rec \in Record,
           Go(p, label, rec), FlagTypes', ResultTypes',
           journal.phase \in Settled => label \notin Unsettling,
           label # "saving", p = "download" => label \notin Fetching,
           p = "report" /\ label # "idle" => confirmed,
           p = "report" => ReportAt(label, rec, journal, flash),
           Flagged(p, label)
    PROVE  Inv'
<1>1. /\ UNCHANGED <<journal, boot, flash, sd>>
      /\ journal \in Record /\ ValidateRecord(journal) /\ sd \in Cards
      /\ Fits(journal, flash, sd.installed) /\ boot \in {"pending", "valid", "erased"}
  BY DEF Inv, DurableOK, ModesOK, durable
<1>2. /\ "report" \in Procs /\ "download" \in Procs
      /\ confirmed => boot # "pending"
      /\ journal.phase \in Settled => boot # "erased"
      /\ journal.phase \in BootPhases => ~confirmed
  BY DEF Inv, SettledOK, BootsOK, Procs
<1>3. /\ pc["download"] \in Fetching => journal.phase \notin Anchored
      /\ pc["report"] \in Sending /\ loc["report"].phase = "confirmed" => journal.phase = "confirmed"
  BY DEF Inv, CardOK, ReportOK, ReportAt, Sending
<1>4. p = "download" => label \notin {"download", "sign", "save"}
  BY DEF Fetching
<1> QED BY <1>1, <1>2, <1>3, <1>4, MainStep

(***************************************************************************)
(* The quiet steps of the main application.                                *)
(***************************************************************************)
\* Where a process is, the machine runs its application.
LEMMA AtMain ==
    ASSUME Inv, NEW p \in Procs \ {"recovery"}, pc[p] # "idle"
    PROVE  mode = "main" /\ boot \in {"pending", "valid", "erased"} /\ flash # Partial
  BY DEF Inv, ModesOK

\* The end of a process.
LEMMA RetKeeps ==
    ASSUME Inv, NEW p \in Procs \ {"recovery"}, NEW retry \in BOOLEAN, mode = "main",
           Ret(p, retry), UNCHANGED <<durable>>, ResultTypes'
    PROVE  Inv'
<1>1. "idle" \in Labels(p) /\ BlankRecord \in Record
  BY NameFacts DEF Labels
<1>2. /\ Go(p, "idle", BlankRecord) /\ handoff' = IF handoff = p THEN None ELSE handoff
      /\ UNCHANGED <<mode, confirmed, acked, connected>> /\ timer' = (timer \/ retry)
  BY DEF Ret, Ends
<1>3. FlagTypes'
  BY <1>2 DEF Inv, FlagTypes
<1>4. ReportAt("idle", BlankRecord, journal, flash) /\ Flagged(p, "idle")
  BY <1>2 DEF ReportAt, Promoting, Flagged
<1>5. "idle" \notin Unsettling \cup Fetching
  BY DEF Unsettling, Fetching, Handing
<1> QED BY <1>1, <1>2, <1>3, <1>4, <1>5, QuietStep

\* A process that goes on, with the durable state as it is.
LEMMA StepKeeps ==
    ASSUME Inv, NEW p \in Procs \ {"recovery"}, NEW label \in Labels(p), NEW rec \in Record,
           mode = "main", Step(p, label, rec), UNCHANGED <<durable>>, ResultTypes',
           pc[p] # "idle" \/ p # "staged", label # "idle",
           journal.phase \in Settled => label \notin Unsettling,
           label # "saving", p = "download" => label \notin Fetching,
           p = "report" => confirmed /\ ReportAt(label, rec, journal, flash)
    PROVE  Inv'
<1>1. Go(p, label, rec) /\ UNCHANGED <<mode, confirmed, handoff, acked, timer, connected>>
  BY DEF Step
<1>2. FlagTypes' /\ Flagged(p, label)
  BY <1>1 DEF Inv, FlagTypes, Flagged
<1> QED BY <1>1, <1>2, QuietStep

\* OnNetworkReady is entered by a task of its own.
LEMMA NotifiedKeeps ==
    ASSUME Inv, MqttConnected \/ TimerFires
    PROVE  Inv'
<1>1. /\ "mqtt" \in Procs \ {"recovery"} /\ "retry" \in Procs \ {"recovery"}
      /\ "network_ready" \in Labels("mqtt") /\ "network_ready" \in Labels("retry")
  BY DEF Procs, Labels, Notices
<1>2. "network_ready" \notin Unsettling \cup Fetching
  BY DEF Unsettling, Fetching, Handing
<1>3. ResultTypes' /\ BlankRecord \in Record
  BY NameFacts DEF Inv, ResultTypes, MqttConnected, TimerFires
<1>4. CASE MqttConnected
  <2>1. FlagTypes' /\ Flagged("mqtt", "network_ready")
    BY <1>4 DEF Inv, FlagTypes, Flagged, MqttConnected
  <2> QED BY <1>1, <1>2, <1>3, <1>4, <2>1, QuietStep DEF MqttConnected, Online
<1>5. CASE TimerFires
  <2>1. FlagTypes' /\ Flagged("retry", "network_ready")
    BY <1>5 DEF Inv, FlagTypes, Flagged, TimerFires
  <2> QED BY <1>1, <1>2, <1>3, <1>5, <2>1, QuietStep DEF TimerFires
<1> QED BY <1>4, <1>5

LEMMA HandleNotificationKeeps ==
    ASSUME Inv, NEW t \in DOMAIN result, HandleNotification(t)
    PROVE  Inv'
<1> DEFINE rec == [BlankRecord EXCEPT !.task = t]
<1>1. rec \in Record
  BY NameFacts DEF Inv, ResultTypes, Record
<1>2. "download" \in Procs \ {"recovery"} /\ "begin" \in Labels("download")
  BY DEF Procs, Labels
<1>3. "begin" \notin Unsettling \cup Fetching
  BY DEF Unsettling, Fetching, Handing
<1>4. ResultTypes' /\ mode = "main" /\ Step("download", "begin", rec) /\ UNCHANGED durable
  BY DEF Inv, ResultTypes, HandleNotification, Online
<1> HIDE DEF rec
<1> QED BY <1>1, <1>2, <1>3, <1>4, StepKeeps

\* Waiting for the broker.
LEMMA AcknowledgedKeeps ==
    ASSUME Inv, NEW p \in Procs, StagedAcknowledged(p) \/ StagedUnacknowledged(p)
    PROVE  Inv'
<1>1. pc[p] = "await" /\ UNCHANGED <<durable, result>>
  BY DEF StagedAcknowledged, StagedUnacknowledged
<1>2. /\ p \in Procs \ {"recovery", "report"} /\ "acknowledged" \in Labels(p)
      /\ loc[p] \in Record
  BY <1>1 DEF Inv, PlacesOK, LocTypes, Labels, Applying, Rewriting, Promoting, Notices, Staged,
    Handing
<1>3. mode = "main" /\ ResultTypes' /\ journal.phase \notin Settled
  BY <1>1, <1>2, AtMain DEF Inv, SettledOK, ResultTypes, Handing
<1>4. CASE StagedAcknowledged(p)
  <2>1. "acknowledged" \notin Fetching /\ Step(p, "acknowledged", loc[p])
    BY <1>4 DEF Fetching, StagedAcknowledged
  <2> QED BY <1>1, <1>2, <1>3, <2>1, StepKeeps
<1>5. CASE StagedUnacknowledged(p)
  BY <1>1, <1>2, <1>3, <1>5, RetKeeps DEF StagedUnacknowledged
<1> QED BY <1>4, <1>5

LEMMA HandoffVerifyKeeps ==
    ASSUME Inv, NEW p \in Procs, HandoffVerify(p)
    PROVE  Inv'
<1>1. pc[p] = "verify" /\ UNCHANGED <<durable, result>>
  BY DEF HandoffVerify
<1>2. /\ p \in Procs \ {"recovery", "report"} /\ journal \in Record
      /\ {"select", "await", "fail"} \subseteq Labels(p)
  BY <1>1 DEF Inv, PlacesOK, DurableOK, Labels, Applying, Rewriting, Promoting, Notices, Staged,
    Handing
<1>3. mode = "main" /\ ResultTypes' /\ journal.phase \notin Settled
  BY <1>1, <1>2, AtMain DEF Inv, SettledOK, ResultTypes, Handing
<1>4. CASE \E retry \in BOOLEAN : Ret(p, retry)
  BY <1>1, <1>2, <1>3, <1>4, RetKeeps
<1>5. ASSUME NEW label \in {"select", "await", "fail"}, Step(p, label, journal)
      PROVE  Inv'
  <2>1. label \notin Fetching /\ label \in Labels(p) /\ label # "idle" /\ label # "saving"
    BY <1>2 DEF Fetching
  <2> QED BY <1>1, <1>2, <1>3, <1>5, <2>1, StepKeeps
<1> QED BY <1>4, <1>5 DEF HandoffVerify

\* The server's answers leave every task with at most one result.
LEMMA ToldFacts ==
    ASSUME Inv, NEW t, NEW what \in {"success", "failed", "rejected"},
           result' \in {result, Told(t, what)}
    PROVE  /\ ResultTypes'
           /\ \A s \in DOMAIN result : "success" \in result'[s] \ result[s] => s = t /\ what = "success"
<1>1. CASE result' = result
  BY <1>1 DEF Inv, ResultTypes
<1>2. CASE result' = [result EXCEPT ![t] = IF @ = {} THEN {what} ELSE @]
  <2>1. /\ DOMAIN result' = DOMAIN result
        /\ \A s \in DOMAIN result :
              result'[s] = IF s = t /\ result[s] = {} THEN {what} ELSE result[s]
    BY <1>2
  <2> QED BY <2>1 DEF Inv, ResultTypes
<1> QED BY <1>1, <1>2 DEF Told

LEMMA DirectReportKeeps ==
    ASSUME Inv, NEW p \in Procs, DirectReport(p)
    PROVE  Inv' /\ \A t \in DOMAIN result : "success" \notin result'[t] \ result[t]
<1>1. pc[p] = "direct" /\ UNCHANGED durable /\ Ret(p, FALSE)
  BY DEF DirectReport
<1>2. p \in Procs \ {"recovery"}
  BY <1>1 DEF Inv, PlacesOK, Labels, Applying, Rewriting
<1>3. mode = "main"
  BY <1>1, <1>2, AtMain
<1>4. ResultTypes' /\ \A t \in DOMAIN result : "success" \notin result'[t] \ result[t]
  <2>1. CASE result' \in {result, Told(loc[p].task, "failed")}
    BY <2>1, ToldFacts
  <2>2. CASE result' \in {result, Told(loc[p].task, "rejected")}
    BY <2>2, ToldFacts
  <2> QED BY <2>1, <2>2 DEF DirectReport
<1> QED BY <1>1, <1>2, <1>3, <1>4, RetKeeps

(***************************************************************************)
(* Boot confirmation and restarts.                                         *)
(***************************************************************************)
\* What the first boot of an image will be recorded as.
LEMMA ConfirmedFacts ==
    ASSUME DurableOK, journal.phase \in BootPhases, flash # Partial
    PROVE  /\ ConfirmedRecord(journal) \in Record
           /\ ConfirmedRecord(journal).phase \in {"confirmed", "rollback"}
           /\ ConfirmedRecord(journal).phase \notin BootPhases
           /\ Fits(ConfirmedRecord(journal), flash, sd.installed)
<1>1. /\ journal \in Record /\ ValidateRecord(journal) /\ Fits(journal, flash, sd.installed)
  BY DEF DurableOK
<1>2. CASE journal.phase = "ready_to_boot"
  <2> DEFINE c == [journal EXCEPT !.phase = "confirmed", !.error = FALSE]
  <2>1. ConfirmedRecord(journal) = c
    BY <1>2 DEF ConfirmedRecord
  <2>2. /\ c \in Record /\ c.phase = "confirmed" /\ c.pending = journal.pending
        /\ c.task = journal.task
    BY <1>1 DEF Record, Phases
  <2>3. flash = journal.pending /\ journal.pending = journal.task
    BY <1>1, <1>2 DEF Fits, Updating
  <2> HIDE DEF c
  <2>4. Fits(c, flash, sd.installed)
    BY <2>2, <2>3 DEF Fits, Anchored, BootPhases
  <2> QED BY <2>1, <2>2, <2>4 DEF BootPhases
<1>3. CASE journal.phase # "ready_to_boot"
  <2> DEFINE c == [journal EXCEPT !.phase = "rollback", !.error = TRUE]
  <2>1. ConfirmedRecord(journal) = c
    BY <1>3 DEF ConfirmedRecord
  <2>2. c \in Record /\ c.phase = "rollback" /\ c.installed = journal.installed
    BY <1>1 DEF Record, Phases
  <2>3. flash = journal.installed
    BY <1>1, <1>3 DEF Fits, BootPhases
  <2> HIDE DEF c
  <2>4. Fits(c, flash, sd.installed)
    BY <2>2, <2>3 DEF Fits, Anchored, BootPhases, Updating
  <2> QED BY <2>1, <2>2, <2>4 DEF BootPhases
<1> QED BY <1>2, <1>3

\* What a step of the main application knows before and leaves in place.
LEMMA MainFacts ==
    ASSUME Inv, mode = "main"
    PROVE  /\ journal \in Record /\ ValidateRecord(journal) /\ sd \in Cards
           /\ Fits(journal, flash, sd.installed) /\ boot \in {"pending", "valid", "erased"}
           /\ flash \in Images /\ flash # Partial
           /\ confirmed => boot # "pending"
           /\ journal.phase \in Settled => boot # "erased"
           /\ journal.phase \in BootPhases => ~confirmed /\ pc["report"] = "idle"
           /\ pc["download"] \in Fetching => journal.phase \notin Anchored
           /\ pc["report"] \in Sending /\ loc["report"].phase = "confirmed" =>
                 journal.phase = "confirmed"
<1>1. /\ journal \in Record /\ ValidateRecord(journal) /\ sd \in Cards
      /\ Fits(journal, flash, sd.installed) /\ boot \in {"pending", "valid", "erased"}
      /\ flash \in Images /\ flash # Partial
  BY DEF Inv, DurableOK, ModesOK
<1>2. /\ confirmed => boot # "pending"
      /\ journal.phase \in Settled => boot # "erased"
      /\ journal.phase \in BootPhases => ~confirmed /\ pc["report"] = "idle"
  BY DEF Inv, SettledOK, BootsOK
<1>3. /\ pc["download"] \in Fetching => journal.phase \notin Anchored
      /\ pc["report"] \in Sending /\ loc["report"].phase = "confirmed" => journal.phase = "confirmed"
  BY DEF Inv, CardOK, ReportOK, ReportAt, Sending
<1> QED BY <1>1, <1>2, <1>3

LEMMA ConfirmKeeps ==
    ASSUME Inv, NEW p \in Procs, Confirm(p)
    PROVE  Inv'
<1>1. /\ (pc[p] = "starting" /\ p = "boot") \/ (pc[p] = "network_ready" /\ p # "boot")
      /\ UNCHANGED <<journal, flash, sd, result>>
  BY DEF Confirm
<1>2. /\ p \in Procs \ {"recovery", "report"}
      /\ {"idle", "resume", "saving"} \subseteq Labels(p) /\ pc[p] \in Labels(p)
      /\ "boot" # "download" /\ "boot" # "staged" /\ "report" \in Procs
  BY <1>1 DEF Inv, PlacesOK, Labels, Applying, Rewriting, Promoting, Notices, Procs
<1>3. mode = "main" /\ ResultTypes' /\ BlankRecord \in Record
  BY <1>1, <1>2, AtMain, NameFacts DEF Inv, ResultTypes
<1>4. "saving" \notin Unsettling \cup Fetching /\ "idle" \notin Unsettling \cup Fetching
      /\ "resume" \notin Fetching /\ pc[p] \notin Unsettling \cup Fetching \cup {"saving"}
  BY <1>1 DEF Unsettling, Fetching, Handing
<1>5. CASE Ret(p, TRUE) /\ UNCHANGED boot
  BY <1>1, <1>2, <1>3, <1>5, RetKeeps DEF durable
<1>6. CASE ~MayConfirm(journal.phase) /\ boot' = "erased" /\ Step(p, "resume", BlankRecord)
  <2>1. journal.phase \notin Settled
    BY <1>6 DEF MayConfirm, InstallPhases, Settled, BootPhases
  <2>2. /\ Go(p, "resume", BlankRecord)
        /\ UNCHANGED <<mode, confirmed, handoff, acked, timer, connected>>
    BY <1>6 DEF Step
  <2>3. FlagTypes' /\ Flagged(p, "resume")
    BY <1>1, <1>2, <2>2 DEF Inv, FlagTypes, Flagged
  <2>4. journal.phase \notin BootPhases /\ "resume" \notin {"download", "sign", "save", "saving"}
    BY <2>1 DEF Settled
  <2>5. /\ journal' \in Record /\ ValidateRecord(journal') /\ sd' \in Cards /\ flash' = flash
        /\ Fits(journal', flash, sd'.installed) /\ sd' = sd /\ journal' = journal
        /\ boot' \in {"pending", "valid", "erased"} /\ boot' # "pending"
    BY <1>1, <1>3, <1>6, MainFacts
  <2>6. /\ pc["download"] \in Fetching => journal.phase \notin Anchored
        /\ pc["report"] \in Sending /\ loc["report"].phase = "confirmed" => journal.phase = "confirmed"
    BY <1>3, MainFacts
  <2>7. UNCHANGED <<mode, flash>> /\ confirmed' = confirmed
    BY <2>2, <2>5
  <2> QED BY <1>2, <1>3, <1>4, <2>1, <2>2, <2>3, <2>4, <2>5, <2>6, <2>7, MainStep
<1>7. CASE /\ ~Confirming /\ MayConfirm(journal.phase)
           /\ boot' = (IF boot = "pending" THEN "valid" ELSE boot)
           /\ IF journal.phase \in BootPhases THEN Step(p, "saving", ConfirmedRecord(journal))
              ELSE /\ confirmed' = TRUE
                   /\ Go(p, IF p = "boot" THEN "idle" ELSE pc[p], BlankRecord)
                   /\ UNCHANGED <<mode, handoff, acked, timer, connected>>
  <2>1. /\ journal' \in Record /\ ValidateRecord(journal') /\ sd' \in Cards /\ flash' = flash
        /\ Fits(journal', flash, sd'.installed) /\ sd' = sd /\ journal' = journal
        /\ boot' \in {"valid", "erased"} /\ boot' \in {"pending", "valid", "erased"}
        /\ boot' # "pending"
        /\ journal.phase \in Settled => boot' # "erased"
        /\ pc["download"] \in Fetching => journal.phase \notin Anchored
        /\ pc["report"] \in Sending /\ loc["report"].phase = "confirmed" => journal.phase = "confirmed"
        /\ flash # Partial
    BY <1>1, <1>3, <1>7, MainFacts
  <2>2. CASE journal.phase \in BootPhases
    <3>1. /\ Go(p, "saving", ConfirmedRecord(journal))
          /\ UNCHANGED <<mode, confirmed, handoff, acked, timer, connected>>
      BY <1>7, <2>2 DEF Step
    <3>2. FlagTypes' /\ Flagged(p, "saving")
      BY <1>1, <1>2, <3>1 DEF Inv, FlagTypes, Flagged
    <3>3. ConfirmedRecord(journal) \in Record
      BY <2>1, <2>2, ConfirmedFacts DEF Inv
    <3>4. \A q \in Procs : pc[q] # "saving"
      BY <1>7 DEF Confirming
    <3>5. ~confirmed
      BY <1>3, <2>2, MainFacts
    <3>6. UNCHANGED <<mode, flash>> /\ confirmed' = confirmed
      BY <2>1, <3>1
    <3>7. "saving" \notin {"download", "sign", "save"}
      OBVIOUS
    <3> QED BY <1>2, <1>3, <1>4, <2>1, <2>2, <3>1, <3>2, <3>3, <3>4, <3>5, <3>6, <3>7, MainStep
  <2>3. CASE journal.phase \notin BootPhases
    <3> DEFINE label == IF p = "boot" THEN "idle" ELSE pc[p]
    <3>1. /\ Go(p, label, BlankRecord) /\ confirmed' = TRUE
          /\ UNCHANGED <<mode, handoff, acked, timer, connected>>
      BY <1>7, <2>3
    <3>2. /\ label \in Labels(p) /\ label \notin Unsettling \cup Fetching \cup {"saving"}
          /\ p # "boot" => label = "network_ready"
          /\ label \notin {"download", "sign", "save"}
      BY <1>1, <1>2, <1>4 DEF Fetching
    <3>3. FlagTypes' /\ Flagged(p, label)
      <4>1. handoff # "boot" \/ handoff = None
        BY DEF Inv, HandoffOK
      <4>2. p = "boot" => handoff # p
        BY <4>1, NameFacts DEF Procs
      <4>3. pc[p] # "idle" /\ handoff' = handoff
        BY <1>1, <3>1
      <4> HIDE DEF label
      <4>4. Flagged(p, label)
        BY <3>2, <4>2, <4>3 DEF Flagged
      <4> QED BY <3>1, <4>4 DEF Inv, FlagTypes
    <3>4. UNCHANGED <<mode, flash>>
      BY <2>1, <3>1
    <3>5. confirmed' => boot' # "pending"
      BY <2>1
    <3> HIDE DEF label
    <3> QED BY <1>2, <1>3, <2>1, <2>3, <3>1, <3>2, <3>3, <3>4, <3>5, MainStep
  <2> QED BY <2>2, <2>3
<1> QED BY <1>5, <1>6, <1>7 DEF Confirm, BootPhases

LEMMA ConfirmSaveKeeps ==
    ASSUME Inv, NEW p \in Procs, ConfirmSave(p)
    PROVE  Inv'
<1>1. PICK ok \in BOOLEAN :
         /\ Save(loc[p], ok)
         /\ IF ok
            THEN /\ confirmed' = TRUE
                 /\ Go(p, IF p = "boot" THEN "idle" ELSE "network_ready", BlankRecord)
                 /\ UNCHANGED <<mode, handoff, acked, timer, connected>>
            ELSE Ret(p, TRUE)
  BY DEF ConfirmSave
<1>2. pc[p] = "saving" /\ UNCHANGED <<boot, flash, sd, result>>
  BY DEF ConfirmSave
<1>3. /\ p \in Procs \ {"recovery", "report"} /\ "idle" \in Labels(p)
      /\ p # "boot" => "network_ready" \in Labels(p)
      /\ "boot" # "download" /\ "boot" # "staged" /\ "report" \in Procs
  BY <1>2 DEF Inv, PlacesOK, Labels, Applying, Rewriting, Promoting, Notices, Procs
<1>4. mode = "main" /\ ResultTypes' /\ BlankRecord \in Record
  BY <1>2, <1>3, AtMain, NameFacts DEF Inv, ResultTypes
<1>5. /\ journal.phase \in BootPhases /\ loc[p] = ConfirmedRecord(journal) /\ boot # "pending"
      /\ \A q \in Procs \ {p} : pc[q] # "saving"
  BY <1>2 DEF Inv, BootsOK
<1> DEFINE label == IF ok /\ p # "boot" THEN "network_ready" ELSE "idle"
<1>6. Go(p, label, BlankRecord) /\ UNCHANGED mode
  BY <1>1, <1>4 DEF Ret, Ends
<1>7. FlagTypes'
  BY <1>1 DEF Inv, FlagTypes, Ret
<1>8. Flagged(p, label)
  <2>1. handoff # "boot" \/ handoff = None
    BY DEF Inv, HandoffOK
  <2>2. p = "boot" => handoff # p
    BY <2>1, NameFacts DEF Procs
  <2>3. CASE ok
    BY <1>1, <1>2, <2>2, <2>3 DEF Flagged
  <2>4. CASE ~ok
    BY <1>1, <2>4 DEF Flagged, Ret, Ends
  <2> QED BY <2>3, <2>4
<1>9. /\ ConfirmedRecord(journal) \in Record
      /\ ConfirmedRecord(journal).phase \notin BootPhases
      /\ ConfirmedRecord(journal).phase \in {"confirmed", "rollback"}
      /\ Fits(ConfirmedRecord(journal), flash, sd.installed)
  BY <1>4, <1>5, ConfirmedFacts, MainFacts DEF Inv
<1>10. /\ journal' \in {journal, ConfirmedRecord(journal)} /\ journal' \in Record
       /\ ValidateRecord(journal')
       /\ ok => journal' = ConfirmedRecord(journal)
  <2>1. journal \in Record /\ ValidateRecord(journal)
    BY <1>4, MainFacts
  <2>2. Save(ConfirmedRecord(journal), ok) /\ ConfirmedRecord(journal) \in Record
    BY <1>1, <1>5, <1>9
  <2> HIDE DEF label
  <2> QED BY <2>1, <2>2, SaveFacts
<1>11. /\ sd' \in Cards /\ sd' = sd /\ Fits(journal', flash, sd'.installed)
       /\ boot' \in {"pending", "valid", "erased"} /\ boot' # "pending" /\ boot' # "erased"
       /\ pc["download"] \notin Fetching /\ pc["report"] = "idle"
       /\ flash' = flash
  BY <1>2, <1>4, <1>5, <1>9, <1>10, MainFacts DEF Settled, Anchored
<1>12. /\ label \in Labels(p) /\ label \notin Unsettling \cup Fetching \cup {"saving"}
       /\ label \notin {"download", "sign", "save"}
  BY <1>3 DEF Unsettling, Fetching, Handing
<1>13. /\ journal.phase \in Settled
       /\ journal'.phase \in BootPhases => ~confirmed'
       /\ "idle" \notin Sending
  <2>1. ~confirmed
    BY <1>4, <1>5, MainFacts
  <2>2. ok => journal'.phase \notin BootPhases
    BY <1>9, <1>10
  <2>3. ASSUME ~ok PROVE ~confirmed'
    <3>1. Ret(p, TRUE)
      BY <1>1, <2>3
    <3> QED BY <2>1, <3>1 DEF Ret
  <2>4. journal.phase \in Settled /\ "idle" \notin Sending
    BY <1>5 DEF Settled, Sending, Promoting
  <2> QED BY <2>2, <2>3, <2>4
<1>14. UNCHANGED <<mode, flash>> /\ (confirmed => confirmed')
  <2>1. ~confirmed
    BY <1>4, <1>5, MainFacts
  <2> QED BY <1>6, <1>11, <2>1
<1> HIDE DEF label
<1> QED BY <1>3, <1>4, <1>5, <1>6, <1>7, <1>8, <1>10, <1>11, <1>12, <1>13, <1>14, MainStep

\* esp_restart, and a reset at any time.
LEMMA RestartKeeps ==
    ASSUME Inv, Restart(boot), UNCHANGED <<journal, flash, sd, result>>
    PROVE  Inv'
<1>1. ResultTypes' /\ boot \in Booted
  BY DEF Inv, ResultTypes, DurableOK
<1>2. /\ journal' \in Record /\ ValidateRecord(journal') /\ flash' \in Images \cup {Partial}
      /\ sd' \in Cards /\ Fits(journal', flash', sd'.installed)
      /\ flash' = Partial => boot \in {"erased", "aborted"}
  BY DEF Inv, DurableOK
<1> QED BY <1>1, <1>2, RestartStep

\* A step that saves a record.
LEMMA SaveStep ==
    ASSUME Inv, mode = "main", UNCHANGED <<mode, boot, flash, confirmed>>,
           NEW p \in Procs \ {"recovery"}, NEW label \in Labels(p), NEW rec \in Record,
           Go(p, label, rec), FlagTypes', ResultTypes', Flagged(p, label),
           NEW r \in Record, NEW ok \in BOOLEAN, Save(r, ok), Fits(r, flash, sd.installed),
           sd' \in Cards, sd'.installed = sd.installed,
           journal.phase \notin BootPhases, r.phase \notin BootPhases,
           r.phase = "confirmed" => journal.phase = "confirmed",
           journal.phase = "confirmed" => p = "report" /\ label \notin Unsettling,
           label # "saving", label \notin {"backup", "download", "sign", "save"},
           pc["download"] \in Fetching /\ p # "download" => r.phase \notin Anchored,
           label = "check" => r.phase \notin Anchored /\ journal.phase \notin Anchored,
           p = "report" /\ label # "idle" => confirmed,
           p = "report" => \A record \in {journal, r} : ReportAt(label, rec, record, flash)
    PROVE  Inv'
<1>1. /\ journal \in Record /\ ValidateRecord(journal) /\ Fits(journal, flash, sd.installed)
      /\ boot \in {"pending", "valid", "erased"} /\ (confirmed => boot # "pending")
      /\ journal.phase \in Settled => boot # "erased"
      /\ pc["download"] \in Fetching => journal.phase \notin Anchored
      /\ pc["report"] \in Sending /\ loc["report"].phase = "confirmed" => journal.phase = "confirmed"
  BY MainFacts
<1>2. journal' \in {journal, r} /\ journal' \in Record /\ ValidateRecord(journal')
  BY <1>1, SaveFacts
<1>3. Fits(journal', flash, sd'.installed)
  BY <1>1, <1>2
<1>4. \A q \in Procs : pc[q] # "saving"
  BY DEF Inv, BootsOK
<1>5. /\ journal'.phase \notin BootPhases
      /\ journal'.phase \in Settled => journal.phase = "confirmed" /\ journal.phase \in Settled
  BY <1>2 DEF Settled
<1>6. /\ p # "download" /\ pc["download"] \in Fetching => journal'.phase \notin Anchored
      /\ label = "check" => journal'.phase \notin Anchored
      /\ label \in Fetching => label = "check"
      /\ label \notin {"download", "sign", "save"}
  BY <1>1, <1>2 DEF Fetching
<1>7. /\ p # "report" => ~(pc["report"] \in Sending /\ loc["report"].phase = "confirmed")
      /\ p = "report" => ReportAt(label, rec, journal', flash)
  BY <1>1, <1>2
<1>8. UNCHANGED <<mode, flash>> /\ boot' \in {"pending", "valid", "erased"}
  BY <1>1
<1> QED BY <1>1, <1>2, <1>3, <1>4, <1>5, <1>6, <1>7, <1>8, MainStep

\* A record that asks nothing of the slot and of the card fits any complete slot.
LEMMA FreeFits ==
    ASSUME NEW r, NEW image, NEW backup, image # Partial,
           r.phase \in {"idle", "failed", "report_acknowledged"}
    PROVE  /\ Fits(r, image, backup)
           /\ r.phase \notin BootPhases /\ r.phase \notin Anchored /\ r.phase # "confirmed"
  BY DEF Fits, Updating, Anchored, BootPhases

LEMMA ClearedFacts ==
    ASSUME NEW r \in Record
    PROVE  Cleared(r) \in Record /\ Cleared(r).phase = "idle"
  BY DEF Cleared, BlankRecord, Record, Phases

LEMMA SignedCard ==
    ASSUME NEW c \in Cards, NEW t \in Tasks \cup {None}
    PROVE  [c EXCEPT !.sig = t] \in Cards /\ [c EXCEPT !.sig = t].installed = c.installed
  BY DEF Cards
LEMMA PendingCard ==
    ASSUME NEW c \in Cards, NEW f \in Images \cup {None, Damaged}
    PROVE  /\ [c EXCEPT !.sig = None, !.pending = f] \in Cards
           /\ [c EXCEPT !.sig = None, !.pending = f].installed = c.installed
  BY DEF Cards
LEMMA BackupCard ==
    ASSUME NEW c \in Cards, NEW f \in Images \cup {None, Damaged}
    PROVE  [c EXCEPT !.installed = f] \in Cards /\ [c EXCEPT !.installed = f].installed = f
  BY DEF Cards

\* A task of the update ends and starts another one.
LEMMA StartFacts ==
    ASSUME Inv, NEW p \in Procs \ {"recovery"}, NEW q \in Procs \ {p}, NEW label \in Labels(q),
           Start(p, q, label)
    PROVE  /\ PlacesOK' /\ LocTypes'
           /\ pc'[q] = label /\ loc'[q] = BlankRecord /\ pc'[p] = "idle" /\ loc'[p] = BlankRecord
           /\ \A s \in Procs \ {p, q} : pc'[s] = pc[s] /\ loc'[s] = loc[s]
<1>1. pc \in [Procs -> Everywhere] /\ loc \in [Procs -> Record] /\ BlankRecord \in Record
  BY NameFacts DEF Inv, PlacesOK, LocTypes
<1>2. /\ pc' = [pc EXCEPT ![q] = label, ![p] = "idle"]
      /\ loc' = [loc EXCEPT ![q] = BlankRecord, ![p] = BlankRecord]
  BY DEF Start
<1>3. label \in Everywhere /\ "idle" \in Labels(p) /\ "idle" \in Everywhere
  BY DEF Everywhere, Labels
<1>4. /\ pc' \in [Procs -> Everywhere] /\ pc'[q] = label /\ pc'[p] = "idle"
      /\ \A s \in Procs \ {p, q} : pc'[s] = pc[s]
  BY <1>1, <1>2, <1>3
<1>5. /\ loc' \in [Procs -> Record] /\ loc'[q] = BlankRecord /\ loc'[p] = BlankRecord
      /\ \A s \in Procs \ {p, q} : loc'[s] = loc[s]
  BY <1>1, <1>2
<1>6. \A s \in Procs : pc'[s] \in Labels(s)
  BY <1>3, <1>4 DEF Inv, PlacesOK
<1> QED BY <1>4, <1>5, <1>6 DEF PlacesOK, LocTypes

LEMMA StartKeeps ==
    ASSUME Inv, mode = "main", confirmed, UNCHANGED <<mode, journal, boot, flash, sd, result>>,
           NEW p \in Procs \ {"recovery", "report"}, NEW q \in {"staged", "report"} \ {p},
           NEW label \in {"verify", "report"}, Start(p, q, label),
           q = "staged" => label = "verify" /\ journal.phase \notin Settled,
           q = "report" => label = "report",
           HandoffOK'
    PROVE  Inv'
<1>1. /\ "staged" \in Procs /\ "report" \in Procs /\ "download" \in Procs /\ "recovery" \in Procs
      /\ "verify" \in Labels("staged") /\ "report" \in Labels("report")
  BY DEF Procs, Labels, Staged, Handing, Notices
<1>2. q \in Procs \ {p, "recovery", "download"} /\ label \in Labels(q) /\ q \in Procs \ {p}
  BY <1>1
<1>3. /\ PlacesOK' /\ LocTypes'
      /\ pc'[q] = label /\ loc'[q] = BlankRecord /\ pc'[p] = "idle" /\ loc'[p] = BlankRecord
      /\ \A s \in Procs \ {p, q} : pc'[s] = pc[s] /\ loc'[s] = loc[s]
  BY <1>2, StartFacts
<1>4. DurableOK' /\ ResultTypes' /\ FlagTypes' /\ confirmed' = confirmed
  <2>1. timer' = FALSE /\ UNCHANGED <<mode, confirmed, acked, connected>>
    BY DEF Start
  <2> QED BY <2>1 DEF Inv, DurableOK, ResultTypes, FlagTypes
<1>5. ModesOK' /\ RecoveryOK'
  BY <1>1, <1>2, <1>3 DEF Inv, ModesOK, RecoveryOK, RecoveryAt, Applying, Rewriting
<1>6. SettledOK'
  <2>1. ASSUME journal.phase \in Settled, NEW s \in Procs
        PROVE  pc'[s] \notin Fetching \cup Handing \cup {"restart", "resume"}
    <3>1. {"idle", "report"} \cap (Fetching \cup Handing \cup {"restart", "resume"}) = {}
      BY DEF Fetching, Handing
    <3>2. label = "report"
      BY <2>1
    <3> QED BY <1>3, <2>1, <3>1, <3>2 DEF Inv, SettledOK
  <2> QED BY <2>1 DEF Inv, SettledOK
<1>7. BootsOK'
  <2>1. journal.phase \notin BootPhases /\ \A s \in Procs : pc[s] # "saving"
    BY DEF Inv, BootsOK
  <2>2. \A s \in Procs : pc'[s] # "saving"
    BY <1>3, <2>1
  <2> QED BY <1>4, <2>1, <2>2 DEF Inv, BootsOK
<1>8. CardOK'
  <2>1. pc'["download"] = "idle" \/ (pc'["download"] = pc["download"] /\ loc'["download"] = loc["download"])
    BY <1>1, <1>2, <1>3
  <2> QED BY <2>1 DEF Inv, CardOK, Fetching
<1>9. ReportOK'
  <2>1. \/ pc'["report"] = "report"
        \/ pc'["report"] = pc["report"] /\ loc'["report"] = loc["report"]
    BY <1>1, <1>3
  <2> QED BY <2>1 DEF Inv, ReportOK, ReportAt, Promoting
<1> QED BY <1>3, <1>4, <1>5, <1>6, <1>7, <1>8, <1>9 DEF Inv

LEMMA StartHandoff ==
    ASSUME Inv, NEW p \in Procs \ {"recovery", "report"}, pc[p] # "idle",
           \/ p # "staged" /\ Start(p, "staged", "verify") /\ handoff' = "staged"
           \/ Start(p, "report", "report") /\ handoff' = IF handoff = p THEN None ELSE handoff
    PROVE  HandoffOK'
<1>1. /\ "staged" \in Procs /\ "report" \in Procs /\ "retry" \in Procs
      /\ "verify" \in Labels("staged") /\ "report" \in Labels("report")
      /\ None # "staged" /\ None # "retry"
  BY NameFacts DEF Procs, Labels, Staged, Handing, Notices
<1>2. /\ handoff \in {None, "staged", "retry"}
      /\ handoff # None => pc[handoff] # "idle"
      /\ pc["staged"] # "idle" => handoff = "staged"
  BY DEF Inv, HandoffOK
<1>3. CASE p # "staged" /\ Start(p, "staged", "verify") /\ handoff' = "staged"
  <2>1. pc'["staged"] = "verify"
    BY <1>1, <1>3, StartFacts
  <2> QED BY <1>1, <1>3, <2>1 DEF HandoffOK
<1>4. CASE Start(p, "report", "report") /\ handoff' = IF handoff = p THEN None ELSE handoff
  <2>1. /\ pc'["report"] = "report" /\ pc'[p] = "idle"
        /\ \A s \in Procs \ {p, "report"} : pc'[s] = pc[s]
    BY <1>1, <1>4, StartFacts
  <2> QED BY <1>1, <1>2, <1>4, <2>1 DEF HandoffOK
<1> QED BY <1>3, <1>4

LEMMA DispatchKeeps ==
    ASSUME Inv, NEW p \in Procs, Dispatch(p)
    PROVE  Inv'
<1>1. pc[p] = "network_ready" /\ confirmed /\ UNCHANGED <<boot, flash, result>>
  BY DEF Dispatch
<1>2. /\ p \in Procs \ {"recovery", "report"} /\ p \in Procs \ {"recovery"}
      /\ "idle" \in Labels(p) /\ "verify" \in Labels("retry")
      /\ "staged" \in Procs
  BY <1>1 DEF Inv, PlacesOK, Labels, Applying, Rewriting, Promoting, Notices, Procs, Staged, Handing
<1>3. mode = "main" /\ ResultTypes' /\ BlankRecord \in Record
  BY <1>1, <1>2, AtMain, NameFacts DEF Inv, ResultTypes
<1>4. journal.phase \notin BootPhases
  BY <1>1, <1>3, MainFacts
<1>5. CASE \E retry \in BOOLEAN : Ret(p, retry) /\ UNCHANGED <<journal, sd>>
  BY <1>1, <1>2, <1>3, <1>5, RetKeeps DEF durable
<1>6. CASE /\ journal.phase = "report_acknowledged"
           /\ \E ok \in BOOLEAN :
                 /\ Save(Cleared(journal), ok)
                 /\ IF ok THEN /\ sd' = [sd EXCEPT !.sig = None] /\ acked' = None /\ Ends(p)
                               /\ UNCHANGED <<mode, confirmed, timer, connected>>
                    ELSE Ret(p, TRUE) /\ UNCHANGED sd
  <2>1. PICK ok \in BOOLEAN :
                 /\ Save(Cleared(journal), ok)
                 /\ IF ok THEN /\ sd' = [sd EXCEPT !.sig = None] /\ acked' = None /\ Ends(p)
                               /\ UNCHANGED <<mode, confirmed, timer, connected>>
                    ELSE Ret(p, TRUE) /\ UNCHANGED sd
    BY <1>6
  <2>2. /\ Go(p, "idle", BlankRecord) /\ Flagged(p, "idle") /\ UNCHANGED <<mode, confirmed>>
        /\ FlagTypes'
    BY <2>1 DEF Ends, Ret, Flagged, Inv, FlagTypes
  <2>3. sd' \in Cards /\ sd'.installed = sd.installed
    <3>1. [sd EXCEPT !.sig = None] \in Cards /\ [sd EXCEPT !.sig = None].installed = sd.installed
      BY <1>3, MainFacts, SignedCard
    <3> QED BY <1>3, <2>1, <3>1, MainFacts
  <2>4. /\ Cleared(journal) \in Record /\ Cleared(journal).phase = "idle" /\ flash # Partial
    BY <1>3, MainFacts, ClearedFacts
  <2>5. /\ Fits(Cleared(journal), flash, sd.installed) /\ Cleared(journal).phase # "confirmed"
        /\ Cleared(journal).phase \notin BootPhases /\ Cleared(journal).phase \notin Anchored
    BY <2>4, FreeFits
  <2>6. journal.phase # "confirmed" /\ "idle" \notin {"saving", "backup", "download", "sign", "save", "check"}
    BY <1>6
  <2>7. UNCHANGED <<mode, boot, flash, confirmed>>
    BY <1>1, <2>2
  <2> QED BY <1>2, <1>3, <1>4, <2>1, <2>2, <2>3, <2>4, <2>5, <2>6, <2>7, SaveStep
<1>7. CASE /\ journal.phase \in {"awaiting_staged_ack", "pending"} /\ MayHandOff /\ p = "retry"
           /\ Go(p, "verify", BlankRecord) /\ handoff' = p /\ timer' = FALSE
           /\ UNCHANGED <<mode, confirmed, acked, journal, sd, connected>>
  <2>1. journal.phase \notin Settled /\ "verify" \notin Fetching
    BY <1>7 DEF Settled, BootPhases, Fetching
  <2>2. FlagTypes' /\ Flagged(p, "verify")
    BY <1>7 DEF Inv, FlagTypes, Flagged, MayHandOff
  <2>3. UNCHANGED <<mode, durable, confirmed>>
    BY <1>1, <1>7 DEF durable
  <2> QED BY <1>2, <1>3, <1>7, <2>1, <2>2, <2>3, QuietStep
<1>8. CASE /\ journal.phase \in {"awaiting_staged_ack", "pending"} /\ MayHandOff /\ p # "retry"
           /\ Start(p, "staged", "verify") /\ handoff' = "staged" /\ UNCHANGED <<journal, sd>>
  <2>1. journal.phase \notin Settled
    BY <1>8 DEF Settled, BootPhases
  <2>2. p # "staged"
    BY <1>1, <1>2, <1>8, NameFacts DEF Inv, HandoffOK, MayHandOff
  <2>3. HandoffOK'
    BY <1>1, <1>2, <1>8, <2>2, StartHandoff
  <2>4. UNCHANGED <<mode, journal, boot, flash, sd, result>>
    BY <1>1, <1>8 DEF Start
  <2> QED BY <1>1, <1>2, <1>3, <1>8, <2>1, <2>2, <2>3, <2>4, StartKeeps
<1>9. CASE /\ Start(p, "report", "report") /\ UNCHANGED <<journal, sd>>
           /\ handoff' = IF handoff = p THEN None ELSE handoff
  <2>1. HandoffOK'
    BY <1>1, <1>2, <1>9, StartHandoff
  <2>2. UNCHANGED <<mode, journal, boot, flash, sd, result>>
    BY <1>1, <1>9 DEF Start
  <2> QED BY <1>1, <1>2, <1>3, <1>9, <2>1, <2>2, StartKeeps
<1> QED BY <1>5, <1>6, <1>7, <1>8, <1>9 DEF Dispatch

(***************************************************************************)
(* The download task and the hand-off.                                     *)
(***************************************************************************)
\* The main slot is unselected by a process that hands off or installs again.
LEMMA UnselectKeeps ==
    ASSUME Inv, NEW p \in Procs \ {"recovery", "report"}, pc[p] # "idle",
           journal.phase \notin Settled, "restart" \in Labels(p),
           boot' = "erased", Go(p, "restart", BlankRecord), FlagTypes',
           UNCHANGED <<mode, confirmed, handoff, journal, flash, sd, result>>
    PROVE  Inv'
<1>1. mode = "main" /\ ResultTypes' /\ BlankRecord \in Record
  BY AtMain, NameFacts DEF Inv, ResultTypes
<1>2. /\ journal' \in Record /\ ValidateRecord(journal') /\ sd' \in Cards /\ flash' = flash
      /\ Fits(journal', flash, sd'.installed) /\ sd' = sd /\ journal' = journal
      /\ boot' \in {"pending", "valid", "erased"} /\ boot' # "pending"
      /\ pc["download"] \in Fetching => journal.phase \notin Anchored
      /\ pc["report"] \in Sending /\ loc["report"].phase = "confirmed" => journal.phase = "confirmed"
  BY <1>1, MainFacts
<1>3. /\ "restart" \notin {"download", "sign", "save", "saving"} /\ "restart" \notin Fetching
      /\ journal.phase \notin BootPhases
  BY DEF Fetching, Settled
<1>4. Flagged(p, "restart")
  BY DEF Flagged
<1>5. UNCHANGED <<mode, flash>> /\ confirmed' = confirmed
  BY <1>2
<1> QED BY <1>1, <1>2, <1>3, <1>4, <1>5, MainStep

LEMMA DownloadPlace ==
    ASSUME Inv, pc["download"] # "idle"
    PROVE  /\ "download" \in Procs \ {"recovery", "report"} /\ "download" \in Procs
           /\ mode = "main" /\ BlankRecord \in Record /\ loc["download"] \in Record
           /\ {"idle", "check", "verify", "direct", "restart", "fail"} \cup Fetching
                 \subseteq Labels("download")
<1>1. "download" \in Procs \ {"recovery", "report"} /\ "download" \in Procs
  BY DEF Procs
<1>2. mode = "main" /\ BlankRecord \in Record /\ loc["download"] \in Record
  BY <1>1, AtMain, NameFacts DEF Inv, LocTypes
<1>3. {"idle", "check", "verify", "direct", "restart", "fail"} \cup Fetching
         \subseteq Labels("download")
  BY DEF Labels, Staged, Handing, Fetching
<1> QED BY <1>1, <1>2, <1>3

LEMMA BeginDownloadKeeps ==
    ASSUME Inv, BeginDownload
    PROVE  Inv'
<1> DEFINE t == loc["download"].task
           staging(r) == [r EXCEPT !.task = t]
<1>1. pc["download"] = "begin" /\ UNCHANGED <<flash, result>>
  BY DEF BeginDownload
<1>2. /\ "download" \in Procs \ {"recovery", "report"} /\ "download" \in Procs
      /\ mode = "main" /\ BlankRecord \in Record /\ loc["download"] \in Record
      /\ {"idle", "check", "verify", "direct", "restart"} \subseteq Labels("download")
  BY <1>1, DownloadPlace
<1>3. ResultTypes'
  BY <1>1 DEF Inv, ResultTypes
<1>4. /\ journal \in Record /\ ValidateRecord(journal) /\ flash # Partial /\ sd \in Cards
      /\ Fits(journal, flash, sd.installed)
  BY <1>2, MainFacts
<1>5. ASSUME NEW r \in Record PROVE staging(r) \in Record
  BY <1>2, <1>5 DEF Record
<1> HIDE DEF staging
<1>6. CASE /\ Step("download", "direct", loc["download"]) /\ UNCHANGED <<journal, boot, sd>>
  <2>1. "direct" \notin Unsettling /\ "direct" \notin Fetching /\ UNCHANGED durable
    BY <1>1, <1>6 DEF Unsettling, Fetching, Handing, durable
  <2> QED BY <1>1, <1>2, <1>3, <1>6, <2>1, StepKeeps
<1>7. CASE /\ Step("download", "verify", BlankRecord) /\ UNCHANGED <<journal, boot, sd>>
           /\ journal.phase = "awaiting_staged_ack"
  <2>1. journal.phase \notin Settled /\ "verify" \notin Fetching /\ UNCHANGED durable
    BY <1>1, <1>7 DEF Settled, BootPhases, Fetching, durable
  <2> QED BY <1>1, <1>2, <1>3, <1>7, <2>1, StepKeeps
<1>8. CASE \E retry \in BOOLEAN : Ret("download", retry) /\ UNCHANGED <<journal, boot, sd>>
  <2>1. UNCHANGED durable
    BY <1>1, <1>8 DEF durable
  <2> QED BY <1>2, <1>3, <1>8, <2>1, RetKeeps
<1>9. CASE /\ journal.phase \in InstallPhases /\ UNCHANGED <<journal, sd>>
           /\ boot' = "erased" /\ Step("download", "restart", BlankRecord)
  <2>1. journal.phase \notin Settled
    BY <1>9 DEF InstallPhases, Settled, BootPhases
  <2>2. /\ Go("download", "restart", BlankRecord) /\ FlagTypes'
        /\ UNCHANGED <<mode, confirmed, handoff, journal, flash, sd, result>>
    BY <1>1, <1>9 DEF Step, Inv, FlagTypes
  <2> QED BY <1>1, <1>2, <1>9, <2>1, <2>2, UnselectKeeps
<1>10. CASE /\ journal.phase = "report_acknowledged" /\ UNCHANGED boot
            /\ \E ok \in BOOLEAN :
                 /\ Save(Cleared(journal), ok)
                 /\ IF ok THEN /\ sd' = [sd EXCEPT !.sig = None]
                               /\ acked' = None /\ timer' = FALSE
                               /\ Go("download", "check", staging(Cleared(journal)))
                               /\ UNCHANGED <<mode, confirmed, handoff, connected>>
                    ELSE Ret("download", FALSE) /\ UNCHANGED sd
  <2>1. PICK ok \in BOOLEAN :
                 /\ Save(Cleared(journal), ok)
                 /\ IF ok THEN /\ sd' = [sd EXCEPT !.sig = None]
                               /\ acked' = None /\ timer' = FALSE
                               /\ Go("download", "check", staging(Cleared(journal)))
                               /\ UNCHANGED <<mode, confirmed, handoff, connected>>
                    ELSE Ret("download", FALSE) /\ UNCHANGED sd
    BY <1>10
  <2> DEFINE label == IF ok THEN "check" ELSE "idle"
             rec == IF ok THEN staging(Cleared(journal)) ELSE BlankRecord
  <2>2. /\ Cleared(journal) \in Record /\ Cleared(journal).phase = "idle"
    BY <1>4, ClearedFacts
  <2>3. /\ Fits(Cleared(journal), flash, sd.installed) /\ Cleared(journal).phase # "confirmed"
        /\ Cleared(journal).phase \notin BootPhases /\ Cleared(journal).phase \notin Anchored
    BY <1>4, <2>2, FreeFits
  <2>4. /\ label \in Labels("download") /\ rec \in Record /\ Go("download", label, rec)
        /\ Flagged("download", label) /\ UNCHANGED <<mode, confirmed>>
    <3>1. CASE ok
      BY <1>1, <1>2, <1>5, <2>1, <2>2, <3>1 DEF Flagged
    <3>2. CASE ~ok
      BY <1>2, <2>1, <3>2 DEF Flagged, Ret, Ends
    <3> QED BY <3>1, <3>2
  <2>5. FlagTypes'
    BY <2>1 DEF Inv, FlagTypes, Ret
  <2>6. sd' \in Cards /\ sd'.installed = sd.installed
    <3>1. [sd EXCEPT !.sig = None] \in Cards /\ [sd EXCEPT !.sig = None].installed = sd.installed
      BY <1>4, SignedCard
    <3> QED BY <1>4, <2>1, <3>1
  <2>7. /\ journal.phase # "confirmed" /\ journal.phase \notin BootPhases
        /\ journal.phase \notin Anchored
        /\ label \notin {"saving", "backup", "download", "sign", "save"}
    BY <1>10 DEF BootPhases, Anchored
  <2>8. UNCHANGED <<mode, boot, flash, confirmed>> /\ "download" \in Procs \ {"recovery"}
    BY <1>1, <1>2, <1>10, <2>4
  <2> HIDE DEF label, rec
  <2> QED BY <1>2, <1>3, <2>1, <2>2, <2>3, <2>4, <2>5, <2>6, <2>7, <2>8, SaveStep
<1>11. CASE /\ journal.phase = "idle" /\ Step("download", "check", staging(journal))
            /\ UNCHANGED <<journal, boot, sd>>
  <2>1. /\ Go("download", "check", staging(journal)) /\ staging(journal) \in Record
        /\ UNCHANGED <<mode, confirmed, handoff, acked, timer, connected>>
    BY <1>4, <1>5, <1>11 DEF Step
  <2>2. FlagTypes' /\ Flagged("download", "check")
    BY <1>1, <2>1 DEF Inv, FlagTypes, Flagged
  <2>3. journal.phase \notin Settled /\ journal.phase \notin Anchored /\ journal.phase \notin BootPhases
    BY <1>11 DEF Settled, Anchored, BootPhases
  <2>4. /\ journal' \in Record /\ ValidateRecord(journal') /\ sd' \in Cards /\ journal' = journal
        /\ Fits(journal', flash, sd'.installed) /\ boot' = boot /\ sd' = sd
    BY <1>4, <1>11
  <2>5. /\ boot \in {"pending", "valid", "erased"} /\ (confirmed => boot # "pending")
        /\ pc["report"] \in Sending /\ loc["report"].phase = "confirmed" => journal.phase = "confirmed"
    BY <1>2, MainFacts
  <2>6. UNCHANGED <<mode, flash>> /\ confirmed' = confirmed
    BY <1>1, <2>1
  <2>7. "check" \notin {"download", "sign", "save", "saving"}
    OBVIOUS
  <2> QED BY <1>2, <1>3, <2>1, <2>2, <2>3, <2>4, <2>5, <2>6, <2>7, MainStep
<1> QED BY <1>6, <1>7, <1>8, <1>9, <1>10, <1>11 DEF BeginDownload, MayStage, staging

\* A step of the staging: only the download task and the card change.
LEMMA StageStepKeeps ==
    ASSUME Inv, NEW from \in Fetching, NEW to \in Fetching \cup {"fail"},
           NEW rec \in Record, NEW card \in Cards, StageStep(from, to, rec, card),
           to \in {"download", "sign", "save"} => rec.installed = flash /\ card.installed \in {flash, Damaged}
    PROVE  Inv'
<1>1. /\ pc["download"] = from /\ sd' = card /\ Step("download", to, rec)
      /\ UNCHANGED <<journal, boot, flash, result>>
  BY DEF StageStep
<1>2. "idle" \notin Fetching /\ "saving" \notin Fetching \cup {"fail"}
      /\ "fail" \notin {"download", "sign", "save"}
  BY DEF Fetching
<1>3. /\ "download" \in Procs \ {"recovery"} /\ "download" \in Procs
      /\ mode = "main" /\ to \in Labels("download")
  BY <1>1, <1>2, DownloadPlace
<1>4. /\ journal \in Record /\ ValidateRecord(journal) /\ Fits(journal, flash, sd.installed)
      /\ boot \in {"pending", "valid", "erased"} /\ (confirmed => boot # "pending")
      /\ journal.phase \notin Anchored
      /\ pc["report"] \in Sending /\ loc["report"].phase = "confirmed" => journal.phase = "confirmed"
  BY <1>1, <1>3, MainFacts
<1>5. journal.phase \notin Settled /\ journal.phase \notin BootPhases
  BY <1>1, <1>3 DEF Inv, SettledOK, Settled
<1>6. Fits(journal, flash, card.installed)
  BY <1>4 DEF Fits
<1>7. /\ Go("download", to, rec) /\ UNCHANGED <<mode, flash>> /\ confirmed' = confirmed
      /\ FlagTypes' /\ Flagged("download", to)
  BY <1>1, <1>2 DEF Step, Inv, FlagTypes, Flagged
<1>8. ResultTypes' /\ journal' = journal /\ boot' = boot
  BY <1>1 DEF Inv, ResultTypes
<1> QED BY <1>1, <1>2, <1>3, <1>4, <1>5, <1>6, <1>7, <1>8, MainStep

LEMMA StagingKeeps ==
    ASSUME Inv, \/ CheckAccepted \/ Backup \/ DownloadToSd \/ WritePendingSignature \/ StagingFails
    PROVE  Inv'
<1> DEFINE r == loc["download"]
<1>1. pc["download"] \in Fetching /\ pc["download"] # "idle"
  BY DEF CheckAccepted, Backup, DownloadToSd, WritePendingSignature, StagingFails, StageStep, Fetching
<1>2. /\ r \in Record /\ mode = "main" /\ r.task \in Tasks \cup {None}
  BY <1>1, DownloadPlace DEF Record
<1>3. sd \in Cards /\ flash \in Images
  BY <1>2, MainFacts
<1>4. /\ None \in Images \cup {None, Damaged} /\ flash \in Images \cup {None, Damaged}
      /\ r.task \in Images \cup {None, Damaged} /\ None \in Tasks \cup {None}
  BY <1>2, <1>3, NameFacts
<1>5. /\ [sd EXCEPT !.installed = None] \in Cards
      /\ [sd EXCEPT !.installed = flash] \in Cards /\ [sd EXCEPT !.installed = flash].installed = flash
  BY <1>3, <1>4, BackupCard
<1>6. /\ [sd EXCEPT !.sig = None, !.pending = r.task] \in Cards
      /\ [sd EXCEPT !.sig = None, !.pending = r.task].installed = sd.installed
      /\ [sd EXCEPT !.sig = None, !.pending = None] \in Cards
  BY <1>3, <1>4, PendingCard
<1>7. /\ [sd EXCEPT !.sig = None] \in Cards
      /\ [sd EXCEPT !.sig = r.task] \in Cards /\ [sd EXCEPT !.sig = r.task].installed = sd.installed
  BY <1>2, <1>3, <1>4, SignedCard
<1>8. [r EXCEPT !.installed = flash] \in Record /\ [r EXCEPT !.installed = flash].installed = flash
  BY <1>2, <1>3 DEF Record
<1>9. pc["download"] \in {"download", "sign"} =>
         r.installed = flash /\ sd.installed \in {flash, Damaged}
  BY DEF Inv, CardOK
<1>10. /\ "check" \in Fetching /\ "backup" \in Fetching /\ "download" \in Fetching
       /\ "sign" \in Fetching /\ "save" \in Fetching
  BY DEF Fetching
<1> HIDE DEF r
<1>11. CASE CheckAccepted
  <2>1. StageStep("check", "backup", r, [sd EXCEPT !.installed = None])
    BY <1>11 DEF CheckAccepted, r
  <2> QED BY <1>2, <1>5, <1>10, <2>1, StageStepKeeps
<1>12. CASE Backup
  <2>1. StageStep("backup", "download", [r EXCEPT !.installed = flash], [sd EXCEPT !.installed = flash])
    BY <1>12 DEF Backup, r
  <2> QED BY <1>5, <1>8, <1>10, <2>1, StageStepKeeps
<1>13. CASE DownloadToSd
  <2>1. StageStep("download", "sign", r, [sd EXCEPT !.sig = None, !.pending = r.task])
    BY <1>13 DEF DownloadToSd, r
  <2>2. pc["download"] = "download"
    BY <2>1 DEF StageStep
  <2> QED BY <1>2, <1>6, <1>9, <1>10, <2>1, <2>2, StageStepKeeps
<1>14. CASE WritePendingSignature
  <2>1. StageStep("sign", "save", r, [sd EXCEPT !.sig = r.task])
    BY <1>14 DEF WritePendingSignature, r
  <2>2. pc["download"] = "sign"
    BY <2>1 DEF StageStep
  <2> QED BY <1>2, <1>7, <1>9, <1>10, <2>1, <2>2, StageStepKeeps
<1>15. CASE StagingFails
  <2>1. PICK from \in Fetching, card \in Cards : StageStep(from, "fail", r, card)
    BY <1>3, <1>6, <1>7, <1>10, <1>15 DEF StagingFails, r
  <2> QED BY <1>2, <1>10, <2>1, StageStepKeeps
<1> QED BY <1>11, <1>12, <1>13, <1>14, <1>15

LEMMA SaveStagedKeeps ==
    ASSUME Inv, SaveStaged
    PROVE  Inv'
<1> DEFINE d == loc["download"]
           r == [d EXCEPT !.phase = "awaiting_staged_ack", !.pending = d.task, !.error = FALSE]
<1>1. /\ pc["download"] = "save" /\ UNCHANGED <<boot, flash, sd, result>>
      /\ pc["download"] \in Fetching /\ pc["download"] # "idle"
  BY DEF SaveStaged, Fetching
<1>2. PICK ok \in BOOLEAN : Save(r, ok) /\ Step("download", IF ok THEN "verify" ELSE "fail", r)
  BY DEF SaveStaged
<1>3. /\ d \in Record /\ mode = "main" /\ "download" \in Procs \ {"recovery"}
      /\ {"verify", "fail"} \subseteq Labels("download")
  BY <1>1, DownloadPlace
<1>4. /\ r \in Record /\ r.phase = "awaiting_staged_ack" /\ r.pending = r.task
      /\ r.installed = d.installed
  <2>1. d.task \in Tasks \cup {None} /\ d.task \in Images \cup {None}
    BY <1>3, NameFacts DEF Record
  <2> QED BY <1>3, <2>1 DEF Record, Phases
<1> HIDE DEF r
<1>5. d.installed = flash /\ sd.installed \in {flash, Damaged}
  BY <1>1 DEF Inv, CardOK
<1>6. flash # Partial /\ sd \in Cards /\ journal.phase \notin Anchored
  BY <1>1, <1>3, MainFacts
<1>7. Fits(r, flash, sd.installed)
  BY <1>4, <1>5, <1>6 DEF Fits
<1>8. journal.phase # "confirmed" /\ journal.phase \notin BootPhases /\ r.phase \notin BootPhases
      /\ r.phase # "confirmed"
  BY <1>1, <1>3, <1>4 DEF Inv, SettledOK, Settled, BootPhases
<1> DEFINE label == IF ok THEN "verify" ELSE "fail"
<1>9. /\ Go("download", label, r) /\ UNCHANGED <<mode, boot, flash, confirmed>>
      /\ FlagTypes' /\ Flagged("download", label)
  BY <1>1, <1>2 DEF Step, Inv, FlagTypes, Flagged
<1>10. /\ ResultTypes' /\ sd' \in Cards /\ sd'.installed = sd.installed
       /\ label \in Labels("download")
       /\ label \notin {"saving", "backup", "download", "sign", "save", "check"}
  BY <1>1, <1>3, <1>6 DEF Inv, ResultTypes
<1> HIDE DEF label
<1> QED BY <1>2, <1>3, <1>4, <1>7, <1>8, <1>9, <1>10, SaveStep

LEMMA HandoffPlace ==
    ASSUME Inv, NEW p \in Procs, pc[p] \in Handing
    PROVE  /\ p \in Procs \ {"recovery", "report"} /\ p \in Procs \ {"recovery"}
           /\ mode = "main" /\ loc[p] \in Record /\ BlankRecord \in Record
           /\ journal.phase \notin Settled /\ journal.phase \notin BootPhases
           /\ journal.phase # "confirmed" /\ pc[p] # "idle"
           /\ {"idle", "select", "fail", "restart", "direct", "network_ready"} \subseteq Labels(p)
           /\ pc["report"] \notin Promoting
<1>1. /\ p \in Procs \ {"recovery", "report"}
      /\ {"idle", "select", "fail", "restart", "direct", "network_ready"} \subseteq Labels(p)
      /\ pc[p] # "idle"
  BY DEF Inv, PlacesOK, Labels, Applying, Rewriting, Promoting, Notices, Staged, Handing
<1>2. mode = "main" /\ loc[p] \in Record /\ BlankRecord \in Record
  BY <1>1, AtMain, NameFacts DEF Inv, LocTypes
<1>3. journal.phase \notin Settled
  BY <1>2 DEF Inv, SettledOK
<1>4. journal.phase \notin BootPhases /\ journal.phase # "confirmed"
  BY <1>3 DEF Settled
<1>5. pc["report"] \notin Promoting
  BY <1>4 DEF Inv, ReportOK, ReportAt
<1> QED BY <1>1, <1>2, <1>3, <1>4, <1>5

LEMMA HandoffSaveKeeps ==
    ASSUME Inv, NEW p \in Procs, HandoffSave(p)
    PROVE  Inv'
<1> DEFINE r == [journal EXCEPT !.phase = "pending"]
<1>1. pc[p] = "acknowledged" /\ UNCHANGED <<boot, flash, sd, result>> /\ pc[p] \in Handing
  BY DEF HandoffSave, Handing
<1>2. /\ p \in Procs \ {"recovery", "report"} /\ p \in Procs \ {"recovery"}
      /\ mode = "main" /\ BlankRecord \in Record
      /\ journal.phase \notin BootPhases /\ journal.phase # "confirmed" /\ pc[p] # "idle"
      /\ {"idle", "select"} \subseteq Labels(p)
  BY <1>1, HandoffPlace
<1>3. /\ ResultTypes' /\ journal \in Record /\ sd \in Cards /\ flash # Partial
      /\ Fits(journal, flash, sd.installed)
      /\ pc["download"] \in Fetching => journal.phase \notin Anchored
  BY <1>1, <1>2, MainFacts DEF Inv, ResultTypes
<1>4. CASE \E retry \in BOOLEAN : Ret(p, retry) /\ UNCHANGED journal
  BY <1>1, <1>2, <1>3, <1>4, RetKeeps DEF durable
<1>5. CASE /\ StillStaged(loc[p])
           /\ \E ok \in BOOLEAN : Save(r, ok) /\ (IF ok THEN Step(p, "select", r) ELSE Ret(p, TRUE))
  <2>1. PICK ok \in BOOLEAN : Save(r, ok) /\ (IF ok THEN Step(p, "select", r) ELSE Ret(p, TRUE))
    BY <1>5
  <2>2. journal.phase = "awaiting_staged_ack"
    BY <1>5 DEF StillStaged
  <2>3. /\ r \in Record /\ r.phase = "pending" /\ r.pending = journal.pending
        /\ r.task = journal.task /\ r.installed = journal.installed
    BY <1>3 DEF Record, Phases
  <2> HIDE DEF r
  <2>4. Fits(r, flash, sd.installed)
    BY <1>3, <2>2, <2>3 DEF Fits, Updating, Anchored
  <2>5. r.phase \notin BootPhases /\ r.phase # "confirmed" /\ pc["download"] \notin Fetching
    BY <1>3, <2>2, <2>3 DEF BootPhases, Anchored
  <2> DEFINE label == IF ok THEN "select" ELSE "idle"
             rec == IF ok THEN r ELSE BlankRecord
  <2>6. /\ Go(p, label, rec) /\ UNCHANGED <<mode, confirmed>> /\ Flagged(p, label)
        /\ label \in Labels(p) /\ rec \in Record
        /\ label \notin {"saving", "backup", "download", "sign", "save", "check"}
    <3>1. CASE ok
      BY <1>2, <2>1, <2>3, <3>1 DEF Step, Flagged
    <3>2. CASE ~ok
      BY <1>2, <2>1, <3>2 DEF Ret, Ends, Flagged
    <3> QED BY <3>1, <3>2
  <2>7. FlagTypes'
    BY <2>1 DEF Step, Ret, Inv, FlagTypes
  <2>8. sd' \in Cards /\ sd'.installed = sd.installed /\ UNCHANGED <<mode, boot, flash, confirmed>>
    BY <1>1, <1>3, <2>6
  <2> HIDE DEF label, rec
  <2> QED BY <1>2, <1>3, <2>1, <2>3, <2>4, <2>5, <2>6, <2>7, <2>8, SaveStep
<1> QED BY <1>4, <1>5 DEF HandoffSave

LEMMA HandoffSelectKeeps ==
    ASSUME Inv, NEW p \in Procs, HandoffSelect(p)
    PROVE  Inv'
<1>1. pc[p] = "select" /\ UNCHANGED <<journal, flash, sd, result>> /\ pc[p] \in Handing
  BY DEF HandoffSelect, Handing
<1>2. /\ p \in Procs \ {"recovery", "report"} /\ p \in Procs \ {"recovery"}
      /\ mode = "main" /\ loc[p] \in Record
      /\ journal.phase \notin Settled /\ pc[p] # "idle"
      /\ "restart" \in Labels(p) /\ "fail" \in Labels(p)
  BY <1>1, HandoffPlace
<1>3. ResultTypes'
  BY <1>1 DEF Inv, ResultTypes
<1>4. CASE /\ boot' = "erased" /\ timer' = FALSE /\ Go(p, "restart", BlankRecord)
           /\ UNCHANGED <<mode, confirmed, handoff, acked, connected>>
  <2>1. FlagTypes' /\ UNCHANGED <<mode, confirmed, handoff, journal, flash, sd, result>>
    BY <1>1, <1>4 DEF Inv, FlagTypes
  <2> QED BY <1>1, <1>2, <1>4, <2>1, UnselectKeeps
<1>5. CASE UNCHANGED boot /\ Step(p, "fail", loc[p])
  <2>1. UNCHANGED durable /\ "fail" \notin Fetching
    BY <1>1, <1>5 DEF durable, Fetching
  <2> QED BY <1>2, <1>3, <1>5, <2>1, StepKeeps
<1> QED BY <1>4, <1>5 DEF HandoffSelect

LEMMA FailStagingKeeps ==
    ASSUME Inv, NEW p \in Procs, FailStaging(p)
    PROVE  Inv'
<1> DEFINE r == [journal EXCEPT !.phase = "failed", !.task = loc[p].task,
                                !.pending = None, !.error = TRUE]
<1>1. pc[p] = "fail" /\ UNCHANGED <<boot, flash, sd, result>> /\ pc[p] \in Handing
  BY DEF FailStaging, Handing
<1>2. /\ p \in Procs \ {"recovery", "report"} /\ p \in Procs \ {"recovery"}
      /\ mode = "main" /\ loc[p] \in Record
      /\ journal.phase \notin BootPhases /\ journal.phase # "confirmed" /\ pc[p] # "idle"
      /\ "network_ready" \in Labels(p) /\ "direct" \in Labels(p)
  BY <1>1, HandoffPlace
<1>3. /\ ResultTypes' /\ journal \in Record /\ sd \in Cards /\ flash # Partial
  BY <1>1, <1>2, MainFacts DEF Inv, ResultTypes
<1>4. {"network_ready", "direct"} \cap (Unsettling \cup Fetching \cup {"saving"}) = {}
  BY DEF Unsettling, Fetching, Handing
<1>5. CASE UNCHANGED journal /\ Step(p, "direct", loc[p])
  <2>1. UNCHANGED durable
    BY <1>1, <1>5 DEF durable
  <2> QED BY <1>2, <1>3, <1>4, <1>5, <2>1, StepKeeps
<1>6. CASE \E ok \in BOOLEAN :
              Save(r, ok) /\ Step(p, IF ok THEN "network_ready" ELSE "direct", loc[p])
  <2>1. PICK ok \in BOOLEAN :
              Save(r, ok) /\ Step(p, IF ok THEN "network_ready" ELSE "direct", loc[p])
    BY <1>6
  <2>2. r \in Record /\ r.phase = "failed"
    BY <1>2, <1>3 DEF Record, Phases
  <2> HIDE DEF r
  <2>3. /\ Fits(r, flash, sd.installed) /\ r.phase # "confirmed"
        /\ r.phase \notin BootPhases /\ r.phase \notin Anchored
    BY <1>3, <2>2, FreeFits
  <2> DEFINE label == IF ok THEN "network_ready" ELSE "direct"
  <2>4. /\ label \in Labels(p) /\ label \notin {"saving", "backup", "download", "sign", "save", "check"}
        /\ Go(p, label, loc[p]) /\ FlagTypes' /\ Flagged(p, label)
        /\ UNCHANGED <<mode, confirmed>>
    BY <1>2, <2>1 DEF Step, Inv, FlagTypes, Flagged
  <2>5. sd' \in Cards /\ sd'.installed = sd.installed /\ UNCHANGED <<mode, boot, flash, confirmed>>
    BY <1>1, <1>3, <2>4
  <2> HIDE DEF label
  <2> QED BY <1>2, <1>3, <2>1, <2>2, <2>3, <2>4, <2>5, SaveStep
<1> QED BY <1>5, <1>6 DEF FailStaging

(***************************************************************************)
(* The report task.                                                        *)
(***************************************************************************)
LEMMA ReportPlace ==
    ASSUME Inv, pc["report"] # "idle"
    PROVE  /\ "report" \in Procs \ {"recovery"} /\ mode = "main" /\ confirmed
           /\ BlankRecord \in Record /\ loc["report"] \in Record
           /\ Labels("report") = {"idle", "report", "sleep", "http", "answered", "clear"} \cup Promoting
           /\ Labels("report") \cap (Unsettling \cup Fetching \cup {"saving"}) = {}
           /\ journal \in Record /\ ValidateRecord(journal) /\ Fits(journal, flash, sd.installed)
           /\ sd \in Cards /\ flash \in Images /\ flash # Partial
           /\ journal.phase \notin BootPhases
           /\ journal.phase = "confirmed" => pc["download"] \notin Fetching
<1>1. "report" \in Procs \ {"recovery"} /\ "report" \in Procs /\ "download" \in Procs
  BY DEF Procs
<1>2. mode = "main" /\ BlankRecord \in Record /\ loc["report"] \in Record /\ confirmed
  BY <1>1, AtMain, NameFacts DEF Inv, LocTypes, BootsOK
<1>3. Labels("report") = {"idle", "report", "sleep", "http", "answered", "clear"} \cup Promoting
  BY DEF Labels
<1>4. Labels("report") \cap (Unsettling \cup Fetching \cup {"saving"}) = {}
  BY <1>3 DEF Promoting, Unsettling, Fetching, Handing
<1>5. /\ journal \in Record /\ ValidateRecord(journal) /\ Fits(journal, flash, sd.installed)
      /\ sd \in Cards /\ flash \in Images /\ flash # Partial /\ journal.phase \notin BootPhases
  BY <1>2, MainFacts
<1>6. journal.phase = "confirmed" => pc["download"] \notin Fetching
  BY <1>1, <1>2 DEF Inv, SettledOK, Settled
<1> QED BY <1>1, <1>2, <1>3, <1>4, <1>5, <1>6

\* A step of the report task that touches nothing durable.
LEMMA ReportStepKeeps ==
    ASSUME Inv, pc["report"] # "idle", NEW label \in Labels("report"), NEW rec \in Record,
           label # "idle", Step("report", label, rec), UNCHANGED durable, ResultTypes',
           ReportAt(label, rec, journal, flash)
    PROVE  Inv'
<1>1. /\ "report" \in Procs \ {"recovery"} /\ mode = "main" /\ confirmed
      /\ label \notin Unsettling /\ label \notin Fetching /\ label # "saving"
  BY ReportPlace
<1> QED BY <1>1, StepKeeps

LEMMA ReportLoadKeeps ==
    ASSUME Inv, ReportLoad
    PROVE  Inv'
<1>1. pc["report"] = "report" /\ UNCHANGED <<boot, flash, sd, result>>
  BY DEF ReportLoad
<1>2. /\ journal \in Record /\ Fits(journal, flash, sd.installed) /\ BlankRecord \in Record
      /\ "report" \in Procs \ {"recovery"} /\ mode = "main"
      /\ Labels("report") = {"idle", "report", "sleep", "http", "answered", "clear"} \cup Promoting
  BY <1>1, ReportPlace
<1>3. ResultTypes'
  BY <1>1 DEF Inv, ResultTypes
<1>4. \A label \in {"sleep", "clear"}, rec \in Record : ReportAt(label, rec, journal, flash)
  BY DEF ReportAt, Promoting
<1>5. CASE Step("report", "sleep", BlankRecord) /\ UNCHANGED journal
  BY <1>1, <1>2, <1>3, <1>4, <1>5, ReportStepKeeps DEF durable
<1>6. CASE Ret("report", FALSE) /\ UNCHANGED journal
  BY <1>1, <1>2, <1>3, <1>6, RetKeeps DEF durable
<1>7. CASE Step("report", "clear", journal) /\ UNCHANGED journal
  BY <1>1, <1>2, <1>3, <1>4, <1>7, ReportStepKeeps DEF durable
<1>8. CASE /\ UNCHANGED journal
           /\ Step("report", IF ~Succeeded(journal) THEN AfterPromotion(journal)
                             ELSE IF journal.installed = journal.pending THEN "promoted"
                             ELSE "promote", journal)
  <2> DEFINE label == IF ~Succeeded(journal) THEN AfterPromotion(journal)
                      ELSE IF journal.installed = journal.pending THEN "promoted" ELSE "promote"
  <2>1. /\ label \in {"http", "answered", "promoted", "promote"}
        /\ label \in Promoting => journal.phase = "confirmed"
    BY DEF AfterPromotion, Succeeded, Promoting
  <2>2. journal.phase = "confirmed" => journal.pending = flash /\ journal.task = flash
    BY <1>2 DEF Fits, Updating
  <2>3. ReportAt(label, journal, journal, flash)
    BY <2>1, <2>2 DEF ReportAt
  <2>4. label \in Labels("report") /\ label # "idle" /\ UNCHANGED durable
    BY <1>1, <1>2, <1>8, <2>1 DEF durable, Promoting
  <2> HIDE DEF label
  <2>5. Step("report", label, journal)
    BY <1>8 DEF label
  <2> QED BY <1>1, <1>2, <1>3, <2>3, <2>4, <2>5, ReportStepKeeps
<1> QED BY <1>5, <1>6, <1>7, <1>8 DEF ReportLoad

\* While a confirmed image is promoted, the journal does not need the card.
LEMMA PromotingFacts ==
    ASSUME Inv, pc["report"] \in Promoting
    PROVE  /\ pc["report"] # "idle" /\ journal.phase = "confirmed"
           /\ loc["report"].phase = "confirmed"
           /\ loc["report"].pending = flash /\ loc["report"].task = flash
<1>1. pc["report"] # "idle"
  BY DEF Promoting
<1> QED BY <1>1 DEF Inv, ReportOK, ReportAt

LEMMA PromotionStep ==
    ASSUME Inv, pc["report"] \in Promoting, NEW label \in Promoting, NEW rec \in Record,
           Step("report", label, rec), UNCHANGED <<journal, boot, flash, result>>, sd' \in Cards,
           rec.phase = "confirmed", rec.pending = flash, rec.task = flash
    PROVE  Inv'
<1>1. pc["report"] # "idle" /\ journal.phase = "confirmed" /\ label # "idle"
  BY PromotingFacts DEF Promoting
<1>2. /\ "report" \in Procs \ {"recovery"} /\ mode = "main" /\ confirmed
      /\ label \in Labels("report")
      /\ label \notin Unsettling /\ label \notin Fetching /\ label # "saving"
      /\ journal \in Record /\ ValidateRecord(journal) /\ Fits(journal, flash, sd.installed)
      /\ journal.phase \notin BootPhases /\ pc["download"] \notin Fetching
  BY <1>1, ReportPlace
<1>3. Fits(journal, flash, sd'.installed)
  BY <1>1, <1>2 DEF Fits, Anchored, BootPhases
<1>4. ReportAt(label, rec, journal, flash)
  BY <1>1 DEF ReportAt
<1>5. /\ Go("report", label, rec) /\ UNCHANGED <<mode, flash>> /\ confirmed' = confirmed
      /\ FlagTypes' /\ Flagged("report", label)
  BY <1>1 DEF Step, Inv, FlagTypes, Flagged
<1>6. /\ boot \in {"pending", "valid", "erased"} /\ (confirmed => boot # "pending")
      /\ journal.phase \in Settled /\ boot # "erased"
  <2>1. journal.phase \in Settled
    BY <1>1 DEF Settled
  <2> QED BY <1>2, <2>1, MainFacts
<1>7. ResultTypes' /\ journal' = journal /\ boot' = boot
  BY DEF Inv, ResultTypes
<1>8. label \notin {"download", "sign", "save"}
  BY DEF Promoting
<1> QED BY <1>1, <1>2, <1>3, <1>4, <1>5, <1>6, <1>7, <1>8, MainStep

LEMMA PromoteKeeps ==
    ASSUME Inv, Promote
    PROVE  Inv'
<1> DEFINE r == loc["report"]
<1>1. /\ pc["report"] = "promote" /\ pc["report"] \in Promoting
      /\ UNCHANGED <<journal, boot, flash, result>>
  BY DEF Promote, Promoting
<1>2. /\ pc["report"] # "idle" /\ r.phase = "confirmed" /\ r.pending = flash /\ r.task = flash
  BY <1>1, PromotingFacts
<1>3. r \in Record /\ sd \in Cards /\ flash \in Images /\ None \in Tasks \cup {None}
      /\ None \in Images \cup {None, Damaged}
  BY <1>2, ReportPlace
<1>4. \A i \in Images :
         LET s == [r EXCEPT !.installed = i] IN
         s \in Record /\ s.phase = "confirmed" /\ s.pending = flash /\ s.task = flash
  BY <1>2, <1>3 DEF Record
<1>5. /\ [r EXCEPT !.installed = r.pending] = [r EXCEPT !.installed = flash]
      /\ {"promoted", "rename_pending", "rename_backup"} \subseteq Promoting
  BY <1>2 DEF Promoting
<1>6. [sd EXCEPT !.installed = None] \in Cards /\ [sd EXCEPT !.sig = None] \in Cards
  BY <1>3, SignedCard, BackupCard
<1> HIDE DEF r
<1>7. PICK label \in {"promoted", "rename_pending", "rename_backup"},
           s \in {r, [r EXCEPT !.installed = flash]} : Step("report", label, s)
  BY <1>5 DEF Promote, r
<1>8. sd' \in {sd, [sd EXCEPT !.installed = None], [sd EXCEPT !.sig = None]}
  BY DEF Promote
<1>9. s \in Record /\ s.phase = "confirmed" /\ s.pending = flash /\ s.task = flash
  BY <1>2, <1>3, <1>4, <1>7
<1>10. sd' \in Cards /\ label \in Promoting
  BY <1>3, <1>5, <1>6, <1>8
<1> QED BY <1>1, <1>7, <1>9, <1>10, PromotionStep

LEMMA PromoteRenameKeeps ==
    ASSUME Inv, PromoteRename
    PROVE  Inv'
<1> DEFINE r == loc["report"]
<1>1. /\ pc["report"] \in Promoting /\ UNCHANGED <<journal, boot, flash, result>>
      /\ "promoted" \in Promoting
  BY DEF PromoteRename, Promoting
<1>2. /\ pc["report"] # "idle" /\ r.phase = "confirmed" /\ r.pending = flash /\ r.task = flash
  BY <1>1, PromotingFacts
<1>3. r \in Record /\ sd \in Cards /\ flash \in Images
  BY <1>2, ReportPlace
<1> HIDE DEF r
<1>4. PICK s \in {r, [r EXCEPT !.installed = flash]} : Step("report", "promoted", s)
  BY <1>2 DEF PromoteRename, r
<1>5. s \in Record /\ s.phase = "confirmed" /\ s.pending = flash /\ s.task = flash
  BY <1>2, <1>3, <1>4 DEF Record
<1>6. sd' \in Cards
  <2>1. [pending |-> None, sig |-> None, installed |-> sd.pending] \in Cards
    BY <1>3 DEF Cards
  <2>2. [sd EXCEPT !.installed = flash] \in Cards
    BY <1>3, BackupCard
  <2> QED BY <1>3, <2>1, <2>2 DEF PromoteRename
<1> QED BY <1>1, <1>4, <1>5, <1>6, PromotionStep

\* A step of the report task that saves a record.
LEMMA ReportSaveKeeps ==
    ASSUME Inv, pc["report"] # "idle", NEW label \in Labels("report"), NEW rec \in Record,
           Go("report", label, rec), Flagged("report", label), FlagTypes',
           UNCHANGED <<mode, boot, flash, confirmed, result>>,
           NEW r \in Record, NEW ok \in BOOLEAN, Save(r, ok), Fits(r, flash, sd.installed),
           sd' \in Cards, sd'.installed = sd.installed,
           r.phase \in {"confirmed", "idle", "report_acknowledged"},
           r.phase = "confirmed" => journal.phase = "confirmed",
           \A record \in {journal, r} : ReportAt(label, rec, record, flash)
    PROVE  Inv'
<1>1. /\ "report" \in Procs \ {"recovery"} /\ mode = "main" /\ confirmed
      /\ label \notin Unsettling /\ label # "saving" /\ label \notin Fetching
      /\ journal.phase \notin BootPhases
      /\ journal.phase = "confirmed" => pc["download"] \notin Fetching
  BY ReportPlace
<1>2. /\ r.phase \notin BootPhases
      /\ r.phase \notin Anchored
      /\ label \notin {"backup", "download", "sign", "save", "check"}
  BY <1>1 DEF BootPhases, Anchored, Fetching
<1>3. ResultTypes'
  BY DEF Inv, ResultTypes
<1> QED BY <1>1, <1>2, <1>3, SaveStep

LEMMA SavePromotedKeeps ==
    ASSUME Inv, SavePromoted
    PROVE  Inv'
<1> DEFINE r == loc["report"]
           label == AfterPromotion(r)
<1>1. /\ pc["report"] \in Promoting /\ UNCHANGED <<boot, flash, sd, result>>
      /\ Step("report", label, r)
  BY DEF SavePromoted, Promoting
<1>2. PICK ok \in BOOLEAN : Save(r, ok)
  BY DEF SavePromoted
<1>3. /\ pc["report"] # "idle" /\ journal.phase = "confirmed" /\ r.phase = "confirmed"
      /\ r.pending = flash /\ r.task = flash
  BY <1>1, PromotingFacts
<1>4. /\ r \in Record /\ sd \in Cards /\ flash # Partial
      /\ Labels("report") = {"idle", "report", "sleep", "http", "answered", "clear"} \cup Promoting
  BY <1>3, ReportPlace
<1>5. /\ label \in Labels("report") /\ label # "idle"
      /\ \A record \in {journal, r} : ReportAt(label, r, record, flash)
  BY <1>3, <1>4 DEF AfterPromotion, ReportAt
<1>6. Fits(r, flash, sd.installed)
  BY <1>3, <1>4 DEF Fits, Anchored, BootPhases
<1> HIDE DEF label, r
<1>7. /\ Go("report", label, r) /\ Flagged("report", label) /\ FlagTypes'
      /\ UNCHANGED <<mode, boot, flash, confirmed, result>>
  BY <1>1, <1>3, <1>5 DEF Step, Flagged, Inv, FlagTypes
<1>8. sd' \in Cards /\ sd'.installed = sd.installed
  BY <1>1, <1>4
<1> QED BY <1>2, <1>3, <1>4, <1>5, <1>6, <1>7, <1>8, ReportSaveKeeps

LEMMA SaveAnsweredKeeps ==
    ASSUME Inv, SaveAnswered
    PROVE  Inv'
<1> DEFINE r == [loc["report"] EXCEPT !.phase = "report_acknowledged"]
<1>1. pc["report"] = "answered" /\ UNCHANGED <<boot, flash, sd, result>>
  BY DEF SaveAnswered
<1>2. PICK ok \in BOOLEAN : Save(r, ok) /\ Step("report", IF ok THEN "clear" ELSE "sleep", r)
  BY DEF SaveAnswered
<1>3. /\ loc["report"] \in Record /\ sd \in Cards /\ flash # Partial
      /\ Labels("report") = {"idle", "report", "sleep", "http", "answered", "clear"} \cup Promoting
  BY <1>1, ReportPlace
<1>4. r \in Record /\ r.phase = "report_acknowledged"
  BY <1>3 DEF Record, Phases
<1> HIDE DEF r
<1>5. Fits(r, flash, sd.installed)
  BY <1>3, <1>4, FreeFits
<1> DEFINE label == IF ok THEN "clear" ELSE "sleep"
<1>6. /\ label \in Labels("report") /\ label # "idle"
      /\ \A record \in {journal, r} : ReportAt(label, r, record, flash)
  BY <1>3 DEF ReportAt, Promoting
<1>7. /\ Go("report", label, r) /\ Flagged("report", label) /\ FlagTypes'
      /\ UNCHANGED <<mode, boot, flash, confirmed, result>>
  BY <1>1, <1>2, <1>6 DEF Step, Flagged, Inv, FlagTypes
<1>8. sd' \in Cards /\ sd'.installed = sd.installed
  BY <1>1, <1>3
<1>9. pc["report"] # "idle"
  BY <1>1
<1> HIDE DEF label
<1> QED BY <1>2, <1>4, <1>5, <1>6, <1>7, <1>8, <1>9, ReportSaveKeeps

LEMMA ClearCompletedKeeps ==
    ASSUME Inv, ClearCompleted
    PROVE  Inv'
<1> DEFINE r == Cleared(loc["report"])
<1>1. pc["report"] = "clear" /\ UNCHANGED <<boot, flash, result>> /\ pc["report"] # "idle"
  BY DEF ClearCompleted
<1>2. PICK ok \in BOOLEAN :
         /\ Save(r, ok)
         /\ IF ok THEN /\ sd' = [sd EXCEPT !.sig = None] /\ acked' = None
                       /\ Ends("report") /\ UNCHANGED <<mode, confirmed, timer, connected>>
            ELSE UNCHANGED sd /\ Step("report", "sleep", BlankRecord)
  BY DEF ClearCompleted
<1>3. /\ loc["report"] \in Record /\ sd \in Cards /\ flash # Partial /\ BlankRecord \in Record
      /\ Labels("report") = {"idle", "report", "sleep", "http", "answered", "clear"} \cup Promoting
  BY <1>1, ReportPlace
<1>4. r \in Record /\ r.phase = "idle"
  BY <1>3, ClearedFacts
<1> HIDE DEF r
<1>5. Fits(r, flash, sd.installed)
  BY <1>3, <1>4, FreeFits
<1> DEFINE label == IF ok THEN "idle" ELSE "sleep"
<1>6. /\ label \in Labels("report")
      /\ \A record \in {journal, r} : ReportAt(label, BlankRecord, record, flash)
  BY <1>3 DEF ReportAt, Promoting
<1>7. /\ Go("report", label, BlankRecord) /\ Flagged("report", label)
      /\ UNCHANGED <<mode, confirmed>>
  <2>1. CASE ok
    BY <1>2, <2>1 DEF Ends, Flagged
  <2>2. CASE ~ok
    BY <1>1, <1>2, <2>2 DEF Step, Flagged
  <2> QED BY <2>1, <2>2
<1>8. FlagTypes'
  BY <1>2 DEF Step, Inv, FlagTypes
<1>9. sd' \in Cards /\ sd'.installed = sd.installed
  <2>1. [sd EXCEPT !.sig = None] \in Cards /\ [sd EXCEPT !.sig = None].installed = sd.installed
    BY <1>3, SignedCard
  <2> QED BY <1>2, <1>3, <2>1
<1>10. UNCHANGED <<mode, boot, flash, confirmed, result>>
  BY <1>1, <1>7
<1> HIDE DEF label
<1> QED BY <1>1, <1>2, <1>3, <1>4, <1>5, <1>6, <1>7, <1>8, <1>9, <1>10, ReportSaveKeeps

\* What is sent as a success is one.
LEMMA SuccessFacts ==
    ASSUME Inv, pc["report"] = "http"
    PROVE  /\ Answer(loc["report"]) \in {"success", "failed"}
           /\ Answer(loc["report"]) = "success" =>
                 mode = "main" /\ flash = loc["report"].task /\ boot = "valid"
<1>1. Answer(loc["report"]) \in {"success", "failed"}
  BY DEF Answer
<1>2. ASSUME Answer(loc["report"]) = "success"
      PROVE  mode = "main" /\ flash = loc["report"].task /\ boot = "valid"
  <2>1. loc["report"].phase = "confirmed"
    BY <1>2 DEF Answer, Succeeded
  <2>2. journal.phase = "confirmed" /\ loc["report"].task = flash
    BY <2>1 DEF Inv, ReportOK, ReportAt
  <2>3. mode = "main" /\ confirmed
    BY ReportPlace
  <2>4. journal.phase \in Settled
    BY <2>2 DEF Settled
  <2> QED BY <2>2, <2>3, <2>4, MainFacts
<1> QED BY <1>1, <1>2

LEMMA SendingKeeps ==
    ASSUME Inv, ReportAnswered \/ ReportLost
    PROVE  /\ Inv'
           /\ \A t \in DOMAIN result : "success" \in result'[t] \ result[t]
                => mode = "main" /\ flash = t /\ boot = "valid"
<1> DEFINE r == loc["report"]
<1>1. pc["report"] = "http" /\ pc["report"] # "idle" /\ UNCHANGED durable
  BY DEF ReportAnswered, ReportLost
<1>2. /\ r \in Record /\ BlankRecord \in Record /\ "report" \in Procs \ {"recovery"}
      /\ mode = "main" /\ confirmed
      /\ Labels("report") = {"idle", "report", "sleep", "http", "answered", "clear"} \cup Promoting
      /\ Labels("report") \cap (Unsettling \cup Fetching \cup {"saving"}) = {}
  BY <1>1, ReportPlace
<1>3. /\ ResultTypes'
      /\ \A t \in DOMAIN result : "success" \in result'[t] \ result[t]
           => mode = "main" /\ flash = t /\ boot = "valid"
  <2>1. /\ Answer(r) \in {"success", "failed"}
        /\ Answer(r) = "success" => mode = "main" /\ flash = r.task /\ boot = "valid"
    BY <1>1, SuccessFacts
  <2>2. result' \in {result, Told(r.task, Answer(r)), Told(r.task, "rejected")}
    BY DEF ReportAnswered, ReportLost
  <2>3. CASE result' \in {result, Told(r.task, Answer(r))}
    <3>1. /\ ResultTypes'
          /\ \A s \in DOMAIN result : "success" \in result'[s] \ result[s] =>
                s = r.task /\ Answer(r) = "success"
      BY <2>1, <2>3, ToldFacts
    <3> QED BY <2>1, <3>1
  <2>4. CASE result' \in {result, Told(r.task, "rejected")}
    BY <2>4, ToldFacts
  <2> QED BY <2>2, <2>3, <2>4
<1>4. CASE ReportLost
  <2>1. Step("report", "sleep", BlankRecord) /\ ReportAt("sleep", BlankRecord, journal, flash)
    BY <1>4 DEF ReportLost, ReportAt, Promoting
  <2> QED BY <1>1, <1>2, <1>3, <2>1, ReportStepKeeps
<1>5. CASE ReportAnswered
  <2>1. /\ acked' = r.task /\ Go("report", "answered", r)
        /\ UNCHANGED <<durable, mode, confirmed, handoff, timer, connected>>
    BY <1>5 DEF ReportAnswered
  <2>2. FlagTypes' /\ Flagged("report", "answered")
    BY <1>1, <1>2, <2>1 DEF Inv, FlagTypes, Flagged, Record
  <2>3. ReportAt("answered", r, journal, flash)
    BY <1>1 DEF Inv, ReportOK, ReportAt, Promoting
  <2>4. UNCHANGED <<mode, durable, confirmed>>
    BY <2>1
  <2>5. "answered" \in Labels("report") /\ "answered" \notin Unsettling /\ "answered" \notin Fetching
    BY <1>2
  <2> HIDE DEF r
  <2> QED BY <1>2, <1>3, <2>1, <2>2, <2>3, <2>4, <2>5, QuietStep
<1> QED BY <1>3, <1>4, <1>5

LEMMA ReportWakesKeeps ==
    ASSUME Inv, ReportWakes
    PROVE  Inv'
<1>1. /\ pc["report"] # "idle" /\ Step("report", "report", BlankRecord) /\ UNCHANGED <<durable,
                                                                                       result>>
  BY DEF ReportWakes
<1>2. "report" \in Labels("report") /\ BlankRecord \in Record
  BY <1>1, ReportPlace
<1>3. ReportAt("report", BlankRecord, journal, flash) /\ ResultTypes'
  BY <1>1 DEF ReportAt, Promoting, Inv, ResultTypes
<1> QED BY <1>1, <1>2, <1>3, ReportStepKeeps

\* A card that is damaged or pulled.
LEMMA SdDamageKeeps ==
    ASSUME Inv, SdDamage
    PROVE  Inv'
<1>1. UNCHANGED <<journal, boot, flash, mode, pc, loc, confirmed, handoff, acked, timer, connected,
                  result>>
  BY DEF SdDamage, ram
<1>2. sd' \in Cards /\ sd'.installed \in {sd.installed, Damaged}
  <2>1. sd \in Cards
    BY DEF Inv, DurableOK
  <2> QED BY <2>1 DEF SdDamage, Cards
<1>3. DurableOK'
  BY <1>1, <1>2 DEF Inv, DurableOK, Fits
<1>4. CardOK'
  BY <1>1, <1>2 DEF Inv, CardOK
<1>5. FlagTypes' /\ ResultTypes' /\ LocTypes' /\ PlacesOK' /\ ModesOK' /\ SettledOK' /\ HandoffOK'
  BY <1>1 DEF Inv, FlagTypes, ResultTypes, LocTypes, PlacesOK, ModesOK, SettledOK, HandoffOK
<1>6. RecoveryOK' /\ ReportOK' /\ BootsOK'
  BY <1>1 DEF Inv, RecoveryOK, ReportOK, BootsOK
<1> QED BY <1>3, <1>4, <1>5, <1>6 DEF Inv


(***************************************************************************)
(* Recovery.                                                               *)
(***************************************************************************)
\* Where Recovery is, and what it relies on there.
LEMMA RecoveringFacts ==
    ASSUME Inv, pc["recovery"] # "idle"
    PROVE  /\ mode = "recovery"
           /\ journal \in Record /\ ValidateRecord(journal) /\ loc["recovery"] \in Record
           /\ flash \in Images \cup {Partial} /\ sd \in Cards
           /\ Fits(journal, flash, sd.installed)
           /\ RecoveryAt(pc["recovery"], loc["recovery"], journal, flash)
           /\ IF pc["recovery"] = "mark_restored" THEN boot = "new"
              ELSE boot \in {"erased", "aborted"}
<1>1. mode # "main" /\ mode # "halted"
  BY DEF Inv, ModesOK
<1>2. mode = "recovery"
  BY <1>1 DEF Inv, FlagTypes
<1>3. loc["recovery"] \in Record
  BY DEF Inv, LocTypes, Procs
<1>4. RecoveryAt(pc["recovery"], loc["recovery"], journal, flash)
  BY DEF Inv, RecoveryOK
<1>5. IF pc["recovery"] = "mark_restored" THEN boot = "new" ELSE boot \in {"erased", "aborted"}
  BY <1>1 DEF Inv, ModesOK
<1>6. DurableOK
  BY DEF Inv
<1> QED BY <1>2, <1>3, <1>4, <1>5, <1>6 DEF DurableOK

\* Recovery gives up.
LEMMA HaltKeeps ==
    ASSUME Inv, pc["recovery"] # "idle", Halt, UNCHANGED result,
           journal' \in Record, ValidateRecord(journal'), flash' \in Images \cup {Partial},
           sd' \in Cards, Fits(journal', flash', sd'.installed),
           boot' \in {"erased", "aborted"} \/ (boot' = "new" /\ flash' # Partial)
    PROVE  Inv'
<1>1. mode # "main"
  BY RecoveringFacts
<1>2. "idle" \in Labels("recovery") /\ BlankRecord \in Record
  BY NameFacts DEF Labels
<1>3. /\ mode' = "halted" /\ Go("recovery", "idle", BlankRecord)
      /\ UNCHANGED <<confirmed, handoff, acked, timer, connected, result>>
  BY DEF Halt
<1>4. RecoveryAt("idle", BlankRecord, journal', flash')
  BY DEF RecoveryAt, Applying, Rewriting
<1> QED BY <1>1, <1>2, <1>3, <1>4, RecoveryStep

\* Recovery goes on.
LEMMA WorkKeeps ==
    ASSUME Inv, pc["recovery"] # "idle", UNCHANGED result,
           NEW label \in Labels("recovery"), NEW rec \in Record, RecoveryGo(label, rec),
           journal' \in Record, ValidateRecord(journal'), flash' \in Images \cup {Partial},
           sd' \in Cards, Fits(journal', flash', sd'.installed),
           label # "mark_restored", boot' \in {"erased", "aborted"},
           RecoveryAt(label, rec, journal', flash')
    PROVE  Inv'
<1>1. mode = "recovery"
  BY RecoveringFacts
<1>2. /\ mode' = "recovery" /\ Go("recovery", label, rec)
      /\ UNCHANGED <<confirmed, handoff, acked, timer, connected, result>>
  BY <1>1 DEF RecoveryGo
<1> QED BY <1>1, <1>2, RecoveryStep

\* Recovery saves a record that is true of the slot, and goes on with it or gives up.
LEMMA RecoverySave ==
    ASSUME Inv, pc["recovery"] \notin {"idle", "mark_restored"},
           UNCHANGED <<boot, flash, sd, result>>,
           NEW r \in Record, NEW ok \in BOOLEAN, Save(r, ok), Fits(r, flash, sd.installed),
           NEW label \in Labels("recovery"), label # "mark_restored",
           RecoveryAt(label, r, r, flash),
           IF ok THEN RecoveryGo(label, r) ELSE Halt
    PROVE  Inv'
<1>1. /\ journal \in Record /\ ValidateRecord(journal)
      /\ flash \in Images \cup {Partial} /\ sd \in Cards
      /\ Fits(journal, flash, sd.installed) /\ boot \in {"erased", "aborted"}
  BY RecoveringFacts
<1>2. /\ journal' \in {journal, r} /\ journal' \in Record /\ ValidateRecord(journal')
      /\ ok => journal' = r
  BY <1>1, SaveFacts
<1>3. Fits(journal', flash', sd'.installed)
  BY <1>1, <1>2
<1>4. CASE ok
  <2>1. journal' = r /\ RecoveryGo(label, r)
    BY <1>2, <1>4
  <2>2. RecoveryAt(label, r, journal', flash')
    BY <2>1
  <2> QED BY <1>1, <1>2, <1>3, <2>1, <2>2, WorkKeeps
<1>5. CASE ~ok
  BY <1>1, <1>2, <1>3, <1>5, HaltKeeps
<1> QED BY <1>4, <1>5

\* Recovery selects the complete main slot and restarts into it, or gives up.
LEMMA BootMainKeeps ==
    ASSUME Inv, pc["recovery"] \notin {"idle", "mark_restored"},
           UNCHANGED <<journal, flash, sd, result>>, flash # Partial,
           NEW ok \in BOOLEAN, RestartIntoMain(ok)
    PROVE  Inv'
<1>1. /\ journal \in Record /\ ValidateRecord(journal)
      /\ flash \in Images \cup {Partial} /\ sd \in Cards
      /\ Fits(journal, flash, sd.installed) /\ boot \in {"erased", "aborted"}
  BY RecoveringFacts
<1>2. CASE ok
  <2>1. Restart("new") /\ "new" \in Booted
    BY <1>2 DEF RestartIntoMain, Booted
  <2>2. ResultTypes'
    BY DEF Inv, ResultTypes
  <2> QED BY <1>1, <2>1, <2>2, RestartStep
<1>3. CASE ~ok
  <2>1. Halt /\ boot' = boot
    BY <1>3 DEF RestartIntoMain
  <2> QED BY <1>1, <2>1, HaltKeeps
<1> QED BY <1>2, <1>3

\* A record with another error says the same of the slot.
LEMMA ErrorFacts ==
    ASSUME NEW r \in Record, NEW e \in BOOLEAN
    PROVE  LET s == [r EXCEPT !.error = e] IN
           /\ s \in Record
           /\ s.phase = r.phase /\ s.task = r.task /\ s.pending = r.pending
           /\ s.installed = r.installed /\ s.error = e
           /\ r = [s EXCEPT !.error = r.error] /\ r.error \in BOOLEAN
           /\ \A image, backup : Fits(r, image, backup) => Fits(s, image, backup)
           /\ ValidateRecord(r) /\ e => ValidateRecord(s)
<1> DEFINE s == [r EXCEPT !.error = e]
<1>1. s \in Record /\ r.error \in BOOLEAN
  BY DEF Record
<1>2. /\ s.phase = r.phase /\ s.task = r.task /\ s.pending = r.pending
      /\ s.installed = r.installed /\ s.error = e
  BY DEF Record
<1>3. r = [s EXCEPT !.error = r.error]
  BY DEF Record
<1> HIDE DEF s
<1>4. \A image, backup : Fits(r, image, backup) => Fits(s, image, backup)
  BY <1>2 DEF Fits
<1>5. ValidateRecord(r) /\ e => ValidateRecord(s)
  BY <1>2 DEF ValidateRecord
<1> QED BY <1>1, <1>2, <1>3, <1>4, <1>5 DEF s

\* Recovery reads the journal and decides.
LEMMA StartRecoveryKeeps == ASSUME Inv, RecoveryStart PROVE Inv'
<1> DEFINE rooted == [journal EXCEPT !.error = TRUE]
<1>1. pc["recovery"] = "start" /\ UNCHANGED <<flash, sd, result, resets>>
  BY DEF RecoveryStart
<1>2. /\ journal \in Record /\ ValidateRecord(journal)
      /\ flash \in Images \cup {Partial} /\ sd \in Cards
      /\ Fits(journal, flash, sd.installed) /\ boot \in {"erased", "aborted"}
  BY <1>1, RecoveringFacts
<1>3. ASSUME UNCHANGED <<journal, boot>>, Halt PROVE Inv'
  BY <1>1, <1>2, <1>3, HaltKeeps
<1>4. ASSUME UNCHANGED <<journal, boot>>, RecoveryGo("mount", journal),
             journal.phase \in {"pending", "applying", "ready_to_boot", "restoring"}
      PROVE  Inv'
  <2>1. "mount" \in Labels("recovery")
    BY DEF Labels
  <2>2. RecoveryAt("mount", journal, journal', flash')
    BY <1>4 DEF RecoveryAt, Applying, Rewriting
  <2> QED BY <1>1, <1>2, <1>4, <2>1, <2>2, WorkKeeps
<1>5. ASSUME UNCHANGED journal, NEW ok \in BOOLEAN, RestartIntoMain(ok), IsValidImage PROVE Inv'
  BY <1>1, <1>5, BootMainKeeps DEF IsValidImage
<1>6. CASE journal.phase = "rollback_ready" /\ UNCHANGED <<journal, boot, faults>>
           /\ RecoveryGo("boot_restored", journal)
  <2>1. "boot_restored" \in Labels("recovery")
    BY DEF Labels
  <2>2. RecoveryAt("boot_restored", journal, journal', flash')
    BY <1>6 DEF RecoveryAt, Applying, Rewriting
  <2> QED BY <1>1, <1>2, <1>6, <2>1, <2>2, WorkKeeps
<1>7. ASSUME journal.phase = "ready_to_boot", NEW ok \in BOOLEAN, Save(rooted, ok), UNCHANGED boot,
             IF ok THEN RecoveryGo("mount", rooted) ELSE Halt
      PROVE  Inv'
  <2>1. /\ rooted \in Record /\ rooted.phase = "ready_to_boot"
        /\ Fits(rooted, flash, sd.installed)
    BY <1>2, <1>7, ErrorFacts
  <2> HIDE DEF rooted
  <2>2. "mount" \in Labels("recovery")
    BY DEF Labels
  <2>3. RecoveryAt("mount", rooted, rooted, flash)
    BY <2>1 DEF RecoveryAt, Applying, Rewriting
  <2> QED BY <1>1, <1>7, <2>1, <2>2, <2>3, RecoverySave
<1> HIDE DEF rooted
<1>8. \/ UNCHANGED <<journal, boot>> /\ Halt
      \/ UNCHANGED <<journal, boot>> /\ RecoveryGo("mount", journal)
         /\ journal.phase \in {"pending", "applying", "ready_to_boot", "restoring"}
      \/ UNCHANGED journal /\ IsValidImage /\ (\E ok \in BOOLEAN : RestartIntoMain(ok))
      \/ journal.phase = "rollback_ready" /\ UNCHANGED <<journal, boot, faults>>
         /\ RecoveryGo("boot_restored", journal)
      \/ journal.phase = "ready_to_boot"
         /\ (\E ok \in BOOLEAN : Save(rooted, ok) /\ UNCHANGED boot
                                 /\ (IF ok THEN RecoveryGo("mount", rooted) ELSE Halt))
  BY Zenon DEF RecoveryStart, rooted
<1> QED BY <1>3, <1>4, <1>5, <1>6, <1>7, <1>8

\* The card is mounted, or Recovery gives up, having noted the error or not.
LEMMA MountKeeps == ASSUME Inv, RecoveryMount PROVE Inv'
<1> DEFINE r == loc["recovery"]
           noted == [r EXCEPT !.error = TRUE]
           next == IF r.phase \in {"ready_to_boot", "restoring"} THEN "restore" ELSE "candidate"
<1>1. pc["recovery"] = "mount" /\ UNCHANGED <<boot, flash, sd, result, resets>>
  BY DEF RecoveryMount
<1>2. /\ journal \in Record /\ ValidateRecord(journal) /\ r \in Record
      /\ flash \in Images \cup {Partial} /\ sd \in Cards
      /\ Fits(journal, flash, sd.installed) /\ boot \in {"erased", "aborted"}
      /\ RecoveryAt("mount", r, journal, flash)
  BY <1>1, RecoveringFacts
<1>3. journal = r /\ r.phase \in {"pending", "applying", "ready_to_boot", "restoring"}
  BY <1>2 DEF RecoveryAt
<1>4. CASE UNCHANGED journal /\ RecoveryGo(next, r)
  <2>1. next \in Labels("recovery") /\ next # "mark_restored" /\ next \in {"restore", "candidate"}
    BY DEF Labels
  <2>2. r = [r EXCEPT !.error = r.error] /\ r.error \in BOOLEAN
    BY <1>2 DEF Record
  <2>3. RecoveryAt(next, r, journal', flash')
    BY <1>3, <1>4, <2>2 DEF RecoveryAt, Applying, Rewriting
  <2> HIDE DEF next, r
  <2> QED BY <1>1, <1>2, <1>4, <2>1, <2>3, WorkKeeps
<1>5. CASE Halt /\ journal' \in {journal, noted}
  <2>1. noted \in Record /\ ValidateRecord(noted) /\ Fits(noted, flash, sd.installed)
    BY <1>2, <1>3, ErrorFacts
  <2> HIDE DEF noted, r
  <2>2. journal' \in Record /\ ValidateRecord(journal') /\ Fits(journal', flash', sd'.installed)
    BY <1>1, <1>2, <1>5, <2>1
  <2> QED BY <1>1, <1>2, <1>5, <2>2, HaltKeeps
<1>6. \/ UNCHANGED journal /\ RecoveryGo(next, r)
      \/ Halt /\ journal' \in {journal, noted}
  <2>1. \/ UNCHANGED journal /\ RecoveryGo(next, r)
        \/ Halt /\ journal' \in (IF r.error THEN {journal} ELSE {journal, noted})
    BY Zenon DEF RecoveryMount
  <2> HIDE DEF noted, r, next
  <2> QED BY <2>1
<1> QED BY <1>4, <1>5, <1>6

\* Recovery looks at the candidate on the card.
LEMMA CandidateKeeps == ASSUME Inv, RecoveryCandidate PROVE Inv'
<1> DEFINE r == loc["recovery"]
           rejected == [r EXCEPT !.error = TRUE]
           applying == [r EXCEPT !.phase = "applying", !.error = FALSE]
           failed == [rejected EXCEPT !.phase = "failed"]
<1>1. pc["recovery"] = "candidate" /\ UNCHANGED <<flash, sd, result, resets>>
  BY DEF RecoveryCandidate
<1>2. /\ journal \in Record /\ ValidateRecord(journal) /\ r \in Record
      /\ flash \in Images \cup {Partial} /\ sd \in Cards
      /\ Fits(journal, flash, sd.installed) /\ boot \in {"erased", "aborted"}
      /\ RecoveryAt("candidate", r, journal, flash)
  BY <1>1, RecoveringFacts
<1>3. journal = r /\ r.phase \in {"pending", "applying"}
  BY <1>2 DEF RecoveryAt, Applying, Rewriting
<1>4. CASE r.phase = "applying" /\ UNCHANGED <<journal, boot, faults>>
           /\ RecoveryGo("restore", rejected)
  <2>1. /\ rejected \in Record /\ rejected.phase = "applying"
        /\ journal = [rejected EXCEPT !.error = r.error] /\ r.error \in BOOLEAN
    BY <1>2, <1>3, <1>4, ErrorFacts
  <2> HIDE DEF rejected, r
  <2>2. "restore" \in Labels("recovery")
    BY DEF Labels
  <2>3. RecoveryAt("restore", rejected, journal', flash')
    BY <1>4, <2>1 DEF RecoveryAt, Applying, Rewriting
  <2> QED BY <1>1, <1>2, <1>4, <2>1, <2>2, <2>3, WorkKeeps
<1>5. ASSUME r.phase # "applying", NEW ok \in BOOLEAN, Save(failed, ok),
             Halt \/ (ok /\ RecoveryGo("boot_rejected", failed)), UNCHANGED boot
      PROVE  Inv'
  <2>1. failed \in Record /\ failed.phase = "failed"
    BY <1>2 DEF Record, Phases
  <2>2. flash # Partial
    BY <1>2, <1>3, <1>5 DEF Fits
  <2> HIDE DEF failed, rejected
  <2>3. Fits(failed, flash, sd.installed)
    BY <2>1, <2>2 DEF Fits, Updating, Anchored, BootPhases
  <2>4. /\ journal' \in {journal, failed} /\ journal' \in Record /\ ValidateRecord(journal')
    BY <1>2, <1>5, <2>1, SaveFacts
  <2>5. Fits(journal', flash', sd'.installed) /\ flash' # Partial
    BY <1>1, <1>2, <2>2, <2>3, <2>4
  <2>6. CASE ok /\ RecoveryGo("boot_rejected", failed)
    <3>1. "boot_rejected" \in Labels("recovery")
      BY DEF Labels
    <3>2. journal' = failed
      BY <1>2, <1>5, <2>1, <2>6, SaveFacts
    <3>3. RecoveryAt("boot_rejected", failed, journal', flash')
      BY <2>1, <3>2 DEF RecoveryAt, Applying, Rewriting
    <3> QED BY <1>1, <1>2, <1>5, <2>1, <2>4, <2>5, <2>6, <3>1, <3>3, WorkKeeps
  <2>7. CASE Halt
    BY <1>1, <1>2, <1>5, <2>4, <2>5, <2>7, HaltKeeps
  <2> QED BY <1>5, <2>6, <2>7
<1>6. CASE UNCHANGED <<journal, boot, faults>> /\ Halt
  BY <1>1, <1>2, <1>6, HaltKeeps
<1>7. ASSUME UNCHANGED boot, NEW ok \in BOOLEAN, Save(applying, ok),
             IF ok THEN RecoveryGo("erase", applying) ELSE Halt
      PROVE  Inv'
  <2>1. /\ applying \in Record /\ applying.phase = "applying" /\ applying.task = r.task
        /\ applying.pending = r.pending /\ applying.installed = r.installed
    BY <1>2 DEF Record, Phases
  <2> HIDE DEF applying
  <2>2. Fits(applying, flash, sd.installed)
    BY <1>2, <1>3, <2>1 DEF Fits, Updating, Anchored
  <2>3. "erase" \in Labels("recovery")
    BY DEF Labels, Applying
  <2>4. RecoveryAt("erase", applying, applying, flash)
    BY <2>1 DEF RecoveryAt, Applying, Rewriting
  <2> QED BY <1>1, <1>7, <2>1, <2>2, <2>3, <2>4, RecoverySave
<1> HIDE DEF applying, failed, rejected
<1>8. \/ r.phase = "applying" /\ UNCHANGED <<journal, boot, faults>>
         /\ RecoveryGo("restore", rejected)
      \/ r.phase # "applying" /\ UNCHANGED boot
         /\ (\E ok \in BOOLEAN : Save(failed, ok)
                /\ (Halt \/ (ok /\ RecoveryGo("boot_rejected", failed))))
      \/ UNCHANGED <<journal, boot, faults>> /\ Halt
      \/ UNCHANGED boot
         /\ (\E ok \in BOOLEAN : Save(applying, ok)
                                 /\ (IF ok THEN RecoveryGo("erase", applying) ELSE Halt))
  BY Zenon DEF RecoveryCandidate, applying, failed, rejected
<1> HIDE DEF r
<1> QED BY <1>4, <1>5, <1>6, <1>7, <1>8

\* The erase of the main slot, before the image or the backup is written.
LEMMA EraseKeeps ==
    ASSUME Inv, NEW from \in {"erase", "erase_restore"}, NEW to \in {"write", "rewrite"},
           from = "erase" <=> to = "write", RecoveryErase(from, to)
    PROVE  Inv'
<1> DEFINE r == loc["recovery"]
           erred == [r EXCEPT !.error = TRUE]
<1>1. pc["recovery"] = from /\ UNCHANGED <<journal, boot, sd, result, resets>>
  BY DEF RecoveryErase
<1>2. /\ journal \in Record /\ ValidateRecord(journal) /\ r \in Record
      /\ flash \in Images \cup {Partial} /\ sd \in Cards
      /\ Fits(journal, flash, sd.installed) /\ boot \in {"erased", "aborted"}
      /\ RecoveryAt(from, r, journal, flash)
  BY <1>1, RecoveringFacts
<1>3. journal = r /\ r.phase = IF from = "erase" THEN "applying" ELSE "restoring"
  BY <1>2 DEF RecoveryAt, Applying, Rewriting
<1>4. ASSUME flash' \in {flash, Partial}
      PROVE  flash' \in Images \cup {Partial} /\ Fits(journal', flash', sd'.installed)
  BY <1>1, <1>2, <1>3, <1>4 DEF Fits
<1>5. CASE flash' = Partial /\ RecoveryGo(to, r)
  <2>1. to \in Labels("recovery") /\ to # "mark_restored"
    BY DEF Labels, Applying, Rewriting
  <2>2. RecoveryAt(to, r, journal', flash')
    BY <1>1, <1>3 DEF RecoveryAt, Applying, Rewriting
  <2> HIDE DEF r
  <2> QED BY <1>1, <1>2, <1>4, <1>5, <2>1, <2>2, WorkKeeps
<1>6. CASE flash' \in {flash, Partial} /\ from = "erase" /\ RecoveryGo("restore", erred)
  <2>1. /\ erred \in Record /\ erred.phase = "applying"
        /\ journal = [erred EXCEPT !.error = r.error] /\ r.error \in BOOLEAN
    BY <1>2, <1>3, <1>6, ErrorFacts
  <2> HIDE DEF erred, r
  <2>2. "restore" \in Labels("recovery")
    BY DEF Labels
  <2>3. RecoveryAt("restore", erred, journal', flash')
    BY <1>1, <2>1 DEF RecoveryAt, Applying, Rewriting
  <2> QED BY <1>1, <1>2, <1>4, <1>6, <2>1, <2>2, <2>3, WorkKeeps
<1>7. CASE flash' \in {flash, Partial} /\ Halt
  BY <1>1, <1>2, <1>4, <1>7, HaltKeeps
<1>8. \/ flash' = Partial /\ RecoveryGo(to, r)
      \/ flash' \in {flash, Partial} /\ (IF from = "erase" THEN RecoveryGo("restore", erred) ELSE Halt)
  BY Zenon DEF RecoveryErase
<1> HIDE DEF erred, r
<1> QED BY <1>5, <1>6, <1>7, <1>8

\* The image is written and verified, or the restore begins.
LEMMA WriteKeeps == ASSUME Inv, RecoveryWrite PROVE Inv'
<1> DEFINE r == loc["recovery"]
           erred == [r EXCEPT !.error = TRUE]
<1>1. pc["recovery"] = "write" /\ UNCHANGED <<journal, boot, sd, result, resets>>
  BY DEF RecoveryWrite
<1>2. /\ journal \in Record /\ ValidateRecord(journal) /\ r \in Record
      /\ flash \in Images \cup {Partial} /\ sd \in Cards
      /\ Fits(journal, flash, sd.installed) /\ boot \in {"erased", "aborted"}
      /\ RecoveryAt("write", r, journal, flash)
  BY <1>1, RecoveringFacts
<1>3. journal = r /\ r.phase = "applying"
  BY <1>2 DEF RecoveryAt, Applying, Rewriting
<1>4. CASE flash' = r.pending /\ RecoveryGo("written", r)
  <2>1. flash' \in Images
    BY <1>2, <1>3, <1>4, ValidFacts DEF Updating
  <2>2. Fits(journal', flash', sd'.installed)
    BY <1>1, <1>2, <1>3, <2>1, NameFacts DEF Fits
  <2>3. "written" \in Labels("recovery")
    BY DEF Labels, Applying
  <2>4. RecoveryAt("written", r, journal', flash')
    BY <1>1, <1>3, <1>4 DEF RecoveryAt, Applying, Rewriting
  <2> HIDE DEF r
  <2> QED BY <1>1, <1>2, <1>4, <2>1, <2>2, <2>3, <2>4, WorkKeeps
<1>5. CASE UNCHANGED flash /\ RecoveryGo("restore", erred)
  <2>1. /\ erred \in Record /\ erred.phase = "applying"
        /\ journal = [erred EXCEPT !.error = r.error] /\ r.error \in BOOLEAN
    BY <1>2, <1>3, ErrorFacts
  <2> HIDE DEF erred, r
  <2>2. "restore" \in Labels("recovery")
    BY DEF Labels
  <2>3. RecoveryAt("restore", erred, journal', flash')
    BY <1>1, <2>1 DEF RecoveryAt, Applying, Rewriting
  <2> QED BY <1>1, <1>2, <1>5, <2>1, <2>2, <2>3, WorkKeeps
<1>6. \/ flash' = r.pending /\ RecoveryGo("written", r)
      \/ UNCHANGED flash /\ RecoveryGo("restore", erred)
  BY Zenon DEF RecoveryWrite
<1> QED BY <1>4, <1>5, <1>6

\* What was written is recorded as ready for its first boot.
LEMMA ReadyKeeps == ASSUME Inv, RecoveryReadyToBoot PROVE Inv'
<1> DEFINE r == loc["recovery"]
           ready == [r EXCEPT !.phase = "ready_to_boot", !.error = FALSE]
<1>1. pc["recovery"] = "written" /\ UNCHANGED <<boot, flash, sd, result, resets>>
  BY DEF RecoveryReadyToBoot
<1>2. /\ journal \in Record /\ r \in Record /\ Fits(journal, flash, sd.installed)
      /\ ValidateRecord(journal) /\ RecoveryAt("written", r, journal, flash)
  BY <1>1, RecoveringFacts
<1>3. journal = r /\ r.phase = "applying" /\ flash = r.pending
  BY <1>2 DEF RecoveryAt, Applying, Rewriting
<1>4. /\ ready \in Record /\ ready.phase = "ready_to_boot" /\ ready.task = r.task
      /\ ready.pending = r.pending /\ ready.installed = r.installed
  BY <1>2 DEF Record, Phases
<1>5. flash # Partial
  BY <1>2, <1>3, ValidFacts, NameFacts DEF Updating
<1>6. Fits(ready, flash, sd.installed)
  <2> HIDE DEF ready
  <2> QED BY <1>2, <1>3, <1>4, <1>5 DEF Fits, Updating, Anchored, BootPhases
<1>7. "boot_written" \in Labels("recovery")
  BY DEF Labels
<1>8. RecoveryAt("boot_written", ready, ready, flash)
  <2> HIDE DEF ready
  <2> QED BY <1>4 DEF RecoveryAt, Applying, Rewriting
<1>9. \E ok \in BOOLEAN : Save(ready, ok) /\ (IF ok THEN RecoveryGo("boot_written", ready) ELSE Halt)
  BY DEF RecoveryReadyToBoot
<1> HIDE DEF ready, r
<1> QED BY <1>1, <1>4, <1>6, <1>7, <1>8, <1>9, RecoverySave

\* The main slot is selected.
LEMMA BootWrittenKeeps == ASSUME Inv, RecoveryBootWritten PROVE Inv'
<1> DEFINE r == loc["recovery"]
<1>1. /\ pc["recovery"] \in {"boot_written", "boot_rejected"}
      /\ UNCHANGED <<journal, flash, sd, result, resets>>
  BY DEF RecoveryBootWritten
<1>2. /\ Fits(journal, flash, sd.installed) /\ RecoveryAt(pc["recovery"], r, journal, flash)
  BY <1>1, RecoveringFacts
<1>3. journal.phase \in {"ready_to_boot", "failed"}
  BY <1>1, <1>2 DEF RecoveryAt, Applying, Rewriting
<1>4. flash # Partial
  BY <1>2, <1>3 DEF Fits
<1>5. \E ok \in BOOLEAN : RestartIntoMain(ok)
  BY DEF RecoveryBootWritten
<1> QED BY <1>1, <1>4, <1>5, BootMainKeeps

\* The restore is recorded before the slot is erased.
LEMMA RestoreKeeps == ASSUME Inv, RecoveryRestore PROVE Inv'
<1> DEFINE r == loc["recovery"]
           restoring == [r EXCEPT !.phase = "restoring", !.error = TRUE]
<1>1. pc["recovery"] = "restore" /\ UNCHANGED <<boot, flash, sd, result, resets>>
  BY DEF RecoveryRestore
<1>2. /\ journal \in Record /\ ValidateRecord(journal) /\ r \in Record
      /\ flash \in Images \cup {Partial} /\ sd \in Cards
      /\ Fits(journal, flash, sd.installed) /\ boot \in {"erased", "aborted"}
      /\ RecoveryAt("restore", r, journal, flash)
  BY <1>1, RecoveringFacts
<1>3. /\ \E e \in BOOLEAN : journal = [r EXCEPT !.error = e]
      /\ r.phase \in {"applying", "ready_to_boot", "restoring"}
  BY <1>2 DEF RecoveryAt, Applying, Rewriting
<1>4. journal.phase = r.phase /\ journal.installed = r.installed
  <2>1. PICK e \in BOOLEAN : journal = [r EXCEPT !.error = e]
    BY <1>3
  <2> HIDE DEF r
  <2> QED BY <1>2, <2>1 DEF Record
<1>5. /\ restoring \in Record /\ restoring.phase = "restoring"
      /\ restoring.installed = r.installed
  BY <1>2 DEF Record, Phases
<1> HIDE DEF restoring
<1>6. Fits(restoring, flash, sd.installed)
  BY <1>2, <1>3, <1>4, <1>5 DEF Fits, Updating, Anchored, BootPhases
<1>7. "verify_backup" \in Labels("recovery")
  BY DEF Labels, Rewriting
<1>8. RecoveryAt("verify_backup", restoring, restoring, flash)
  BY <1>5 DEF RecoveryAt, Applying, Rewriting
<1>9. CASE Halt /\ UNCHANGED <<journal, faults>>
  BY <1>1, <1>2, <1>9, HaltKeeps
<1>10. CASE \E ok \in BOOLEAN :
               Save(restoring, ok) /\ (IF ok THEN RecoveryGo("verify_backup", restoring) ELSE Halt)
  BY <1>1, <1>5, <1>6, <1>7, <1>8, <1>10, RecoverySave
<1>11. \/ Halt /\ UNCHANGED <<journal, faults>>
       \/ \E ok \in BOOLEAN :
             Save(restoring, ok) /\ (IF ok THEN RecoveryGo("verify_backup", restoring) ELSE Halt)
  BY Zenon DEF RecoveryRestore, SaveRestoring, restoring
<1> QED BY <1>9, <1>10, <1>11

\* The backup is verified before the slot is erased.
LEMMA VerifyBackupKeeps == ASSUME Inv, RecoveryVerifyBackup PROVE Inv'
<1> DEFINE r == loc["recovery"]
<1>1. pc["recovery"] = "verify_backup" /\ UNCHANGED <<durable, result, resets, faults>>
  BY DEF RecoveryVerifyBackup
<1>2. UNCHANGED <<journal, boot, flash, sd, result>>
  BY <1>1 DEF durable
<1>3. /\ journal \in Record /\ ValidateRecord(journal) /\ r \in Record
      /\ flash \in Images \cup {Partial} /\ sd \in Cards
      /\ Fits(journal, flash, sd.installed) /\ boot \in {"erased", "aborted"}
      /\ RecoveryAt("verify_backup", r, journal, flash)
  BY <1>1, RecoveringFacts
<1>4. RecoveryAt("erase_restore", r, journal', flash')
  BY <1>2, <1>3 DEF RecoveryAt, Applying, Rewriting
<1>5. "erase_restore" \in Labels("recovery")
  BY DEF Labels, Rewriting
<1>6. CASE RecoveryGo("erase_restore", r)
  <2> HIDE DEF r
  <2> QED BY <1>1, <1>2, <1>3, <1>4, <1>5, <1>6, WorkKeeps
<1>7. CASE Halt
  BY <1>1, <1>2, <1>3, <1>7, HaltKeeps
<1> QED BY <1>6, <1>7 DEF RecoveryVerifyBackup

\* The backup is written back.
LEMMA RewriteKeeps == ASSUME Inv, RecoveryRewrite PROVE Inv'
<1> DEFINE r == loc["recovery"]
<1>1. pc["recovery"] = "rewrite" /\ UNCHANGED <<journal, boot, sd, result, resets>>
  BY DEF RecoveryRewrite
<1>2. /\ journal \in Record /\ ValidateRecord(journal) /\ r \in Record
      /\ flash \in Images \cup {Partial} /\ sd \in Cards
      /\ Fits(journal, flash, sd.installed) /\ boot \in {"erased", "aborted"}
      /\ RecoveryAt("rewrite", r, journal, flash)
  BY <1>1, RecoveringFacts
<1>3. journal = r /\ r.phase = "restoring"
  BY <1>2 DEF RecoveryAt, Applying, Rewriting
<1>4. CASE flash' = r.installed /\ RecoveryGo("rewritten", r)
  <2>1. flash' \in Images
    BY <1>2, <1>3, <1>4, ValidFacts
  <2>2. Fits(journal', flash', sd'.installed)
    BY <1>1, <1>2, <1>3, <2>1, NameFacts DEF Fits
  <2>3. "rewritten" \in Labels("recovery")
    BY DEF Labels, Rewriting
  <2>4. RecoveryAt("rewritten", r, journal', flash')
    BY <1>1, <1>3, <1>4 DEF RecoveryAt, Applying, Rewriting
  <2> HIDE DEF r
  <2> QED BY <1>1, <1>2, <1>4, <2>1, <2>2, <2>3, <2>4, WorkKeeps
<1>5. CASE UNCHANGED flash /\ Halt
  BY <1>1, <1>2, <1>5, HaltKeeps
<1>6. \/ flash' = r.installed /\ RecoveryGo("rewritten", r)
      \/ UNCHANGED flash /\ Halt
  BY Zenon DEF RecoveryRewrite
<1> QED BY <1>4, <1>5, <1>6

\* What was restored is recorded as ready for its boot.
LEMMA RollbackReadyKeeps == ASSUME Inv, RecoveryRollbackReady PROVE Inv'
<1> DEFINE r == loc["recovery"]
           ready == [r EXCEPT !.phase = "rollback_ready"]
<1>1. pc["recovery"] = "rewritten" /\ UNCHANGED <<boot, flash, sd, result, resets>>
  BY DEF RecoveryRollbackReady
<1>2. /\ journal \in Record /\ r \in Record /\ Fits(journal, flash, sd.installed)
      /\ ValidateRecord(journal) /\ RecoveryAt("rewritten", r, journal, flash)
  BY <1>1, RecoveringFacts
<1>3. journal = r /\ r.phase = "restoring" /\ flash = r.installed
  BY <1>2 DEF RecoveryAt, Applying, Rewriting
<1>4. /\ ready \in Record /\ ready.phase = "rollback_ready" /\ ready.task = r.task
      /\ ready.pending = r.pending /\ ready.installed = r.installed
  BY <1>2 DEF Record, Phases
<1>5. flash # Partial
  BY <1>2, <1>3, ValidFacts, NameFacts
<1>6. "boot_restored" \in Labels("recovery")
  BY DEF Labels
<1>7. \E ok \in BOOLEAN : Save(ready, ok) /\ (IF ok THEN RecoveryGo("boot_restored", ready) ELSE Halt)
  BY DEF RecoveryRollbackReady
<1> HIDE DEF ready
<1>8. Fits(ready, flash, sd.installed)
  BY <1>2, <1>3, <1>4, <1>5 DEF Fits, Updating, Anchored, BootPhases
<1>9. RecoveryAt("boot_restored", ready, ready, flash)
  BY <1>4 DEF RecoveryAt, Applying, Rewriting
<1> HIDE DEF r
<1> QED BY <1>1, <1>4, <1>6, <1>7, <1>8, <1>9, RecoverySave

\* The restored image is selected before its boot is recorded.
LEMMA SelectRestoredKeeps == ASSUME Inv, RecoverySelectRestored PROVE Inv'
<1> DEFINE r == loc["recovery"]
<1>1. pc["recovery"] = "boot_restored" /\ UNCHANGED <<journal, flash, sd, result, resets>>
  BY DEF RecoverySelectRestored
<1>2. /\ mode = "recovery" /\ journal \in Record /\ ValidateRecord(journal) /\ r \in Record
      /\ flash \in Images \cup {Partial} /\ sd \in Cards
      /\ Fits(journal, flash, sd.installed) /\ boot \in {"erased", "aborted"}
      /\ RecoveryAt("boot_restored", r, journal, flash)
  BY <1>1, RecoveringFacts
<1>3. journal = r /\ r.phase = "rollback_ready"
  BY <1>2 DEF RecoveryAt, Applying, Rewriting
<1>4. CASE boot' = "new" /\ RecoveryGo("mark_restored", r)
  <2>1. flash' # Partial
    BY <1>1, <1>2, <1>3 DEF Fits
  <2>2. "mark_restored" \in Labels("recovery")
    BY DEF Labels
  <2>3. RecoveryAt("mark_restored", r, journal', flash')
    BY <1>1, <1>3 DEF RecoveryAt, Applying, Rewriting
  <2>4. /\ mode' = "recovery" /\ Go("recovery", "mark_restored", r)
        /\ UNCHANGED <<confirmed, handoff, acked, timer, connected, result>>
    BY <1>1, <1>2, <1>4 DEF RecoveryGo
  <2> HIDE DEF r
  <2> QED BY <1>1, <1>2, <1>4, <2>1, <2>2, <2>3, <2>4, RecoveryStep
<1>5. CASE UNCHANGED boot /\ Halt
  BY <1>1, <1>2, <1>5, HaltKeeps
<1>6. \/ boot' = "new" /\ RecoveryGo("mark_restored", r)
      \/ UNCHANGED boot /\ Halt
  BY Zenon DEF RecoverySelectRestored
<1> QED BY <1>4, <1>5, <1>6

\* The boot of the restored image is recorded, or the selection is undone.
LEMMA MarkRestoredKeeps == ASSUME Inv, RecoveryMarkRestored PROVE Inv'
<1> DEFINE r == loc["recovery"]
           booting == [r EXCEPT !.phase = "rollback_booting"]
<1>1. pc["recovery"] = "mark_restored" /\ UNCHANGED <<flash, sd, result, resets>>
  BY DEF RecoveryMarkRestored
<1>2. /\ journal \in Record /\ ValidateRecord(journal) /\ r \in Record
      /\ flash \in Images \cup {Partial} /\ sd \in Cards
      /\ Fits(journal, flash, sd.installed)
      /\ RecoveryAt("mark_restored", r, journal, flash)
  BY <1>1, RecoveringFacts
<1>3. journal = r /\ r.phase = "rollback_ready"
  BY <1>2 DEF RecoveryAt, Applying, Rewriting
<1>4. /\ booting \in Record /\ booting.phase = "rollback_booting"
      /\ booting.installed = r.installed
  BY <1>2 DEF Record, Phases
<1>5. PICK ok \in BOOLEAN :
         /\ Save(booting, ok)
         /\ IF ok THEN Restart("new") ELSE boot' \in {boot, "erased"} /\ Halt
  BY DEF RecoveryMarkRestored
<1> HIDE DEF booting, r
<1>6. flash # Partial
  BY <1>2, <1>3 DEF Fits
<1>7. Fits(booting, flash, sd.installed)
  BY <1>2, <1>3, <1>4, <1>6 DEF Fits, Updating, Anchored, BootPhases
<1>8. journal' \in {journal, booting} /\ journal' \in Record /\ ValidateRecord(journal')
  BY <1>2, <1>4, <1>5, SaveFacts
<1>9. Fits(journal', flash', sd'.installed)
  BY <1>1, <1>2, <1>7, <1>8
<1>10. CASE Restart("new")
  <2>1. "new" \in Booted /\ ResultTypes'
    BY <1>1 DEF Booted, Inv, ResultTypes
  <2> QED BY <1>1, <1>2, <1>6, <1>8, <1>9, <1>10, <2>1, RestartStep
<1>11. CASE boot' \in {boot, "erased"} /\ Halt
  <2>1. boot = "new"
    BY <1>1, RecoveringFacts
  <2> QED BY <1>1, <1>2, <1>6, <1>8, <1>9, <1>11, <2>1, HaltKeeps
<1> QED BY <1>5, <1>10, <1>11

LEMMA RecoveryKeeps == ASSUME Inv, Recovery PROVE Inv'
<1>1. CASE RecoveryErase("erase", "write")
  BY <1>1, EraseKeeps
<1>2. CASE RecoveryErase("erase_restore", "rewrite")
  BY <1>2, EraseKeeps
<1> QED BY <1>1, <1>2, StartRecoveryKeeps, MountKeeps, CandidateKeeps, WriteKeeps, ReadyKeeps,
           BootWrittenKeeps, RestoreKeeps, VerifyBackupKeeps, RewriteKeeps, RollbackReadyKeeps,
           SelectRestoredKeeps, MarkRestoredKeeps DEF Recovery

(***************************************************************************)
(* The specification.                                                      *)
(***************************************************************************)
LEMMA InvInit == ASSUME Init PROVE Inv
<1>1. /\ journal = BlankRecord /\ flash = Base /\ boot = "erased" /\ mode = "recovery"
      /\ sd = [pending |-> None, sig |-> None, installed |-> None]
      /\ confirmed = FALSE /\ handoff = None /\ acked = None
      /\ timer = FALSE /\ connected = FALSE
  BY DEF Init
<1>2. /\ pc = [p \in Procs |-> IF p = "recovery" THEN "start" ELSE "idle"]
      /\ loc = [p \in Procs |-> BlankRecord]
  BY DEF Init
<1>3. /\ \A p \in Procs \ {"recovery"} : pc[p] = "idle"
      /\ pc["recovery"] = "start" /\ loc["recovery"] = BlankRecord
      /\ pc["report"] = "idle" /\ pc["staged"] = "idle" /\ pc["download"] = "idle"
  BY <1>2 DEF Procs
<1>4. journal.phase = "idle"
  BY <1>1 DEF BlankRecord
<1>5. DurableOK
  <2>1. journal \in Record /\ ValidateRecord(journal)
    BY <1>1, <1>4, NameFacts DEF ValidateRecord
  <2>2. sd \in Cards
    BY <1>1 DEF Cards
  <2>3. flash \in Images /\ flash # Partial /\ boot \in Booted
    BY <1>1, NameFacts DEF Booted
  <2>4. Fits(journal, flash, sd.installed)
    BY <1>4, <2>3, FreeFits
  <2> QED BY <2>1, <2>2, <2>3, <2>4 DEF DurableOK
<1>6. FlagTypes /\ LocTypes
  BY <1>1, <1>2, NameFacts DEF FlagTypes, LocTypes
<1>7. ResultTypes
  <2>1. PICK served \in SUBSET Tasks : result = [t \in served |-> {}]
    BY DEF Init
  <2> QED BY <2>1 DEF ResultTypes
<1>8. PlacesOK
  <2>1. \A p \in Procs : pc[p] \in Labels(p)
    BY <1>2 DEF Labels
  <2>2. \A p \in Procs : pc[p] \in Everywhere
    BY <2>1 DEF Everywhere
  <2>3. pc \in [Procs -> Everywhere]
    BY <1>2, <2>2
  <2> QED BY <2>1, <2>3 DEF PlacesOK
<1>9. ModesOK /\ RecoveryOK
  BY <1>1, <1>3 DEF ModesOK, RecoveryOK, RecoveryAt, Applying, Rewriting
<1>10. SettledOK
  BY <1>1 DEF SettledOK
<1>11. BootsOK
  BY <1>1, <1>2, <1>3 DEF BootsOK
<1>12. CardOK /\ ReportOK
  BY <1>3 DEF CardOK, ReportOK, ReportAt, Fetching, Promoting
<1>13. HandoffOK
  BY <1>1, <1>3 DEF HandoffOK
<1> QED BY <1>5, <1>6, <1>7, <1>8, <1>9, <1>10, <1>11, <1>12, <1>13 DEF Inv

LEMMA InvStutters == ASSUME Inv, UNCHANGED vars PROVE Inv'
<1>1. /\ UNCHANGED <<journal, boot, flash, sd, mode, pc, loc, confirmed, handoff, acked>>
      /\ UNCHANGED <<timer, connected, result>>
  BY DEF vars, durable, ram
<1>2. DurableOK' /\ FlagTypes' /\ ResultTypes' /\ LocTypes' /\ PlacesOK'
  BY <1>1 DEF Inv, DurableOK, FlagTypes, ResultTypes, LocTypes, PlacesOK
<1>3. ModesOK' /\ RecoveryOK' /\ SettledOK'
  BY <1>1 DEF Inv, ModesOK, RecoveryOK, SettledOK
<1>4. BootsOK' /\ CardOK'
  BY <1>1 DEF Inv, BootsOK, CardOK
<1>5. ReportOK' /\ HandoffOK'
  BY <1>1 DEF Inv, ReportOK, HandoffOK
<1> QED BY <1>2, <1>3, <1>4, <1>5 DEF Inv

LEMMA HandoffKeeps == ASSUME Inv, NEW p \in Procs, Handoff(p) PROVE Inv'
  BY HandoffVerifyKeeps, AcknowledgedKeeps, HandoffSaveKeeps, HandoffSelectKeeps DEF Handoff

\* The restarts that the application asks for, and those it does not.
LEMMA RestartsKeep == ASSUME Inv, Reset \/ \E p \in Procs : RestartNow(p) PROVE Inv'
<1>1. Restart(boot) /\ UNCHANGED <<journal, flash, sd, result>>
  BY DEF Reset, RestartNow
<1> QED BY <1>1, RestartKeeps

LEMMA MainKeeps == ASSUME Inv, Main PROVE Inv'
<1>1. ASSUME NEW p \in Procs,
             \/ Confirm(p) \/ ConfirmSave(p) \/ Dispatch(p) \/ Handoff(p)
             \/ RestartNow(p) \/ FailStaging(p) \/ DirectReport(p)
      PROVE  Inv'
  BY <1>1, ConfirmKeeps, ConfirmSaveKeeps, DispatchKeeps, HandoffKeeps, RestartsKeep,
     FailStagingKeeps, DirectReportKeeps
<1>2. ASSUME \/ MqttConnected \/ TimerFires
             \/ BeginDownload \/ CheckAccepted \/ Backup \/ DownloadToSd
             \/ WritePendingSignature \/ StagingFails \/ SaveStaged
      PROVE  Inv'
  BY <1>2, NotifiedKeeps, BeginDownloadKeeps, StagingKeeps, SaveStagedKeeps
<1>3. ASSUME \/ ReportLoad \/ Promote \/ PromoteRename \/ SavePromoted
             \/ ReportAnswered \/ ReportLost \/ SaveAnswered \/ ClearCompleted \/ ReportWakes
      PROVE  Inv'
  BY <1>3, ReportLoadKeeps, PromoteKeeps, PromoteRenameKeeps, SavePromotedKeeps, SendingKeeps,
     SaveAnsweredKeeps, ClearCompletedKeeps, ReportWakesKeeps
<1> QED BY <1>1, <1>2, <1>3 DEF Main

LEMMA InvNext == ASSUME Inv, [Next]_vars PROVE Inv'
  BY RecoveryKeeps, MainKeeps, HandleNotificationKeeps, RestartsKeep, SdDamageKeeps, InvStutters
  DEF Next

THEOREM Invariant == Spec => []Inv
  BY InvInit, InvNext, PTL DEF Spec

(***************************************************************************)
(* What follows from it.                                                   *)
(***************************************************************************)
\* The journal is always a record that LoadOtaUpdateRecord accepts, and the flags,
\* the labels and the server's results have their types.
THEOREM TypeCorrect == Spec => []TypeOK
<1>1. Inv => TypeOK
  BY DEF Inv, DurableOK, FlagTypes, ResultTypes, LocTypes, HandoffOK, Booted, Cards, TypeOK
<1> QED BY <1>1, Invariant, PTL

\* Whatever is interrupted or fails in Recovery, an incomplete main slot has a journal
\* that says so and is not selected for boot.
THEOREM SlotProtected == Spec => []EraseProtected
<1>1. Inv => EraseProtected
  BY DEF Inv, DurableOK, Fits, EraseProtected
<1> QED BY <1>1, Invariant, PTL

\* Downloads, promotions, restores and failures leave the backup that the journal
\* names on the card, as long as it may be needed.
THEOREM BackupOnCard == Spec => []BackupKept
<1>1. Inv => BackupKept
  BY DEF Inv, DurableOK, Fits, Anchored, BootPhases, BackupKept
<1> QED BY <1>1, Invariant, PTL

\* The phases of the journal say what is in the main slot, whoever wrote them last.
THEOREM PhasesAreTrue == Spec => []PhaseMeansFlash
<1>1. Inv => PhaseMeansFlash
  BY DEF Inv, DurableOK, Fits, PhaseMeansFlash
<1> QED BY <1>1, Invariant, PTL

\* Only the report task tells the server success.
LEMMA SuccessStep ==
    ASSUME Inv, [Next]_vars
    PROVE  \A t \in DOMAIN result : "success" \in result'[t] \ result[t]
              => mode = "main" /\ flash = t /\ boot = "valid"
<1>1. CASE Recovery
  <2>1. result' = result
    BY <1>1 DEF Recovery, RecoveryStart, RecoveryMount, RecoveryCandidate, RecoveryErase,
       RecoveryWrite, RecoveryReadyToBoot, RecoveryBootWritten, RecoveryRestore,
       RecoveryVerifyBackup, RecoveryRewrite, RecoveryRollbackReady, RecoverySelectRestored,
       RecoveryMarkRestored
  <2> QED BY <2>1
<1>2. ASSUME NEW p \in Procs, Handoff(p) PROVE result' = result
  BY <1>2 DEF Handoff, HandoffVerify, StagedAcknowledged, StagedUnacknowledged, HandoffSave,
     HandoffSelect
<1>3. ASSUME NEW p \in Procs,
             \/ Confirm(p) \/ ConfirmSave(p) \/ Dispatch(p) \/ RestartNow(p) \/ FailStaging(p)
      PROVE  result' = result
  BY <1>3 DEF Confirm, ConfirmSave, Dispatch, RestartNow, FailStaging
<1>4. ASSUME \/ MqttConnected \/ TimerFires
             \/ BeginDownload \/ CheckAccepted \/ Backup \/ DownloadToSd
             \/ WritePendingSignature \/ StagingFails \/ SaveStaged
      PROVE  result' = result
  BY <1>4 DEF MqttConnected, TimerFires, BeginDownload, CheckAccepted, Backup, DownloadToSd,
     WritePendingSignature, StagingFails, SaveStaged, StageStep
<1>5. ASSUME \/ ReportLoad \/ Promote \/ PromoteRename \/ SavePromoted
             \/ SaveAnswered \/ ClearCompleted \/ ReportWakes
      PROVE  result' = result
  BY <1>5 DEF ReportLoad, Promote, PromoteRename, SavePromoted, SaveAnswered, ClearCompleted,
     ReportWakes
<1>6. CASE Main
  <2>1. \/ result' = result
        \/ \E p \in Procs : DirectReport(p)
        \/ ReportAnswered \/ ReportLost
    BY <1>2, <1>3, <1>4, <1>5, <1>6 DEF Main
  <2> QED BY <2>1, DirectReportKeeps, SendingKeeps
<1>7. ASSUME NEW t \in DOMAIN result, HandleNotification(t) PROVE result' = result
  BY <1>7 DEF HandleNotification
<1>8. CASE Reset \/ SdDamage \/ UNCHANGED vars
  <2>1. result' = result
    BY <1>8 DEF Reset, SdDamage, vars
  <2> QED BY <2>1
<1> QED BY <1>1, <1>6, <1>7, <1>8 DEF Next

\* The server learns that an update succeeded only while its image runs and otadata
\* says that the image has confirmed itself, however late or often it is told.
THEOREM SuccessTold == Spec => SuccessIsTrue
<1>1. Inv /\ [Next]_vars =>
         [\A t \in DOMAIN result : "success" \in result'[t] \ result[t]
             => mode = "main" /\ flash = t /\ boot = "valid"]_vars
  BY SuccessStep
<1> QED BY <1>1, Invariant, PTL DEF Spec, SuccessIsTrue

(***************************************************************************)
(* What becomes of the tasks.                                              *)
(***************************************************************************)
\* The labels at which a process may still put its task into the journal, those at
\* which the report task has the answer for its task, and those that need a task.
Carrying  == {"await", "acknowledged", "select", "fail"} \cup Fetching
Answering == {"answered", "clear"}
Named     == {"begin", "http"} \cup Carrying \cup Answering \cup Promoting

\* Tasks are those the server knows.
KnownOK ==
    /\ journal.task \in DOMAIN result \cup {None}
    /\ journal.phase = "idle" => journal.task = None
    /\ \A p \in Procs : \/ loc[p].task \in DOMAIN result
                        \/ loc[p].task = None /\ pc[p] \notin Named
    /\ \A t \in lost : t \in DOMAIN result /\ result[t] = {}

\* What counts as answered is answered.
AnsweredOK ==
    /\ journal.phase = "report_acknowledged" => result[journal.task] # {}
    /\ acked # None => acked \in DOMAIN result /\ result[acked] # {}
    /\ pc["report"] \in Answering => result[loc["report"].task] # {}

\* A process carries the task of the journal or one that is over; the download may
\* carry another, when the journal has none or one that is over.
Owned(t) == t = journal.task \/ Over(t)
Free == journal.task = None \/ Over(journal.task)
CarryOK ==
    \A p \in Procs : pc[p] \in Carrying => Owned(loc[p].task) \/ (p = "download" /\ Free)

Fate == KnownOK /\ AnsweredOK /\ CarryOK

\* A step of OtaHistory: results are final, and what leaves the journal is recorded.
Recorded ==
    /\ Records
    /\ DOMAIN result' = DOMAIN result
    /\ \A t \in DOMAIN result : result[t] # {} => result'[t] # {}

\* NotForgotten of one step.
Accounted ==
    \A t \in lost' \ lost :
        \E p \in Procs : loc[p].task \in Tasks \ {t} /\ Over(loc[p].task)

\* What a step may do to the journal, to the acknowledged task and to process p.
JournalStep ==
    /\ journal'.task \in DOMAIN result \cup {None}
    /\ journal'.task \in {journal.task, None, loc["download"].task} \/ Over(journal'.task)
    /\ journal'.phase = "idle" => journal'.task = None
    /\ journal'.phase = "report_acknowledged" => result'[journal'.task] # {}
AckStep == acked' # None => acked' \in DOMAIN result /\ result'[acked'] # {}
Place(p) ==
    /\ \/ loc'[p].task \in DOMAIN result
       \/ loc'[p].task = None /\ pc'[p] \notin Named
    /\ pc'[p] \in Carrying => \/ pc[p] \in Carrying /\ loc'[p].task = loc[p].task
                              \/ Owned(loc[p].task)'
                              \/ p = "download" /\ Free'
    /\ p = "report" /\ pc'[p] \in Answering =>
          \/ pc[p] \in Answering /\ loc'[p].task = loc[p].task
          \/ result'[loc'[p].task] # {}

\* No task is None.
LEMMA TaskNames ==
    ASSUME Inv
    PROVE  DOMAIN result \subseteq Tasks /\ None \notin DOMAIN result
  BY NameFacts DEF Inv, ResultTypes

\* What is over stays over, and what leaves the journal is.
LEMMA OverStays ==
    ASSUME Recorded, NEW t \in DOMAIN result
    PROVE  /\ Over(t) => Over(t)'
           /\ t = journal.task => Owned(t)'
<1>1. Over(t) => Over(t)'
  BY DEF Recorded, Records, Over
<1>2. t \in Forgotten => Over(t)'
  BY DEF Recorded, Records, Over
<1>3. ASSUME t = journal.task, t # journal'.task PROVE Over(t)'
  BY <1>1, <1>2, <1>3 DEF Forgotten, Over
<1> QED BY <1>1, <1>3 DEF Owned

LEMMA FateStep ==
    ASSUME Inv, Fate, Recorded, JournalStep, AckStep, \A p \in Procs : Place(p)
    PROVE  Fate'
<1>1. "report" \in Procs /\ "download" \in Procs
  BY DEF Procs
<1>2. None \notin DOMAIN result
  BY TaskNames
<1>3. KnownOK'
  <2>1. \A t \in lost' : t \in DOMAIN result' /\ result'[t] = {}
    BY DEF Fate, KnownOK, Recorded, Records, Forgotten
  <2>2. \A p \in Procs : \/ loc'[p].task \in DOMAIN result'
                         \/ loc'[p].task = None /\ pc'[p] \notin Named
    BY DEF Place, Recorded
  <2>3. /\ journal'.task \in DOMAIN result' \cup {None}
        /\ journal'.phase = "idle" => journal'.task = None
    BY DEF JournalStep, Recorded
  <2> QED BY <2>1, <2>2, <2>3 DEF KnownOK
<1>4. AnsweredOK'
  <2>1. acked' # None => acked' \in DOMAIN result' /\ result'[acked'] # {}
    BY DEF AckStep, Recorded
  <2>2. ASSUME pc'["report"] \in Answering PROVE result'[loc'["report"].task] # {}
    <3>1. CASE pc["report"] \in Answering /\ loc'["report"].task = loc["report"].task
      <4>1. loc'["report"].task \in DOMAIN result
        BY <1>1, <2>2 DEF Place, Named
      <4>2. result[loc'["report"].task] # {}
        BY <3>1 DEF Fate, AnsweredOK
      <4> QED BY <4>1, <4>2 DEF Recorded
    <3> QED BY <1>1, <2>2, <3>1 DEF Place
  <2>3. journal'.phase = "report_acknowledged" => result'[journal'.task] # {}
    BY DEF JournalStep
  <2> QED BY <2>1, <2>2, <2>3 DEF AnsweredOK
<1>5. ASSUME Free, loc'["download"].task = loc["download"].task
      PROVE  Owned(loc["download"].task)' \/ Free'
  <2>1. CASE journal'.task = None
    BY <2>1 DEF Free
  <2>2. CASE Over(journal'.task)
    <3>1. journal'.task \in DOMAIN result \/ journal'.task = None
      BY DEF JournalStep
    <3>2. ASSUME journal'.task \in DOMAIN result PROVE Over(journal.task)'
      <4>1. Recorded
        OBVIOUS
      <4> DEFINE t == journal'.task
      <4>2. t \in DOMAIN result /\ Over(t)
        BY <2>2, <3>2
      <4>3. result'[t] # {} \/ t \in lost'
        BY <4>2 DEF Recorded, Records, Over
      <4> QED BY <4>3 DEF Over
    <3> QED BY <2>1, <3>1, <3>2 DEF Free
  <2>3. CASE journal'.task = loc["download"].task
    BY <1>5, <2>3 DEF Owned
  <2>4. CASE journal'.task = journal.task
    <3>1. CASE journal.task = None
      BY <2>1, <2>4, <3>1
    <3>2. CASE Over(journal.task)
      BY <2>2, <2>4, <3>2
    <3> QED BY <1>5, <3>1, <3>2 DEF Free
  <2> QED BY <2>1, <2>2, <2>3, <2>4 DEF JournalStep
<1>6. CarryOK'
  <2> SUFFICES ASSUME NEW p \in Procs, pc'[p] \in Carrying
               PROVE  Owned(loc[p].task)' \/ (p = "download" /\ Free')
    BY DEF CarryOK
  <2>1. CASE pc[p] \in Carrying /\ loc'[p].task = loc[p].task
    <3>1. Owned(loc[p].task) \/ (p = "download" /\ Free)
      BY <2>1 DEF Fate, CarryOK
    <3>2. loc[p].task \in DOMAIN result
      BY <2>1 DEF Fate, KnownOK, Named
    <3>3. CASE Owned(loc[p].task)
      <4> DEFINE t == loc[p].task
      <4>1. Over(t) => result'[t] # {} \/ t \in lost'
        BY <3>2 DEF Recorded, Records, Over
      <4>2. t = journal.task => \/ t = journal'.task \/ result'[t] # {} \/ t \in lost'
        BY <3>2 DEF Recorded, Records, Forgotten
      <4>3. t = journal'.task \/ result'[t] # {} \/ t \in lost'
        BY <3>3, <4>1, <4>2 DEF Owned
      <4> QED BY <2>1, <4>3 DEF Owned, Over
    <3> QED BY <1>5, <2>1, <3>1, <3>3
  <2> QED BY <2>1 DEF Place
<1> QED BY <1>3, <1>4, <1>6 DEF Fate

\* A step of p alone.
LEMMA GoPlaces ==
    ASSUME Inv, Fate, NEW p \in Procs, NEW label, NEW rec, Go(p, label, rec), Place(p)
    PROVE  \A q \in Procs : Place(q)
<1>1. pc \in [Procs -> Everywhere] /\ loc \in [Procs -> Record]
  BY DEF Inv, PlacesOK, LocTypes
<1>2. \A q \in Procs \ {p} : pc'[q] = pc[q] /\ loc'[q] = loc[q]
  BY <1>1 DEF Go
<1>3. \A q \in Procs \ {p} : \/ loc[q].task \in DOMAIN result
                             \/ loc[q].task = None /\ pc[q] \notin Named
  BY DEF Fate, KnownOK
<1>4. \A q \in Procs \ {p} : Place(q)
  BY <1>2, <1>3 DEF Place
<1> QED BY <1>4

LEMMA GoAt ==
    ASSUME Inv, NEW p \in Procs, NEW label, NEW rec, Go(p, label, rec)
    PROVE  pc'[p] = label /\ loc'[p] = rec
  BY DEF Inv, PlacesOK, LocTypes, Go

\* A step that leaves the journal its task.
SameTask ==
    /\ journal'.task = journal.task
    /\ journal'.phase = "idle" => journal.phase = "idle"
    /\ journal'.phase = "report_acknowledged" =>
          \/ journal.phase = "report_acknowledged"
          \/ journal.task \in DOMAIN result /\ result[journal.task] # {}

LEMMA SameTaskStep ==
    ASSUME Inv, Fate, Recorded, SameTask
    PROVE  JournalStep /\ Accounted
<1>1. journal.task \in DOMAIN result \cup {None}
  BY DEF Fate, KnownOK
<1>2. Accounted
  BY DEF Accounted, Recorded, Records, Forgotten, SameTask
<1>3. ASSUME journal'.phase = "report_acknowledged" PROVE result'[journal'.task] # {}
  <2>1. result[journal.task] # {}
    BY <1>3 DEF SameTask, Fate, AnsweredOK
  <2>2. CASE journal.task \in DOMAIN result
    BY <2>1, <2>2 DEF Recorded, SameTask
  <2>3. journal.phase = "report_acknowledged" => journal.task # None
    BY DEF Inv, DurableOK, ValidateRecord
  <2> QED BY <1>1, <1>3, <2>2, <2>3 DEF SameTask
<1>4. journal'.phase = "idle" => journal'.task = None
  BY DEF Fate, KnownOK, SameTask
<1> QED BY <1>1, <1>2, <1>3, <1>4 DEF JournalStep, SameTask

\* A process that carries, or has the answer for, the same task as before the step, the
\* task of the journal, or none.
LEMMA KeepFate ==
    ASSUME Inv, Fate, Recorded, SameTask, AckStep, NEW p \in Procs, NEW label, NEW rec,
           Go(p, label, rec),
           \/ rec.task \in DOMAIN result
           \/ rec.task = None /\ label \notin Named,
           label \in Carrying =>
              \/ pc[p] \in Carrying /\ rec.task = loc[p].task
              \/ rec.task = journal.task
              \/ p = "download" /\ journal.task = None,
           p = "report" /\ label \in Answering => result'[rec.task] # {}
    PROVE  Fate' /\ Accounted
<1>1. pc'[p] = label /\ loc'[p] = rec
  BY GoAt
<1>2. JournalStep /\ Accounted
  BY SameTaskStep
<1>3. Place(p)
  BY <1>1 DEF Place, SameTask, Owned, Free
<1>4. \A q \in Procs : Place(q)
  BY <1>3, GoPlaces
<1> QED BY <1>2, <1>4, FateStep

\* The steps that do not change the results.
LEMMA Silent == ASSUME Records, UNCHANGED result PROVE Recorded
  BY DEF Recorded

LEMMA AckKept == ASSUME Fate, UNCHANGED result, acked' \in {acked, None} PROVE AckStep
  BY DEF AckStep, Fate, AnsweredOK

\* A step of a process while the journal stays.
LEMMA StepFate ==
    ASSUME Inv, Fate, Records, UNCHANGED <<journal, result>>,
           NEW p \in Procs, NEW label, NEW rec, Step(p, label, rec),
           \/ rec.task \in DOMAIN result
           \/ rec.task = None /\ label \notin Named,
           label \in Carrying =>
              \/ pc[p] \in Carrying /\ rec.task = loc[p].task
              \/ rec.task = journal.task
              \/ p = "download" /\ journal.task = None,
           p = "report" /\ label \in Answering => result[rec.task] # {}
    PROVE  Fate' /\ Accounted
<1>1. Recorded /\ AckStep /\ Go(p, label, rec) /\ UNCHANGED result
  BY Silent, AckKept DEF Step
<1>2. SameTask
  BY DEF SameTask
<1> QED BY <1>1, <1>2, KeepFate

\* A process that ends or starts afresh while the journal keeps its task.
LEMMA BlankFate ==
    ASSUME Inv, Fate, Records, UNCHANGED result, SameTask, acked' \in {acked, None},
           NEW p \in Procs, NEW label, label \notin Named, Go(p, label, BlankRecord)
    PROVE  Fate' /\ Accounted
<1>1. Recorded /\ AckStep
  BY Silent, AckKept
<1>2. BlankRecord.task = None /\ label \notin Carrying /\ label \notin Answering
  BY DEF BlankRecord, Named
<1> QED BY <1>1, <1>2, KeepFate

LEMMA RetFate ==
    ASSUME Inv, Fate, Records, UNCHANGED result, SameTask,
           NEW p \in Procs, NEW retry, Ret(p, retry)
    PROVE  Fate' /\ Accounted
<1>1. "idle" \notin Named
  BY DEF Named, Carrying, Answering, Promoting, Fetching
<1>2. Go(p, "idle", BlankRecord) /\ acked' = acked
  BY DEF Ret, Ends
<1> QED BY <1>1, <1>2, BlankFate

\* The journal keeps its task when it stays and when it is saved with another phase.
LEMMA StaysSame == ASSUME UNCHANGED journal PROVE SameTask
  BY DEF SameTask
LEMMA SavesSame ==
    ASSUME NEW r, NEW ok, Save(r, ok), r.task = journal.task,
           r.phase \notin {"idle", "report_acknowledged"}
    PROVE  SameTask
<1>1. journal' \in {journal, r}
  BY DEF Save
<1> QED BY <1>1 DEF SameTask

\* A restart forgets what the processes carry.
LEMMA RestartFate ==
    ASSUME Inv, Fate, Records, UNCHANGED result, SameTask, NEW b, Restart(b)
    PROVE  Fate' /\ Accounted
<1>1. acked' = None /\ loc' = [p \in Procs |-> BlankRecord]
  BY DEF Restart
<1>2. \A p \in Procs : pc'[p] \in {"idle", "start", "starting"}
  BY DEF Restart
<1>3. {"idle", "start", "starting"} \cap (Named \cup Carrying \cup Answering) = {}
  BY DEF Named, Carrying, Answering, Promoting, Fetching
<1>4. \A p \in Procs : Place(p)
  BY <1>1, <1>2, <1>3 DEF Place, BlankRecord
<1>5. Recorded /\ AckStep
  BY <1>1, Silent, AckKept
<1>6. JournalStep /\ Accounted
  BY <1>5, SameTaskStep
<1> QED BY <1>4, <1>5, <1>6, FateStep

\* A step of Recovery that keeps to the task of the journal.
LEMMA RecoveryGoFate ==
    ASSUME Inv, Fate, Records, UNCHANGED result, SameTask,
           NEW label \in Labels("recovery"), NEW rec,
           rec.task \in {journal.task, loc["recovery"].task}, RecoveryGo(label, rec)
    PROVE  Fate' /\ Accounted
<1>1. "recovery" \in Procs
  BY DEF Procs
<1>2. Go("recovery", label, rec) /\ acked' = acked
  BY DEF RecoveryGo
<1>3. label \notin Named
  BY DEF Labels, Applying, Rewriting, Named, Carrying, Answering, Promoting, Fetching
<1>4. label \notin Carrying
  BY <1>3 DEF Named
<1>5. rec.task \in DOMAIN result \cup {None}
  BY <1>1 DEF Fate, KnownOK
<1>6. Recorded /\ AckStep
  BY <1>2, Silent, AckKept
<1> QED BY <1>1, <1>2, <1>3, <1>4, <1>5, <1>6, KeepFate

LEMMA HaltFate ==
    ASSUME Inv, Fate, Records, UNCHANGED result, SameTask, Halt
    PROVE  Fate' /\ Accounted
<1>1. "recovery" \in Procs /\ "idle" \notin Named
  BY DEF Procs, Named, Carrying, Answering, Promoting, Fetching
<1>2. Go("recovery", "idle", BlankRecord) /\ acked' = acked
  BY DEF Halt
<1> QED BY <1>1, <1>2, BlankFate

\* Recovery changes the phase and the error of the record, never its task.
LEMMA StartRecoveryFate == ASSUME Inv, Fate, Records, RecoveryStart PROVE Fate' /\ Accounted
<1> DEFINE rooted == [journal EXCEPT !.error = TRUE]
<1>1. pc["recovery"] = "start" /\ UNCHANGED result
  BY DEF RecoveryStart
<1>2. {"mount", "boot_restored"} \subseteq Labels("recovery")
  BY DEF Labels
<1>3. \/ UNCHANGED journal /\ Halt
      \/ UNCHANGED journal /\ (\E ok \in BOOLEAN : RestartIntoMain(ok))
      \/ UNCHANGED journal /\ RecoveryGo("mount", journal)
      \/ UNCHANGED journal /\ RecoveryGo("boot_restored", journal)
      \/ journal.phase = "ready_to_boot"
         /\ (\E ok \in BOOLEAN : Save(rooted, ok)
                                 /\ (IF ok THEN RecoveryGo("mount", rooted) ELSE Halt))
  BY Zenon DEF RecoveryStart
<1>4. CASE UNCHANGED journal /\ Halt
  BY <1>1, <1>4, StaysSame, HaltFate
<1>5. CASE UNCHANGED journal /\ (\E ok \in BOOLEAN : RestartIntoMain(ok))
  BY <1>1, <1>5, StaysSame, HaltFate, RestartFate DEF RestartIntoMain
<1>6. ASSUME NEW label \in {"mount", "boot_restored"}, UNCHANGED journal,
             RecoveryGo(label, journal)
      PROVE  Fate' /\ Accounted
  BY <1>1, <1>2, <1>6, StaysSame, RecoveryGoFate
<1>7. ASSUME NEW ok \in BOOLEAN, journal.phase = "ready_to_boot", Save(rooted, ok),
             IF ok THEN RecoveryGo("mount", rooted) ELSE Halt
      PROVE  Fate' /\ Accounted
  <2>1. rooted.task = journal.task /\ rooted.phase = "ready_to_boot"
    BY <1>7 DEF Inv, DurableOK, Record
  <2> HIDE DEF rooted
  <2>2. SameTask
    BY <1>7, <2>1, SavesSame
  <2> QED BY <1>1, <1>2, <1>7, <2>1, <2>2, HaltFate, RecoveryGoFate
<1> HIDE DEF rooted
<1> QED BY <1>3, <1>4, <1>5, <1>6, <1>7

\* What Recovery works on has the task of the journal.
LEMMA RecoveryTask ==
    ASSUME Inv, pc["recovery"] \notin {"idle", "start"}
    PROVE  /\ loc["recovery"] \in Record /\ loc["recovery"].task = journal.task
           /\ loc["recovery"].phase \notin {"idle", "report_acknowledged"}
<1> DEFINE r == loc["recovery"]
<1>1. /\ r \in Record /\ RecoveryAt(pc["recovery"], r, journal, flash)
      /\ pc["recovery"] \in Labels("recovery")
  BY RecoveringFacts DEF Inv, PlacesOK, Procs
<1>2. pc["recovery"] \in {"mount", "candidate", "boot_written", "boot_rejected", "boot_restored",
                          "mark_restored", "restore"} \cup Applying \cup Rewriting
  BY <1>1 DEF Labels
<1>3. r.phase \notin {"idle", "report_acknowledged"}
  BY <1>1, <1>2 DEF RecoveryAt
<1>4. CASE pc["recovery"] = "restore"
  <2>1. PICK e \in BOOLEAN : journal = [r EXCEPT !.error = e]
    BY <1>1, <1>4 DEF RecoveryAt
  <2> HIDE DEF r
  <2>2. journal.task = r.task
    BY <1>1, <2>1 DEF Record
  <2> QED BY <1>1, <1>3, <2>2 DEF r
<1>5. CASE pc["recovery"] # "restore"
  BY <1>1, <1>3, <1>5 DEF RecoveryAt
<1> QED BY <1>4, <1>5

\* The steps that leave the journal.
LEMMA RecoveryStaysFate ==
    ASSUME Inv, Fate, Records,
           \/ RecoveryErase("erase", "write") \/ RecoveryErase("erase_restore", "rewrite")
           \/ RecoveryWrite \/ RecoveryBootWritten \/ RecoveryVerifyBackup \/ RecoveryRewrite
           \/ RecoverySelectRestored
    PROVE  Fate' /\ Accounted
<1> DEFINE r == loc["recovery"]
           erred == [r EXCEPT !.error = TRUE]
<1>1. /\ UNCHANGED <<journal, result>>
      /\ pc["recovery"] \in {"boot_written", "boot_rejected", "boot_restored"} \cup Applying
                              \cup Rewriting
  BY DEF RecoveryErase, RecoveryWrite, RecoveryBootWritten, RecoveryVerifyBackup, RecoveryRewrite,
     RecoverySelectRestored, durable, Applying, Rewriting
<1>2. {"write", "rewrite", "written", "erase_restore", "rewritten", "mark_restored", "restore"}
         \subseteq Labels("recovery")
  BY DEF Labels, Applying, Rewriting
<1>3. \/ Halt \/ Restart("new")
      \/ \E label \in {"write", "rewrite", "written", "erase_restore", "rewritten",
                       "mark_restored"} : RecoveryGo(label, r)
      \/ RecoveryGo("restore", erred)
  BY Zenon DEF RecoveryErase, RecoveryWrite, RecoveryBootWritten, RecoveryVerifyBackup,
     RecoveryRewrite, RecoverySelectRestored, RestartIntoMain
<1>4. r \in Record
  BY <1>1, RecoveryTask DEF Applying, Rewriting
<1>5. erred.task = r.task
  BY <1>4 DEF Record
<1> HIDE DEF erred
<1> QED BY <1>1, <1>2, <1>3, <1>5, StaysSame, HaltFate, RestartFate, RecoveryGoFate

\* The steps that save a record and go on with it, or give up.
LEMMA RecoverySavesFate ==
    ASSUME Inv, Fate, Records, pc["recovery"] \notin {"idle", "start"}, UNCHANGED result,
           NEW r, r.phase \notin {"idle", "report_acknowledged"}, r.task = journal.task,
           NEW ok, Save(r, ok),
           \/ Halt \/ Restart("new")
           \/ \E label \in Labels("recovery") : RecoveryGo(label, r)
    PROVE  Fate' /\ Accounted
<1>1. SameTask
  BY SavesSame
<1> QED BY <1>1, HaltFate, RestartFate, RecoveryGoFate

LEMMA MountFate == ASSUME Inv, Fate, Records, RecoveryMount PROVE Fate' /\ Accounted
<1> DEFINE r == loc["recovery"]
           noted == [r EXCEPT !.error = TRUE]
           next == IF r.phase \in {"ready_to_boot", "restoring"} THEN "restore" ELSE "candidate"
<1>1. pc["recovery"] = "mount" /\ UNCHANGED result
  BY DEF RecoveryMount
<1>2. /\ r \in Record /\ r.task = journal.task
      /\ r.phase \notin {"idle", "report_acknowledged"}
  BY <1>1, RecoveryTask
<1>3. noted.task = journal.task /\ noted.phase = r.phase
  BY <1>2 DEF Record
<1>4. next \in Labels("recovery")
  BY DEF Labels
<1>5. \/ UNCHANGED journal /\ RecoveryGo(next, r)
      \/ Halt /\ journal' \in (IF r.error THEN {journal} ELSE {journal, noted})
  BY Zenon DEF RecoveryMount
<1> HIDE DEF noted, next
<1>6. SameTask
  BY <1>2, <1>3, <1>5 DEF SameTask
<1> QED BY <1>1, <1>2, <1>4, <1>5, <1>6, HaltFate, RecoveryGoFate

LEMMA CandidateFate == ASSUME Inv, Fate, Records, RecoveryCandidate PROVE Fate' /\ Accounted
<1> DEFINE r == loc["recovery"]
           rejected == [r EXCEPT !.error = TRUE]
           applying == [r EXCEPT !.phase = "applying", !.error = FALSE]
           failed == [rejected EXCEPT !.phase = "failed"]
<1>1. pc["recovery"] = "candidate" /\ UNCHANGED result
  BY DEF RecoveryCandidate
<1>2. r \in Record /\ r.task = journal.task
  BY <1>1, RecoveryTask
<1>3. /\ rejected.task = journal.task
      /\ applying.task = journal.task /\ applying.phase = "applying"
      /\ failed.task = journal.task /\ failed.phase = "failed"
  BY <1>2 DEF Record
<1>4. {"restore", "erase", "boot_rejected"} \subseteq Labels("recovery")
  BY DEF Labels, Applying
<1> HIDE DEF applying, failed, rejected
<1>5. \/ UNCHANGED journal /\ RecoveryGo("restore", rejected)
      \/ UNCHANGED journal /\ Halt
      \/ \E ok \in BOOLEAN : Save(failed, ok) /\ (Halt \/ RecoveryGo("boot_rejected", failed))
      \/ \E ok \in BOOLEAN : Save(applying, ok) /\ (Halt \/ RecoveryGo("erase", applying))
  BY Zenon DEF RecoveryCandidate, applying, failed, rejected
<1>6. CASE UNCHANGED journal /\ RecoveryGo("restore", rejected)
  BY <1>1, <1>3, <1>4, <1>6, StaysSame, RecoveryGoFate
<1>7. CASE UNCHANGED journal /\ Halt
  BY <1>1, <1>7, StaysSame, HaltFate
<1>8. CASE \E ok \in BOOLEAN : Save(failed, ok) /\ (Halt \/ RecoveryGo("boot_rejected", failed))
  BY <1>1, <1>3, <1>4, <1>8, RecoverySavesFate
<1>9. CASE \E ok \in BOOLEAN : Save(applying, ok) /\ (Halt \/ RecoveryGo("erase", applying))
  BY <1>1, <1>3, <1>4, <1>9, RecoverySavesFate
<1> QED BY <1>5, <1>6, <1>7, <1>8, <1>9

LEMMA RecordingFate ==
    ASSUME Inv, Fate, Records,
           \/ RecoveryReadyToBoot \/ RecoveryRestore \/ RecoveryRollbackReady
           \/ RecoveryMarkRestored
    PROVE  Fate' /\ Accounted
<1> DEFINE r == loc["recovery"]
           ready == [r EXCEPT !.phase = "ready_to_boot", !.error = FALSE]
           restoring == [r EXCEPT !.phase = "restoring", !.error = TRUE]
           restored == [r EXCEPT !.phase = "rollback_ready"]
           booting == [r EXCEPT !.phase = "rollback_booting"]
<1>1. pc["recovery"] \notin {"idle", "start"} /\ UNCHANGED result
  BY DEF RecoveryReadyToBoot, RecoveryRestore, RecoveryRollbackReady, RecoveryMarkRestored
<1>2. r \in Record /\ r.task = journal.task
  BY <1>1, RecoveryTask
<1>3. /\ ready.task = journal.task /\ ready.phase = "ready_to_boot"
      /\ restoring.task = journal.task /\ restoring.phase = "restoring"
      /\ restored.task = journal.task /\ restored.phase = "rollback_ready"
      /\ booting.task = journal.task /\ booting.phase = "rollback_booting"
  BY <1>2 DEF Record
<1>4. {"boot_written", "verify_backup", "boot_restored"} \subseteq Labels("recovery")
  BY DEF Labels, Rewriting
<1> HIDE DEF ready, restoring, restored, booting
<1>5. \/ UNCHANGED journal /\ Halt
      \/ \E s \in {ready, restoring, restored, booting}, ok \in BOOLEAN :
            /\ Save(s, ok)
            /\ \/ Halt \/ Restart("new")
               \/ \E label \in {"boot_written", "verify_backup", "boot_restored"} :
                     RecoveryGo(label, s)
  <2>1. CASE RecoveryReadyToBoot
    <3>1. \E ok \in BOOLEAN : Save(ready, ok) /\ (Halt \/ RecoveryGo("boot_written", ready))
      BY <2>1, Zenon DEF RecoveryReadyToBoot, ready
    <3> QED BY <3>1
  <2>2. CASE RecoveryRestore
    <3>1. \/ UNCHANGED journal /\ Halt
          \/ \E ok \in BOOLEAN : Save(restoring, ok) /\ (Halt \/ RecoveryGo("verify_backup", restoring))
      BY <2>2, Zenon DEF RecoveryRestore, SaveRestoring, restoring
    <3> QED BY <3>1
  <2>3. CASE RecoveryRollbackReady
    <3>1. \E ok \in BOOLEAN : Save(restored, ok) /\ (Halt \/ RecoveryGo("boot_restored", restored))
      BY <2>3, Zenon DEF RecoveryRollbackReady, restored
    <3> QED BY <3>1
  <2>4. CASE RecoveryMarkRestored
    <3>1. \E ok \in BOOLEAN : Save(booting, ok) /\ (Halt \/ Restart("new"))
      BY <2>4, Zenon DEF RecoveryMarkRestored, booting
    <3> QED BY <3>1
  <2> QED BY <2>1, <2>2, <2>3, <2>4
<1>6. CASE UNCHANGED journal /\ Halt
  BY <1>1, <1>6, StaysSame, HaltFate
<1>7. ASSUME NEW s \in {ready, restoring, restored, booting}, NEW ok \in BOOLEAN, Save(s, ok),
             \/ Halt \/ Restart("new")
             \/ \E label \in {"boot_written", "verify_backup", "boot_restored"} :
                   RecoveryGo(label, s)
      PROVE  Fate' /\ Accounted
  <2>1. s.task = journal.task /\ s.phase \notin {"idle", "report_acknowledged"}
    BY <1>3
  <2> QED BY <1>1, <1>4, <1>7, <2>1, RecoverySavesFate
<1> QED BY <1>5, <1>6, <1>7

LEMMA RecoveryAccounts == ASSUME Inv, Fate, Records, Recovery PROVE Fate' /\ Accounted
  BY StartRecoveryFate, RecoveryStaysFate, MountFate, CandidateFate, RecordingFate DEF Recovery

\* The main application: boot confirmation and OnNetworkReady.
LEMMA ConfirmFate ==
    ASSUME Inv, Fate, Records, NEW p \in Procs, Confirm(p)
    PROVE  Fate' /\ Accounted
<1>1. UNCHANGED <<journal, result>> /\ SameTask
  BY StaysSame DEF Confirm
<1>2. pc[p] \in {"starting", "network_ready"} /\ {"idle", "resume", "saving", pc[p]} \cap Named = {}
  BY DEF Confirm, Named, Carrying, Answering, Promoting, Fetching
<1>3. CASE Ret(p, TRUE)
  BY <1>1, <1>3, RetFate
<1>4. CASE Step(p, "resume", BlankRecord)
  BY <1>1, <1>2, <1>4, BlankFate DEF Step
<1>5. CASE journal.phase \in BootPhases /\ Step(p, "saving", ConfirmedRecord(journal))
  <2>1. ConfirmedRecord(journal).task = journal.task
    BY DEF Inv, DurableOK, Record, ConfirmedRecord
  <2>2. journal.task \in DOMAIN result \cup {None}
    BY DEF Fate, KnownOK
  <2>3. "saving" \notin Carrying \cup Answering
    BY <1>2 DEF Named
  <2> QED BY <1>1, <1>2, <1>5, <2>1, <2>2, <2>3, StepFate
<1>6. CASE acked' = acked /\ Go(p, IF p = "boot" THEN "idle" ELSE pc[p], BlankRecord)
  BY <1>1, <1>2, <1>6, BlankFate
<1>7. \/ Ret(p, TRUE) \/ Step(p, "resume", BlankRecord)
      \/ journal.phase \in BootPhases /\ Step(p, "saving", ConfirmedRecord(journal))
      \/ acked' = acked /\ Go(p, IF p = "boot" THEN "idle" ELSE pc[p], BlankRecord)
  BY Zenon DEF Confirm, BootPhases
<1> QED BY <1>3, <1>4, <1>5, <1>6, <1>7

LEMMA ConfirmSaveFate ==
    ASSUME Inv, Fate, Records, NEW p \in Procs, ConfirmSave(p)
    PROVE  Fate' /\ Accounted
<1>1. pc[p] = "saving" /\ UNCHANGED result
  BY DEF ConfirmSave
<1>2. journal \in Record /\ journal.phase \in BootPhases /\ loc[p] = ConfirmedRecord(journal)
  BY <1>1 DEF Inv, BootsOK, DurableOK
<1>3. loc[p].task = journal.task /\ loc[p].phase \in {"confirmed", "rollback"}
  BY <1>2 DEF ConfirmedRecord, Record
<1>4. PICK ok \in BOOLEAN :
         /\ Save(loc[p], ok)
         /\ \/ acked' = acked /\ Go(p, IF p = "boot" THEN "idle" ELSE "network_ready", BlankRecord)
            \/ Ret(p, TRUE)
  BY Zenon DEF ConfirmSave
<1>5. SameTask
  BY <1>3, <1>4, SavesSame
<1>6. {"idle", "network_ready"} \cap Named = {}
  BY DEF Named, Carrying, Answering, Promoting, Fetching
<1> QED BY <1>1, <1>4, <1>5, <1>6, BlankFate, RetFate

LEMMA NotifiedFate ==
    ASSUME Inv, Fate, Records,
           MqttConnected \/ TimerFires \/ \E t \in DOMAIN result : HandleNotification(t)
    PROVE  Fate' /\ Accounted
<1>1. {"mqtt", "retry", "download"} \subseteq Procs /\ "network_ready" \notin Named
      /\ "begin" \notin Carrying
  BY DEF Procs, Named, Carrying, Answering, Promoting, Fetching
<1>2. CASE MqttConnected \/ TimerFires
  <2>1. UNCHANGED <<journal, result, acked>>
        /\ \E p \in {"mqtt", "retry"} : Go(p, "network_ready", BlankRecord)
    BY <1>2 DEF MqttConnected, TimerFires, durable
  <2> QED BY <1>1, <2>1, StaysSame, BlankFate
<1>3. ASSUME NEW t \in DOMAIN result, HandleNotification(t) PROVE Fate' /\ Accounted
  <2> DEFINE begun == [BlankRecord EXCEPT !.task = t]
  <2>1. UNCHANGED <<journal, result>> /\ Step("download", "begin", begun)
    BY <1>3 DEF HandleNotification, durable
  <2>2. begun.task = t
    BY DEF BlankRecord
  <2> HIDE DEF begun
  <2> QED BY <1>1, <2>1, <2>2, StepFate
<1> QED BY <1>2, <1>3

\* A finished task is cleared: the server has its result.
LEMMA ClearedFate ==
    ASSUME Inv, Fate, Recorded, journal.phase = "report_acknowledged",
           NEW ok, Save(Cleared(journal), ok)
    PROVE  JournalStep /\ Accounted
<1>1. /\ journal.task \in DOMAIN result \cup {None} /\ result[journal.task] # {}
      /\ journal.task # None
  BY DEF Fate, KnownOK, AnsweredOK, Inv, DurableOK, ValidateRecord
<1>2. journal' \in {journal, Cleared(journal)}
  BY DEF Save
<1>3. Cleared(journal).task = None /\ Cleared(journal).phase = "idle"
  BY DEF Cleared, BlankRecord
<1>4. result'[journal.task] # {}
  BY <1>1 DEF Recorded
<1>5. JournalStep
  BY <1>1, <1>2, <1>3, <1>4 DEF JournalStep
<1>6. Accounted
  BY <1>1 DEF Accounted, Recorded, Records, Forgotten
<1> QED BY <1>5, <1>6

LEMMA DispatchFate ==
    ASSUME Inv, Fate, Records, NEW p \in Procs, Dispatch(p)
    PROVE  Fate' /\ Accounted
<1>1. pc[p] = "network_ready" /\ UNCHANGED result /\ Recorded
  BY Silent DEF Dispatch
<1>2. {"idle", "verify", "report"} \cap Named = {} /\ {"idle", "verify", "report"} \cap Carrying = {}
      /\ {"idle", "verify", "report"} \cap Answering = {}
  BY DEF Named, Carrying, Answering, Promoting, Fetching
<1>3. ASSUME NEW retry, Ret(p, retry), UNCHANGED journal PROVE Fate' /\ Accounted
  BY <1>1, <1>3, StaysSame, RetFate
<1>4. ASSUME NEW ok, journal.phase = "report_acknowledged", Save(Cleared(journal), ok),
             acked' \in {acked, None}, Go(p, "idle", BlankRecord)
      PROVE  Fate' /\ Accounted
  <2>1. JournalStep /\ Accounted /\ AckStep
    BY <1>1, <1>4, ClearedFate, AckKept
  <2>2. pc'[p] = "idle" /\ loc'[p] = BlankRecord
    BY <1>4, GoAt
  <2>3. Place(p)
    BY <1>2, <2>2 DEF Place, BlankRecord
  <2> QED BY <1>1, <1>4, <2>1, <2>3, GoPlaces, FateStep
<1>5. CASE UNCHANGED journal /\ acked' = acked /\ Go(p, "verify", BlankRecord)
  BY <1>1, <1>2, <1>5, StaysSame, BlankFate
<1>6. ASSUME NEW q \in Procs \ {p}, NEW label \in {"verify", "report"}, Start(p, q, label),
             UNCHANGED journal
      PROVE  Fate' /\ Accounted
  <2>1. pc \in [Procs -> Everywhere] /\ loc \in [Procs -> Record]
    BY DEF Inv, PlacesOK, LocTypes
  <2>2. /\ \A o \in {p, q} : pc'[o] \in {"idle", label} /\ loc'[o] = BlankRecord
        /\ \A o \in Procs \ {p, q} : pc'[o] = pc[o] /\ loc'[o] = loc[o]
        /\ acked' = acked
    BY <1>6, <2>1 DEF Start
  <2>3. \A o \in {p, q} : Place(o)
    BY <1>2, <2>2 DEF Place, BlankRecord
  <2>4. \A o \in Procs \ {p, q} : \/ loc[o].task \in DOMAIN result
                                  \/ loc[o].task = None /\ pc[o] \notin Named
    BY DEF Fate, KnownOK
  <2>5. \A o \in Procs \ {p, q} : Place(o)
    BY <2>2, <2>4 DEF Place
  <2>6. JournalStep /\ Accounted /\ AckStep
    BY <1>1, <1>6, <2>2, StaysSame, SameTaskStep, AckKept
  <2> QED BY <1>1, <2>3, <2>5, <2>6, FateStep
<1>7. pc["staged"] # "idle" => handoff # None
  BY NameFacts DEF Inv, HandoffOK, Procs
<1>8. \/ UNCHANGED journal /\ (\E retry \in BOOLEAN : Ret(p, retry))
      \/ journal.phase = "report_acknowledged"
         /\ (\E ok \in BOOLEAN : Save(Cleared(journal), ok)
                /\ acked' \in {acked, None} /\ Go(p, "idle", BlankRecord))
      \/ UNCHANGED journal /\ acked' = acked /\ Go(p, "verify", BlankRecord)
      \/ UNCHANGED journal /\ Start(p, "staged", "verify") /\ handoff = None
      \/ UNCHANGED journal /\ Start(p, "report", "report") /\ pc["report"] = "idle"
  BY DEF Dispatch, Ends, Ret, MayHandOff
<1>9. CASE UNCHANGED journal /\ Start(p, "staged", "verify") /\ handoff = None
  <2>1. "staged" \in Procs \ {p}
    BY <1>1, <1>7, <1>9 DEF Procs
  <2> QED BY <1>6, <1>9, <2>1
<1>10. CASE UNCHANGED journal /\ Start(p, "report", "report") /\ pc["report"] = "idle"
  <2>1. "report" \in Procs \ {p}
    BY <1>1, <1>10 DEF Procs
  <2> QED BY <1>6, <1>10, <2>1
<1> QED BY <1>3, <1>4, <1>5, <1>8, <1>9, <1>10

\* A process that puts the task it carries into the journal.
LEMMA WriterAccounts ==
    ASSUME Inv, Fate, Recorded, NEW p \in Procs, pc[p] \in Carrying,
           NEW r, NEW ok, Save(r, ok), r.task = loc[p].task,
           r.phase \notin {"idle", "report_acknowledged"}
    PROVE  JournalStep /\ Accounted
<1>1. loc[p].task \in DOMAIN result /\ loc[p].task \in Tasks
  BY TaskNames DEF Fate, KnownOK, Named
<1>2. Owned(loc[p].task) \/ (p = "download" /\ Free)
  BY DEF Fate, CarryOK
<1>3. CASE journal' = journal
  BY <1>3, StaysSame, SameTaskStep
<1>4. CASE journal' = r
  <2>1. JournalStep
    BY <1>1, <1>2, <1>4 DEF JournalStep, Owned
  <2>2. ASSUME NEW t \in lost' \ lost PROVE loc[p].task \in Tasks \ {t} /\ Over(loc[p].task)
    <3>1. t \in DOMAIN result /\ t = journal.task /\ result[t] = {} /\ t \notin lost /\ t # loc[p].task
      BY <1>4, <2>2 DEF Recorded, Records, Forgotten
    <3>2. ~Free
      BY <3>1, TaskNames DEF Free, Over
    <3> QED BY <1>1, <1>2, <3>1, <3>2 DEF Owned
  <2> QED BY <2>1, <2>2 DEF Accounted
<1> QED BY <1>3, <1>4 DEF Save

LEMMA BeginDownloadFate == ASSUME Inv, Fate, Records, BeginDownload PROVE Fate' /\ Accounted
<1> DEFINE p == "download"
           t == loc[p].task
           staging(r) == [r EXCEPT !.task = t]
<1>1. pc[p] = "begin" /\ UNCHANGED result /\ Recorded /\ p \in Procs
  BY Silent DEF BeginDownload, Procs
<1>2. t \in DOMAIN result
  BY <1>1 DEF Fate, KnownOK, Named
<1>3. {"idle", "verify", "direct", "restart"} \cap Named = {} /\ "direct" \notin Carrying
  BY DEF Named, Carrying, Answering, Promoting, Fetching
<1>4. CASE UNCHANGED journal /\ Step(p, "direct", loc[p])
  BY <1>1, <1>2, <1>3, <1>4, StepFate
<1>5. ASSUME NEW ok, journal.phase = "report_acknowledged", Save(Cleared(journal), ok), ok => journal' = Cleared(journal),
             acked' \in {acked, None},
             IF ok THEN Go(p, "check", staging(Cleared(journal))) ELSE Go(p, "idle", BlankRecord)
      PROVE  Fate' /\ Accounted
  <2>1. JournalStep /\ Accounted /\ AckStep
    BY <1>1, <1>5, ClearedFate, AckKept
  <2>2. CASE ok
    <3> DEFINE rec == staging(Cleared(journal))
    <3>1. rec.task = t /\ Cleared(journal).task = None
      BY DEF Cleared, BlankRecord
    <3> HIDE DEF rec
    <3>2. pc'[p] = "check" /\ loc'[p] = rec
      BY <1>1, <1>5, <2>2, GoAt DEF rec
    <3>3. Free'
      BY <1>5, <2>2, <3>1 DEF Free
    <3>4. Place(p)
      BY <1>2, <3>1, <3>2, <3>3 DEF Place
    <3>5. Go(p, "check", rec)
      BY <1>5, <2>2 DEF rec
    <3> QED BY <1>1, <2>1, <3>4, <3>5, GoPlaces, FateStep
  <2>3. CASE ~ok
    <3>1. Go(p, "idle", BlankRecord)
      BY <1>5, <2>3
    <3>2. pc'[p] = "idle" /\ loc'[p] = BlankRecord
      BY <1>1, <3>1, GoAt
    <3>3. Place(p)
      BY <1>3, <3>2 DEF Place, BlankRecord, Named
    <3> QED BY <1>1, <2>1, <3>1, <3>3, GoPlaces, FateStep
  <2> QED BY <2>2, <2>3
<1>6. CASE UNCHANGED journal /\ (\E label \in {"verify", "restart"} : Step(p, label, BlankRecord))
  BY <1>1, <1>3, <1>6, StaysSame, BlankFate DEF Step
<1>7. CASE UNCHANGED journal /\ Ret(p, FALSE)
  BY <1>1, <1>7, StaysSame, RetFate
<1>8. CASE UNCHANGED journal /\ MayStage(t) /\ Step(p, "check", staging(journal))
  <2>1. journal \in Record /\ journal.phase = "idle" /\ journal.task = None
    BY <1>8 DEF Inv, DurableOK, MayStage, Fate, KnownOK
  <2>2. staging(journal).task = t
    BY <2>1 DEF Record
  <2> HIDE DEF staging
  <2>3. "check" \notin Answering
    BY DEF Answering
  <2> QED BY <1>1, <1>2, <1>8, <2>1, <2>2, <2>3, StepFate
<1>9. \/ UNCHANGED journal /\ Step(p, "direct", loc[p])
      \/ journal.phase = "report_acknowledged"
         /\ (\E ok \in BOOLEAN :
               /\ Save(Cleared(journal), ok) /\ acked' \in {acked, None}
               /\ IF ok THEN Go(p, "check", staging(Cleared(journal))) ELSE Go(p, "idle", BlankRecord))
      \/ UNCHANGED journal /\ (\E label \in {"verify", "restart"} : Step(p, label, BlankRecord))
      \/ UNCHANGED journal /\ Ret(p, FALSE)
      \/ UNCHANGED journal /\ MayStage(t) /\ Step(p, "check", staging(journal))
  BY DEF BeginDownload, Ret, Ends
<1>10. ASSUME NEW ok \in BOOLEAN, Save(Cleared(journal), ok) PROVE ok => journal' = Cleared(journal)
  BY <1>10 DEF Save
<1> QED BY <1>4, <1>5, <1>6, <1>7, <1>8, <1>9, <1>10

LEMMA StagingFate ==
    ASSUME Inv, Fate, Records,
           \/ CheckAccepted \/ Backup \/ DownloadToSd \/ WritePendingSignature \/ StagingFails
    PROVE  Fate' /\ Accounted
<1> DEFINE r == loc["download"]
<1>1. "download" \in Procs /\ r \in Record
  BY DEF Inv, LocTypes, Procs
<1>2. PICK from \in Fetching, to \in Fetching \cup {"fail"},
           rec \in {r, [r EXCEPT !.installed = flash]} : StageStep(from, to, rec, sd')
  BY DEF CheckAccepted, Backup, DownloadToSd, WritePendingSignature, StagingFails, Fetching, StageStep
<1>3. rec.task = r.task
  BY <1>1, <1>2 DEF Record
<1>4. UNCHANGED <<journal, result>> /\ pc["download"] = from /\ Step("download", to, rec)
  BY <1>2 DEF StageStep
<1>5. r.task \in DOMAIN result /\ from \in Carrying
  BY <1>1, <1>2, <1>4 DEF Fate, KnownOK, Named, Carrying
<1> QED BY <1>1, <1>3, <1>4, <1>5, StepFate

LEMMA SaveStagedFate == ASSUME Inv, Fate, Records, SaveStaged PROVE Fate' /\ Accounted
<1> DEFINE d == loc["download"]
           r == [d EXCEPT !.phase = "awaiting_staged_ack", !.pending = d.task, !.error = FALSE]
<1>1. /\ "download" \in Procs /\ d \in Record /\ pc["download"] = "save" /\ UNCHANGED result
      /\ Recorded
  BY Silent DEF SaveStaged, Inv, LocTypes, Procs
<1>2. r.task = d.task /\ r.phase = "awaiting_staged_ack"
  BY <1>1 DEF Record
<1>3. PICK ok \in BOOLEAN : Save(r, ok) /\ Step("download", IF ok THEN "verify" ELSE "fail", r)
  BY DEF SaveStaged
<1> HIDE DEF r, d
<1>4. pc["download"] \in Carrying /\ "verify" \notin Carrying
  BY <1>1 DEF Carrying, Fetching
<1>5. d.task \in DOMAIN result
  BY <1>1, <1>4 DEF Fate, KnownOK, Named, d
<1>6. JournalStep /\ Accounted
  BY <1>1, <1>2, <1>3, <1>4, WriterAccounts DEF d
<1>7. acked' = acked /\ Go("download", IF ok THEN "verify" ELSE "fail", r)
  BY <1>3 DEF Step
<1>8. pc'["download"] = (IF ok THEN "verify" ELSE "fail") /\ loc'["download"] = r
  BY <1>1, <1>7, GoAt
<1>9. Place("download")
  BY <1>2, <1>4, <1>5, <1>8 DEF Place, d
<1>10. AckStep
  BY <1>1, <1>7, AckKept
<1> QED BY <1>1, <1>6, <1>7, <1>9, <1>10, GoPlaces, FateStep

LEMMA HandoffFate ==
    ASSUME Inv, Fate, Records, NEW p \in Procs, Handoff(p)
    PROVE  Fate' /\ Accounted
<1>1. UNCHANGED result /\ pc[p] \in {"verify", "await", "acknowledged", "select"}
  BY DEF Handoff, HandoffVerify, StagedAcknowledged, StagedUnacknowledged, HandoffSave,
     HandoffSelect
<1>2. p # "report"
  BY <1>1 DEF Inv, PlacesOK, Labels, Promoting
<1>3. pc[p] # "verify" => loc[p].task \in DOMAIN result /\ pc[p] \in Carrying
  BY <1>1 DEF Fate, KnownOK, Named, Carrying
<1>4. ASSUME UNCHANGED journal, NEW retry, Ret(p, retry) PROVE Fate' /\ Accounted
  BY <1>1, <1>4, StaysSame, RetFate
<1>5. ASSUME UNCHANGED journal, NEW label, Step(p, label, loc[p]), pc[p] # "verify"
      PROVE  Fate' /\ Accounted
  BY <1>1, <1>2, <1>3, <1>5, StepFate
<1>6. CASE HandoffVerify(p)
  <2>1. UNCHANGED journal /\ \/ \E retry \in BOOLEAN : Ret(p, retry)
                             \/ /\ journal.phase \in {"pending", "awaiting_staged_ack"}
                                /\ \E label \in {"select", "await", "fail"} : Step(p, label, journal)
    BY <1>6 DEF HandoffVerify, durable
  <2>2. journal.phase \in {"pending", "awaiting_staged_ack"} => journal.task \in DOMAIN result
    BY DEF Inv, DurableOK, ValidateRecord, Fate, KnownOK
  <2> QED BY <1>1, <1>2, <1>4, <2>1, <2>2, StepFate
<1>7. CASE StagedAcknowledged(p) \/ StagedUnacknowledged(p)
  BY <1>4, <1>5, <1>7 DEF StagedAcknowledged, StagedUnacknowledged, durable
<1>8. CASE HandoffSave(p)
  <2> DEFINE pending == [journal EXCEPT !.phase = "pending"]
  <2>1. pending.task = journal.task /\ pending.phase = "pending"
    BY DEF Inv, DurableOK, Record
  <2>2. \/ UNCHANGED journal /\ (\E retry \in BOOLEAN : Ret(p, retry))
        \/ StillStaged(loc[p])
           /\ (\E ok \in BOOLEAN :
                 Save(pending, ok) /\ (IF ok THEN Step(p, "select", pending) ELSE Ret(p, TRUE)))
    BY <1>8, Zenon DEF HandoffSave
  <2> HIDE DEF pending
  <2>3. ASSUME StillStaged(loc[p]), NEW ok \in BOOLEAN, Save(pending, ok), Step(p, "select", pending)
        PROVE  Fate' /\ Accounted
    <3>1. Recorded /\ AckStep /\ Go(p, "select", pending)
      BY <1>1, <2>3, Silent, AckKept DEF Step
    <3>2. SameTask
      BY <2>1, <2>3, SavesSame
    <3>3. pending.task = loc[p].task /\ pc[p] = "acknowledged"
      BY <1>8, <2>1, <2>3 DEF StillStaged, HandoffSave
    <3>4. pending.task \in DOMAIN result /\ pc[p] \in Carrying
      BY <1>3, <3>3
    <3> QED BY <1>2, <3>1, <3>2, <3>3, <3>4, KeepFate
  <2>4. ASSUME NEW ok \in BOOLEAN, Save(pending, ok), Ret(p, TRUE)
        PROVE  Fate' /\ Accounted
    BY <1>1, <2>1, <2>4, SavesSame, RetFate
  <2> QED BY <1>4, <2>2, <2>3, <2>4
<1>9. CASE HandoffSelect(p)
  <2>1. UNCHANGED journal /\ \/ acked' = acked /\ Go(p, "restart", BlankRecord)
                             \/ Step(p, "fail", loc[p])
    BY <1>9 DEF HandoffSelect
  <2>2. "restart" \notin Named /\ pc[p] # "verify"
    BY <1>9 DEF HandoffSelect, Named, Carrying, Answering, Promoting, Fetching
  <2> QED BY <1>1, <1>5, <2>1, <2>2, StaysSame, BlankFate
<1> QED BY <1>6, <1>7, <1>8, <1>9 DEF Handoff

LEMMA FailStagingFate ==
    ASSUME Inv, Fate, Records, NEW p \in Procs, FailStaging(p)
    PROVE  Fate' /\ Accounted
<1> DEFINE failed == [journal EXCEPT !.phase = "failed", !.task = loc[p].task,
                                     !.pending = None, !.error = TRUE]
<1>1. pc[p] = "fail" /\ UNCHANGED result /\ Recorded
  BY Silent DEF FailStaging
<1>2. failed.task = loc[p].task /\ failed.phase = "failed"
  BY DEF Inv, DurableOK, Record
<1>3. pc[p] \in Carrying /\ loc[p].task \in DOMAIN result
  BY <1>1 DEF Fate, KnownOK, Named, Carrying
<1>4. \A label \in {"direct", "network_ready"} : label \notin Carrying /\ label \notin Answering
  BY DEF Carrying, Answering, Fetching
<1>5. \/ UNCHANGED journal /\ Step(p, "direct", loc[p])
      \/ \E ok \in BOOLEAN :
            Save(failed, ok) /\ Step(p, IF ok THEN "network_ready" ELSE "direct", loc[p])
  BY Zenon DEF FailStaging
<1> HIDE DEF failed
<1>6. CASE UNCHANGED journal /\ Step(p, "direct", loc[p])
  BY <1>1, <1>3, <1>4, <1>6, StepFate
<1>7. ASSUME NEW ok \in BOOLEAN, Save(failed, ok), NEW label \in {"direct", "network_ready"},
             Step(p, label, loc[p])
      PROVE  Fate' /\ Accounted
  <2>1. JournalStep /\ Accounted
    BY <1>1, <1>2, <1>3, <1>7, WriterAccounts
  <2>2. AckStep /\ Go(p, label, loc[p])
    BY <1>1, <1>7, AckKept DEF Step
  <2>3. pc'[p] = label /\ loc'[p] = loc[p]
    BY <2>2, GoAt
  <2>4. Place(p)
    BY <1>3, <1>4, <2>3 DEF Place
  <2> QED BY <1>1, <2>1, <2>2, <2>4, GoPlaces, FateStep
<1> QED BY <1>5, <1>6, <1>7

\* Results are final.
LEMMA ToldGrows ==
    ASSUME Inv, Records, NEW t, NEW what \in {"success", "failed", "rejected"},
           result' \in {result, Told(t, what)}
    PROVE  Recorded /\ (result' = Told(t, what) /\ t \in DOMAIN result => result'[t] # {})
<1>1. CASE result' = result
  <2>1. UNCHANGED result
    BY <1>1
  <2>2. Told(t, what) = [result EXCEPT ![t] = IF @ = {} THEN {what} ELSE @]
    BY DEF Told
  <2>3. t \in DOMAIN result => Told(t, what)[t] # {}
    BY <2>2
  <2> QED BY <2>1, <2>3, Silent
<1>2. CASE result' = [result EXCEPT ![t] = IF @ = {} THEN {what} ELSE @]
  <2>1. /\ DOMAIN result' = DOMAIN result
        /\ \A s \in DOMAIN result :
              result'[s] = IF s = t /\ result[s] = {} THEN {what} ELSE result[s]
    BY <1>2
  <2> QED BY <2>1 DEF Recorded
<1> QED BY <1>1, <1>2 DEF Told

LEMMA DirectReportFate ==
    ASSUME Inv, Fate, Records, NEW p \in Procs, DirectReport(p)
    PROVE  Fate' /\ Accounted
<1>1. UNCHANGED journal /\ Ret(p, FALSE)
  BY DEF DirectReport, durable
<1>2. \E what \in {"failed", "rejected"} : result' \in {result, Told(loc[p].task, what)}
  BY DEF DirectReport
<1>3. Recorded
  BY <1>2, ToldGrows
<1>4. Go(p, "idle", BlankRecord) /\ acked' = acked /\ SameTask
  BY <1>1, StaysSame DEF Ret, Ends
<1>5. AckStep
  BY <1>3, <1>4 DEF AckStep, Recorded, Fate, AnsweredOK
<1>6. BlankRecord.task = None /\ "idle" \notin Named /\ "idle" \notin Carrying \cup Answering
  BY DEF BlankRecord, Named, Carrying, Answering, Promoting, Fetching
<1> QED BY <1>3, <1>4, <1>5, <1>6, KeepFate

(***************************************************************************)
(* The report task.                                                        *)
(***************************************************************************)
LEMMA ReportFacts ==
    ASSUME Inv, Fate
    PROVE  /\ "report" \in Procs /\ loc["report"] \in Record
           /\ pc["report"] \in Named => loc["report"].task \in DOMAIN result
           /\ {"idle", "sleep", "report"} \cap Named = {}
           /\ \A label \in {"http", "answered", "clear"} \cup Promoting : label \notin Carrying
           /\ \A label \in {"http"} \cup Promoting : label \notin Answering
<1>1. "report" \in Procs
  BY DEF Procs
<1>2. loc["report"] \in Record
  BY <1>1 DEF Inv, LocTypes
<1>3. pc["report"] \in Named => loc["report"].task \in DOMAIN result
  BY <1>1 DEF Fate, KnownOK
<1>4. /\ {"idle", "sleep", "report"} \cap Named = {}
      /\ \A label \in {"http", "answered", "clear"} \cup Promoting : label \notin Carrying
      /\ \A label \in {"http"} \cup Promoting : label \notin Answering
  BY DEF Named, Carrying, Answering, Promoting, Fetching
<1> QED BY <1>1, <1>2, <1>3, <1>4

\* A report is sent unless the server has acknowledged it.
LEMMA AfterFacts ==
    ASSUME Inv, Fate, NEW r, r.task \in DOMAIN result
    PROVE  /\ AfterPromotion(r) \in {"http", "answered"}
           /\ AfterPromotion(r) = "answered" => result[r.task] # {}
<1>1. None \notin DOMAIN result
  BY TaskNames
<1> QED BY <1>1 DEF AfterPromotion, Fate, AnsweredOK

LEMMA ReportLoadFate == ASSUME Inv, Fate, Records, ReportLoad PROVE Fate' /\ Accounted
<1> DEFINE r == journal
<1>1. UNCHANGED <<journal, result>> /\ "report" \in Procs
  BY DEF ReportLoad, Procs
<1>2. journal.phase # "idle" => r.task \in DOMAIN result
  BY DEF Inv, DurableOK, ValidateRecord, Fate, KnownOK
<1>3. \/ Step("report", "sleep", BlankRecord)
      \/ Ret("report", FALSE)
      \/ journal.phase = "report_acknowledged" /\ Step("report", "clear", r)
      \/ journal.phase # "idle" /\ Step("report", AfterPromotion(r), r)
      \/ journal.phase # "idle" /\ \E label \in {"promoted", "promote"} : Step("report", label, r)
  BY DEF ReportLoad
<1>4. CASE Step("report", "sleep", BlankRecord)
  BY <1>1, <1>4, ReportFacts, StaysSame, BlankFate DEF Step
<1>5. CASE Ret("report", FALSE)
  BY <1>1, <1>5, StaysSame, RetFate
<1>6. CASE journal.phase = "report_acknowledged" /\ Step("report", "clear", r)
  <2>1. r.task \in DOMAIN result /\ result[r.task] # {} /\ "clear" \notin Carrying
    BY <1>2, <1>6, ReportFacts DEF Fate, AnsweredOK
  <2> HIDE DEF r
  <2> QED BY <1>1, <1>6, <2>1, StepFate
<1>7. CASE journal.phase # "idle" /\ Step("report", AfterPromotion(r), r)
  <2>1. /\ AfterPromotion(r) \in {"http", "answered"} /\ r.task \in DOMAIN result
        /\ AfterPromotion(r) = "answered" => result[r.task] # {}
    BY <1>2, <1>7, AfterFacts
  <2>2. AfterPromotion(r) \notin Carrying /\ (AfterPromotion(r) \in Answering => result[r.task] # {})
    BY <2>1, ReportFacts
  <2> HIDE DEF r
  <2> QED BY <1>1, <1>7, <2>1, <2>2, StepFate
<1>8. ASSUME journal.phase # "idle", NEW label \in {"promoted", "promote"}, Step("report", label, r)
      PROVE  Fate' /\ Accounted
  <2>1. label \in Promoting /\ r.task \in DOMAIN result
    BY <1>2, <1>8 DEF Promoting
  <2>2. label \notin Carrying /\ label \notin Answering
    BY <2>1, ReportFacts
  <2> HIDE DEF r
  <2> QED BY <1>1, <1>8, <2>1, <2>2, StepFate
<1> QED BY <1>3, <1>4, <1>5, <1>6, <1>7, <1>8

LEMMA PromoteFate ==
    ASSUME Inv, Fate, Records, Promote \/ PromoteRename
    PROVE  Fate' /\ Accounted
<1> DEFINE r == loc["report"]
<1>1. UNCHANGED <<journal, result>> /\ pc["report"] \in Promoting
  BY DEF Promote, PromoteRename, Promoting
<1>2. PICK label \in Promoting, rec \in {r, [r EXCEPT !.installed = r.pending],
                                         [r EXCEPT !.installed = flash]} :
         Step("report", label, rec)
  BY DEF Promote, PromoteRename, Promoting
<1>3. r \in Record /\ r.task \in DOMAIN result /\ "report" \in Procs
  BY <1>1, ReportFacts DEF Named
<1>4. rec.task = r.task
  BY <1>2, <1>3 DEF Record
<1>5. label \notin Carrying /\ label \notin Answering
  BY ReportFacts
<1> QED BY <1>1, <1>2, <1>3, <1>4, <1>5, StepFate

LEMMA SavePromotedFate == ASSUME Inv, Fate, Records, SavePromoted PROVE Fate' /\ Accounted
<1> DEFINE r == loc["report"]
           label == AfterPromotion(r)
<1>1. /\ pc["report"] \in Promoting /\ UNCHANGED result /\ Step("report", label, r)
      /\ \E ok \in BOOLEAN : Save(r, ok)
  BY DEF SavePromoted, Promoting
<1>2. /\ journal.phase = "confirmed" /\ r.phase = "confirmed" /\ r.task = flash
      /\ pc["report"] # "idle"
  BY <1>1, PromotingFacts
<1>3. journal.task = flash
  BY <1>2 DEF Inv, DurableOK, Fits, Updating
<1>4. r.task \in DOMAIN result /\ "report" \in Procs
  BY <1>1, ReportFacts DEF Named
<1>5. SameTask
  BY <1>1, <1>2, <1>3, SavesSame
<1>6. label \in {"http", "answered"} /\ (label = "answered" => result[r.task] # {})
  BY <1>4, AfterFacts
<1> HIDE DEF label, r
<1>7. label \notin Carrying /\ (label \in Answering => result[r.task] # {})
  BY <1>6, ReportFacts
<1>8. Recorded /\ AckStep /\ Go("report", label, r)
  BY <1>1, Silent, AckKept DEF Step
<1>9. label \in Answering => result'[r.task] # {}
  BY <1>1, <1>7
<1> QED BY <1>4, <1>5, <1>7, <1>8, <1>9, KeepFate

LEMMA SendingFate ==
    ASSUME Inv, Fate, Records, ReportAnswered \/ ReportLost
    PROVE  Fate' /\ Accounted
<1> DEFINE r == loc["report"]
<1>1. pc["report"] = "http" /\ UNCHANGED journal /\ "report" \in Procs
  BY DEF ReportAnswered, ReportLost, durable, Procs
<1>2. r.task \in DOMAIN result
  BY <1>1, ReportFacts DEF Named
<1>3. Answer(r) \in {"success", "failed", "rejected"}
  BY DEF Answer
<1>4. SameTask
  BY <1>1, StaysSame
<1>5. CASE ReportAnswered
  <2>1. PICK what \in {Answer(r), "rejected"} : result' = Told(r.task, what)
    BY <1>5 DEF ReportAnswered
  <2>2. Recorded /\ result'[r.task] # {}
    BY <1>2, <1>3, <2>1, ToldGrows
  <2>3. Go("report", "answered", r) /\ acked' = r.task
    BY <1>5 DEF ReportAnswered
  <2>4. AckStep
    BY <1>2, <2>2, <2>3 DEF AckStep
  <2>5. "answered" \notin Carrying
    BY ReportFacts
  <2> HIDE DEF r
  <2> QED BY <1>1, <1>2, <1>4, <2>2, <2>3, <2>4, <2>5, KeepFate
<1>6. CASE ReportLost
  <2>1. result' \in {result, Told(r.task, Answer(r))} /\ Step("report", "sleep", BlankRecord)
    BY <1>6 DEF ReportLost
  <2>2. Recorded
    BY <1>3, <2>1, ToldGrows
  <2>3. Go("report", "sleep", BlankRecord) /\ acked' = acked
    BY <2>1 DEF Step
  <2>4. AckStep
    BY <2>2, <2>3 DEF AckStep, Recorded, Fate, AnsweredOK
  <2>5. BlankRecord.task = None /\ "sleep" \notin Named /\ "sleep" \notin Carrying \cup Answering
    BY DEF BlankRecord, Named, Carrying, Answering, Promoting, Fetching
  <2> QED BY <1>1, <1>4, <2>2, <2>3, <2>4, <2>5, KeepFate
<1> QED BY <1>5, <1>6

\* The report task writes over the journal only with a task that is answered.
LEMMA AnsweredWrites ==
    ASSUME Inv, Fate, Recorded, pc["report"] \in Answering, NEW r, NEW ok, Save(r, ok),
           \/ r.phase = "report_acknowledged" /\ r.task = loc["report"].task
           \/ r.phase = "idle" /\ r.task = None
    PROVE  JournalStep /\ Accounted
<1> DEFINE s == loc["report"].task
<1>1. s \in DOMAIN result /\ result[s] # {} /\ s \in Tasks /\ "report" \in Procs
  BY TaskNames, ReportFacts DEF Named, Fate, AnsweredOK
<1>2. result'[s] # {} /\ Over(s)
  BY <1>1 DEF Recorded, Over
<1>3. CASE journal' = journal
  BY <1>3, StaysSame, SameTaskStep
<1>4. CASE journal' = r
  <2>1. JournalStep
    BY <1>1, <1>2, <1>4 DEF JournalStep
  <2>2. ASSUME NEW t \in lost' \ lost PROVE s \in Tasks \ {t} /\ Over(s)
    <3>1. result[t] = {}
      BY <2>2 DEF Recorded, Records, Forgotten
    <3> QED BY <1>1, <1>2, <3>1
  <2> QED BY <1>1, <2>1, <2>2 DEF Accounted
<1> QED BY <1>3, <1>4 DEF Save

LEMMA AnsweredFate ==
    ASSUME Inv, Fate, Records, SaveAnswered \/ ClearCompleted
    PROVE  Fate' /\ Accounted
<1> DEFINE s == loc["report"]
           r == [s EXCEPT !.phase = "report_acknowledged"]
           c == Cleared(s)
<1>1. pc["report"] \in Answering /\ UNCHANGED result /\ Recorded
  BY Silent DEF SaveAnswered, ClearCompleted, Answering
<1>2. s \in Record /\ s.task \in DOMAIN result /\ result[s.task] # {} /\ "report" \in Procs
  BY <1>1, ReportFacts DEF Named, Fate, AnsweredOK
<1>3. /\ r.phase = "report_acknowledged" /\ r.task = s.task
      /\ c.phase = "idle" /\ c.task = None
  BY <1>2 DEF Record, Cleared, BlankRecord
<1>4. {"idle", "sleep"} \cap Named = {} /\ {"clear", "sleep"} \cap Carrying = {}
  BY ReportFacts DEF Carrying, Fetching
<1> HIDE DEF r, c
<1>5. CASE SaveAnswered
  <2>1. PICK ok \in BOOLEAN : Save(r, ok) /\ Step("report", IF ok THEN "clear" ELSE "sleep", r)
    BY <1>5 DEF SaveAnswered, r
  <2>2. PICK label \in {"clear", "sleep"} : Go("report", label, r) /\ acked' = acked
    BY <2>1 DEF Step
  <2>3. JournalStep /\ Accounted /\ AckStep
    BY <1>1, <1>3, <2>1, <2>2, AnsweredWrites, AckKept
  <2>4. pc'["report"] = label /\ loc'["report"] = r
    BY <1>2, <2>2, GoAt
  <2>5. Place("report")
    BY <1>1, <1>2, <1>3, <1>4, <2>4 DEF Place
  <2> QED BY <1>1, <1>2, <2>2, <2>3, <2>5, GoPlaces, FateStep
<1>6. CASE ClearCompleted
  <2>1. PICK ok \in BOOLEAN : Save(c, ok) /\ acked' \in {acked, None}
                              /\ \E label \in {"idle", "sleep"} : Go("report", label, BlankRecord)
    BY <1>6 DEF ClearCompleted, Ends, Step, c
  <2>2. PICK label \in {"idle", "sleep"} : Go("report", label, BlankRecord)
    BY <2>1
  <2>3. JournalStep /\ Accounted /\ AckStep
    BY <1>1, <1>3, <2>1, AnsweredWrites, AckKept
  <2>4. pc'["report"] = label /\ loc'["report"] = BlankRecord
    BY <1>2, <2>2, GoAt
  <2>5. Place("report")
    BY <1>4, <2>4 DEF Place, BlankRecord, Named
  <2> QED BY <1>1, <1>2, <2>2, <2>3, <2>5, GoPlaces, FateStep
<1> QED BY <1>5, <1>6

(***************************************************************************)
(* The specification with the history.                                     *)
(***************************************************************************)
LEMMA OthersFate ==
    ASSUME Inv, Fate, Records,
           ReportWakes \/ SdDamage \/ Reset \/ \E p \in Procs : RestartNow(p)
    PROVE  Fate' /\ Accounted
<1>1. CASE ReportWakes
  <2>1. UNCHANGED <<journal, result>> /\ Go("report", "report", BlankRecord) /\ acked' = acked
    BY <1>1 DEF ReportWakes, durable, Step
  <2> QED BY <2>1, ReportFacts, StaysSame, BlankFate
<1>2. CASE SdDamage
  <2>1. UNCHANGED <<journal, result, pc, loc, acked>>
    BY <1>2 DEF SdDamage, ram
  <2>2. Recorded /\ AckStep /\ JournalStep /\ Accounted
    BY <2>1, Silent, AckKept, StaysSame, SameTaskStep
  <2>3. \A p \in Procs : Place(p)
    BY <2>1 DEF Place, Fate, KnownOK
  <2> QED BY <2>2, <2>3, FateStep
<1>3. CASE Reset \/ \E p \in Procs : RestartNow(p)
  <2>1. UNCHANGED <<journal, result>> /\ Restart(boot)
    BY <1>3 DEF Reset, RestartNow
  <2> QED BY <2>1, StaysSame, RestartFate
<1> QED BY <1>1, <1>2, <1>3

LEMMA MainFate == ASSUME Inv, Fate, Records, Main PROVE Fate' /\ Accounted
<1>1. ASSUME NEW p \in Procs,
             \/ Confirm(p) \/ ConfirmSave(p) \/ Dispatch(p) \/ Handoff(p)
             \/ RestartNow(p) \/ FailStaging(p) \/ DirectReport(p)
      PROVE  Fate' /\ Accounted
  BY <1>1, ConfirmFate, ConfirmSaveFate, DispatchFate, HandoffFate, OthersFate, FailStagingFate,
     DirectReportFate
<1>2. ASSUME \/ MqttConnected \/ TimerFires
             \/ BeginDownload \/ CheckAccepted \/ Backup \/ DownloadToSd
             \/ WritePendingSignature \/ StagingFails \/ SaveStaged
      PROVE  Fate' /\ Accounted
  BY <1>2, NotifiedFate, BeginDownloadFate, StagingFate, SaveStagedFate
<1>3. ASSUME \/ ReportLoad \/ Promote \/ PromoteRename \/ SavePromoted
             \/ ReportAnswered \/ ReportLost \/ SaveAnswered \/ ClearCompleted \/ ReportWakes
      PROVE  Fate' /\ Accounted
  BY <1>3, ReportLoadFate, PromoteFate, SavePromotedFate, SendingFate, AnsweredFate, OthersFate
<1> QED BY <1>1, <1>2, <1>3 DEF Main

LEMMA FateInit == ASSUME HInit PROVE Fate
<1>1. /\ journal = BlankRecord /\ acked = None /\ loc = [p \in Procs |-> BlankRecord]
      /\ pc = [p \in Procs |-> IF p = "recovery" THEN "start" ELSE "idle"] /\ lost = {}
  BY DEF HInit, Init
<1>2. \A p \in Procs : pc[p] \in {"start", "idle"} /\ loc[p].task = None
  BY <1>1 DEF BlankRecord
<1>3. {"start", "idle"} \cap (Named \cup Carrying \cup Answering) = {}
  BY DEF Named, Carrying, Answering, Promoting, Fetching
<1>4. "report" \in Procs /\ journal.phase = "idle" /\ journal.task = None
  BY <1>1 DEF Procs, BlankRecord
<1> QED BY <1>1, <1>2, <1>3, <1>4 DEF Fate, KnownOK, AnsweredOK, CarryOK

LEMMA FateNext == ASSUME Inv, Fate, [HNext]_hvars PROVE Fate' /\ Accounted
<1>1. CASE UNCHANGED hvars
  <2>1. UNCHANGED <<journal, result, pc, loc, acked, lost>>
    BY <1>1 DEF hvars, vars, durable, ram
  <2>2. Fate' /\ lost' = lost
    BY <2>1 DEF Fate, KnownOK, AnsweredOK, CarryOK, Owned, Free, Over
  <2> QED BY <2>2 DEF Accounted
<1>2. CASE HNext
  BY <1>2, RecoveryAccounts, MainFate, NotifiedFate, OthersFate DEF HNext, Next
<1> QED BY <1>1, <1>2

\* The history only observes.
LEMMA HistoryObserves == HSpec => Spec
<1>1. HInit => Init
  BY DEF HInit
<1>2. [HNext]_hvars => [Next]_vars
  BY DEF HNext, hvars
<1> QED BY <1>1, <1>2, PTL DEF HSpec, Spec

\* A task leaves the journal before the server has its result only through a process
\* that still works on another task which is over, for any number of tasks.
THEOREM NoneForgotten == HSpec => NotForgotten
<1>1. HInit => Fate
  BY FateInit
<1>2. Inv /\ Fate /\ [HNext]_hvars => Fate'
  BY FateNext
<1>3. Inv /\ Fate /\ [HNext]_hvars =>
         [\A t \in lost' \ lost :
             \E p \in Procs : loc[p].task \in Tasks \ {t} /\ Over(loc[p].task)]_hvars
  BY FateNext DEF Accounted
<1>4. HSpec => []Inv
  BY HistoryObserves, Invariant, PTL
<1> QED BY <1>1, <1>2, <1>3, <1>4, PTL DEF HSpec, NotForgotten
=============================================================================
